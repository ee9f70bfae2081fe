------------------------ MODULE OrderLedger_proofs ------------------------
(***************************************************************************)
(* Proofs about OrderLedger for any orders, symbols, threads and crashes.  *)
(* The inductive invariant IInv says why a fill cannot be stranded: the    *)
(* broker is never behind a row, a receipt in a thread's hands is never    *)
(* ahead of the broker and a final one is the broker's last word, so the   *)
(* thread that settles a row cannot lose the race it has started.          *)
(***************************************************************************)
EXTENDS OrderLedger, Sums, TLAPS

BrokerFinal == {"FILLED", "CANCELED"}
BrokerStatuses == {"NONE", "PENDING", "PARTIAL_FILLED"} \cup BrokerFinal

\* Quantities: applied never ahead of the row, the row never ahead of the order.
Bounds ==
    \A o \in Orders :
        /\ applied[o] <= filled[o] /\ filled[o] <= Qty[o]
        /\ status[o] = "NONE" => filled[o] = 0 /\ ~brokerId[o]

\* The broker is never behind the row, and a final row has the broker's status.
BrokerAhead ==
    \A o \in Orders :
        /\ bStatus[o] \in BrokerStatuses
        /\ bFilled[o] <= Qty[o]
        /\ bStatus[o] = "NONE" => bFilled[o] = 0
        /\ bStatus[o] # "NONE" =>
              /\ status[o] # "NONE" /\ filled[o] <= bFilled[o]
              /\ status[o] \in TerminalStatuses => status[o] = bStatus[o]

\* A thread that works on an order has one, and its place fits its operation.
Working(t) ==
    /\ pc[t] \notin {"idle", "scan"} => job[t] \in Orders
    /\ pc[t] \in {"lookup", "reserve", "place", "record"} => op[t] = "submit"
    /\ pc[t] = "scan" => op[t] \in {"monitor", "settle"}
    /\ pc[t] = "after" => op[t] = "monitor"
    /\ pc[t] = "cancel" => op[t] \in {"settle", "expire"}

\* While an order is placed its row says so, and nobody knows its broker id yet.
Placing(t) ==
    pc[t] \in {"place", "record"} =>
        /\ status[job[t]] = "CREATED" /\ filled[job[t]] = 0 /\ ~brokerId[job[t]]
        /\ (pc[t] = "place") <=> (bStatus[job[t]] = "NONE")

\* Only orders whose broker id is stored are refreshed, now or later in a pass.
Known(t) ==
    /\ pc[t] \in {"fetch", "persist", "apply", "cancel", "after"} => status[job[t]] # "NONE"
    /\ pc[t] \in {"fetch", "persist", "cancel", "after"} => brokerId[job[t]]
    /\ pc[t] \in {"persist", "cancel", "after"} => bStatus[job[t]] # "NONE"
    /\ (pc[t] = "apply" /\ op[t] = "monitor") => brokerId[job[t]] /\ bStatus[job[t]] # "NONE"
    /\ \A o \in Orders : <<o, TRUE>> \in todo[t] => brokerId[o]

\* A receipt not yet stored is no newer than the broker; a final one is its last word.
Receipt(t) ==
    pc[t] \in {"record", "persist"} =>
        /\ rStatus[t] \in BrokerStatuses \ {"NONE"}
        /\ rFilled[t] <= bFilled[job[t]]
        /\ rStatus[t] \in BrokerFinal =>
              /\ rStatus[t] = bStatus[job[t]]
              /\ rFilled[t] = bFilled[job[t]]

\* Once it has canceled, the settle loop refreshes an order that is over.
Settling(t) ==
    (op[t] = "resettle" /\ pc[t] \in {"fetch", "persist"}) =>
        /\ bStatus[job[t]] \in BrokerFinal
        /\ pc[t] = "persist" => rStatus[t] \in BrokerFinal

\* The quantities a pass remembers are never ahead of the rows.
Remembered(t) ==
    /\ \A o \in Orders : prior[t][o] <= filled[o]
    /\ (pc[t] = "after" \/ (pc[t] = "apply" /\ op[t] = "monitor")) =>
          rFilled[t] <= filled[job[t]]

ThreadOK(t) ==
    Working(t) /\ Placing(t) /\ Known(t) /\ Receipt(t) /\ Settling(t) /\ Remembered(t)

\* An order is placed by one thread.
OnePlacer ==
    \A t, u \in Threads :
        pc[t] \in {"place", "record"} /\ pc[u] \in {"place", "record"} /\ job[t] = job[u]
        => t = u

\* Between a crash and the end of the start-up nothing is in flight.
Recovering ==
    phase = "recover" => /\ \A t \in Threads : pc[t] = "idle" /\ todo[t] = {}
                         /\ \A o \in Orders : bStatus[o] = "NONE"

\* LedgerCoversSells, but already from the decision to sell onwards.
SellCovered ==
    \A o \in Orders :
        /\ Side[o] = "SELL"
        /\ \/ status[o] # "NONE"
           \/ \E t \in Threads : pc[t] \in {"lookup", "reserve"} /\ job[t] = o
        => Qty[o] - applied[o] <= core[Symbol[o]]

IInv ==
    /\ TypeOK /\ Bounds /\ BrokerAhead /\ OnePlacer /\ Recovering
    /\ SellCovered /\ NoStrandedFill
    /\ \A t \in Threads : ThreadOK(t)

-----------------------------------------------------------------------------
(* Effects: what an action does, order by order and thread by thread *)

\* The other threads keep their place and their locals.
Others(t) ==
    \A u \in Threads \ {t} :
        /\ pc'[u] = pc[u] /\ op'[u] = op[u] /\ job'[u] = job[u]
        /\ rStatus'[u] = rStatus[u] /\ rFilled'[u] = rFilled[u]
        /\ prior'[u] = prior[u] /\ todo'[u] = todo[u]

\* The other rows are untouched.
OtherRows(o) ==
    \A p \in Orders \ {o} :
        status'[p] = status[p] /\ filled'[p] = filled[p] /\ brokerId'[p] = brokerId[p]

ContinuesAt(t, where) ==
    /\ Others(t) /\ pc'[t] = where /\ op'[t] = op[t] /\ job'[t] = job[t]
    /\ rStatus'[t] = rStatus[t] /\ rFilled'[t] = rFilled[t]
    /\ prior'[t] = prior[t] /\ todo'[t] = todo[t]

IsFinished(t) ==
    /\ Others(t) /\ pc'[t] = "idle" /\ op'[t] = "none" /\ job'[t] = NoOrder
    /\ prior'[t] = [o \in Orders |-> 0] /\ todo'[t] = {}

TakesNextRow(t) ==
    /\ Others(t) /\ pc'[t] = "scan" /\ op'[t] \in {"monitor", "settle"} /\ job'[t] = NoOrder
    /\ prior'[t] = prior[t] /\ todo'[t] = todo[t]

LEMMA ContinueEffect ==
    ASSUME ThreadTypes, NEW t \in Threads,
           NEW where \in {"reserve", "place", "apply", "after", "cancel"}, Continue(t, where)
    PROVE  ContinuesAt(t, where) /\ ThreadTypes'
<1>1. ContinuesAt(t, where)
  BY DEF Continue, Goto, Others, ContinuesAt, ThreadTypes
<1> QED  BY <1>1 DEF Continue, Goto, ThreadTypes

LEMMA FinishEffect ==
    ASSUME ThreadTypes, NEW t \in Threads, Finish(t)
    PROVE  IsFinished(t) /\ ThreadTypes'
<1>1. IsFinished(t)
  BY DEF Finish, Goto, Others, IsFinished, ThreadTypes
<1> QED  BY <1>1 DEF Finish, Goto, ThreadTypes

LEMMA NextRowEffect ==
    ASSUME ThreadTypes, NEW t \in Threads, NEW loop \in {"monitor", "settle"}, NextRow(t, loop)
    PROVE  TakesNextRow(t) /\ ThreadTypes'
<1>1. TakesNextRow(t)
  BY DEF NextRow, Goto, Others, TakesNextRow, ThreadTypes
<1> QED  BY <1>1 DEF NextRow, Goto, ThreadTypes

LEMMA ResumeEffect ==
    ASSUME ThreadTypes, NEW t \in Threads, Resume(t)
    PROVE  /\ ThreadTypes'
           /\ \/ IsFinished(t)
              \/ op[t] = "monitor" /\ ContinuesAt(t, "after")
              \/ TakesNextRow(t)
BY FinishEffect, NextRowEffect, ContinueEffect DEF Resume

LEMMA FillLevelsBound ==
    ASSUME RowTypes, BrokerTypes, BrokerAhead, NEW o \in Orders, NEW n \in FillLevels(o)
    PROVE  n \in Nat /\ bFilled[o] <= n /\ n <= Qty[o]
BY OrdersAssumption DEF FillLevels, RowTypes, BrokerTypes, BrokerAhead

\* The broker's side of a fill: other orders keep status and quantity.
LEMMA BrokerFillEffect ==
    ASSUME RowTypes, BrokerTypes, NEW o \in Orders, NEW n \in Nat, BrokerFill(o, n)
    PROVE  /\ BrokerTypes'
           /\ bStatus'[o] \in {"PENDING", "PARTIAL_FILLED", "FILLED"} /\ bFilled'[o] = n
           /\ \A p \in Orders \ {o} : bStatus'[p] = bStatus[p] /\ bFilled'[p] = bFilled[p]
<1>1. FilledStatus(o, n) \in {"PENDING", "PARTIAL_FILLED", "FILLED"}
  BY DEF FilledStatus
<1>2. held' \in [Symbols -> Int]
  <2> DEFINE new == IF Side[o] = "BUY" THEN held[Symbol[o]] + (n - bFilled[o])
                                     ELSE held[Symbol[o]] - (n - bFilled[o])
  <2>1. Symbol[o] \in Symbols /\ new \in Int
    BY OrdersAssumption DEF BrokerTypes
  <2>2. held' = [held EXCEPT ![Symbol[o]] = new]
    BY DEF BrokerFill
  <2> HIDE DEF new
  <2> QED  BY <2>1, <2>2 DEF BrokerTypes
<1> QED  BY <1>1, <1>2 DEF BrokerFill, BrokerTypes, AllStatuses, OpenStatuses, TerminalStatuses

\* apply_core_fill moves exactly the increment and never below zero.
LEMMA ApplyFillEffect ==
    ASSUME RowTypes, Bounds, NEW o \in Orders, ApplyFill(o), ~Oversold(o)
    PROVE  /\ RowTypes'
           /\ applied'[o] = filled[o] /\ \A p \in Orders \ {o} : applied'[p] = applied[p]
           /\ core'[Symbol[o]] = IF Side[o] = "BUY" THEN core[Symbol[o]] + FillDelta(o)
                                                    ELSE core[Symbol[o]] - FillDelta(o)
           /\ \A s \in Symbols \ {Symbol[o]} : core'[s] = core[s]
<1>1. FillDelta(o) \in Nat
  BY DEF FillDelta, RowTypes, Bounds
<1>2. Side[o] # "BUY" => core[Symbol[o]] - FillDelta(o) \in Nat
  BY <1>1, OrdersAssumption DEF Oversold, RowTypes
<1> DEFINE new == IF Side[o] = "BUY" THEN core[Symbol[o]] + FillDelta(o)
                                   ELSE core[Symbol[o]] - FillDelta(o)
<1>3. Symbol[o] \in Symbols /\ new \in Nat
  BY <1>1, <1>2, OrdersAssumption DEF RowTypes
<1>4. core' = [core EXCEPT ![Symbol[o]] = new]
  BY DEF ApplyFill
<1>5. applied' = [applied EXCEPT ![o] = filled[o]]
  BY DEF ApplyFill
<1> HIDE DEF new
<1>6. core' \in [Symbols -> Nat] /\ core'[Symbol[o]] = new
      /\ \A s \in Symbols \ {Symbol[o]} : core'[s] = core[s]
  BY <1>3, <1>4 DEF RowTypes
<1>7. RowTypes'
  BY <1>5, <1>6 DEF RowTypes, ApplyFill
<1> QED  BY <1>5, <1>6, <1>7 DEF RowTypes, new

\* submit's look at its own row: reserve, refresh, or give up.
LookupDoes(t) ==
    /\ ThreadTypes' /\ UNCHANGED <<dbVars, brokerVars, phase, crashes>> /\ safe' \in BOOLEAN
    /\ \/ ContinuesAt(t, "reserve") /\ status[job[t]] = "NONE"
       \/ IsFinished(t)
       \/ /\ Others(t) /\ pc'[t] = "fetch" /\ brokerId[job[t]] /\ status[job[t]] # "NONE"
          /\ job'[t] = job[t] /\ op'[t] = "submit" /\ todo'[t] = todo[t]
          /\ prior'[t] = prior[t]

LEMMA LookupEffect ==
    ASSUME TypeOK, NEW t \in Threads, Working(t), LookupOrder(t)
    PROVE  LookupDoes(t)
<1> USE DEF TypeOK, LookupDoes
<1>1. job[t] \in Orders /\ op[t] = "submit"
  BY DEF LookupOrder, Working
<1>2. safe' \in BOOLEAN
  BY DEF LookupOrder, ProcessTypes, procVars
<1>3. CASE Continue(t, "reserve") /\ status[job[t]] = "NONE" /\ UNCHANGED procVars
  BY <1>2, <1>3, ContinueEffect DEF LookupOrder, procVars
<1>4. CASE Finish(t) /\ UNCHANGED <<phase, crashes>>
  BY <1>2, <1>4, FinishEffect DEF LookupOrder
<1>5. CASE /\ status[job[t]] # "NONE" /\ brokerId[job[t]]
           /\ Goto(t, "fetch")
           /\ rStatus' = [rStatus EXCEPT ![t] = status[job[t]]]
           /\ rFilled' = [rFilled EXCEPT ![t] = filled[job[t]]]
           /\ UNCHANGED <<procVars, op, job, prior, todo>>
  <2>1. ThreadTypes'
    BY <1>1, <1>5 DEF Goto, ThreadTypes, RowTypes
  <2>2. Others(t) /\ pc'[t] = "fetch"
    BY <1>5 DEF Goto, ThreadTypes, Others
  <2> QED  BY <1>1, <1>2, <1>5, <2>1, <2>2 DEF LookupOrder, procVars
<1> QED  BY <1>3, <1>4, <1>5 DEF LookupOrder

\* The insert that succeeds for one thread and turns the others away.
ReserveDoes(t) ==
    /\ ThreadTypes' /\ RowTypes' /\ OtherRows(job[t]) /\ safe' \in BOOLEAN
    /\ UNCHANGED <<filled, brokerId, applied, core, brokerVars, phase, crashes>>
    /\ \/ /\ ContinuesAt(t, "place") /\ status[job[t]] = "NONE"
          /\ status'[job[t]] = "CREATED"
       \/ IsFinished(t) /\ status' = status

LEMMA ReserveEffect ==
    ASSUME TypeOK, NEW t \in Threads, Working(t), ReserveOrder(t)
    PROVE  ReserveDoes(t)
<1> USE DEF TypeOK, ReserveDoes
<1>1. job[t] \in Orders
  BY DEF ReserveOrder, Working
<1>2. CASE status[job[t]] = "NONE"
  <2>1. Continue(t, "place") /\ status' = [status EXCEPT ![job[t]] = "CREATED"] /\ safe' = safe
    BY <1>2 DEF ReserveOrder, procVars
  <2>2. ContinuesAt(t, "place") /\ ThreadTypes'
    BY <2>1, ContinueEffect
  <2>3. RowTypes' /\ OtherRows(job[t]) /\ status'[job[t]] = "CREATED"
    BY <1>1, <2>1 DEF ReserveOrder, RowTypes, OtherRows, AllStatuses, OpenStatuses
  <2> QED  BY <1>2, <2>1, <2>2, <2>3 DEF ReserveOrder, ProcessTypes, procVars
<1>3. CASE status[job[t]] # "NONE"
  BY <1>1, <1>3, FinishEffect DEF ReserveOrder, RowTypes, OtherRows
<1> QED  BY <1>2, <1>3

\* The broker takes the order and may fill it at once.
PlaceDoes(t) ==
    /\ ThreadTypes' /\ BrokerTypes' /\ UNCHANGED <<dbVars, procVars>>
    /\ Others(t) /\ pc'[t] = "record" /\ op'[t] = op[t] /\ job'[t] = job[t]
    /\ prior'[t] = prior[t] /\ todo'[t] = todo[t]
    /\ rStatus'[t] = bStatus'[job[t]] /\ rFilled'[t] = bFilled'[job[t]]
    /\ bStatus'[job[t]] \in {"PENDING", "PARTIAL_FILLED", "FILLED"}
    /\ bFilled[job[t]] <= bFilled'[job[t]] /\ bFilled'[job[t]] <= Qty[job[t]]
    /\ \A p \in Orders \ {job[t]} : bStatus'[p] = bStatus[p] /\ bFilled'[p] = bFilled[p]

LEMMA PlaceEffect ==
    ASSUME TypeOK, BrokerAhead, NEW t \in Threads, Working(t), PlaceOrder(t)
    PROVE  PlaceDoes(t)
<1> USE DEF TypeOK, PlaceDoes
<1>1. job[t] \in Orders
  BY DEF PlaceOrder, Working
<1>2. PICK n \in FillLevels(job[t]) :
        BrokerFill(job[t], n) /\ rFilled' = [rFilled EXCEPT ![t] = n]
  BY DEF PlaceOrder
<1>3. n \in Nat /\ bFilled[job[t]] <= n /\ n <= Qty[job[t]]
  BY <1>1, FillLevelsBound
<1>4. /\ BrokerTypes'
      /\ bStatus'[job[t]] \in {"PENDING", "PARTIAL_FILLED", "FILLED"} /\ bFilled'[job[t]] = n
      /\ \A p \in Orders \ {job[t]} : bStatus'[p] = bStatus[p] /\ bFilled'[p] = bFilled[p]
  BY <1>1, <1>2, <1>3, BrokerFillEffect
<1>5. rStatus' = [rStatus EXCEPT ![t] = bStatus'[job[t]]]
  BY DEF PlaceOrder
<1>6. /\ ThreadTypes' /\ Others(t) /\ pc'[t] = "record" /\ rFilled'[t] = n
      /\ rStatus'[t] = bStatus'[job[t]]
  BY <1>1, <1>2, <1>3, <1>4, <1>5 DEF PlaceOrder, Goto, ThreadTypes, BrokerTypes, Others
<1> QED  BY <1>3, <1>4, <1>6 DEF PlaceOrder

\* A refresh: an open order may fill, a final one is only read.
FetchDoes(t) ==
    /\ ThreadTypes' /\ BrokerTypes' /\ UNCHANGED <<dbVars, procVars>>
    /\ Others(t) /\ pc'[t] = "persist" /\ op'[t] = op[t] /\ job'[t] = job[t]
    /\ prior'[t] = prior[t] /\ todo'[t] = todo[t]
    /\ rStatus'[t] = bStatus'[job[t]] /\ rFilled'[t] = bFilled'[job[t]]
    /\ \/ /\ BrokerOpen(job[t])
          /\ bStatus'[job[t]] \in {"PENDING", "PARTIAL_FILLED", "FILLED"}
       \/ bStatus'[job[t]] = bStatus[job[t]] /\ bFilled'[job[t]] = bFilled[job[t]]
    /\ bFilled[job[t]] <= bFilled'[job[t]] /\ bFilled'[job[t]] <= Qty[job[t]]
    /\ \A p \in Orders \ {job[t]} : bStatus'[p] = bStatus[p] /\ bFilled'[p] = bFilled[p]

LEMMA FetchEffect ==
    ASSUME TypeOK, BrokerAhead, NEW t \in Threads, Working(t), FetchOrder(t)
    PROVE  FetchDoes(t)
<1> USE DEF TypeOK, FetchDoes
<1>1. job[t] \in Orders
  BY DEF FetchOrder, Working
<1>2. rStatus' = [rStatus EXCEPT ![t] = bStatus'[job[t]]]
  BY DEF FetchOrder
<1>3. CASE BrokerOpen(job[t])
  <2>1. PICK n \in FillLevels(job[t]) :
          BrokerFill(job[t], n) /\ rFilled' = [rFilled EXCEPT ![t] = n]
    BY <1>3 DEF FetchOrder
  <2>2. n \in Nat /\ bFilled[job[t]] <= n /\ n <= Qty[job[t]]
    BY <1>1, FillLevelsBound
  <2>3. /\ BrokerTypes'
        /\ bStatus'[job[t]] \in {"PENDING", "PARTIAL_FILLED", "FILLED"} /\ bFilled'[job[t]] = n
        /\ \A p \in Orders \ {job[t]} : bStatus'[p] = bStatus[p] /\ bFilled'[p] = bFilled[p]
    BY <1>1, <2>1, <2>2, BrokerFillEffect
  <2>4. /\ ThreadTypes' /\ Others(t) /\ pc'[t] = "persist" /\ rFilled'[t] = n
        /\ rStatus'[t] = bStatus'[job[t]]
    BY <1>1, <1>2, <2>1, <2>2, <2>3 DEF FetchOrder, Goto, ThreadTypes, BrokerTypes, Others
  <2> QED  BY <1>3, <2>2, <2>3, <2>4 DEF FetchOrder
<1>4. CASE ~BrokerOpen(job[t])
  <2>1. /\ bStatus' = bStatus /\ bFilled' = bFilled /\ held' = held
        /\ rFilled' = [rFilled EXCEPT ![t] = bFilled[job[t]]]
    BY <1>4 DEF FetchOrder, brokerVars
  <2>2. BrokerTypes'
    BY <2>1 DEF BrokerTypes
  <2>3. /\ ThreadTypes' /\ Others(t) /\ pc'[t] = "persist" /\ rFilled'[t] = bFilled[job[t]]
        /\ rStatus'[t] = bStatus[job[t]]
    BY <1>1, <1>2, <2>1 DEF FetchOrder, Goto, ThreadTypes, BrokerTypes, Others
  <2>4. bFilled[job[t]] <= bFilled'[job[t]] /\ bFilled'[job[t]] <= Qty[job[t]]
    BY <1>1, <2>1, OrdersAssumption DEF BrokerAhead, BrokerTypes
  <2> QED  BY <2>1, <2>2, <2>3, <2>4 DEF FetchOrder
<1> QED  BY <1>3, <1>4

\* No quote: the row becomes UNKNOWN.
PlaceFailsDoes(t) ==
    /\ ThreadTypes' /\ RowTypes' /\ OtherRows(job[t]) /\ safe' = TRUE
    /\ UNCHANGED <<filled, brokerId, applied, core, brokerVars, phase, crashes>>
    /\ IsFinished(t) /\ status'[job[t]] = "UNKNOWN"

LEMMA PlaceFailsEffect ==
    ASSUME TypeOK, NEW t \in Threads, Working(t), PlaceOrderFails(t)
    PROVE  PlaceFailsDoes(t)
<1> USE DEF TypeOK, PlaceFailsDoes
<1>1. job[t] \in Orders
  BY DEF PlaceOrderFails, Working
<1>2. RowTypes' /\ OtherRows(job[t]) /\ status'[job[t]] = "UNKNOWN"
  BY <1>1 DEF PlaceOrderFails, RowTypes, OtherRows, AllStatuses, OpenStatuses
<1> QED  BY <1>2, FinishEffect DEF PlaceOrderFails

\* The receipt of the placement is stored, with the broker id.
RecordDoes(t) ==
    /\ ThreadTypes' /\ RowTypes' /\ OtherRows(job[t])
    /\ UNCHANGED <<applied, core, brokerVars, procVars>>
    /\ UpdateAllowed(job[t], rStatus[t], rFilled[t])
    /\ status'[job[t]] = rStatus[t] /\ filled'[job[t]] = rFilled[t]
    /\ brokerId'[job[t]] = TRUE
    /\ \/ rFilled[t] > 0 /\ ContinuesAt(t, "apply")
       \/ rFilled[t] = 0 /\ IsFinished(t)

LEMMA RecordEffect ==
    ASSUME TypeOK, NEW t \in Threads, Working(t), RecordPlacement(t)
    PROVE  RecordDoes(t)
<1> USE DEF TypeOK, RecordDoes
<1>1. job[t] \in Orders /\ rStatus[t] \in AllStatuses \cup {"NONE"} /\ rFilled[t] \in Nat
  BY DEF RecordPlacement, Working, ThreadTypes
<1>2. /\ status' = [status EXCEPT ![job[t]] = rStatus[t]]
      /\ filled' = [filled EXCEPT ![job[t]] = rFilled[t]]
      /\ brokerId' = [brokerId EXCEPT ![job[t]] = TRUE]
      /\ UNCHANGED <<applied, core, brokerVars, procVars>>
  BY DEF RecordPlacement
<1>3. /\ RowTypes' /\ OtherRows(job[t])
      /\ status'[job[t]] = rStatus[t] /\ filled'[job[t]] = rFilled[t]
      /\ brokerId'[job[t]] = TRUE
  BY <1>1, <1>2 DEF RowTypes, OtherRows
<1>4. /\ ThreadTypes'
      /\ \/ rFilled[t] > 0 /\ ContinuesAt(t, "apply")
         \/ rFilled[t] = 0 /\ IsFinished(t)
  BY <1>1, FinishEffect, ContinueEffect DEF RecordPlacement
<1> QED  BY <1>2, <1>3, <1>4 DEF RecordPlacement

\* Every caller's way out of a failed refresh.
FetchFailsDoes(t) ==
    /\ ThreadTypes' /\ UNCHANGED <<dbVars, brokerVars, phase, crashes>> /\ safe' \in BOOLEAN
    /\ bStatus[job[t]] = "NONE" \/ BrokerOpen(job[t])
    /\ \/ IsFinished(t)
       \/ TakesNextRow(t)
       \/ ContinuesAt(t, "apply") /\ op[t] = "submit"

LEMMA FetchFailsEffect ==
    ASSUME TypeOK, NEW t \in Threads, Working(t), FetchFails(t)
    PROVE  FetchFailsDoes(t)
<1> USE DEF TypeOK, FetchFailsDoes
<1>1. safe' \in BOOLEAN
  BY DEF FetchFails, ProcessTypes
<1> QED  BY <1>1, FinishEffect, NextRowEffect, ContinueEffect DEF FetchFails

\* A receipt is stored and its caller goes on.
StoreDoes(t) ==
    /\ ThreadTypes' /\ RowTypes' /\ OtherRows(job[t]) /\ safe' \in BOOLEAN
    /\ UNCHANGED <<brokerId, applied, core, brokerVars, phase, crashes>>
    /\ UpdateAllowed(job[t], rStatus[t], rFilled[t])
    /\ status'[job[t]] = rStatus[t] /\ filled'[job[t]] = rFilled[t]
    /\ \/ /\ op[t] = "settle" /\ rStatus[t] \notin TerminalStatuses
          /\ ContinuesAt(t, "cancel")
       \/ HasNewFill(t, rFilled[t]) /\ ContinuesAt(t, "apply")
       \/ /\ ~HasNewFill(t, rFilled[t])
          /\ \/ IsFinished(t)
             \/ op[t] = "monitor" /\ ContinuesAt(t, "after")
             \/ TakesNextRow(t)

LEMMA StoreEffect ==
    ASSUME TypeOK, NEW t \in Threads, Working(t), StoreReceipt(t)
    PROVE  StoreDoes(t)
<1> USE DEF TypeOK, StoreDoes
<1>1. job[t] \in Orders /\ rStatus[t] \in AllStatuses \cup {"NONE"} /\ rFilled[t] \in Nat
  BY DEF StoreReceipt, Working, ThreadTypes
<1>2. /\ status' = [status EXCEPT ![job[t]] = rStatus[t]]
      /\ filled' = [filled EXCEPT ![job[t]] = rFilled[t]]
      /\ UNCHANGED <<brokerId, applied, core, brokerVars, phase, crashes>>
  BY DEF StoreReceipt
<1>3. /\ RowTypes' /\ OtherRows(job[t])
      /\ status'[job[t]] = rStatus[t] /\ filled'[job[t]] = rFilled[t]
  BY <1>1, <1>2 DEF RowTypes, OtherRows
<1>4. safe' \in BOOLEAN
  BY DEF StoreReceipt, ProcessTypes
<1>5. \/ /\ op[t] = "settle" /\ rStatus[t] \notin TerminalStatuses /\ Continue(t, "cancel")
      \/ HasNewFill(t, rFilled[t]) /\ Continue(t, "apply")
      \/ ~HasNewFill(t, rFilled[t]) /\ Resume(t)
  BY DEF StoreReceipt
<1>6. /\ ThreadTypes'
      /\ \/ /\ op[t] = "settle" /\ rStatus[t] \notin TerminalStatuses /\ ContinuesAt(t, "cancel")
         \/ HasNewFill(t, rFilled[t]) /\ ContinuesAt(t, "apply")
         \/ /\ ~HasNewFill(t, rFilled[t])
            /\ \/ IsFinished(t)
               \/ op[t] = "monitor" /\ ContinuesAt(t, "after")
               \/ TakesNextRow(t)
  BY <1>5, ResumeEffect, ContinueEffect
<1> QED  BY <1>2, <1>3, <1>4, <1>6 DEF StoreReceipt

\* A receipt is refused.
ConflictDoes(t) ==
    /\ ThreadTypes' /\ UNCHANGED <<dbVars, brokerVars, phase, crashes>> /\ safe' \in BOOLEAN
    /\ ~UpdateAllowed(job[t], rStatus[t], rFilled[t])
    /\ IsFinished(t) \/ TakesNextRow(t)

LEMMA ConflictEffect ==
    ASSUME TypeOK, NEW t \in Threads, ReceiptConflict(t)
    PROVE  ConflictDoes(t)
<1> USE DEF TypeOK, ConflictDoes
<1>1. safe' \in BOOLEAN
  BY DEF ReceiptConflict, ProcessTypes
<1>2. Finish(t) \/ NextRow(t, "monitor")
  BY DEF ReceiptConflict
<1>3. ThreadTypes' /\ (IsFinished(t) \/ TakesNextRow(t))
  BY <1>2, FinishEffect, NextRowEffect
<1> QED  BY <1>1, <1>3 DEF ReceiptConflict

\* The increment is credited, or refused because the ledger has too few shares.
ApplyDoes(t) ==
    /\ ThreadTypes' /\ RowTypes' /\ safe' \in BOOLEAN
    /\ UNCHANGED <<status, filled, brokerId, brokerVars, phase, crashes>>
    /\ \/ Oversold(job[t]) /\ IsFinished(t) /\ UNCHANGED dbVars
       \/ /\ applied'[job[t]] = filled[job[t]]
          /\ \A p \in Orders \ {job[t]} : applied'[p] = applied[p]
          /\ core'[Symbol[job[t]]] =
                IF Side[job[t]] = "BUY" THEN core[Symbol[job[t]]] + FillDelta(job[t])
                                        ELSE core[Symbol[job[t]]] - FillDelta(job[t])
          /\ \A s \in Symbols \ {Symbol[job[t]]} : core'[s] = core[s]
          /\ \/ IsFinished(t)
             \/ op[t] = "monitor" /\ ContinuesAt(t, "after")
             \/ TakesNextRow(t)

LEMMA ApplyEffect ==
    ASSUME TypeOK, Bounds, NEW t \in Threads, Working(t), ApplyCoreFill(t)
    PROVE  ApplyDoes(t)
<1> USE DEF TypeOK, ApplyDoes
<1>1. job[t] \in Orders
  BY DEF ApplyCoreFill, Working
<1>2. safe' \in BOOLEAN
  BY DEF ApplyCoreFill, ProcessTypes
<1>3. CASE Oversold(job[t])
  <2>1. Finish(t) /\ UNCHANGED dbVars
    BY <1>3 DEF ApplyCoreFill
  <2> QED  BY <1>2, <1>3, <2>1, FinishEffect DEF ApplyCoreFill, dbVars, RowTypes
<1>4. CASE ~Oversold(job[t])
  <2>1. ApplyFill(job[t]) /\ Resume(t)
    BY <1>4 DEF ApplyCoreFill
  <2>2. UNCHANGED <<status, filled, brokerId, brokerVars, phase, crashes>>
    BY <2>1 DEF ApplyCoreFill, ApplyFill
  <2>3. /\ ThreadTypes'
        /\ IsFinished(t) \/ (op[t] = "monitor" /\ ContinuesAt(t, "after")) \/ TakesNextRow(t)
    BY <2>1, ResumeEffect
  <2> QED  BY <1>1, <1>2, <1>4, <2>1, <2>2, <2>3, ApplyFillEffect
<1> QED  BY <1>3, <1>4

\* The monitor cancels an expired BUY or takes its next row.
AfterDoes(t) ==
    /\ ThreadTypes' /\ UNCHANGED <<dbVars, brokerVars, phase, crashes>> /\ safe' \in BOOLEAN
    /\ \/ /\ Others(t) /\ pc'[t] = "cancel" /\ op'[t] = "expire" /\ job'[t] = job[t]
          /\ prior'[t] = [prior[t] EXCEPT ![job[t]] = rFilled[t]] /\ todo'[t] = todo[t]
       \/ TakesNextRow(t)

LEMMA AfterEffect ==
    ASSUME TypeOK, NEW t \in Threads, Working(t), MonitorAfterFill(t)
    PROVE  AfterDoes(t)
<1> USE DEF TypeOK, AfterDoes
<1>1. job[t] \in Orders
  BY DEF MonitorAfterFill, Working
<1>2. safe' \in BOOLEAN
  BY DEF MonitorAfterFill, ProcessTypes
<1>3. CASE NextRow(t, "monitor")
  BY <1>2, <1>3, NextRowEffect DEF MonitorAfterFill
<1>4. CASE /\ Goto(t, "cancel")
           /\ op' = [op EXCEPT ![t] = "expire"]
           /\ prior' = [prior EXCEPT ![t][job[t]] = rFilled[t]]
           /\ UNCHANGED <<safe, job, rStatus, rFilled, todo>>
  <2>1. prior' = [prior EXCEPT ![t] = [prior[t] EXCEPT ![job[t]] = rFilled[t]]]
    BY <1>4
  <2>2. [prior[t] EXCEPT ![job[t]] = rFilled[t]] \in [Orders -> Nat]
    BY <1>1 DEF ThreadTypes
  <2>3. ThreadTypes'
    BY <1>4, <2>1, <2>2 DEF Goto, ThreadTypes
  <2>4. /\ Others(t) /\ pc'[t] = "cancel" /\ op'[t] = "expire"
        /\ prior'[t] = [prior[t] EXCEPT ![job[t]] = rFilled[t]]
    BY <1>4, <2>1 DEF Goto, ThreadTypes, Others
  <2> QED  BY <1>2, <1>4, <2>3, <2>4 DEF MonitorAfterFill
<1> QED  BY <1>3, <1>4 DEF MonitorAfterFill

\* A cancel leaves the order final at the broker.
CancelDoes(t) ==
    /\ ThreadTypes' /\ BrokerTypes' /\ UNCHANGED <<dbVars, bFilled, held, procVars>>
    /\ Others(t) /\ pc'[t] = "fetch" /\ job'[t] = job[t]
    /\ op'[t] = (IF op[t] = "expire" THEN "expire" ELSE "resettle")
    /\ prior'[t] = prior[t] /\ todo'[t] = todo[t]
    /\ bStatus'[job[t]] = (IF BrokerOpen(job[t]) THEN "CANCELED" ELSE bStatus[job[t]])
    /\ \A p \in Orders \ {job[t]} : bStatus'[p] = bStatus[p]

LEMMA CancelEffect ==
    ASSUME TypeOK, NEW t \in Threads, Working(t), CancelOrder(t)
    PROVE  CancelDoes(t)
<1> USE DEF TypeOK, CancelDoes
<1>1. job[t] \in Orders
  BY DEF CancelOrder, Working
<1>2. /\ BrokerTypes'
      /\ bStatus'[job[t]] = (IF BrokerOpen(job[t]) THEN "CANCELED" ELSE bStatus[job[t]])
      /\ \A p \in Orders \ {job[t]} : bStatus'[p] = bStatus[p]
  BY <1>1 DEF CancelOrder, BrokerTypes, AllStatuses, TerminalStatuses
<1>3. /\ ThreadTypes' /\ Others(t) /\ pc'[t] = "fetch"
      /\ op'[t] = (IF op[t] = "expire" THEN "expire" ELSE "resettle")
  BY <1>1 DEF CancelOrder, Goto, ThreadTypes, Others
<1> QED  BY <1>2, <1>3 DEF CancelOrder

\* A pass takes one of the rows it read.
TakeRowDoes(t, o) ==
    /\ ThreadTypes' /\ UNCHANGED <<dbVars, brokerVars, procVars>>
    /\ Others(t) /\ pc'[t] = "fetch" /\ job'[t] = o /\ op'[t] = op[t]
    /\ prior'[t] = prior[t] /\ todo'[t] \subseteq todo[t]

LEMMA TakeRowEffect ==
    ASSUME TypeOK, NEW t \in Threads, NEW o \in Orders, TakeRow(t, o)
    PROVE  TakeRowDoes(t, o)
BY DEF TakeRow, Goto, TypeOK, ThreadTypes, Others, TakeRowDoes

\* A thread begins to submit order o.
StartDoes(t, o) ==
    /\ ThreadTypes' /\ UNCHANGED <<dbVars, brokerVars, procVars>>
    /\ Others(t) /\ pc'[t] = "lookup" /\ job'[t] = o /\ op'[t] = "submit"
    /\ prior'[t] = prior[t] /\ todo'[t] = todo[t]

LEMMA StartEffect ==
    ASSUME TypeOK, NEW t \in Threads, NEW o \in Orders, StartSubmit(t, o)
    PROVE  StartDoes(t, o)
BY DEF StartSubmit, Goto, TypeOK, ThreadTypes, Others, StartDoes

\* A pass begins with the rows it reads.
ReadDoes(t, loop, rows) ==
    /\ ThreadTypes' /\ UNCHANGED <<dbVars, brokerVars, procVars>>
    /\ Others(t) /\ pc'[t] = "scan" /\ job'[t] = job[t] /\ op'[t] = loop
    /\ prior'[t] = filled /\ todo'[t] = {<<o, brokerId[o]>> : o \in rows}

LEMMA ReadEffect ==
    ASSUME TypeOK, NEW t \in Threads, NEW loop \in {"monitor", "settle"},
           NEW rows \in SUBSET Orders, ReadOpenOrders(t, loop, rows)
    PROVE  ReadDoes(t, loop, rows)
<1>1. {<<o, brokerId[o]>> : o \in rows} \in SUBSET (Orders \X BOOLEAN)
  BY DEF TypeOK, RowTypes
<1> QED  BY <1>1 DEF ReadOpenOrders, Goto, TypeOK, ThreadTypes, RowTypes, Others, ReadDoes

-----------------------------------------------------------------------------
(* Interference: what a step of t does to what another thread relies on *)

\* Rows and broker orders only move forwards, and an order that another thread
\* is placing is left alone.
Rely(t) ==
    /\ Others(t)
    /\ \A o \in Orders :
          /\ filled[o] <= filled'[o] /\ bFilled[o] <= bFilled'[o]
          /\ status[o] # "NONE" => status'[o] # "NONE"
          /\ brokerId[o] => brokerId'[o]
          /\ bStatus[o] # "NONE" => bStatus'[o] # "NONE"
          /\ bStatus[o] \in BrokerFinal => bStatus'[o] = bStatus[o] /\ bFilled'[o] = bFilled[o]
    /\ \A u \in Threads \ {t} : pc[u] \in {"place", "record"} =>
          /\ status'[job[u]] = status[job[u]] /\ filled'[job[u]] = filled[job[u]]
          /\ brokerId'[job[u]] = brokerId[job[u]]
          /\ bStatus'[job[u]] = bStatus[job[u]]

LEMMA Noninterference ==
    ASSUME TypeOK, TypeOK', NEW t \in Threads, NEW u \in Threads \ {t}, Rely(t), ThreadOK(u)
    PROVE  ThreadOK(u)'
<1>1. /\ pc'[u] = pc[u] /\ op'[u] = op[u] /\ job'[u] = job[u]
      /\ rStatus'[u] = rStatus[u] /\ rFilled'[u] = rFilled[u]
      /\ prior'[u] = prior[u] /\ todo'[u] = todo[u]
  BY DEF Rely, Others
<1>2. \A o \in Orders :
          /\ filled[o] <= filled'[o] /\ bFilled[o] <= bFilled'[o]
          /\ status[o] # "NONE" => status'[o] # "NONE"
          /\ brokerId[o] => brokerId'[o]
          /\ bStatus[o] # "NONE" => bStatus'[o] # "NONE"
          /\ bStatus[o] \in BrokerFinal => bStatus'[o] = bStatus[o] /\ bFilled'[o] = bFilled[o]
  BY DEF Rely
<1>3. pc[u] \notin {"idle", "scan"} => job[u] \in Orders
  BY DEF ThreadOK, Working
<1>4. Working(u)'
  BY <1>1 DEF ThreadOK, Working
<1>5. Placing(u)'
  BY <1>1 DEF ThreadOK, Placing, Rely
<1>6. Known(u)'
  BY <1>1, <1>2, <1>3 DEF ThreadOK, Known
<1>7. Receipt(u)'
  BY <1>1, <1>2, <1>3 DEF ThreadOK, Receipt, TypeOK, BrokerTypes, ThreadTypes
<1>8. Settling(u)'
  BY <1>1, <1>2, <1>3 DEF ThreadOK, Settling
<1>9. Remembered(u)'
  BY <1>1, <1>2, <1>3 DEF ThreadOK, Remembered, TypeOK, RowTypes, ThreadTypes
<1> QED  BY <1>4, <1>5, <1>6, <1>7, <1>8, <1>9 DEF ThreadOK

LEMMA FinishedOK ==
    ASSUME TypeOK', NEW t \in Threads, IsFinished(t)
    PROVE  ThreadOK(t)'
BY DEF IsFinished, ThreadOK, Working, Placing, Known, Receipt, Settling, Remembered, TypeOK, RowTypes

LEMMA NextRowOK ==
    ASSUME TypeOK, TypeOK', NEW t \in Threads, TakesNextRow(t), Rely(t), ThreadOK(t)
    PROVE  ThreadOK(t)'
<1>1. Remembered(t)'
  BY DEF TakesNextRow, ThreadOK, Remembered, Rely, TypeOK, RowTypes, ThreadTypes
<1>2. Known(t)'
  BY DEF TakesNextRow, ThreadOK, Known, Rely
<1> QED  BY <1>1, <1>2 DEF TakesNextRow, ThreadOK, Working, Placing, Receipt, Settling

\* An unapplied fill keeps a thread that will apply it.
LEMMA StillApplied ==
    ASSUME NoStrandedFill, phase = "up", NEW t \in Threads, Others(t),
           \A o \in Orders : WillApply(t, o) => WillApply(t, o)' \/ filled'[o] = applied'[o],
           \A o \in Orders : filled'[o] # applied'[o] => filled[o] # applied[o] \/ WillApply(t, o)'
    PROVE  NoStrandedFill'
<1> SUFFICES ASSUME NEW o \in Orders, filled'[o] # applied'[o]
             PROVE  \E u \in Threads : WillApply(u, o)'
  BY DEF NoStrandedFill
<1>1. CASE WillApply(t, o)'
  BY <1>1
<1>2. CASE ~WillApply(t, o)'
  <2>1. PICK u \in Threads : WillApply(u, o)
    BY <1>2 DEF NoStrandedFill
  <2>2. u # t
    BY <1>2, <2>1
  <2>3. WillApply(u, o)'
    BY <2>1, <2>2 DEF WillApply, Others
  <2> QED  BY <2>3
<1> QED  BY <1>1, <1>2

\* A step that touches nothing but the locals of its thread.
LEMMA QuietStep ==
    ASSUME IInv, TypeOK', NEW t \in Threads, Others(t), phase = "up",
           UNCHANGED <<dbVars, brokerVars, phase>>,
           ThreadOK(t)', pc'[t] \notin {"place", "record"},
           pc'[t] \in {"lookup", "reserve"} =>
              (Side[job'[t]] = "SELL" => Qty[job'[t]] - applied[job'[t]] <= core[Symbol[job'[t]]]),
           \A o \in Orders : WillApply(t, o) => WillApply(t, o)' \/ filled[o] = applied[o]
    PROVE  IInv'
<1>1. UNCHANGED <<status, filled, brokerId, applied, core, bStatus, bFilled>>
  BY DEF dbVars, brokerVars
<1>2. Rely(t)
  BY <1>1 DEF IInv, TypeOK, RowTypes, BrokerTypes, Rely
<1>3. Bounds' /\ BrokerAhead'
  BY <1>1 DEF IInv, Bounds, BrokerAhead
<1>4. OnePlacer'
  BY DEF IInv, OnePlacer, Others
<1>5. Recovering'
  BY DEF Recovering
<1>6. SellCovered'
  BY <1>1 DEF IInv, SellCovered, Others
<1>7. NoStrandedFill'
  BY <1>1, StillApplied DEF IInv
<1>8. \A u \in Threads : ThreadOK(u)'
  BY <1>2, Noninterference DEF IInv
<1> QED  BY <1>3, <1>4, <1>5, <1>6, <1>7, <1>8 DEF IInv

-----------------------------------------------------------------------------
(* The inductive invariant, action by action *)

LEMMA LookupStep ==
    ASSUME IInv, NEW t \in Threads, LookupOrder(t)
    PROVE  IInv'
<1>1. Working(t) /\ Remembered(t) /\ Known(t) /\ TypeOK
  BY DEF IInv, ThreadOK
<1>2. LookupDoes(t)
  BY <1>1, LookupEffect
<1>3. TypeOK' /\ Others(t) /\ UNCHANGED <<dbVars, brokerVars, phase, crashes>>
  BY <1>1, <1>2 DEF LookupDoes, TypeOK, ProcessTypes, RowTypes, BrokerTypes, dbVars, brokerVars,
     ContinuesAt, IsFinished
<1>4. pc[t] = "lookup" /\ phase = "up" /\ op[t] = "submit" /\ job[t] \in Orders
  BY <1>1 DEF LookupOrder, Working
<1>5. ThreadOK(t)'
  <2>1. CASE ContinuesAt(t, "reserve")
    BY <1>1, <1>3, <1>4, <2>1
       DEF ContinuesAt, ThreadOK, Working, Placing, Known, Receipt, Settling, Remembered, dbVars
  <2>2. CASE IsFinished(t)
    BY <1>3, <2>2, FinishedOK
  <2>3. CASE /\ Others(t) /\ pc'[t] = "fetch" /\ brokerId[job[t]] /\ status[job[t]] # "NONE"
             /\ job'[t] = job[t] /\ op'[t] = "submit" /\ todo'[t] = todo[t]
             /\ prior'[t] = prior[t]
    <3>1. Remembered(t)'
      BY <1>1, <1>3, <2>3 DEF Remembered, dbVars, TypeOK, RowTypes
    <3>2. Known(t)'
      BY <1>1, <1>3, <2>3 DEF Known, dbVars
    <3> QED  BY <1>4, <2>3, <3>1, <3>2 DEF ThreadOK, Working, Placing, Receipt, Settling
  <2> QED  BY <1>2, <2>1, <2>2, <2>3 DEF LookupDoes
<1>6. pc'[t] \in {"reserve", "fetch", "idle"} /\ (pc'[t] = "reserve" => job'[t] = job[t])
  BY <1>2 DEF LookupDoes, ContinuesAt, IsFinished
<1>7. Side[job[t]] = "SELL" => Qty[job[t]] - applied[job[t]] <= core[Symbol[job[t]]]
  BY <1>4 DEF IInv, SellCovered
<1>8. \A o \in Orders : ~WillApply(t, o)
  BY <1>4 DEF WillApply
<1> QED  BY <1>3, <1>4, <1>5, <1>6, <1>7, <1>8, QuietStep

LEMMA FetchFailsStep ==
    ASSUME IInv, NEW t \in Threads, FetchFails(t)
    PROVE  IInv'
<1>1. ThreadOK(t) /\ Working(t) /\ TypeOK
  BY DEF IInv, ThreadOK
<1>2. FetchFailsDoes(t)
  BY <1>1, FetchFailsEffect
<1>3. TypeOK' /\ Others(t) /\ UNCHANGED <<dbVars, brokerVars, phase, crashes>>
  BY <1>1, <1>2 DEF FetchFailsDoes, TypeOK, ProcessTypes, RowTypes, BrokerTypes, dbVars, brokerVars,
     ContinuesAt, IsFinished, TakesNextRow
<1>4. pc[t] = "fetch" /\ phase = "up" /\ job[t] \in Orders
  BY <1>1 DEF FetchFails, Working
<1>5. Rely(t)
  BY <1>1, <1>3 DEF TypeOK, RowTypes, BrokerTypes, Rely, dbVars, brokerVars
<1>6. ThreadOK(t)'
  <2>1. CASE ContinuesAt(t, "apply") /\ op[t] = "submit"
    BY <1>1, <1>3, <1>4, <2>1
       DEF ContinuesAt, ThreadOK, Working, Placing, Known, Receipt, Settling, Remembered, dbVars
  <2>2. CASE IsFinished(t)
    BY <1>3, <2>2, FinishedOK
  <2>3. CASE TakesNextRow(t)
    BY <1>1, <1>3, <1>5, <2>3, NextRowOK
  <2> QED  BY <1>2, <2>1, <2>2, <2>3 DEF FetchFailsDoes
<1>7. pc'[t] \in {"apply", "scan", "idle"}
  BY <1>2 DEF FetchFailsDoes, ContinuesAt, IsFinished, TakesNextRow
<1>8. \A o \in Orders : ~WillApply(t, o)
  BY <1>1, <1>2, <1>4 DEF WillApply, FetchFailsDoes, ThreadOK, Settling, BrokerOpen, BrokerFinal
<1> QED  BY <1>3, <1>4, <1>6, <1>7, <1>8, QuietStep

LEMMA ConflictStep ==
    ASSUME IInv, NEW t \in Threads, ReceiptConflict(t)
    PROVE  IInv'
<1>1. ThreadOK(t) /\ Working(t) /\ TypeOK
  BY DEF IInv, ThreadOK
<1>2. ConflictDoes(t)
  BY <1>1, ConflictEffect
<1>3. TypeOK' /\ Others(t) /\ UNCHANGED <<dbVars, brokerVars, phase, crashes>>
  BY <1>1, <1>2 DEF ConflictDoes, TypeOK, ProcessTypes, RowTypes, BrokerTypes, dbVars, brokerVars,
     IsFinished, TakesNextRow
<1>4. pc[t] = "persist" /\ phase = "up" /\ job[t] \in Orders
  BY <1>1 DEF ReceiptConflict, Working
<1>5. Rely(t)
  BY <1>1, <1>3 DEF TypeOK, RowTypes, BrokerTypes, Rely, dbVars, brokerVars
<1>6. ThreadOK(t)' /\ pc'[t] \in {"scan", "idle"}
  BY <1>1, <1>2, <1>3, <1>5, FinishedOK, NextRowOK DEF ConflictDoes, IsFinished, TakesNextRow
\* The settle loop holds the last word on an order that is over: it is accepted.
<1>7. op[t] # "resettle"
  <2> SUFFICES ASSUME op[t] = "resettle"
               PROVE  UpdateAllowed(job[t], rStatus[t], rFilled[t])
    BY <1>2 DEF ConflictDoes
  <2>1. /\ rStatus[t] = bStatus[job[t]] /\ rFilled[t] = bFilled[job[t]]
        /\ bStatus[job[t]] # "NONE"
    BY <1>1, <1>4 DEF ThreadOK, Settling, Receipt, BrokerFinal
  <2>2. /\ filled[job[t]] <= bFilled[job[t]] /\ bFilled[job[t]] <= Qty[job[t]]
        /\ status[job[t]] \in TerminalStatuses => status[job[t]] = bStatus[job[t]]
    BY <1>4, <2>1 DEF IInv, BrokerAhead
  <2> QED  BY <1>1, <1>4, <2>1, <2>2, OrdersAssumption DEF UpdateAllowed, TypeOK, RowTypes, BrokerTypes
<1>8. \A o \in Orders : ~WillApply(t, o)
  BY <1>4, <1>7 DEF WillApply
<1> QED  BY <1>3, <1>4, <1>6, <1>8, QuietStep

LEMMA FinishStep ==
    ASSUME IInv, NEW t \in Threads, phase = "up", pc[t] = "scan", Finish(t), safe' \in BOOLEAN,
           UNCHANGED <<dbVars, brokerVars, phase, crashes>>
    PROVE  IInv'
<1>1. ThreadOK(t) /\ TypeOK
  BY DEF IInv
<1>2. IsFinished(t) /\ ThreadTypes'
  BY <1>1, FinishEffect DEF TypeOK
<1>3. TypeOK'
  BY <1>1, <1>2 DEF TypeOK, ProcessTypes, RowTypes, BrokerTypes, dbVars, brokerVars
<1>4. ThreadOK(t)' /\ Others(t) /\ pc'[t] = "idle"
  BY <1>2, <1>3, FinishedOK DEF IsFinished
<1>5. \A o \in Orders : ~WillApply(t, o)
  BY DEF WillApply
<1> QED  BY <1>3, <1>4, <1>5, QuietStep

LEMMA AfterStep ==
    ASSUME IInv, NEW t \in Threads, MonitorAfterFill(t)
    PROVE  IInv'
<1>1. ThreadOK(t) /\ Working(t) /\ TypeOK
  BY DEF IInv, ThreadOK
<1>2. AfterDoes(t)
  BY <1>1, AfterEffect
<1>3. TypeOK' /\ Others(t) /\ UNCHANGED <<dbVars, brokerVars, phase, crashes>>
  BY <1>1, <1>2 DEF AfterDoes, TypeOK, ProcessTypes, RowTypes, BrokerTypes, dbVars, brokerVars,
     TakesNextRow
<1>4. pc[t] = "after" /\ phase = "up" /\ job[t] \in Orders
  BY <1>1 DEF MonitorAfterFill, Working
<1>5. Rely(t)
  BY <1>1, <1>3 DEF TypeOK, RowTypes, BrokerTypes, Rely, dbVars, brokerVars
<1>6. ThreadOK(t)'
  <2>1. CASE TakesNextRow(t)
    BY <1>1, <1>3, <1>5, <2>1, NextRowOK
  <2>2. CASE /\ Others(t) /\ pc'[t] = "cancel" /\ op'[t] = "expire" /\ job'[t] = job[t]
             /\ prior'[t] = [prior[t] EXCEPT ![job[t]] = rFilled[t]] /\ todo'[t] = todo[t]
    <3>1. Remembered(t)'
      BY <1>1, <1>3, <1>4, <2>2
         DEF ThreadOK, Remembered, TypeOK, ThreadTypes, RowTypes, dbVars
    <3> QED  BY <1>1, <1>3, <1>4, <2>2, <3>1
                DEF ThreadOK, Working, Placing, Known, Receipt, Settling, dbVars, brokerVars
  <2> QED  BY <1>2, <2>1, <2>2 DEF AfterDoes
<1>7. pc'[t] \in {"cancel", "scan"}
  BY <1>2 DEF AfterDoes, TakesNextRow
<1>8. \A o \in Orders : ~WillApply(t, o)
  BY <1>1, <1>4 DEF WillApply, Working
<1> QED  BY <1>3, <1>4, <1>6, <1>7, <1>8, QuietStep

LEMMA TakeRowStep ==
    ASSUME IInv, NEW t \in Threads, NEW o \in Orders, TakeRow(t, o)
    PROVE  IInv'
<1>1. ThreadOK(t) /\ Working(t) /\ TypeOK
  BY DEF IInv, ThreadOK
<1>2. TakeRowDoes(t, o)
  BY <1>1, TakeRowEffect
<1>3. TypeOK'
  BY <1>1, <1>2 DEF TakeRowDoes, TypeOK, ProcessTypes, RowTypes, BrokerTypes, dbVars, brokerVars, procVars
<1>4. pc[t] = "scan" /\ phase = "up" /\ op[t] \in {"monitor", "settle"} /\ brokerId[o]
  BY <1>1 DEF TakeRow, Working, ThreadOK, Known
<1>5. status[o] # "NONE"
  BY <1>4 DEF IInv, Bounds
<1>6. ThreadOK(t)'
  BY <1>1, <1>2, <1>4, <1>5
     DEF TakeRowDoes, ThreadOK, Working, Placing, Known, Receipt, Settling, Remembered, dbVars
<1>7. \A p \in Orders : ~WillApply(t, p)
  BY <1>4 DEF WillApply
<1> QED  BY <1>2, <1>3, <1>4, <1>6, <1>7, QuietStep DEF TakeRowDoes, procVars

LEMMA StartStep ==
    ASSUME IInv, NEW t \in Threads, NEW o \in Orders, StartSubmit(t, o), phase = "up", pc[t] = "idle",
           Side[o] = "SELL" => Qty[o] <= core[Symbol[o]]
    PROVE  IInv'
<1>1. ThreadOK(t) /\ Working(t) /\ TypeOK
  BY DEF IInv, ThreadOK
<1>2. StartDoes(t, o)
  BY <1>1, StartEffect
<1>3. TypeOK'
  BY <1>1, <1>2 DEF StartDoes, TypeOK, ProcessTypes, RowTypes, BrokerTypes, dbVars, brokerVars, procVars
<1>4. ThreadOK(t)'
  BY <1>1, <1>2
     DEF StartDoes, ThreadOK, Working, Placing, Known, Receipt, Settling, Remembered, dbVars
<1>5. \A p \in Orders : ~WillApply(t, p)
  BY DEF WillApply
<1>6. Side[o] = "SELL" => Qty[o] - applied[o] <= core[Symbol[o]]
  BY <1>1, OrdersAssumption DEF TypeOK, RowTypes
<1> QED  BY <1>2, <1>3, <1>4, <1>5, <1>6, QuietStep DEF StartDoes, procVars

LEMMA ReadStep ==
    ASSUME IInv, NEW t \in Threads, NEW loop \in {"monitor", "settle"},
           NEW rows \in SUBSET Orders, ReadOpenOrders(t, loop, rows)
    PROVE  IInv'
<1>1. ThreadOK(t) /\ Working(t) /\ TypeOK
  BY DEF IInv, ThreadOK
<1>2. ReadDoes(t, loop, rows)
  BY <1>1, ReadEffect
<1>3. TypeOK'
  BY <1>1, <1>2 DEF ReadDoes, TypeOK, ProcessTypes, RowTypes, BrokerTypes, dbVars, brokerVars, procVars
<1>4. pc[t] = "idle" /\ phase = "up"
  BY DEF ReadOpenOrders
<1>5. \A o \in Orders : <<o, TRUE>> \in todo'[t] => brokerId[o]
  BY <1>2 DEF ReadDoes
<1>6. ThreadOK(t)'
  <2>1. Remembered(t)'
    BY <1>1, <1>2 DEF ReadDoes, Remembered, dbVars, TypeOK, RowTypes
  <2>2. Known(t)'
    BY <1>2, <1>5 DEF ReadDoes, Known, dbVars
  <2> QED  BY <1>2, <2>1, <2>2 DEF ReadDoes, ThreadOK, Working, Placing, Receipt, Settling
<1>7. \A p \in Orders : ~WillApply(t, p)
  BY <1>4 DEF WillApply
<1> QED  BY <1>2, <1>3, <1>4, <1>6, <1>7, QuietStep DEF ReadDoes, procVars

LEMMA ReserveStep ==
    ASSUME IInv, NEW t \in Threads, ReserveOrder(t)
    PROVE  IInv'
<1>1. ThreadOK(t) /\ Working(t) /\ TypeOK
  BY DEF IInv, ThreadOK
<1>2. ReserveDoes(t)
  BY <1>1, ReserveEffect
<1>3. TypeOK' /\ Others(t)
  BY <1>1, <1>2 DEF ReserveDoes, TypeOK, ProcessTypes, BrokerTypes, brokerVars, ContinuesAt, IsFinished
<1>4. pc[t] = "reserve" /\ phase = "up" /\ job[t] \in Orders /\ op[t] = "submit"
  BY <1>1 DEF ReserveOrder, Working
<1>5. CASE IsFinished(t) /\ status' = status
  <2>1. ThreadOK(t)' /\ pc'[t] = "idle"
    BY <1>3, <1>5, FinishedOK DEF IsFinished
  <2>2. \A o \in Orders : ~WillApply(t, o)
    BY <1>4 DEF WillApply
  <2>3. UNCHANGED <<dbVars, brokerVars, phase>>
    BY <1>2, <1>5 DEF ReserveDoes, dbVars
  <2> QED  BY <1>3, <1>4, <2>1, <2>2, <2>3, QuietStep
<1>6. CASE ContinuesAt(t, "place") /\ status[job[t]] = "NONE" /\ status'[job[t]] = "CREATED"
  <2>1. /\ UNCHANGED <<filled, brokerId, applied, core, bStatus, bFilled, phase>>
        /\ \A o \in Orders \ {job[t]} : status'[o] = status[o]
    BY <1>2 DEF ReserveDoes, OtherRows, brokerVars
  \* A row that did not exist is nobody's: its quantities are zero at the broker too.
  <2>2. /\ filled[job[t]] = 0 /\ ~brokerId[job[t]] /\ bStatus[job[t]] = "NONE"
        /\ \A u \in Threads : pc[u] \in {"place", "record"} => job[u] # job[t]
    BY <1>4, <1>6 DEF IInv, Bounds, BrokerAhead, ThreadOK, Placing
  <2>3. Rely(t)
    <3>1. \A u \in Threads : pc[u] \in {"place", "record"} => job[u] \in Orders \ {job[t]}
      BY <2>2 DEF IInv, ThreadOK, Working
    <3> QED  BY <1>1, <1>3, <1>6, <2>1, <3>1 DEF Rely, TypeOK, RowTypes, BrokerTypes
  <2>4. ThreadOK(t)'
    BY <1>1, <1>4, <1>6, <2>1, <2>2
       DEF ContinuesAt, ThreadOK, Working, Placing, Known, Receipt, Settling, Remembered
  <2>5. Bounds'
    BY <1>6, <2>1 DEF IInv, Bounds
  <2>6. BrokerAhead'
    BY <1>6, <2>1, <2>2 DEF IInv, BrokerAhead
  <2>7. OnePlacer'
    BY <1>6, <2>2 DEF IInv, OnePlacer, ContinuesAt, Others
  <2>8. SellCovered'
    BY <1>4, <1>6, <2>1 DEF IInv, SellCovered, ContinuesAt, Others
  <2>9. NoStrandedFill'
    BY <1>3, <1>4, <2>1, StillApplied DEF IInv, WillApply
  <2>10. Recovering'
    BY <1>4, <2>1 DEF Recovering
  <2>11. \A u \in Threads : ThreadOK(u)'
    BY <1>3, <2>3, <2>4, Noninterference DEF IInv
  <2> QED  BY <1>3, <2>5, <2>6, <2>7, <2>8, <2>9, <2>10, <2>11 DEF IInv
<1> QED  BY <1>2, <1>5, <1>6 DEF ReserveDoes

LEMMA PlaceStep ==
    ASSUME IInv, NEW t \in Threads, PlaceOrder(t)
    PROVE  IInv'
<1>1. ThreadOK(t) /\ Working(t) /\ TypeOK /\ BrokerAhead
  BY DEF IInv, ThreadOK
<1>2. PlaceDoes(t)
  BY <1>1, PlaceEffect
<1>3. TypeOK' /\ Others(t)
  BY <1>1, <1>2 DEF PlaceDoes, TypeOK, ProcessTypes, RowTypes, dbVars, procVars
<1>4. pc[t] = "place" /\ phase = "up" /\ job[t] \in Orders /\ op[t] = "submit"
  BY <1>1 DEF PlaceOrder, Working
<1>5. /\ status[job[t]] = "CREATED" /\ filled[job[t]] = 0 /\ ~brokerId[job[t]]
      /\ bStatus[job[t]] = "NONE" /\ bFilled[job[t]] = 0
  BY <1>1, <1>4 DEF ThreadOK, Placing, BrokerAhead
<1>6. UNCHANGED <<status, filled, brokerId, applied, core, phase>>
  BY <1>2 DEF PlaceDoes, dbVars, procVars
<1>7. \A u \in Threads \ {t} : pc[u] \in {"place", "record"} => job[u] \in Orders \ {job[t]}
  BY <1>4 DEF IInv, OnePlacer, ThreadOK, Working
<1>8. Rely(t)
  BY <1>1, <1>2, <1>3, <1>4, <1>5, <1>6, <1>7
     DEF PlaceDoes, Rely, TypeOK, RowTypes, BrokerTypes, BrokerFinal
<1>9. ThreadOK(t)'
  <2>1. Receipt(t)'
    <3>1. /\ job'[t] = job[t] /\ rStatus'[t] = bStatus'[job[t]] /\ rFilled'[t] = bFilled'[job[t]]
          /\ bStatus'[job[t]] \in {"PENDING", "PARTIAL_FILLED", "FILLED"}
      BY <1>2 DEF PlaceDoes
    <3>2. bFilled'[job[t]] \in Nat
      BY <1>3, <1>4 DEF TypeOK, BrokerTypes
    <3> QED  BY <3>1, <3>2 DEF Receipt, BrokerStatuses, BrokerFinal
  <2>2. Placing(t)'
    BY <1>2, <1>5, <1>6 DEF PlaceDoes, Placing
  <2>3. Remembered(t)' /\ Known(t)'
    BY <1>1, <1>2, <1>6 DEF PlaceDoes, ThreadOK, Remembered, Known
  <2> QED  BY <1>2, <1>4, <2>1, <2>2, <2>3 DEF PlaceDoes, ThreadOK, Working, Settling
<1>10. Bounds'
  BY <1>6 DEF IInv, Bounds
<1>11. BrokerAhead'
  BY <1>1, <1>2, <1>3, <1>5, <1>6
     DEF PlaceDoes, BrokerAhead, TypeOK, BrokerTypes, RowTypes, BrokerStatuses, BrokerFinal, TerminalStatuses
<1>12. OnePlacer'
  BY <1>2, <1>3, <1>7 DEF IInv, OnePlacer, Others, PlaceDoes
<1>13. SellCovered'
  BY <1>2, <1>3, <1>6 DEF IInv, SellCovered, Others, PlaceDoes
<1>14. NoStrandedFill'
  BY <1>3, <1>4, <1>6, StillApplied DEF IInv, WillApply
<1>15. Recovering'
  BY <1>4, <1>6 DEF Recovering
<1>16. \A u \in Threads : ThreadOK(u)'
  BY <1>1, <1>3, <1>8, <1>9, Noninterference DEF IInv
<1> QED  BY <1>3, <1>10, <1>11, <1>12, <1>13, <1>14, <1>15, <1>16 DEF IInv

LEMMA PlaceFailsStep ==
    ASSUME IInv, NEW t \in Threads, PlaceOrderFails(t)
    PROVE  IInv'
<1>1. ThreadOK(t) /\ Working(t) /\ TypeOK
  BY DEF IInv, ThreadOK
<1>2. PlaceFailsDoes(t)
  BY <1>1, PlaceFailsEffect
<1>3. TypeOK' /\ Others(t) /\ pc'[t] = "idle" /\ ThreadOK(t)'
  <2>1. TypeOK'
    BY <1>1, <1>2 DEF PlaceFailsDoes, TypeOK, ProcessTypes, BrokerTypes, brokerVars
  <2> QED  BY <1>2, <2>1, FinishedOK DEF PlaceFailsDoes, IsFinished
<1>4. pc[t] = "place" /\ phase = "up" /\ job[t] \in Orders /\ op[t] = "submit"
  BY <1>1 DEF PlaceOrderFails, Working
<1>5. status[job[t]] = "CREATED" /\ bStatus[job[t]] = "NONE"
  BY <1>1, <1>4 DEF ThreadOK, Placing
<1>6. /\ UNCHANGED <<filled, brokerId, applied, core, bStatus, bFilled, phase>>
      /\ \A o \in Orders \ {job[t]} : status'[o] = status[o]
      /\ status'[job[t]] = "UNKNOWN"
  BY <1>2 DEF PlaceFailsDoes, OtherRows, brokerVars
<1>7. \A u \in Threads \ {t} : pc[u] \in {"place", "record"} => job[u] \in Orders \ {job[t]}
  BY <1>4 DEF IInv, OnePlacer, ThreadOK, Working
<1>8. Rely(t)
  BY <1>1, <1>3, <1>6, <1>7 DEF Rely, TypeOK, RowTypes, BrokerTypes
<1>9. Bounds'
  BY <1>6 DEF IInv, Bounds
<1>10. BrokerAhead'
  BY <1>5, <1>6 DEF IInv, BrokerAhead
<1>11. OnePlacer'
  BY <1>3 DEF IInv, OnePlacer, Others
<1>12. SellCovered'
  BY <1>3, <1>5, <1>6 DEF IInv, SellCovered, Others
<1>13. NoStrandedFill'
  BY <1>3, <1>4, <1>6, StillApplied DEF IInv, WillApply
<1>14. Recovering'
  BY <1>4, <1>6 DEF Recovering
<1>15. \A u \in Threads : ThreadOK(u)'
  BY <1>1, <1>3, <1>8, Noninterference DEF IInv
<1> QED  BY <1>3, <1>9, <1>10, <1>11, <1>12, <1>13, <1>14, <1>15 DEF IInv

LEMMA RecordStep ==
    ASSUME IInv, NEW t \in Threads, RecordPlacement(t)
    PROVE  IInv'
<1>1. ThreadOK(t) /\ Working(t) /\ TypeOK
  BY DEF IInv, ThreadOK
<1>2. RecordDoes(t)
  BY <1>1, RecordEffect
<1>3. TypeOK' /\ Others(t)
  BY <1>1, <1>2 DEF RecordDoes, TypeOK, ProcessTypes, BrokerTypes, brokerVars, procVars, ContinuesAt, IsFinished
<1>4. pc[t] = "record" /\ phase = "up" /\ job[t] \in Orders /\ op[t] = "submit"
  BY <1>1 DEF RecordPlacement, Working
<1>5. /\ status[job[t]] = "CREATED" /\ filled[job[t]] = 0 /\ ~brokerId[job[t]]
      /\ bStatus[job[t]] # "NONE"
      /\ rStatus[t] \in BrokerStatuses \ {"NONE"} /\ rFilled[t] <= bFilled[job[t]]
      /\ rStatus[t] \in BrokerFinal => rStatus[t] = bStatus[job[t]]
      /\ rFilled[t] \in Nat
  BY <1>1, <1>4 DEF ThreadOK, Placing, Receipt, TypeOK, ThreadTypes
<1>6. /\ UNCHANGED <<applied, core, bStatus, bFilled, phase>>
      /\ \A o \in Orders \ {job[t]} :
            status'[o] = status[o] /\ filled'[o] = filled[o] /\ brokerId'[o] = brokerId[o]
      /\ status'[job[t]] = rStatus[t] /\ filled'[job[t]] = rFilled[t] /\ brokerId'[job[t]]
  BY <1>2 DEF RecordDoes, OtherRows, brokerVars, procVars
<1>7. \A u \in Threads \ {t} : pc[u] \in {"place", "record"} => job[u] \in Orders \ {job[t]}
  BY <1>4 DEF IInv, OnePlacer, ThreadOK, Working
<1>8. Rely(t)
  BY <1>1, <1>3, <1>5, <1>6, <1>7 DEF Rely, TypeOK, RowTypes, BrokerTypes
<1>9. applied[job[t]] = 0 /\ rFilled[t] <= Qty[job[t]]
  BY <1>1, <1>2, <1>4, <1>5 DEF IInv, Bounds, TypeOK, RowTypes, RecordDoes, UpdateAllowed
<1>10. ThreadOK(t)'
  <2>1. CASE rFilled[t] > 0 /\ ContinuesAt(t, "apply")
    <3>1. Remembered(t)'
      <4>1. \A o \in Orders : prior[t][o] <= filled'[o]
        BY <1>1, <1>4, <1>5, <1>6 DEF ThreadOK, Remembered, TypeOK, RowTypes, ThreadTypes
      <4> QED  BY <1>4, <2>1, <4>1 DEF ContinuesAt, Remembered
    <3>2. Known(t)'
      BY <1>1, <1>4, <1>5, <1>6, <2>1 DEF ContinuesAt, ThreadOK, Known
    <3> QED  BY <1>1, <1>4, <2>1, <3>1, <3>2
                DEF ContinuesAt, ThreadOK, Working, Placing, Receipt, Settling
  <2>2. CASE IsFinished(t)
    BY <1>3, <2>2, FinishedOK
  <2> QED  BY <1>2, <2>1, <2>2 DEF RecordDoes
<1>11. Bounds'
  BY <1>5, <1>6, <1>9 DEF IInv, Bounds
<1>12. BrokerAhead'
  BY <1>5, <1>6 DEF IInv, BrokerAhead, BrokerStatuses, BrokerFinal, TerminalStatuses
<1>13. pc'[t] \in {"apply", "idle"} /\ (pc'[t] = "apply" => job'[t] = job[t])
       /\ (pc'[t] = "idle" => rFilled[t] = 0)
  BY <1>2 DEF RecordDoes, ContinuesAt, IsFinished
<1>14. OnePlacer'
  BY <1>3, <1>13 DEF IInv, OnePlacer, Others
<1>15. SellCovered'
  BY <1>3, <1>5, <1>6, <1>13 DEF IInv, SellCovered, Others
<1>16. NoStrandedFill'
  <2>1. \A o \in Orders : ~WillApply(t, o)
    BY <1>4 DEF WillApply
  <2>2. \A o \in Orders : filled'[o] # applied'[o] => filled[o] # applied[o] \/ WillApply(t, o)'
    BY <1>6, <1>9, <1>13 DEF WillApply
  <2> QED  BY <1>3, <1>4, <2>1, <2>2, StillApplied DEF IInv
<1>17. Recovering'
  BY <1>4, <1>6 DEF Recovering
<1>18. \A u \in Threads : ThreadOK(u)'
  BY <1>1, <1>3, <1>8, <1>10, Noninterference DEF IInv
<1> QED  BY <1>3, <1>11, <1>12, <1>14, <1>15, <1>16, <1>17, <1>18 DEF IInv

LEMMA FetchStep ==
    ASSUME IInv, NEW t \in Threads, FetchOrder(t)
    PROVE  IInv'
<1>1. ThreadOK(t) /\ Working(t) /\ TypeOK /\ BrokerAhead
  BY DEF IInv, ThreadOK
<1>2. FetchDoes(t)
  BY <1>1, FetchEffect
<1>3. TypeOK' /\ Others(t)
  BY <1>1, <1>2 DEF FetchDoes, TypeOK, ProcessTypes, RowTypes, dbVars, procVars
<1>4. pc[t] = "fetch" /\ phase = "up" /\ job[t] \in Orders /\ bStatus[job[t]] # "NONE"
  BY <1>1 DEF FetchOrder, Working
<1>5. brokerId[job[t]] /\ status[job[t]] # "NONE"
  BY <1>1, <1>4 DEF ThreadOK, Known
<1>6. UNCHANGED <<status, filled, brokerId, applied, core, phase>>
  BY <1>2 DEF FetchDoes, dbVars, procVars
\* Nobody places an order whose broker id is known.
<1>7. \A u \in Threads \ {t} : pc[u] \in {"place", "record"} => job[u] \in Orders \ {job[t]}
  BY <1>5 DEF IInv, ThreadOK, Working, Placing
<1>8. /\ bStatus'[job[t]] \in BrokerStatuses \ {"NONE"}
      /\ bStatus[job[t]] \in BrokerFinal =>
            bStatus'[job[t]] = bStatus[job[t]] /\ bFilled'[job[t]] = bFilled[job[t]]
  BY <1>1, <1>2, <1>4 DEF FetchDoes, BrokerAhead, BrokerOpen, BrokerStatuses, BrokerFinal
<1>9. /\ job'[t] = job[t] /\ pc'[t] = "persist" /\ op'[t] = op[t]
      /\ rStatus'[t] = bStatus'[job[t]] /\ rFilled'[t] = bFilled'[job[t]]
      /\ prior'[t] = prior[t] /\ todo'[t] = todo[t]
      /\ bFilled[job[t]] <= bFilled'[job[t]] /\ bFilled'[job[t]] <= Qty[job[t]]
      /\ \A o \in Orders \ {job[t]} : bStatus'[o] = bStatus[o] /\ bFilled'[o] = bFilled[o]
  BY <1>2 DEF FetchDoes
<1>10. Rely(t)
  BY <1>1, <1>3, <1>4, <1>6, <1>7, <1>8, <1>9 DEF Rely, TypeOK, RowTypes, BrokerTypes
<1>11. ThreadOK(t)'
  <2>1. bFilled'[job[t]] \in Nat
    BY <1>3, <1>4 DEF TypeOK, BrokerTypes
  <2>2. Receipt(t)'
    BY <1>8, <1>9, <2>1 DEF Receipt
  <2>3. Settling(t)'
    BY <1>1, <1>4, <1>8, <1>9 DEF ThreadOK, Settling
  <2>4. Remembered(t)' /\ Known(t)'
    BY <1>1, <1>5, <1>6, <1>8, <1>9 DEF ThreadOK, Remembered, Known
  <2> QED  BY <1>4, <1>9, <2>2, <2>3, <2>4 DEF ThreadOK, Working, Placing
<1>12. Bounds'
  BY <1>6 DEF IInv, Bounds
<1>13. BrokerAhead'
  <2> SUFFICES ASSUME NEW o \in Orders
               PROVE  /\ bStatus'[o] \in BrokerStatuses
                      /\ bFilled'[o] <= Qty[o]
                      /\ bStatus'[o] = "NONE" => bFilled'[o] = 0
                      /\ bStatus'[o] # "NONE" =>
                            /\ status[o] # "NONE" /\ filled[o] <= bFilled'[o]
                            /\ status[o] \in TerminalStatuses => status[o] = bStatus'[o]
    BY <1>6 DEF BrokerAhead
  <2>1. CASE o # job[t]
    BY <1>1, <1>9, <2>1 DEF BrokerAhead
  <2>2. CASE o = job[t]
    <3>1. filled[o] <= bFilled[o] /\ filled[o] \in Nat /\ bFilled[o] \in Nat /\ bFilled'[o] \in Nat
      BY <1>1, <1>3, <1>4, <2>2 DEF BrokerAhead, TypeOK, RowTypes, BrokerTypes
    <3>2. status[o] \in TerminalStatuses => status[o] = bStatus'[o]
      BY <1>1, <1>4, <1>8, <2>2 DEF BrokerAhead, BrokerStatuses, BrokerFinal, TerminalStatuses
    <3> QED  BY <1>5, <1>8, <1>9, <2>2, <3>1, <3>2
  <2> QED  BY <2>1, <2>2
<1>14. OnePlacer'
  BY <1>3, <1>9 DEF IInv, OnePlacer, Others
<1>15. SellCovered'
  BY <1>3, <1>6, <1>9 DEF IInv, SellCovered, Others
<1>16. NoStrandedFill'
  BY <1>3, <1>4, <1>6, <1>9, StillApplied DEF IInv, WillApply
<1>17. Recovering'
  BY <1>4, <1>6 DEF Recovering
<1>18. \A u \in Threads : ThreadOK(u)'
  BY <1>1, <1>3, <1>10, <1>11, Noninterference DEF IInv
<1> QED  BY <1>3, <1>12, <1>13, <1>14, <1>15, <1>16, <1>17, <1>18 DEF IInv

LEMMA StoreStep ==
    ASSUME IInv, NEW t \in Threads, StoreReceipt(t)
    PROVE  IInv'
<1>1. ThreadOK(t) /\ Working(t) /\ TypeOK
  BY DEF IInv, ThreadOK
<1>2. StoreDoes(t)
  BY <1>1, StoreEffect
<1>3. TypeOK' /\ Others(t)
  BY <1>1, <1>2 DEF StoreDoes, TypeOK, ProcessTypes, BrokerTypes, brokerVars,
     ContinuesAt, IsFinished, TakesNextRow
<1>4. pc[t] = "persist" /\ phase = "up" /\ job[t] \in Orders
  BY <1>1 DEF StoreReceipt, Working
<1>5. /\ brokerId[job[t]] /\ status[job[t]] # "NONE" /\ bStatus[job[t]] # "NONE"
      /\ rStatus[t] \in BrokerStatuses \ {"NONE"} /\ rFilled[t] <= bFilled[job[t]]
      /\ rStatus[t] \in BrokerFinal => rStatus[t] = bStatus[job[t]]
      /\ rFilled[t] \in Nat /\ filled[job[t]] \in Nat /\ applied[job[t]] \in Nat
  BY <1>1, <1>4 DEF ThreadOK, Known, Receipt, TypeOK, ThreadTypes, RowTypes
<1>6. /\ UNCHANGED <<brokerId, applied, core, bStatus, bFilled, phase>>
      /\ \A o \in Orders \ {job[t]} : status'[o] = status[o] /\ filled'[o] = filled[o]
      /\ status'[job[t]] = rStatus[t] /\ filled'[job[t]] = rFilled[t]
  BY <1>2 DEF StoreDoes, OtherRows, brokerVars
<1>7. filled[job[t]] <= rFilled[t] /\ rFilled[t] <= Qty[job[t]]
  BY <1>2 DEF StoreDoes, UpdateAllowed
<1>8. \A u \in Threads \ {t} : pc[u] \in {"place", "record"} => job[u] \in Orders \ {job[t]}
  BY <1>5 DEF IInv, ThreadOK, Working, Placing
<1>9. Rely(t)
  BY <1>1, <1>3, <1>4, <1>5, <1>6, <1>7, <1>8 DEF Rely, TypeOK, RowTypes, BrokerTypes
<1>10. \A o \in Orders : prior[t][o] <= filled'[o]
  BY <1>1, <1>4, <1>5, <1>6, <1>7 DEF ThreadOK, Remembered, TypeOK, RowTypes, ThreadTypes
<1>11. ThreadOK(t)'
  <2>1. ASSUME NEW where \in {"cancel", "apply", "after"}, ContinuesAt(t, where),
               where = "cancel" => op[t] = "settle", where = "after" => op[t] = "monitor"
        PROVE  ThreadOK(t)'
    <3>1. Remembered(t)'
      BY <1>5, <1>6, <1>10, <2>1 DEF ContinuesAt, Remembered
    <3>2. Known(t)'
      BY <1>1, <1>4, <1>5, <1>6, <2>1 DEF ContinuesAt, ThreadOK, Known
    <3> QED  BY <1>4, <2>1, <3>1, <3>2 DEF ContinuesAt, ThreadOK, Working, Placing, Receipt, Settling
  <2>2. CASE IsFinished(t)
    BY <1>3, <2>2, FinishedOK
  <2>3. CASE TakesNextRow(t)
    BY <1>1, <1>3, <1>9, <2>3, NextRowOK
  <2> QED  BY <1>2, <2>1, <2>2, <2>3 DEF StoreDoes
<1>12. Bounds'
  <2>1. applied[job[t]] <= rFilled[t]
    BY <1>4, <1>5, <1>7 DEF IInv, Bounds
  <2> QED  BY <1>5, <1>6, <1>7, <2>1 DEF IInv, Bounds
<1>13. BrokerAhead'
  BY <1>5, <1>6 DEF IInv, BrokerAhead, BrokerStatuses, BrokerFinal, TerminalStatuses
<1>14. pc'[t] \in {"cancel", "apply", "after", "scan", "idle"}
  BY <1>2 DEF StoreDoes, ContinuesAt, IsFinished, TakesNextRow
<1>15. OnePlacer'
  BY <1>3, <1>14 DEF IInv, OnePlacer, Others
<1>16. SellCovered'
  BY <1>3, <1>5, <1>6, <1>14 DEF IInv, SellCovered, Others
<1>17. NoStrandedFill'
  \* Either the thread goes on to apply, or the receipt brought nothing new.
  <2>1. \/ op[t] = "settle" /\ ContinuesAt(t, "cancel")
        \/ ContinuesAt(t, "apply")
        \/ ~HasNewFill(t, rFilled[t])
    BY <1>2 DEF StoreDoes
  <2>2. CASE ~HasNewFill(t, rFilled[t]) /\ op[t] \in {"monitor", "expire"}
    <3>1. rFilled[t] <= prior[t][job[t]] /\ prior[t][job[t]] <= filled[job[t]]
          /\ prior[t][job[t]] \in Nat
      BY <1>1, <1>4, <1>5, <2>2 DEF HasNewFill, ThreadOK, Remembered, TypeOK, ThreadTypes
    <3>2. filled'[job[t]] = filled[job[t]]
      BY <1>5, <1>6, <1>7, <3>1
    <3>3. \A o \in Orders : filled'[o] = filled[o]
      BY <1>6, <3>2
    <3>4. \A o \in Orders : ~WillApply(t, o)
      BY <1>4, <2>2 DEF WillApply
    <3> QED  BY <1>3, <1>4, <1>6, <3>3, <3>4, StillApplied DEF IInv
  <2>3. CASE ~HasNewFill(t, rFilled[t]) /\ op[t] \notin {"monitor", "expire"}
    <3>1. rFilled[t] = 0 /\ filled'[job[t]] = 0
      BY <1>5, <1>6, <2>3 DEF HasNewFill
    <3>2. applied'[job[t]] = 0
      BY <1>4, <1>5, <1>6, <1>7, <3>1 DEF IInv, Bounds
    <3>3. \A o \in Orders : WillApply(t, o) => filled'[o] = applied'[o]
      BY <3>1, <3>2 DEF WillApply
    <3>4. \A o \in Orders : filled'[o] # applied'[o] => filled[o] # applied[o]
      BY <1>6, <3>1, <3>2
    <3> QED  BY <1>3, <1>4, <3>3, <3>4, StillApplied DEF IInv
  <2>4. CASE (op[t] = "settle" /\ ContinuesAt(t, "cancel")) \/ ContinuesAt(t, "apply")
    <3>1. \A o \in Orders : o = job[t] => WillApply(t, o)'
      BY <2>4 DEF WillApply, ContinuesAt
    <3>2. \A o \in Orders : WillApply(t, o) => o = job[t]
      BY DEF WillApply
    <3> QED  BY <1>3, <1>4, <1>6, <3>1, <3>2, StillApplied DEF IInv
  <2> QED  BY <2>1, <2>2, <2>3, <2>4
<1>18. Recovering'
  BY <1>4, <1>6 DEF Recovering
<1>19. \A u \in Threads : ThreadOK(u)'
  BY <1>1, <1>3, <1>9, <1>11, Noninterference DEF IInv
<1> QED  BY <1>3, <1>12, <1>13, <1>15, <1>16, <1>17, <1>18, <1>19 DEF IInv

\* What ApplyFill leaves: thread t (if any) has applied order o.
LEMMA CreditStep ==
    ASSUME IInv, TypeOK', NEW o \in Orders,
           UNCHANGED <<status, filled, brokerId, bStatus, bFilled>>,
           applied'[o] = filled[o], \A p \in Orders \ {o} : applied'[p] = applied[p],
           core'[Symbol[o]] = (IF Side[o] = "BUY" THEN core[Symbol[o]] + FillDelta(o)
                                                  ELSE core[Symbol[o]] - FillDelta(o)),
           \A s \in Symbols \ {Symbol[o]} : core'[s] = core[s]
    PROVE  /\ Bounds' /\ BrokerAhead'
           /\ \A p \in Orders : Side[p] = "SELL" /\ Qty[p] - applied[p] <= core[Symbol[p]]
                 => Qty[p] - applied'[p] <= core'[Symbol[p]]
<1>1. Bounds'
  BY DEF IInv, Bounds, TypeOK, RowTypes
<1>2. BrokerAhead'
  BY DEF IInv, BrokerAhead
<1>3. ASSUME NEW p \in Orders, Side[p] = "SELL", Qty[p] - applied[p] <= core[Symbol[p]]
      PROVE  Qty[p] - applied'[p] <= core'[Symbol[p]]
  <2>1. /\ filled[o] \in Nat /\ applied[o] \in Nat /\ applied[p] \in Nat /\ Qty[p] \in Nat
        /\ core[Symbol[o]] \in Nat /\ core[Symbol[p]] \in Nat /\ applied[o] <= filled[o]
        /\ Symbol[p] \in Symbols /\ Side[o] \in {"BUY", "SELL"}
    BY OrdersAssumption DEF IInv, TypeOK, RowTypes, Bounds
  <2>2. CASE p = o
    BY <1>3, <2>1, <2>2 DEF FillDelta
  <2>3. CASE p # o /\ Symbol[p] = Symbol[o]
    <3>1. Side[o] = "BUY"
      BY <1>3, <2>1, <2>3, OrdersAssumption
    <3> QED  BY <1>3, <2>1, <2>3, <3>1 DEF FillDelta
  <2>4. CASE p # o /\ Symbol[p] # Symbol[o]
    BY <1>3, <2>1, <2>4
  <2> QED  BY <2>2, <2>3, <2>4
<1> QED  BY <1>1, <1>2, <1>3

LEMMA ApplyStep ==
    ASSUME IInv, NEW t \in Threads, ApplyCoreFill(t)
    PROVE  IInv'
<1>1. ThreadOK(t) /\ Working(t) /\ TypeOK /\ Bounds
  BY DEF IInv, ThreadOK
<1>2. ApplyDoes(t)
  BY <1>1, ApplyEffect
<1>3. TypeOK' /\ Others(t)
  BY <1>1, <1>2 DEF ApplyDoes, TypeOK, ProcessTypes, BrokerTypes, brokerVars,
     ContinuesAt, IsFinished, TakesNextRow
<1>4. pc[t] = "apply" /\ phase = "up" /\ job[t] \in Orders
  BY <1>1 DEF ApplyCoreFill, Working
<1>5. UNCHANGED <<status, filled, brokerId, bStatus, bFilled, phase>>
  BY <1>2 DEF ApplyDoes, brokerVars
<1>6. Rely(t)
  BY <1>1, <1>3, <1>5 DEF Rely, TypeOK, RowTypes, BrokerTypes
\* apply_core_fill never finds too few shares.
<1>7. ~Oversold(job[t])
  <2> SUFFICES ASSUME Side[job[t]] = "SELL" PROVE FillDelta(job[t]) <= core[Symbol[job[t]]]
    <3>1. FillDelta(job[t]) \in Int /\ core[Symbol[job[t]]] \in Int
      BY <1>1, <1>4, OrdersAssumption DEF FillDelta, TypeOK, RowTypes
    <3> QED  BY <3>1 DEF Oversold
  <2>1. status[job[t]] # "NONE"
    BY <1>1, <1>4 DEF ThreadOK, Known
  <2>2. Qty[job[t]] - applied[job[t]] <= core[Symbol[job[t]]]
    BY <1>4, <2>1 DEF IInv, SellCovered
  <2>3. filled[job[t]] <= Qty[job[t]]
    BY <1>1, <1>4 DEF Bounds
  <2> QED  BY <1>1, <1>4, <2>2, <2>3, OrdersAssumption DEF FillDelta, TypeOK, RowTypes
<1>8. /\ applied'[job[t]] = filled[job[t]]
      /\ \A p \in Orders \ {job[t]} : applied'[p] = applied[p]
      /\ core'[Symbol[job[t]]] =
            (IF Side[job[t]] = "BUY" THEN core[Symbol[job[t]]] + FillDelta(job[t])
                                     ELSE core[Symbol[job[t]]] - FillDelta(job[t]))
      /\ \A s \in Symbols \ {Symbol[job[t]]} : core'[s] = core[s]
      /\ IsFinished(t) \/ (op[t] = "monitor" /\ ContinuesAt(t, "after")) \/ TakesNextRow(t)
  BY <1>2, <1>7 DEF ApplyDoes
<1>9. /\ Bounds' /\ BrokerAhead'
      /\ \A p \in Orders : Side[p] = "SELL" /\ Qty[p] - applied[p] <= core[Symbol[p]]
            => Qty[p] - applied'[p] <= core'[Symbol[p]]
  BY <1>3, <1>4, <1>5, <1>8, CreditStep
<1>10. ThreadOK(t)'
  <2>1. CASE op[t] = "monitor" /\ ContinuesAt(t, "after")
    <3>1. Remembered(t)'
      BY <1>1, <1>4, <1>5, <2>1 DEF ContinuesAt, ThreadOK, Remembered
    <3>2. Known(t)'
      BY <1>1, <1>4, <1>5, <2>1 DEF ContinuesAt, ThreadOK, Known
    <3> QED  BY <1>4, <2>1, <3>1, <3>2 DEF ContinuesAt, ThreadOK, Working, Placing, Receipt, Settling
  <2>2. CASE IsFinished(t)
    BY <1>3, <2>2, FinishedOK
  <2>3. CASE TakesNextRow(t)
    BY <1>1, <1>3, <1>6, <2>3, NextRowOK
  <2> QED  BY <1>8, <2>1, <2>2, <2>3
<1>11. pc'[t] \in {"after", "scan", "idle"}
  BY <1>8 DEF ContinuesAt, IsFinished, TakesNextRow
<1>12. OnePlacer'
  BY <1>3, <1>11 DEF IInv, OnePlacer, Others
<1>13. SellCovered'
  BY <1>3, <1>5, <1>9, <1>11 DEF IInv, SellCovered, Others
<1>14. NoStrandedFill'
  <2>1. \A o \in Orders : WillApply(t, o) => filled'[o] = applied'[o]
    BY <1>5, <1>8 DEF WillApply
  <2>2. \A o \in Orders : filled'[o] # applied'[o] => filled[o] # applied[o]
    BY <1>5, <1>8
  <2> QED  BY <1>3, <1>4, <2>1, <2>2, StillApplied DEF IInv
<1>15. Recovering'
  BY <1>4, <1>5 DEF Recovering
<1>16. \A u \in Threads : ThreadOK(u)'
  BY <1>1, <1>3, <1>6, <1>10, Noninterference DEF IInv
<1> QED  BY <1>3, <1>9, <1>12, <1>13, <1>14, <1>15, <1>16 DEF IInv

LEMMA CancelStep ==
    ASSUME IInv, NEW t \in Threads, CancelOrder(t)
    PROVE  IInv'
<1>1. ThreadOK(t) /\ Working(t) /\ TypeOK /\ BrokerAhead
  BY DEF IInv, ThreadOK
<1>2. CancelDoes(t)
  BY <1>1, CancelEffect
<1>3. TypeOK' /\ Others(t)
  BY <1>1, <1>2 DEF CancelDoes, TypeOK, ProcessTypes, RowTypes, dbVars, procVars
<1>4. pc[t] = "cancel" /\ phase = "up" /\ job[t] \in Orders /\ op[t] \in {"settle", "expire"}
  BY <1>1 DEF CancelOrder, Working
<1>5. brokerId[job[t]] /\ status[job[t]] # "NONE" /\ bStatus[job[t]] # "NONE"
  BY <1>1, <1>4 DEF ThreadOK, Known
<1>6. UNCHANGED <<status, filled, brokerId, applied, core, phase, bFilled>>
  BY <1>2 DEF CancelDoes, dbVars, procVars
<1>7. /\ job'[t] = job[t] /\ pc'[t] = "fetch"
      /\ op'[t] = (IF op[t] = "expire" THEN "expire" ELSE "resettle")
      /\ prior'[t] = prior[t] /\ todo'[t] = todo[t]
      /\ \A o \in Orders \ {job[t]} : bStatus'[o] = bStatus[o]
  BY <1>2 DEF CancelDoes
<1>8. /\ bStatus'[job[t]] \in BrokerFinal
      /\ bStatus[job[t]] \in BrokerFinal => bStatus'[job[t]] = bStatus[job[t]]
  BY <1>1, <1>2, <1>4, <1>5 DEF CancelDoes, BrokerAhead, BrokerOpen, BrokerStatuses, BrokerFinal
<1>9. \A u \in Threads \ {t} : pc[u] \in {"place", "record"} => job[u] \in Orders \ {job[t]}
  BY <1>5 DEF IInv, ThreadOK, Working, Placing
<1>10. Rely(t)
  BY <1>1, <1>3, <1>4, <1>6, <1>7, <1>8, <1>9 DEF Rely, TypeOK, RowTypes, BrokerTypes, BrokerFinal
<1>11. ThreadOK(t)'
  <2>1. Settling(t)' /\ Receipt(t)'
    BY <1>7, <1>8 DEF Settling, Receipt
  <2>2. Remembered(t)' /\ Known(t)'
    BY <1>1, <1>5, <1>6, <1>7 DEF ThreadOK, Remembered, Known
  <2> QED  BY <1>4, <1>7, <2>1, <2>2 DEF ThreadOK, Working, Placing
<1>12. Bounds'
  BY <1>6 DEF IInv, Bounds
<1>13. BrokerAhead'
  BY <1>1, <1>4, <1>5, <1>6, <1>7, <1>8
     DEF BrokerAhead, BrokerStatuses, BrokerFinal, TerminalStatuses
<1>14. OnePlacer'
  BY <1>3, <1>7 DEF IInv, OnePlacer, Others
<1>15. SellCovered'
  BY <1>3, <1>6, <1>7 DEF IInv, SellCovered, Others
<1>16. NoStrandedFill'
  <2>1. \A o \in Orders : WillApply(t, o) => WillApply(t, o)'
    BY <1>4, <1>7 DEF WillApply
  <2> QED  BY <1>3, <1>4, <1>6, <2>1, StillApplied DEF IInv
<1>17. Recovering'
  BY <1>4, <1>6 DEF Recovering
<1>18. \A u \in Threads : ThreadOK(u)'
  BY <1>1, <1>3, <1>10, <1>11, Noninterference DEF IInv
<1> QED  BY <1>3, <1>12, <1>13, <1>14, <1>15, <1>16, <1>17, <1>18 DEF IInv

LEMMA CrashStep ==
    ASSUME IInv, Crash
    PROVE  IInv'
<1>1. TypeOK
  BY DEF IInv
<1>2. RowTypes' /\ UNCHANGED <<status, filled, brokerId, applied, core>> /\ phase' = "recover"
  BY <1>1 DEF Crash, dbVars, TypeOK, RowTypes
<1>3. /\ BrokerTypes'
      /\ \A o \in Orders : bStatus'[o] = "NONE" /\ bFilled'[o] = 0
  BY DEF Crash, BrokerTypes
<1>4. /\ ThreadTypes'
      /\ \A t \in Threads : /\ pc'[t] = "idle" /\ op'[t] = "none" /\ todo'[t] = {}
                            /\ \A o \in Orders : prior'[t][o] = 0
  BY DEF Crash, ThreadTypes
<1>5. ProcessTypes'
  BY <1>1, OrdersAssumption DEF Crash, TypeOK, ProcessTypes
<1>6. ASSUME NEW t \in Threads PROVE ThreadOK(t)'
  <2>1. \A o \in Orders : prior'[t][o] <= filled'[o]
    BY <1>2, <1>4 DEF RowTypes
  <2> QED  BY <1>4, <2>1 DEF ThreadOK, Working, Placing, Known, Receipt, Settling, Remembered
<1>7. Bounds' /\ SellCovered'
  BY <1>2, <1>4 DEF IInv, Bounds, SellCovered
<1>8. BrokerAhead'
  BY <1>3, OrdersAssumption DEF BrokerAhead, BrokerStatuses
<1>9. OnePlacer' /\ Recovering'
  BY <1>3, <1>4 DEF OnePlacer, Recovering
<1>10. NoStrandedFill'
  BY <1>2 DEF NoStrandedFill
<1> QED  BY <1>2, <1>3, <1>4, <1>5, <1>6, <1>7, <1>8, <1>9, <1>10 DEF IInv, TypeOK

LEMMA RecoverStep ==
    ASSUME IInv, NEW o \in Orders, RecoverFill(o)
    PROVE  IInv'
<1>1. TypeOK /\ Bounds
  BY DEF IInv
<1>2. /\ phase = "recover" /\ ApplyFill(o) /\ ~Oversold(o)
      /\ UNCHANGED <<brokerVars, procVars, threadVars>>
  BY DEF RecoverFill
<1>3. /\ RowTypes' /\ applied'[o] = filled[o]
      /\ \A p \in Orders \ {o} : applied'[p] = applied[p]
      /\ core'[Symbol[o]] = (IF Side[o] = "BUY" THEN core[Symbol[o]] + FillDelta(o)
                                                ELSE core[Symbol[o]] - FillDelta(o))
      /\ \A s \in Symbols \ {Symbol[o]} : core'[s] = core[s]
  BY <1>1, <1>2, ApplyFillEffect DEF TypeOK
<1>4. UNCHANGED <<status, filled, brokerId, bStatus, bFilled, phase, pc, op, job, rStatus, rFilled,
                  prior, todo>>
  BY <1>2 DEF ApplyFill, brokerVars, procVars, threadVars
<1>5. TypeOK'
  BY <1>1, <1>2, <1>3 DEF TypeOK, BrokerTypes, ProcessTypes, ThreadTypes, brokerVars, procVars, threadVars
<1>6. /\ Bounds' /\ BrokerAhead'
      /\ \A p \in Orders : Side[p] = "SELL" /\ Qty[p] - applied[p] <= core[Symbol[p]]
            => Qty[p] - applied'[p] <= core'[Symbol[p]]
  BY <1>3, <1>4, <1>5, CreditStep
<1>7. SellCovered'
  BY <1>4, <1>6 DEF IInv, SellCovered
<1>8. \A t \in Threads : ThreadOK(t)'
  BY <1>4, ZenonT(40) DEF IInv, ThreadOK, Working, Placing, Known, Receipt, Settling, Remembered
<1>9. OnePlacer' /\ Recovering' /\ NoStrandedFill'
  BY <1>2, <1>4 DEF IInv, OnePlacer, Recovering, NoStrandedFill
<1> QED  BY <1>5, <1>6, <1>7, <1>8, <1>9 DEF IInv

LEMMA RestoreStep ==
    ASSUME IInv, RestoreBroker
    PROVE  IInv'
<1>1. TypeOK /\ Recovering
  BY DEF IInv
<1>2. /\ phase = "recover" /\ phase' = "up" /\ \A o \in Orders : filled[o] = applied[o]
      /\ held' = core
      /\ UNCHANGED <<status, filled, brokerId, applied, core, bFilled, crashes, pc, op, job,
                     rStatus, rFilled, prior, todo>>
  BY DEF RestoreBroker, dbVars, threadVars
<1>3. \A o \in Orders :
         /\ bStatus'[o] \in {"NONE", "PENDING"}
         /\ bStatus'[o] = "PENDING" =>
               filled[o] = 0 /\ status[o] \in {"CREATED", "SUBMITTED", "PENDING"}
  BY DEF RestoreBroker, Restorable
<1>4. bStatus' \in [Orders -> {"NONE", "PENDING"}]
  BY DEF RestoreBroker
<1>5. TypeOK'
  <2>1. safe' \in BOOLEAN
    BY <1>1 DEF RestoreBroker, TypeOK, ProcessTypes
  <2>2. BrokerTypes'
    BY <1>1, <1>2, <1>4 DEF TypeOK, BrokerTypes, RowTypes, AllStatuses, OpenStatuses
  <2> QED  BY <1>1, <1>2, <2>1, <2>2 DEF TypeOK, ProcessTypes, RowTypes, ThreadTypes
<1>6. Bounds' /\ SellCovered' /\ OnePlacer'
  BY <1>2 DEF IInv, Bounds, SellCovered, OnePlacer
<1>7. BrokerAhead'
  <2>1. \A o \in Orders : bFilled[o] = 0
    BY <1>1, <1>2 DEF IInv, BrokerAhead, Recovering
  <2> QED  BY <1>2, <1>3, <2>1, OrdersAssumption DEF BrokerAhead, BrokerStatuses, TerminalStatuses
<1>8. \A t \in Threads : ThreadOK(t)'
  BY <1>1, <1>2
     DEF IInv, ThreadOK, Recovering, Working, Placing, Known, Receipt, Settling, Remembered
<1>9. Recovering' /\ NoStrandedFill'
  BY <1>2 DEF Recovering, NoStrandedFill
<1> QED  BY <1>5, <1>6, <1>7, <1>8, <1>9 DEF IInv

-----------------------------------------------------------------------------
(* Theorems *)

LEMMA InitIInv ==
    ASSUME Init
    PROVE  IInv
<1>1. TypeOK
  <2>1. RowTypes /\ BrokerTypes
    BY OrdersAssumption DEF Init, RowTypes, BrokerTypes
  <2>2. ProcessTypes
    <3>1. MaxCrashes \in Nat
      BY OrdersAssumption
    <3>2. crashes \in 0..MaxCrashes
      BY <3>1 DEF Init
    <3>3. phase \in {"up", "recover"} /\ safe \in BOOLEAN
      BY Zenon DEF Init
    <3> QED  BY <3>2, <3>3 DEF ProcessTypes
  <2>3. ThreadTypes
    BY DEF Init, ThreadTypes
  <2> QED  BY <2>1, <2>2, <2>3 DEF TypeOK
<1>2. Bounds /\ BrokerAhead /\ NoStrandedFill
  BY OrdersAssumption DEF Init, Bounds, BrokerAhead, BrokerStatuses, NoStrandedFill
<1>3. OnePlacer /\ Recovering /\ SellCovered
  BY DEF Init, OnePlacer, Recovering, SellCovered
<1>4. \A t \in Threads : ThreadOK(t)
  BY DEF Init, ThreadOK, Working, Placing, Known, Receipt, Settling, Remembered
<1> QED  BY <1>1, <1>2, <1>3, <1>4 DEF IInv

LEMMA NextIInv ==
    ASSUME IInv, [Next]_vars
    PROVE  IInv'
<1>1. ASSUME NEW t \in Threads, Step(t) PROVE IInv'
  <2>1. CASE \E o \in Orders : TakeRow(t, o)
    BY <2>1, TakeRowStep
  <2>2. CASE PassDone(t) \/ \E o \in Orders : RowWithoutBrokerId(t, o)
    <3>1. /\ phase = "up" /\ pc[t] = "scan" /\ Finish(t) /\ safe' \in BOOLEAN
          /\ UNCHANGED <<dbVars, brokerVars, phase, crashes>>
      BY <2>2 DEF PassDone, RowWithoutBrokerId, IInv, TypeOK, ProcessTypes, procVars
    <3> QED  BY <3>1, FinishStep
  <2> QED
    BY <1>1, <2>1, <2>2, LookupStep, ReserveStep, PlaceStep, PlaceFailsStep, RecordStep, FetchStep,
       FetchFailsStep, StoreStep, ConflictStep, ApplyStep, AfterStep, CancelStep DEF Step
<1>2. ASSUME NEW t \in Threads, SettleBegin(t) PROVE IInv'
  BY <1>2, ReadStep DEF SettleBegin
<1>3. ASSUME NEW t \in Threads, NEW o \in Orders, ExecuteBuy(t, o) \/ DecideSell(t, o) PROVE IInv'
  <2>1. StartSubmit(t, o) /\ phase = "up" /\ pc[t] = "idle"
        /\ (Side[o] = "SELL" => Qty[o] <= core[Symbol[o]])
    BY <1>3 DEF ExecuteBuy, DecideSell
  <2> QED  BY <2>1, StartStep
<1>4. ASSUME MonitorBegin PROVE IInv'
  BY <1>4, ReadStep DEF MonitorBegin, Threads
<1>5. CASE Startup
  BY <1>5, RestoreStep, RecoverStep DEF Startup
<1>6. CASE UNCHANGED vars
  <2> USE <1>6 DEF vars, dbVars, brokerVars, procVars, threadVars, IInv
  <2>1. TypeOK'
    BY DEF TypeOK, RowTypes, BrokerTypes, ProcessTypes, ThreadTypes
  <2>2. Bounds' /\ BrokerAhead'
    BY DEF Bounds, BrokerAhead
  <2>3. OnePlacer' /\ Recovering' /\ SellCovered' /\ NoStrandedFill'
    BY DEF OnePlacer, Recovering, SellCovered, NoStrandedFill, WillApply
  <2>4. ASSUME NEW t \in Threads PROVE ThreadOK(t)'
    <3>1. Working(t) /\ Placing(t) /\ Known(t) /\ Receipt(t) /\ Settling(t) /\ Remembered(t)
      BY DEF ThreadOK
    <3>2. Working(t)' /\ Placing(t)' /\ Known(t)'
      BY <3>1 DEF Working, Placing, Known
    <3>3. Receipt(t)' /\ Settling(t)' /\ Remembered(t)'
      BY <3>1 DEF Receipt, Settling, Remembered
    <3> QED  BY <3>2, <3>3 DEF ThreadOK
  <2> QED  BY <2>1, <2>2, <2>3, <2>4
<1> QED  BY <1>1, <1>2, <1>3, <1>4, <1>5, <1>6, CrashStep DEF Next

\* The inductive invariant: everything below follows from it.
THEOREM Invariance == Spec => []IInv
BY InitIInv, NextIInv, PTL DEF Spec

\* Every variable keeps its type; in particular no position is ever negative.
THEOREM TypeCorrectness == Spec => []TypeOK
BY Invariance, PTL DEF IInv

\* The hazard of the delta accounting: no interleaving of monitor, settle loop,
\* handlers and crashes leaves a stored fill with nobody bound to apply it.
THEOREM NoFillIsStranded == Spec => []NoStrandedFill
BY Invariance, PTL DEF IInv

\* A submitted SELL never asks the ledger for shares it does not have.
THEOREM SellsStayCovered == Spec => []LedgerCoversSells
<1>1. IInv => LedgerCoversSells
  BY DEF IInv, SellCovered, LedgerCoversSells
<1> QED  BY <1>1, Invariance, PTL

\* What one step may do to a row of `orders` and to its progress.
RowStep(o) ==
    /\ status[o] \in TerminalStatuses => status'[o] = status[o]
    /\ status[o] # "NONE" => status'[o] # "NONE"
    /\ filled'[o] >= filled[o]
    /\ applied'[o] >= applied[o]

LEMMA NextRowStep ==
    ASSUME IInv, IInv', [Next]_vars
    PROVE  \A o \in Orders : RowStep(o)
<1>1. \A o \in Orders : /\ filled[o] \in Nat /\ applied[o] \in Nat
                        /\ filled'[o] \in Nat /\ applied'[o] \in Nat
  BY DEF IInv, TypeOK, RowTypes
<1>2. CASE UNCHANGED dbVars
  BY <1>1, <1>2 DEF RowStep, dbVars
<1>3. ASSUME NEW t \in Threads, RecordPlacement(t) \/ StoreReceipt(t)
      PROVE  \A o \in Orders : RowStep(o)
  <2>1. ThreadOK(t) /\ Working(t) /\ TypeOK
    BY DEF IInv, ThreadOK
  <2>2. RecordDoes(t) \/ StoreDoes(t)
    BY <1>3, <2>1, RecordEffect, StoreEffect
  <2>3. rStatus[t] # "NONE"
    BY <1>3, <2>1 DEF ThreadOK, Receipt, RecordPlacement, StoreReceipt
  <2>4. /\ applied' = applied /\ OtherRows(job[t])
        /\ UpdateAllowed(job[t], rStatus[t], rFilled[t])
        /\ status'[job[t]] = rStatus[t] /\ filled'[job[t]] = rFilled[t]
    BY <2>2 DEF RecordDoes, StoreDoes
  <2> QED  BY <1>1, <2>3, <2>4 DEF RowStep, OtherRows, UpdateAllowed
<1>4. ASSUME NEW t \in Threads, ReserveOrder(t) \/ PlaceOrderFails(t)
      PROVE  \A o \in Orders : RowStep(o)
  <2>1. ThreadOK(t) /\ Working(t) /\ TypeOK
    BY DEF IInv, ThreadOK
  <2>2. ReserveDoes(t) \/ PlaceFailsDoes(t)
    BY <1>4, <2>1, ReserveEffect, PlaceFailsEffect
  <2>3. PlaceOrderFails(t) => status[job[t]] = "CREATED"
    BY <2>1 DEF ThreadOK, Placing, PlaceOrderFails
  <2>4. UNCHANGED <<filled, applied>> /\ OtherRows(job[t])
    BY <2>2 DEF ReserveDoes, PlaceFailsDoes
  <2>5. ASSUME PlaceOrderFails(t) PROVE status'[job[t]] = "UNKNOWN"
    BY <2>1, <2>5, PlaceFailsEffect DEF PlaceFailsDoes
  <2>6. ASSUME ReserveOrder(t)
        PROVE  (status[job[t]] = "NONE" /\ status'[job[t]] = "CREATED") \/ status' = status
    BY <2>1, <2>6, ReserveEffect DEF ReserveDoes
  <2> QED  BY <1>1, <1>4, <2>3, <2>4, <2>5, <2>6 DEF RowStep, OtherRows, TerminalStatuses
<1>5. ASSUME NEW o \in Orders, ApplyFill(o), ~Oversold(o)
      PROVE  \A p \in Orders : RowStep(p)
  <2>1. /\ applied'[o] = filled[o] /\ \A p \in Orders \ {o} : applied'[p] = applied[p]
        /\ UNCHANGED <<status, filled, brokerId>>
    BY <1>5, ApplyFillEffect DEF ApplyFill, IInv, TypeOK
  <2>2. applied[o] <= filled[o]
    BY DEF IInv, Bounds
  <2> QED  BY <1>1, <2>1, <2>2 DEF RowStep
<1>6. ASSUME NEW t \in Threads, ApplyCoreFill(t) PROVE \A p \in Orders : RowStep(p)
  <2>1. job[t] \in Orders
    BY <1>6 DEF IInv, ThreadOK, Working, ApplyCoreFill
  <2>2. UNCHANGED dbVars \/ (ApplyFill(job[t]) /\ ~Oversold(job[t]))
    BY <1>6 DEF ApplyCoreFill
  <2> QED  BY <1>2, <1>5, <2>1, <2>2
<1>7. ASSUME NEW o \in Orders, RecoverFill(o) PROVE \A p \in Orders : RowStep(p)
  BY <1>5, <1>7 DEF RecoverFill
<1>8. ASSUME NEW t \in Threads, Step(t) PROVE \A p \in Orders : RowStep(p)
  <2>1. CASE LookupOrder(t) \/ PlaceOrder(t) \/ FetchOrder(t) \/ FetchFails(t) \/ ReceiptConflict(t)
    BY <1>2, <2>1 DEF LookupOrder, PlaceOrder, FetchOrder, FetchFails, ReceiptConflict
  <2>2. CASE PassDone(t) \/ MonitorAfterFill(t) \/ CancelOrder(t)
             \/ \E o \in Orders : TakeRow(t, o) \/ RowWithoutBrokerId(t, o)
    BY <1>2, <2>2 DEF PassDone, MonitorAfterFill, CancelOrder, TakeRow, RowWithoutBrokerId
  <2> QED  BY <1>3, <1>4, <1>6, <1>8, <2>1, <2>2 DEF Step
<1>9. CASE \/ \E t \in Threads : SettleBegin(t)
           \/ \E t \in Threads, o \in Orders : ExecuteBuy(t, o) \/ DecideSell(t, o)
           \/ MonitorBegin \/ Crash \/ RestoreBroker \/ UNCHANGED vars
  BY <1>2, <1>9 DEF SettleBegin, MonitorBegin, ReadOpenOrders, ExecuteBuy, DecideSell, StartSubmit,
     Crash, RestoreBroker, vars, dbVars
<1> QED  BY <1>7, <1>8, <1>9 DEF Next, Startup

\* A final status is never reopened, no fill and no applied share is ever lost.
THEOREM RowsDoNotRegress == Spec => RowsNeverRegress
<1>1. ASSUME IInv, IInv', [Next]_vars
      PROVE  [\A o \in Orders :
                 /\ status[o] \in TerminalStatuses => status'[o] = status[o]
                 /\ status[o] # "NONE" => status'[o] # "NONE"
                 /\ filled'[o] >= filled[o]
                 /\ applied'[o] >= applied[o]]_vars
  BY <1>1, NextRowStep DEF RowStep
<1> QED  BY <1>1, Invariance, PTL DEF Spec, RowsNeverRegress

-----------------------------------------------------------------------------
(* Lost orders *)

\* A step that neither opens a row nor loses an order, and interrupts no placement.
LEMMA NothingIsLost ==
    ASSUME LostOrdersAreNoticed,
           phase' = "up" => phase = "up",
           safe => safe',
           \A o \in Orders : Open(o)' /\ bStatus'[o] = "NONE" => Open(o) /\ bStatus[o] = "NONE",
           \A t \in Threads : pc[t] = "place" => pc'[t] = "place" /\ job'[t] = job[t]
    PROVE  LostOrdersAreNoticed'
BY DEF LostOrdersAreNoticed

\* The steps of a thread that is not placing, and that leaves rows and broker alone.
LEMMA ThreadKeepsOrders ==
    ASSUME LostOrdersAreNoticed, ThreadTypes, NEW t \in Threads, pc[t] # "place", Others(t),
           UNCHANGED <<status, bStatus, phase>>, safe => safe'
    PROVE  LostOrdersAreNoticed'
<1>1. \A u \in Threads : pc[u] = "place" => pc'[u] = "place" /\ job'[u] = job[u]
  BY DEF Others
<1> QED  BY <1>1, NothingIsLost DEF Open

\* The same, where the thread writes the row or the broker's order of its job, and the
\* broker holds that order afterwards.
LEMMA HeldOrderIsNotLost ==
    ASSUME LostOrdersAreNoticed, NEW t \in Threads, Others(t), NEW o \in Orders,
           o = job[t], bStatus'[o] # "NONE",
           \A p \in Orders \ {o} : status'[p] = status[p] /\ bStatus'[p] = bStatus[p],
           phase' = phase, safe => safe'
    PROVE  LostOrdersAreNoticed'
<1> SUFFICES ASSUME NEW p \in Orders, phase' = "up", Open(p)', bStatus'[p] = "NONE", ~safe'
             PROVE  \E u \in Threads : pc'[u] = "place" /\ job'[u] = p
  BY DEF LostOrdersAreNoticed
<1>1. p # o /\ Open(p) /\ bStatus[p] = "NONE" /\ phase = "up" /\ ~safe
  BY DEF Open
<1>2. PICK u \in Threads : pc[u] = "place" /\ job[u] = p
  BY <1>1 DEF LostOrdersAreNoticed
<1>3. u # t
  BY <1>1, <1>2
<1> QED  BY <1>2, <1>3 DEF Others

LEMMA PlacementIsNotLost ==
    ASSUME IInv, LostOrdersAreNoticed, NEW t \in Threads,
           \/ ReserveOrder(t) \/ PlaceOrder(t) \/ PlaceOrderFails(t) \/ RecordPlacement(t)
    PROVE  LostOrdersAreNoticed'
<1>1. TypeOK /\ RowTypes /\ BrokerTypes /\ ThreadTypes /\ BrokerAhead /\ ThreadOK(t)
  BY DEF IInv, TypeOK
<1>2. job[t] \in Orders
  BY <1>1 DEF ThreadOK, Working, ReserveOrder, PlaceOrder, PlaceOrderFails, RecordPlacement
<1>3. CASE ReserveOrder(t)
  <2>1. CASE status[job[t]] = "NONE"
    <3>1. /\ status' = [status EXCEPT ![job[t]] = "CREATED"]
          /\ Continue(t, "place") /\ UNCHANGED <<bStatus, phase, safe>>
      BY <1>3, <2>1 DEF ReserveOrder, procVars, brokerVars
    <3>2. Others(t) /\ pc'[t] = "place" /\ job'[t] = job[t]
      BY <1>1, <3>1, ContinueEffect DEF ContinuesAt
    <3>3. pc[t] # "place"
      BY <1>3 DEF ReserveOrder
    <3> SUFFICES ASSUME NEW o \in Orders, phase' = "up", Open(o)', bStatus'[o] = "NONE", ~safe'
                 PROVE  \E u \in Threads : pc'[u] = "place" /\ job'[u] = o
      BY DEF LostOrdersAreNoticed
    <3>4. CASE o = job[t]
      BY <3>2, <3>4
    <3>5. CASE o # job[t]
      <4>1. Open(o) /\ bStatus[o] = "NONE" /\ phase = "up" /\ ~safe
        BY <1>1, <1>2, <3>1, <3>5 DEF Open, RowTypes
      <4>2. PICK u \in Threads : pc[u] = "place" /\ job[u] = o
        BY <4>1 DEF LostOrdersAreNoticed
      <4> QED  BY <3>2, <3>3, <4>2 DEF Others
    <3> QED  BY <3>4, <3>5
  <2>2. CASE status[job[t]] # "NONE"
    BY <1>3, <2>2 DEF ReserveOrder, LostOrdersAreNoticed
  <2> QED  BY <2>1, <2>2
<1>4. CASE PlaceOrder(t)
  <2>1. PICK n \in FillLevels(job[t]) : BrokerFill(job[t], n)
    BY <1>4 DEF PlaceOrder
  <2>2. n \in Nat
    BY <1>1, <1>2, FillLevelsBound
  <2>3. /\ bStatus'[job[t]] # "NONE"
        /\ \A p \in Orders \ {job[t]} : bStatus'[p] = bStatus[p]
    BY <1>1, <1>2, <2>1, <2>2, BrokerFillEffect
  <2>4. Others(t) /\ UNCHANGED <<status, phase, safe>>
    BY <1>1, <1>4 DEF PlaceOrder, Goto, Others, ThreadTypes, dbVars, procVars
  <2> QED  BY <1>2, <2>3, <2>4, HeldOrderIsNotLost
<1>5. CASE PlaceOrderFails(t)
  BY <1>5 DEF PlaceOrderFails, LostOrdersAreNoticed
<1>6. CASE RecordPlacement(t)
  <2>1. bStatus[job[t]] # "NONE"
    BY <1>1, <1>6 DEF ThreadOK, Placing, RecordPlacement
  <2>2. Others(t)
    BY <1>1, <1>6, ContinueEffect, FinishEffect DEF RecordPlacement, ContinuesAt, IsFinished
  <2>3. /\ UNCHANGED <<bStatus, phase, safe>>
        /\ \A p \in Orders \ {job[t]} : status'[p] = status[p]
    BY <1>1, <1>6 DEF RecordPlacement, brokerVars, procVars, RowTypes
  <2> QED  BY <1>2, <2>1, <2>2, <2>3, HeldOrderIsNotLost
<1> QED  BY <1>3, <1>4, <1>5, <1>6

LEMMA RefreshIsNotLost ==
    ASSUME IInv, LostOrdersAreNoticed, NEW t \in Threads,
           FetchOrder(t) \/ StoreReceipt(t) \/ CancelOrder(t)
    PROVE  LostOrdersAreNoticed'
<1>1. TypeOK /\ RowTypes /\ BrokerTypes /\ ThreadTypes /\ BrokerAhead /\ ThreadOK(t)
  BY DEF IInv, TypeOK
<1>2. job[t] \in Orders
  BY <1>1 DEF ThreadOK, Working, FetchOrder, StoreReceipt, CancelOrder
<1>3. CASE FetchOrder(t)
  <2>1. /\ bStatus'[job[t]] # "NONE"
        /\ \A p \in Orders \ {job[t]} : bStatus'[p] = bStatus[p]
    <3>1. CASE BrokerOpen(job[t])
      <4>1. PICK n \in FillLevels(job[t]) : BrokerFill(job[t], n)
        BY <1>3, <3>1 DEF FetchOrder
      <4>2. n \in Nat
        BY <1>1, <1>2, FillLevelsBound
      <4> QED  BY <1>1, <1>2, <4>1, <4>2, BrokerFillEffect
    <3>2. CASE ~BrokerOpen(job[t])
      BY <1>3, <3>2 DEF FetchOrder, brokerVars
    <3> QED  BY <3>1, <3>2
  <2>2. Others(t) /\ UNCHANGED <<status, phase, safe>>
    BY <1>1, <1>3 DEF FetchOrder, Goto, Others, ThreadTypes, dbVars, procVars
  <2> QED  BY <1>2, <2>1, <2>2, HeldOrderIsNotLost
<1>4. CASE StoreReceipt(t)
  <2>1. bStatus[job[t]] # "NONE"
    BY <1>1, <1>4 DEF ThreadOK, Known, StoreReceipt
  <2>2. Others(t)
    BY <1>1, <1>4, ContinueEffect, ResumeEffect
       DEF StoreReceipt, ContinuesAt, IsFinished, TakesNextRow
  <2>3. /\ UNCHANGED <<bStatus, phase>> /\ (safe => safe')
        /\ \A p \in Orders \ {job[t]} : status'[p] = status[p]
    BY <1>1, <1>4 DEF StoreReceipt, brokerVars, RowTypes
  <2> QED  BY <1>2, <2>1, <2>2, <2>3, HeldOrderIsNotLost
<1>5. CASE CancelOrder(t)
  <2>1. bStatus[job[t]] # "NONE"
    BY <1>1, <1>5 DEF ThreadOK, Known, CancelOrder
  <2>2. /\ bStatus'[job[t]] # "NONE"
        /\ \A p \in Orders \ {job[t]} : bStatus'[p] = bStatus[p]
    BY <1>1, <1>2, <1>5, <2>1 DEF CancelOrder, BrokerTypes
  <2>3. Others(t) /\ UNCHANGED <<status, phase, safe>>
    BY <1>1, <1>5 DEF CancelOrder, Goto, Others, ThreadTypes, dbVars, procVars
  <2> QED  BY <1>2, <2>2, <2>3, HeldOrderIsNotLost
<1> QED  BY <1>3, <1>4, <1>5

\* The remaining steps of a thread write neither `orders` nor the broker's orders.
LEMMA OtherStepsLoseNothing ==
    ASSUME IInv, LostOrdersAreNoticed, NEW t \in Threads,
           \/ LookupOrder(t) \/ FetchFails(t) \/ ReceiptConflict(t) \/ ApplyCoreFill(t)
           \/ PassDone(t) \/ MonitorAfterFill(t) \/ SettleBegin(t) \/ MonitorBegin
           \/ \E o \in Orders : \/ TakeRow(t, o) \/ RowWithoutBrokerId(t, o)
                                \/ ExecuteBuy(t, o) \/ DecideSell(t, o)
    PROVE  LostOrdersAreNoticed'
<1>1. ThreadTypes
  BY DEF IInv, TypeOK
<1>2. CASE LookupOrder(t)
  <2>1. Others(t)
    BY <1>1, <1>2, ContinueEffect, FinishEffect
       DEF LookupOrder, ContinuesAt, IsFinished, Others, Goto, ThreadTypes
  <2>2. UNCHANGED <<status, bStatus, phase>> /\ pc[t] # "place"
    BY <1>2 DEF LookupOrder, dbVars, brokerVars, procVars
  <2>3. safe => safe'
    BY <1>2 DEF LookupOrder, procVars
  <2> QED  BY <1>1, <2>1, <2>2, <2>3, ThreadKeepsOrders
<1>3. CASE FetchFails(t)
  <2>1. Others(t)
    BY <1>1, <1>3, ContinueEffect, FinishEffect, NextRowEffect
       DEF FetchFails, ContinuesAt, IsFinished, TakesNextRow
  <2>2. UNCHANGED <<status, bStatus, phase>> /\ pc[t] # "place"
    BY <1>3 DEF FetchFails, dbVars, brokerVars
  <2>3. safe => safe'
    BY <1>3 DEF FetchFails
  <2> QED  BY <1>1, <2>1, <2>2, <2>3, ThreadKeepsOrders
<1>4. CASE ReceiptConflict(t)
  <2>1. Others(t)
    BY <1>1, <1>4, FinishEffect, NextRowEffect DEF ReceiptConflict, IsFinished, TakesNextRow
  <2>2. UNCHANGED <<status, bStatus, phase>> /\ pc[t] # "place" /\ (safe => safe')
    BY <1>4 DEF ReceiptConflict, dbVars, brokerVars
  <2> QED  BY <1>1, <2>1, <2>2, ThreadKeepsOrders
<1>5. CASE ApplyCoreFill(t)
  <2>1. Others(t)
    BY <1>1, <1>5, FinishEffect, ResumeEffect
       DEF ApplyCoreFill, ContinuesAt, IsFinished, TakesNextRow
  <2>2. UNCHANGED <<status, bStatus, phase>> /\ pc[t] # "place" /\ (safe => safe')
    BY <1>5 DEF ApplyCoreFill, ApplyFill, dbVars, brokerVars
  <2> QED  BY <1>1, <2>1, <2>2, ThreadKeepsOrders
<1>6. CASE PassDone(t) \/ \E o \in Orders : RowWithoutBrokerId(t, o)
  <2>1. Others(t)
    BY <1>1, <1>6, FinishEffect DEF PassDone, RowWithoutBrokerId, IsFinished
  <2>2. UNCHANGED <<status, bStatus, phase>> /\ pc[t] # "place"
    BY <1>6 DEF PassDone, RowWithoutBrokerId, dbVars, brokerVars, procVars
  <2>3. safe => safe'
    BY <1>6 DEF PassDone, RowWithoutBrokerId, procVars
  <2> QED  BY <1>1, <2>1, <2>2, <2>3, ThreadKeepsOrders
<1>7. CASE MonitorAfterFill(t)
  <2>1. Others(t)
    BY <1>1, <1>7, NextRowEffect DEF MonitorAfterFill, TakesNextRow, Others, Goto, ThreadTypes
  <2>2. UNCHANGED <<status, bStatus, phase>> /\ pc[t] # "place"
    BY <1>7 DEF MonitorAfterFill, dbVars, brokerVars
  <2>3. safe => safe'
    BY <1>7 DEF MonitorAfterFill
  <2> QED  BY <1>1, <2>1, <2>2, <2>3, ThreadKeepsOrders
<1>8. CASE SettleBegin(t)
  <2>1. Others(t)
    BY <1>1, <1>8 DEF SettleBegin, ReadOpenOrders, Others, Goto, ThreadTypes
  <2> QED  BY <1>1, <1>8, <2>1, ThreadKeepsOrders
              DEF SettleBegin, ReadOpenOrders, dbVars, brokerVars, procVars
<1>9. CASE MonitorBegin
  <2>1. Scheduler \in Threads /\ Others(Scheduler)
    BY <1>1, <1>9 DEF MonitorBegin, ReadOpenOrders, Others, Goto, ThreadTypes, Threads
  <2> QED  BY <1>1, <1>9, <2>1, ThreadKeepsOrders
              DEF MonitorBegin, ReadOpenOrders, dbVars, brokerVars, procVars
<1>10. CASE \E o \in Orders : TakeRow(t, o) \/ ExecuteBuy(t, o) \/ DecideSell(t, o)
  <2>1. Others(t) /\ pc[t] # "place" /\ UNCHANGED <<status, bStatus, phase, safe>>
    BY <1>1, <1>10, ZenonT(40) DEF TakeRow, ExecuteBuy, DecideSell, StartSubmit, Others, Goto, ThreadTypes,
       dbVars, brokerVars, procVars
  <2> QED  BY <1>1, <2>1, ThreadKeepsOrders
<1> QED  BY <1>2, <1>3, <1>4, <1>5, <1>6, <1>7, <1>8, <1>9, <1>10

LEMMA NextLosesNothing ==
    ASSUME IInv, LostOrdersAreNoticed, [Next]_vars
    PROVE  LostOrdersAreNoticed'
<1>1. ASSUME NEW t \in Threads, Step(t) PROVE LostOrdersAreNoticed'
  BY <1>1, PlacementIsNotLost, RefreshIsNotLost, OtherStepsLoseNothing DEF Step
<1>2. CASE MonitorBegin
  <2>1. Scheduler \in Threads
    BY DEF Threads
  <2> QED  BY <1>2, <2>1, OtherStepsLoseNothing
<1>3. CASE \/ \E t \in Threads : SettleBegin(t)
           \/ \E t \in Threads, o \in Orders : ExecuteBuy(t, o) \/ DecideSell(t, o)
  BY <1>3, OtherStepsLoseNothing
<1>4. CASE Crash
  BY <1>4 DEF Crash, LostOrdersAreNoticed
<1>5. CASE RestoreBroker
  <2> SUFFICES ASSUME NEW o \in Orders, Open(o)', bStatus'[o] = "NONE"
               PROVE  safe'
    BY DEF LostOrdersAreNoticed
  <2>1. Open(o) /\ ~Restorable(o)
    BY <1>5 DEF RestoreBroker, Open, dbVars
  <2>2. StartupMismatch
    BY <2>1 DEF StartupMismatch
  <2> QED  BY <1>5, <2>2 DEF RestoreBroker
<1>6. CASE (\E o \in Orders : RecoverFill(o)) \/ UNCHANGED vars
  <2>1. /\ UNCHANGED <<status, bStatus, phase, safe, pc, job>>
    BY <1>6 DEF RecoverFill, ApplyFill, brokerVars, procVars, threadVars, vars, dbVars
  <2> QED  BY <2>1, NothingIsLost DEF Open
<1> QED  BY <1>1, <1>2, <1>3, <1>4, <1>5, <1>6 DEF Next, Startup

\* While the bot is up, an open row without an order at the broker means SAFE_MODE, unless
\* a thread is placing that order: no crash and no failed placement is silent.
THEOREM NoOrderIsLostSilently == Spec => []LostOrdersAreNoticed
<1>1. Init => LostOrdersAreNoticed
  BY DEF Init, LostOrdersAreNoticed, Open, OpenStatuses
<1>2. IInv /\ LostOrdersAreNoticed /\ [Next]_vars => LostOrdersAreNoticed'
  BY NextLosesNothing
<1> QED  BY <1>1, <1>2, Invariance, PTL DEF Spec

-----------------------------------------------------------------------------
(* Refinement: rows report, apply_core_fill credits, the rest is a stutter *)

LEMMA ReportStep ==
    ASSUME IInv, NEW t \in Threads, RecordPlacement(t) \/ StoreReceipt(t)
    PROVE  [Abstract!Next]_(Abstract!vars)
<1>1. ThreadOK(t) /\ Working(t) /\ TypeOK
  BY DEF IInv, ThreadOK
<1> DEFINE o == job[t]
           n == rFilled[t]
<1>2. o \in Orders /\ n \in Nat /\ filled[o] \in Nat
  BY <1>1 DEF Working, TypeOK, ThreadTypes, RowTypes, RecordPlacement, StoreReceipt
<1>3. /\ filled' = [filled EXCEPT ![o] = n] /\ UNCHANGED <<applied, core>>
      /\ UpdateAllowed(o, rStatus[t], n)
  BY DEF RecordPlacement, StoreReceipt
<1>4. filled[o] <= n /\ n <= Qty[o] /\ Qty[o] \in Nat
  BY <1>2, <1>3, OrdersAssumption DEF UpdateAllowed
<1>5. CASE n = filled[o]
  <2>1. filled' = filled
    BY <1>1, <1>3, <1>5 DEF TypeOK, RowTypes
  <2> QED  BY <1>3, <2>1 DEF Abstract!vars
<1>6. CASE n # filled[o]
  <2>1. n \in (filled[o] + 1)..Qty[o]
    BY <1>2, <1>4, <1>6
  <2>2. Abstract!Report(o)
    BY <1>3, <2>1 DEF Abstract!Report
  <2> QED  BY <1>2, <2>2 DEF Abstract!Next
<1> QED  BY <1>5, <1>6

LEMMA CreditOrStutter ==
    ASSUME IInv, NEW o \in Orders, ApplyFill(o)
    PROVE  [Abstract!Next]_(Abstract!vars)
<1>1. filled[o] \in Nat /\ applied[o] \in Nat /\ applied[o] <= filled[o]
  BY DEF IInv, TypeOK, RowTypes, Bounds
<1>2. CASE FillDelta(o) > 0
  <2>1. Abstract!Credit(o)
    BY <1>2 DEF Abstract!Credit, ApplyFill, FillDelta
  <2> QED  BY <2>1 DEF Abstract!Next
<1>3. CASE ~(FillDelta(o) > 0)
  <2>1. filled[o] = applied[o] /\ FillDelta(o) = 0
    BY <1>1, <1>3 DEF FillDelta
  <2>2. applied' = applied
    BY <2>1 DEF ApplyFill, IInv, TypeOK, RowTypes
  <2>3. core[Symbol[o]] \in Nat /\ Symbol[o] \in Symbols
    BY OrdersAssumption DEF IInv, TypeOK, RowTypes
  <2>4. core' = [core EXCEPT ![Symbol[o]] = core[Symbol[o]]]
    <3>1. core' = [core EXCEPT ![Symbol[o]] =
                      IF Side[o] = "BUY" THEN core[Symbol[o]] + FillDelta(o)
                                         ELSE core[Symbol[o]] - FillDelta(o)]
      BY DEF ApplyFill
    <3>2. core[Symbol[o]] + FillDelta(o) = core[Symbol[o]]
          /\ core[Symbol[o]] - FillDelta(o) = core[Symbol[o]]
      BY <2>1, <2>3
    <3> QED  BY <3>1, <3>2
  <2>5. core' = core
    BY <2>3, <2>4 DEF IInv, TypeOK, RowTypes
  <2> QED  BY <2>2, <2>5 DEF ApplyFill, Abstract!vars
<1> QED  BY <1>2, <1>3

LEMMA NextRefines ==
    ASSUME IInv, [Next]_vars
    PROVE  [Abstract!Next]_(Abstract!vars)
<1>1. CASE UNCHANGED <<filled, applied, core>>
  BY <1>1 DEF Abstract!vars
<1>2. ASSUME NEW t \in Threads, Step(t) PROVE [Abstract!Next]_(Abstract!vars)
  <2>1. CASE RecordPlacement(t) \/ StoreReceipt(t)
    BY <2>1, ReportStep
  <2>2. CASE ApplyCoreFill(t)
    <3>1. job[t] \in Orders
      BY <2>2 DEF IInv, ThreadOK, Working, ApplyCoreFill
    <3>2. UNCHANGED <<filled, applied, core>> \/ ApplyFill(job[t])
      BY <2>2 DEF ApplyCoreFill, dbVars
    <3> QED  BY <1>1, <3>1, <3>2, CreditOrStutter
  <2>3. CASE LookupOrder(t) \/ ReserveOrder(t) \/ PlaceOrder(t) \/ PlaceOrderFails(t)
             \/ FetchOrder(t) \/ FetchFails(t) \/ ReceiptConflict(t)
    BY <1>1, <2>3
       DEF LookupOrder, ReserveOrder, PlaceOrder, PlaceOrderFails, FetchOrder, FetchFails,
           ReceiptConflict, dbVars
  <2>4. CASE PassDone(t) \/ MonitorAfterFill(t) \/ CancelOrder(t)
             \/ \E o \in Orders : TakeRow(t, o) \/ RowWithoutBrokerId(t, o)
    BY <1>1, <2>4 DEF PassDone, MonitorAfterFill, CancelOrder, TakeRow, RowWithoutBrokerId, dbVars
  <2> QED  BY <1>2, <2>1, <2>2, <2>3, <2>4 DEF Step
<1>3. ASSUME NEW o \in Orders, RecoverFill(o) PROVE [Abstract!Next]_(Abstract!vars)
  BY <1>3, CreditOrStutter DEF RecoverFill
<1>4. CASE \/ \E t \in Threads : SettleBegin(t)
           \/ \E t \in Threads, o \in Orders : ExecuteBuy(t, o) \/ DecideSell(t, o)
           \/ MonitorBegin \/ Crash \/ RestoreBroker \/ UNCHANGED vars
  BY <1>1, <1>4 DEF SettleBegin, MonitorBegin, ReadOpenOrders, ExecuteBuy, DecideSell, StartSubmit,
     Crash, RestoreBroker, vars, dbVars
<1> QED  BY <1>2, <1>3, <1>4 DEF Next, Startup

\* The machine of threads, rows and broker implements the exactly-once ledger.
THEOREM RefinesExactlyOnce == Spec => ImplementsExactlyOnce
<1>1. Init => Abstract!Init
  BY DEF Init, Abstract!Init
<1> QED  BY <1>1, NextRefines, Invariance, PTL DEF Spec, ImplementsExactlyOnce, Abstract!Spec

-----------------------------------------------------------------------------
(* Shares: ledger and broker are sums over the orders *)

\* An order the broker does not hold has no fill left to apply while the bot is up.
LostIsApplied ==
    phase = "up" => \A o \in Orders : bStatus[o] = "NONE" => filled[o] = applied[o]

Shares == LedgerIsAppliedFills /\ BrokerDiffersByFillsInFlight /\ LostIsApplied

\* What a change d of one order's quantity moves.
MovedByOrder(s, o, d) ==
    IF Symbol[o] # s THEN 0 ELSE IF Side[o] = "BUY" THEN d ELSE -d

LEMMA MovedType ==
    ASSUME NEW s, NEW n \in [Orders -> Int]
    PROVE  Moved(s, n) \in Int
<1> DEFINE f == [o \in Orders |-> IF Symbol[o] # s THEN 0 ELSE IF Side[o] = "BUY" THEN n[o] ELSE -n[o]]
<1>1. f \in [Orders -> Int]
  OBVIOUS
<1>2. SumFunction(f) \in Int
  <2> HIDE DEF f
  <2> QED  BY <1>1, OrdersAssumption, SumType
<1> QED  BY <1>2 DEF Moved

LEMMA MovedChange ==
    ASSUME NEW s, NEW n \in [Orders -> Int], NEW m \in [Orders -> Int], NEW o \in Orders,
           \A p \in Orders \ {o} : m[p] = n[p]
    PROVE  Moved(s, m) = Moved(s, n) + MovedByOrder(s, o, m[o] - n[o])
<1> DEFINE F(k) == [p \in Orders |-> IF Symbol[p] # s THEN 0 ELSE IF Side[p] = "BUY" THEN k[p] ELSE -k[p]]
<1>1. F(n) \in [Orders -> Int] /\ F(m) \in [Orders -> Int]
  OBVIOUS
<1>2. \A p \in Orders \ {o} : F(m)[p] = F(n)[p]
  OBVIOUS
<1>3. F(m)[o] - F(n)[o] = MovedByOrder(s, o, m[o] - n[o])
  BY DEF MovedByOrder
<1>4. SumFunction(F(m)) = SumFunction(F(n)) + (F(m)[o] - F(n)[o])
  <2> HIDE DEF F
  <2> QED  BY <1>1, <1>2, OrdersAssumption, SumChange
<1> QED  BY <1>3, <1>4 DEF Moved

LEMMA MovedNothing ==
    ASSUME NEW s, NEW n \in [Orders -> Int], \A o \in Orders : n[o] = 0
    PROVE  Moved(s, n) = 0
<1> DEFINE f == [o \in Orders |-> IF Symbol[o] # s THEN 0 ELSE IF Side[o] = "BUY" THEN n[o] ELSE -n[o]]
<1>1. f \in [Orders -> Int] /\ \A o \in Orders : f[o] = 0
  OBVIOUS
<1>2. SumFunction(f) = 0
  <2> HIDE DEF f
  <2> QED  BY <1>1, OrdersAssumption, SumOfZeros
<1> QED  BY <1>2 DEF Moved

LEMMA InFlightType == TypeOK => InFlight \in [Orders -> Int]
BY DEF TypeOK, RowTypes, BrokerTypes, InFlight

\* The broker fills an open order, or one it has just been given: its shares and the
\* fills in flight move together.
LEMMA BrokerFillShares ==
    ASSUME IInv, Shares, phase = "up", NEW o \in Orders, NEW n \in FillLevels(o), BrokerFill(o, n),
           bStatus[o] = "NONE" => filled[o] = 0, UNCHANGED <<dbVars, procVars>>
    PROVE  Shares'
<1>1. TypeOK /\ RowTypes /\ BrokerTypes /\ Bounds /\ BrokerAhead
  BY DEF IInv, TypeOK
<1>2. n \in Nat /\ bFilled[o] \in Nat /\ applied[o] \in Nat /\ filled[o] \in Nat
  BY <1>1, FillLevelsBound DEF RowTypes, BrokerTypes
<1>3. /\ BrokerTypes' /\ bStatus'[o] # "NONE" /\ bFilled'[o] = n
      /\ \A p \in Orders \ {o} : bStatus'[p] = bStatus[p] /\ bFilled'[p] = bFilled[p]
  BY <1>1, <1>2, BrokerFillEffect
<1>4. UNCHANGED <<status, filled, brokerId, applied, core, phase>>
  BY DEF dbVars, procVars
<1>5. InFlight \in [Orders -> Int] /\ InFlight' \in [Orders -> Int]
  BY <1>1, <1>3, <1>4 DEF RowTypes, BrokerTypes, InFlight
<1>6. InFlight[o] = bFilled[o] - applied[o]
  BY <1>1, <1>2 DEF InFlight, Bounds, BrokerAhead
<1>7. InFlight'[o] = n - applied[o] /\ \A p \in Orders \ {o} : InFlight'[p] = InFlight[p]
  BY <1>3, <1>4 DEF InFlight
<1>8. ASSUME NEW s \in Symbols
      PROVE  held'[s] = core'[s] + Moved(s, InFlight')
  <2>1. held[s] = core[s] + Moved(s, InFlight)
    BY DEF Shares, BrokerDiffersByFillsInFlight
  <2>2. Moved(s, InFlight') = Moved(s, InFlight) + MovedByOrder(s, o, InFlight'[o] - InFlight[o])
    <3> HIDE DEF InFlight
    <3> QED  BY <1>5, <1>7, MovedChange
  <2>3. InFlight'[o] - InFlight[o] = n - bFilled[o]
    BY <1>2, <1>6, <1>7
  <2>4. held'[s] = held[s] + MovedByOrder(s, o, n - bFilled[o])
    <3>1. Symbol[o] \in Symbols /\ held[Symbol[o]] \in Int /\ held \in [Symbols -> Int]
      BY <1>1, OrdersAssumption DEF BrokerTypes
    <3> QED  BY <1>2, <3>1 DEF BrokerFill, MovedByOrder
  <2>5. Moved(s, InFlight) \in Int /\ core[s] \in Int /\ MovedByOrder(s, o, n - bFilled[o]) \in Int
    BY <1>1, <1>2, <1>5, MovedType DEF RowTypes, MovedByOrder
  <2> QED  BY <1>4, <2>1, <2>2, <2>3, <2>4, <2>5
<1>9. LostIsApplied'
  BY <1>3, <1>4 DEF Shares, LostIsApplied
<1>10. LedgerIsAppliedFills'
  BY <1>4 DEF Shares, LedgerIsAppliedFills, Moved
<1> QED  BY <1>8, <1>9, <1>10 DEF Shares, BrokerDiffersByFillsInFlight, Moved

\* apply_core_fill: ledger, applied quantities and fills in flight move together.
LEMMA CreditShares ==
    ASSUME IInv, Shares, NEW o \in Orders, ApplyFill(o), ~Oversold(o),
           UNCHANGED <<brokerVars, phase>>
    PROVE  Shares'
<1>1. TypeOK /\ RowTypes /\ BrokerTypes /\ Bounds
  BY DEF IInv, TypeOK
<1>2. /\ RowTypes' /\ applied'[o] = filled[o]
      /\ \A p \in Orders \ {o} : applied'[p] = applied[p]
      /\ core'[Symbol[o]] = (IF Side[o] = "BUY" THEN core[Symbol[o]] + FillDelta(o)
                                                ELSE core[Symbol[o]] - FillDelta(o))
      /\ \A s \in Symbols \ {Symbol[o]} : core'[s] = core[s]
  BY <1>1, ApplyFillEffect
<1>3. UNCHANGED <<status, filled, brokerId, bStatus, bFilled, held, phase>>
  BY DEF ApplyFill, brokerVars
<1>4. FillDelta(o) = filled[o] - applied[o] /\ FillDelta(o) \in Int
  BY <1>1 DEF FillDelta, RowTypes
<1>5. ASSUME NEW s \in Symbols
      PROVE  core'[s] = core[s] + MovedByOrder(s, o, FillDelta(o))
  BY <1>1, <1>2, <1>4 DEF MovedByOrder, RowTypes
<1>6. applied \in [Orders -> Int] /\ applied' \in [Orders -> Int]
  BY <1>1, <1>2 DEF RowTypes
<1>7. ASSUME NEW s \in Symbols
      PROVE  core'[s] = InitialQty[s] + Moved(s, applied')
  <2>1. core[s] = InitialQty[s] + Moved(s, applied)
    BY DEF Shares, LedgerIsAppliedFills
  <2>2. Moved(s, applied') = Moved(s, applied) + MovedByOrder(s, o, FillDelta(o))
    BY <1>2, <1>4, <1>6, MovedChange
  <2>3. /\ Moved(s, applied) \in Int /\ InitialQty[s] \in Int
        /\ MovedByOrder(s, o, FillDelta(o)) \in Int
    BY <1>4, <1>6, MovedType, OrdersAssumption DEF MovedByOrder
  <2> QED  BY <1>5, <2>1, <2>2, <2>3
<1>8. InFlight \in [Orders -> Int] /\ InFlight' \in [Orders -> Int]
  BY <1>1, <1>2, <1>3 DEF RowTypes, BrokerTypes, InFlight
<1>9. \A p \in Orders \ {o} : InFlight'[p] = InFlight[p]
  BY <1>2, <1>3 DEF InFlight
<1>10. ASSUME phase = "up", NEW s \in Symbols
       PROVE  held'[s] = core'[s] + Moved(s, InFlight')
  <2>1. held[s] = core[s] + Moved(s, InFlight)
    BY <1>10 DEF Shares, BrokerDiffersByFillsInFlight
  <2>2. Moved(s, InFlight') = Moved(s, InFlight) + MovedByOrder(s, o, InFlight'[o] - InFlight[o])
    <3> HIDE DEF InFlight
    <3> QED  BY <1>8, <1>9, MovedChange
  <2>3. InFlight'[o] - InFlight[o] = -FillDelta(o)
    BY <1>1, <1>2, <1>3, <1>4, <1>10
       DEF InFlight, Shares, LostIsApplied, RowTypes, BrokerTypes
  <2>4. MovedByOrder(s, o, -FillDelta(o)) = -MovedByOrder(s, o, FillDelta(o))
        /\ MovedByOrder(s, o, FillDelta(o)) \in Int
    BY <1>4 DEF MovedByOrder
  <2>5. Moved(s, InFlight) \in Int /\ core[s] \in Int
    BY <1>1, <1>8, MovedType DEF RowTypes
  <2> QED  BY <1>3, <1>5, <2>1, <2>2, <2>3, <2>4, <2>5
<1>11. LostIsApplied'
  BY <1>2, <1>3 DEF Shares, LostIsApplied
<1> QED
  BY <1>3, <1>7, <1>10, <1>11
     DEF Shares, LedgerIsAppliedFills, BrokerDiffersByFillsInFlight, Moved

\* Steps that leave the shares alone, and the orders that the broker holds.
LEMMA QuietShares ==
    ASSUME IInv, Shares, UNCHANGED <<applied, core, held, bFilled, phase>>,
           \A o \in Orders : bStatus'[o] = "NONE" <=> bStatus[o] = "NONE",
           \A o \in Orders : bStatus[o] = "NONE" => filled'[o] = filled[o]
    PROVE  Shares'
<1>1. InFlight' = InFlight
  BY DEF InFlight
<1>2. LedgerIsAppliedFills'
  BY DEF Shares, LedgerIsAppliedFills, Moved
<1>3. BrokerDiffersByFillsInFlight'
  BY <1>1 DEF Shares, BrokerDiffersByFillsInFlight, Moved
<1>4. LostIsApplied'
  BY DEF Shares, LostIsApplied
<1> QED  BY <1>2, <1>3, <1>4 DEF Shares

LEMMA StepShares ==
    ASSUME IInv, Shares, NEW t \in Threads, Step(t)
    PROVE  Shares'
<1>1. ThreadOK(t) /\ Working(t) /\ Placing(t) /\ Known(t) /\ TypeOK /\ Bounds /\ BrokerAhead
  BY DEF IInv, ThreadOK
<1>2. CASE UNCHANGED <<filled, applied, core, held, bStatus, bFilled, phase>>
  BY <1>2, QuietShares
<1>3. CASE PlaceOrder(t)
  <2>1. job[t] \in Orders /\ bStatus[job[t]] = "NONE" /\ filled[job[t]] = 0
    BY <1>1, <1>3 DEF PlaceOrder, Working, Placing
  <2>2. PICK n \in FillLevels(job[t]) : BrokerFill(job[t], n)
    BY <1>3 DEF PlaceOrder
  <2> QED  BY <1>3, <2>1, <2>2, BrokerFillShares DEF PlaceOrder
<1>4. CASE FetchOrder(t) /\ BrokerOpen(job[t])
  <2>1. job[t] \in Orders /\ bStatus[job[t]] # "NONE"
    BY <1>1, <1>4 DEF FetchOrder, Working
  <2>2. PICK n \in FillLevels(job[t]) : BrokerFill(job[t], n)
    BY <1>4 DEF FetchOrder
  <2> QED  BY <1>4, <2>1, <2>2, BrokerFillShares DEF FetchOrder
<1>5. CASE ApplyCoreFill(t) /\ ~Oversold(job[t])
  <2>1. job[t] \in Orders /\ ApplyFill(job[t]) /\ UNCHANGED <<brokerVars, phase>>
    BY <1>1, <1>5 DEF ApplyCoreFill, Working
  <2> QED  BY <1>5, <2>1, CreditShares
<1>6. CASE RecordPlacement(t) \/ StoreReceipt(t)
  <2>1. job[t] \in Orders /\ bStatus[job[t]] # "NONE"
    BY <1>1, <1>6 DEF RecordPlacement, StoreReceipt, Working, Placing, Known
  <2>2. \A o \in Orders \ {job[t]} : filled'[o] = filled[o]
    BY <1>1, <1>6 DEF RecordPlacement, StoreReceipt, TypeOK, RowTypes
  <2>3. UNCHANGED <<applied, core, held, bFilled, bStatus, phase>>
    BY <1>6 DEF RecordPlacement, StoreReceipt, brokerVars, procVars
  <2> QED  BY <2>1, <2>2, <2>3, QuietShares
<1>7. CASE CancelOrder(t)
  <2>1. job[t] \in Orders
    BY <1>1, <1>7 DEF CancelOrder, Working
  <2>2. /\ bStatus' = [bStatus EXCEPT ![job[t]] =
                          IF BrokerOpen(job[t]) THEN "CANCELED" ELSE bStatus[job[t]]]
        /\ UNCHANGED <<filled, applied, core, held, bFilled, phase>>
    BY <1>7 DEF CancelOrder, dbVars, procVars
  <2>3. \A o \in Orders : bStatus'[o] = "NONE" <=> bStatus[o] = "NONE"
    BY <1>1, <2>1, <2>2 DEF TypeOK, BrokerTypes, BrokerOpen
  <2> QED  BY <2>2, <2>3, QuietShares
<1>8. CASE LookupOrder(t) \/ ReserveOrder(t) \/ PlaceOrderFails(t) \/ FetchFails(t)
           \/ ReceiptConflict(t)
  BY <1>2, <1>8
     DEF LookupOrder, ReserveOrder, PlaceOrderFails, FetchFails, ReceiptConflict, dbVars,
         brokerVars, procVars
<1>9. CASE (FetchOrder(t) /\ ~BrokerOpen(job[t])) \/ (ApplyCoreFill(t) /\ Oversold(job[t]))
  BY <1>2, <1>9 DEF FetchOrder, ApplyCoreFill, dbVars, brokerVars, procVars
<1>10. CASE PassDone(t) \/ MonitorAfterFill(t)
            \/ \E o \in Orders : TakeRow(t, o) \/ RowWithoutBrokerId(t, o)
  BY <1>2, <1>10
     DEF PassDone, MonitorAfterFill, TakeRow, RowWithoutBrokerId, dbVars, brokerVars, procVars
<1> QED  BY <1>3, <1>4, <1>5, <1>6, <1>7, <1>8, <1>9, <1>10 DEF Step

\* Once every fill is applied, the broker starts again from the ledger with nothing filled.
LEMMA RestoreShares ==
    ASSUME IInv, Shares, RestoreBroker
    PROVE  Shares'
<1>1. /\ phase = "recover" /\ \A o \in Orders : filled[o] = applied[o]
      /\ held' = core
      /\ UNCHANGED <<filled, applied, core, bFilled>>
  BY DEF RestoreBroker, dbVars
<1>2. \A o \in Orders : bStatus'[o] # "NONE" => filled[o] = 0
  BY DEF RestoreBroker, Restorable
<1>3. \A o \in Orders : bFilled[o] = 0
  BY <1>1 DEF IInv, BrokerAhead, Recovering
<1>4. InFlight' \in [Orders -> Int] /\ \A o \in Orders : InFlight'[o] = 0
  BY <1>1, <1>2, <1>3 DEF InFlight
<1>5. ASSUME NEW s \in Symbols
      PROVE  held'[s] = core'[s] + Moved(s, InFlight')
  <2>1. Moved(s, InFlight') = 0
    <3> HIDE DEF InFlight
    <3> QED  BY <1>4, MovedNothing
  <2> QED  BY <1>1, <2>1 DEF IInv, TypeOK, RowTypes
<1>6. LedgerIsAppliedFills' /\ LostIsApplied'
  BY <1>1 DEF Shares, LedgerIsAppliedFills, LostIsApplied, Moved
<1> QED  BY <1>5, <1>6 DEF Shares, BrokerDiffersByFillsInFlight, Moved

LEMMA InitShares ==
    ASSUME Init
    PROVE  Shares
<1>1. applied \in [Orders -> Int] /\ \A o \in Orders : applied[o] = 0
  BY DEF Init
<1>2. InFlight \in [Orders -> Int] /\ \A o \in Orders : InFlight[o] = 0
  BY DEF Init, InFlight
<1>3. ASSUME NEW s \in Symbols
      PROVE  Moved(s, applied) = 0 /\ Moved(s, InFlight) = 0
  <2> HIDE DEF InFlight
  <2> QED  BY <1>1, <1>2, MovedNothing
<1>4. \A s \in Symbols : InitialQty[s] \in Nat /\ core[s] = InitialQty[s] /\ held[s] = core[s]
  BY OrdersAssumption DEF Init
<1>5. LedgerIsAppliedFills /\ BrokerDiffersByFillsInFlight
  BY <1>3, <1>4 DEF LedgerIsAppliedFills, BrokerDiffersByFillsInFlight
<1>6. LostIsApplied
  BY DEF Init, LostIsApplied
<1> QED  BY <1>5, <1>6 DEF Shares

LEMMA NextShares ==
    ASSUME IInv, Shares, [Next]_vars
    PROVE  Shares'
<1>1. CASE UNCHANGED <<filled, applied, core, held, bStatus, bFilled, phase>>
  BY <1>1, QuietShares
<1>2. ASSUME NEW t \in Threads, Step(t) PROVE Shares'
  BY <1>2, StepShares
<1>3. ASSUME NEW o \in Orders, RecoverFill(o) PROVE Shares'
  BY <1>3, CreditShares DEF RecoverFill, procVars
<1>4. CASE RestoreBroker
  BY <1>4, RestoreShares
<1>5. CASE Crash
  <2>1. phase' = "recover" /\ UNCHANGED <<core, applied>>
    BY <1>5 DEF Crash, dbVars
  <2> QED
    BY <2>1 DEF Shares, LedgerIsAppliedFills, BrokerDiffersByFillsInFlight, LostIsApplied, Moved
<1>6. CASE \/ \E t \in Threads : SettleBegin(t)
           \/ \E t \in Threads, o \in Orders : ExecuteBuy(t, o) \/ DecideSell(t, o)
           \/ MonitorBegin \/ UNCHANGED vars
  BY <1>1, <1>6 DEF SettleBegin, MonitorBegin, ReadOpenOrders, ExecuteBuy, DecideSell, StartSubmit,
     vars, dbVars, brokerVars, procVars
<1> QED  BY <1>2, <1>3, <1>4, <1>5, <1>6 DEF Next, Startup

\* IInv and Shares together are inductive.
THEOREM SharesInvariance == Spec => []Shares
<1>1. IInv /\ Shares /\ [Next]_vars => Shares'
  BY NextShares
<1> QED  BY <1>1, InitShares, Invariance, PTL DEF Spec

\* Exactly once: apply_core_fill never loses and never repeats a share, whatever retries,
\* duplicate refreshes, settle loops and crashes come between the fills.
THEOREM LedgerIsExact == Spec => []LedgerIsAppliedFills
BY SharesInvariance, PTL DEF Shares

\* While the bot is up, the broker's holdings and the core ledger differ by the fills in
\* flight and nothing else.
THEOREM BrokerAgreesWithLedger == Spec => []BrokerDiffersByFillsInFlight
BY SharesInvariance, PTL DEF Shares

\* The broker has the shares of every SELL it holds or is about to be given: the ledger
\* covers the SELL, and the other fills in flight of its symbol are all BUYs.
LEMMA BrokerCovers ==
    ASSUME IInv, Shares
    PROVE  BrokerCoversSells
<1> SUFFICES ASSUME NEW o \in Orders, Side[o] = "SELL", phase = "up",
                    BrokerOpen(o) \/ \E t \in Threads : pc[t] = "place" /\ job[t] = o
             PROVE  Qty[o] - bFilled[o] <= held[Symbol[o]]
  BY DEF BrokerCoversSells
<1> DEFINE s == Symbol[o]
<1>1. TypeOK /\ Bounds /\ BrokerAhead /\ SellCovered
  BY DEF IInv
<1>2. /\ s \in Symbols /\ Qty[o] \in Nat /\ bFilled[o] \in Nat /\ applied[o] \in Nat
      /\ core[s] \in Nat /\ held[s] \in Int
  BY <1>1, OrdersAssumption DEF TypeOK, RowTypes, BrokerTypes
<1>3. status[o] # "NONE" /\ (bStatus[o] = "NONE" => applied[o] = 0 /\ bFilled[o] = 0)
  <2>1. CASE bStatus[o] # "NONE"
    BY <1>1, <2>1 DEF BrokerAhead
  <2>2. CASE bStatus[o] = "NONE"
    <3>1. PICK t \in Threads : pc[t] = "place" /\ job[t] = o
      BY <2>2 DEF BrokerOpen
    <3>2. status[o] = "CREATED" /\ filled[o] = 0
      BY <3>1 DEF IInv, ThreadOK, Placing
    <3> QED  BY <1>1, <1>2, <2>2, <3>2 DEF Bounds, BrokerAhead
  <2> QED  BY <2>1, <2>2
<1>4. Qty[o] - applied[o] <= core[s]
  BY <1>1, <1>3 DEF SellCovered
<1>5. held[s] = core[s] + Moved(s, InFlight)
  BY <1>2 DEF Shares, BrokerDiffersByFillsInFlight
<1> DEFINE one == [p \in Orders |-> IF p = o THEN InFlight[o] ELSE 0]
           f == [p \in Orders |-> IF Symbol[p] # s THEN 0
                                  ELSE IF Side[p] = "BUY" THEN one[p] ELSE -one[p]]
           g == [p \in Orders |-> IF Symbol[p] # s THEN 0
                                  ELSE IF Side[p] = "BUY" THEN InFlight[p] ELSE -InFlight[p]]
           zero == [p \in Orders |-> 0]
<1>6. InFlight \in [Orders -> Int] /\ \A p \in Orders : InFlight[p] >= 0
  <2>1. \A p \in Orders : bStatus[p] # "NONE" => applied[p] <= bFilled[p]
    BY <1>1 DEF Bounds, BrokerAhead, TypeOK, RowTypes, BrokerTypes
  <2> QED  BY <1>1, <2>1 DEF InFlight, TypeOK, RowTypes, BrokerTypes
<1>7. one \in [Orders -> Int] /\ f \in [Orders -> Int] /\ g \in [Orders -> Int]
      /\ zero \in [Orders -> Int]
  BY <1>6
<1>8. \A p \in Orders : f[p] <= g[p]
  <2>1. \A p \in Orders \ {o} : Symbol[p] = s => Side[p] = "BUY"
    BY OrdersAssumption
  <2> HIDE DEF InFlight
  <2> QED  BY <1>6, <2>1
<1>9. SumFunction(f) <= SumFunction(g)
  <2> HIDE DEF f, g
  <2> QED  BY <1>7, <1>8, OrdersAssumption, SumMonotone
<1>10. Moved(s, one) = Moved(s, zero) + MovedByOrder(s, o, one[o] - zero[o]) /\ Moved(s, zero) = 0
  <2>1. \A p \in Orders \ {o} : one[p] = zero[p]
    OBVIOUS
  <2>2. \A p \in Orders : zero[p] = 0
    OBVIOUS
  <2> HIDE DEF one, zero
  <2> QED  BY <1>7, <2>1, <2>2, MovedChange, MovedNothing
<1>11. Moved(s, one) = -InFlight[o]
  <2>1. one[o] - zero[o] = InFlight[o] /\ InFlight[o] \in Int
    BY <1>6
  <2>2. MovedByOrder(s, o, InFlight[o]) = -InFlight[o]
    BY DEF MovedByOrder
  <2> HIDE DEF one, zero, InFlight
  <2> QED  BY <1>10, <2>1, <2>2
<1>12. -InFlight[o] <= Moved(s, InFlight)
  BY <1>9, <1>11 DEF Moved
<1>13. InFlight[o] = bFilled[o] - applied[o]
  BY <1>2, <1>3 DEF InFlight
<1>14. Moved(s, InFlight) \in Int
  BY <1>6, MovedType
<1> QED  BY <1>2, <1>4, <1>5, <1>12, <1>13, <1>14

\* The broker never has to sell shares it does not hold, before or after a restart.
THEOREM BrokerSellsStayCovered == Spec => []BrokerCoversSells
BY BrokerCovers, Invariance, SharesInvariance, PTL
=============================================================================
