------------------------ MODULE ManagedCapital_proofs ------------------------
(***************************************************************************)
(* Proofs about ManagedCapital for any orders, prices and capital.         *)
(*                                                                         *)
(* RowsOK says how far the broker may be ahead of a row: it has filled no  *)
(* fewer shares, and what it paid for the others is within the limit. With *)
(* it no fill can cost more than was reserved for it. BrokerHasCash says   *)
(* that the broker has at least the cash the rows will show once they have *)
(* caught up with it, which a restart restores. Together they give the     *)
(* broker's side from the ledger's side.                                   *)
(***************************************************************************)
EXTENDS ManagedCapital, Sums, TLAPS

\* What a row says of its own progress.
RowFacts(o) ==
    /\ status[o] = "NONE" => bStatus[o] = "NONE" /\ pc[o] \in {"idle", "reserve"}
    /\ status[o] \in {"NONE", "CREATED"} => filled[o] = 0
    /\ filled[o] = 0 => gross[o] = 0
    /\ status[o] = "UNKNOWN" => bStatus[o] = "NONE"
    /\ pc[o] = "reserve" => o \in Buys /\ status[o] = "NONE"
    /\ pc[o] = "place" => status[o] = "CREATED" /\ bStatus[o] = "NONE"

\* The broker's order and the row: the broker is ahead, by fills within the limit.
BrokerFacts(o) ==
    /\ bFilled[o] = 0 => bGross[o] = 0
    /\ bStatus[o] = "NONE" => bFilled[o] = 0
    /\ bStatus[o] = "PENDING" => RowOpen(o)
    /\ bStatus[o] # "NONE" =>
          /\ filled[o] <= bFilled[o] /\ gross[o] <= bGross[o]
          /\ o \in Buys => bGross[o] - gross[o] <= (bFilled[o] - filled[o]) * Limit[o]
          /\ ~RowOpen(o) => bGross[o] = gross[o]

ThreadTypes ==
    /\ seenPower \in [Orders -> Int] /\ seenCash \in Int
    /\ phase = "recover" => \A o \in Orders : bStatus[o] = "NONE" /\ pc[o] = "idle"

FunctionTypes ==
    /\ filled \in [Orders -> Nat] /\ gross \in [Orders -> Nat]
    /\ applied \in [Orders -> Nat] /\ appliedGross \in [Orders -> Nat]
    /\ bFilled \in [Orders -> Nat] /\ bGross \in [Orders -> Nat]

RowsOK == \A o \in Orders : RowFacts(o) /\ BrokerFacts(o)

\* The gross amount of an order as the row will show it: the broker's, if it has it.
FinalGross(o) == IF bStatus[o] = "NONE" THEN gross[o] ELSE bGross[o]

FinalCash ==
    InitialCapital + PriorProfit
      - SumFunction([o \in Buys |-> (Scale + FeeRate) * FinalGross(o)])
      + SumFunction([o \in Sells |-> (Scale - FeeRate) * FinalGross(o)])

BrokerHasCash == phase = "up" => FinalCash <= buyingPower

IInv == TypeOK /\ FunctionTypes /\ ThreadTypes /\ RowsOK
Money == CashCoversReservations /\ BrokerHasCash

-----------------------------------------------------------------------------
(* Facts about the constants and the operators *)

LEMMA ConstantTypes ==
    /\ \A o \in Orders : Qty[o] \in Nat \ {0} /\ Limit[o] \in Nat \ {0} /\ Symbol[o] \in Symbols
    /\ Scale \in Nat /\ FeeRate \in Nat /\ FeeRate <= Scale
    /\ InitialCapital \in Nat /\ PriorProfit \in Nat
    /\ \A o \in Buys : o \notin Sells
    /\ Buys \subseteq Orders /\ Sells \subseteq Orders
BY CapitalAssumption DEF Orders

\* A product of amounts is an amount, and ordered factors give ordered products.
LEMMA ProductNat == \A a, b \in Nat : a * b \in Nat
OBVIOUS

LEMMA ProductMonotone ==
    ASSUME NEW a \in Nat, NEW b \in Int, NEW c \in Int, b <= c
    PROVE  a * b \in Int /\ a * c \in Int /\ a * b <= a * c
<1>1. a * (c - b) \in Nat
  BY ProductNat
<1>2. a * (c - b) = a * c - a * b /\ a * b \in Int /\ a * c \in Int
  OBVIOUS
<1> QED  BY <1>1, <1>2

LEMMA DivisionNat ==
    ASSUME NEW a \in Nat, NEW b \in Nat \ {0}
    PROVE  a \div b \in Nat
OBVIOUS

LEMMA BudgetNat ==
    ASSUME NEW high \in Int, NEW equity \in Int
    PROVE  HwmRiskBudget(high, equity) \in Nat
BY ConstantTypes DEF HwmRiskBudget, Greatest, Least

LEMMA RawCashType ==
    ASSUME FunctionTypes
    PROVE  RawCash \in Int
<1> DEFINE f == [o \in Buys |-> (Scale + FeeRate) * gross[o]]
           g == [o \in Sells |-> (Scale - FeeRate) * gross[o]]
<1>1. f \in [Buys -> Int] /\ g \in [Sells -> Int]
  BY ConstantTypes DEF FunctionTypes
<1>2. SumFunction(f) \in Int /\ SumFunction(g) \in Int
  <2> HIDE DEF f, g
  <2> QED  BY <1>1, CapitalAssumption, SumType
<1> QED  BY <1>2, ConstantTypes DEF RawCash

LEMMA MarketValueType ==
    ASSUME qty \in [Symbols -> Nat]
    PROVE  MarketValue \in Int
<1> DEFINE f == [s \in Symbols |-> (Scale - FeeRate) * qty[s] * Close[s]]
<1>1. f \in [Symbols -> Int]
  <2>1. \A s \in Symbols : qty[s] \in Int /\ Close[s] \in Int
    BY CapitalAssumption
  <2> QED  BY <2>1, ConstantTypes
<1>2. SumFunction(f) \in Int
  <2> HIDE DEF f
  <2> QED  BY <1>1, CapitalAssumption, SumType
<1> QED  BY <1>2 DEF MarketValue

-----------------------------------------------------------------------------
(* Rows and broker *)

\* An order that a step does not touch keeps its facts.
Untouched(o) ==
    /\ status'[o] = status[o] /\ filled'[o] = filled[o] /\ gross'[o] = gross[o]
    /\ applied'[o] = applied[o] /\ appliedGross'[o] = appliedGross[o]
    /\ bStatus'[o] = bStatus[o] /\ bFilled'[o] = bFilled[o] /\ bGross'[o] = bGross[o]
    /\ pc'[o] = pc[o]

Quantities(o) ==
    /\ applied[o] \in 0..filled[o] /\ filled[o] \in 0..Qty[o] /\ bFilled[o] \in 0..Qty[o]
    /\ gross[o] \in Nat /\ bGross[o] \in Nat /\ appliedGross[o] \in 0..gross[o]

OrderOK(o) == Quantities(o) /\ RowFacts(o) /\ BrokerFacts(o)

StatusTypes ==
    /\ status \in [Orders -> {"NONE", "CREATED", "PENDING", "UNKNOWN", "DONE"}]
    /\ bStatus \in [Orders -> {"NONE", "PENDING", "DONE"}]
    /\ pc \in [Orders -> {"idle", "reserve", "place", "placed"}]

LedgerTypes == qty \in [Symbols -> Nat] /\ basis \in [Symbols -> Nat]

MoneyTypes ==
    /\ highWater \in Nat /\ budget \in Nat /\ buyingPower \in Int /\ phase \in {"up", "recover"}

LEMMA IInvParts ==
    IInv <=> /\ StatusTypes /\ LedgerTypes /\ MoneyTypes /\ FunctionTypes /\ ThreadTypes
             /\ \A o \in Orders : OrderOK(o)
BY DEF IInv, TypeOK, StatusTypes, LedgerTypes, MoneyTypes, RowsOK, OrderOK, Quantities

LEMMA IInvPartsNext ==
    IInv' <=> /\ StatusTypes' /\ LedgerTypes' /\ MoneyTypes' /\ FunctionTypes' /\ ThreadTypes'
              /\ \A o \in Orders : OrderOK(o)'
BY DEF IInv, TypeOK, StatusTypes, LedgerTypes, MoneyTypes, RowsOK, OrderOK, Quantities

LEMMA UntouchedOK ==
    ASSUME NEW o \in Orders, OrderOK(o), Untouched(o)
    PROVE  OrderOK(o)'
BY DEF OrderOK, Quantities, RowFacts, BrokerFacts, Untouched, RowOpen

LEMMA TouchOne ==
    ASSUME \A p \in Orders : OrderOK(p), NEW o \in Orders, OrderOK(o)',
           \A p \in Orders \ {o} : Untouched(p)
    PROVE  \A p \in Orders : OrderOK(p)'
BY UntouchedOK

LEMMA ReadBuyingPowerStep ==
    ASSUME IInv, NEW o \in Orders, ReadBuyingPower(o)
    PROVE  IInv'
<1> USE IInvParts, IInvPartsNext
<1>1. /\ o \in Buys /\ status[o] = "NONE" /\ pc' = [pc EXCEPT ![o] = "reserve"]
      /\ seenPower' = [seenPower EXCEPT ![o] = buyingPower]
      /\ phase = "up" /\ phase' = phase /\ seenCash' = seenCash
      /\ UNCHANGED <<status, filled, gross, applied, appliedGross, qty, basis, highWater, budget,
                     bStatus, bFilled, bGross, buyingPower>>
  BY DEF ReadBuyingPower, dbVars, hwmVars, brokerVars
<1>2. \A p \in Orders \ {o} : Untouched(p)
  BY <1>1 DEF Untouched, StatusTypes
<1>3. OrderOK(o)'
  BY <1>1 DEF OrderOK, Quantities, RowFacts, BrokerFacts, RowOpen, StatusTypes
<1>4. StatusTypes' /\ LedgerTypes' /\ MoneyTypes' /\ FunctionTypes' /\ ThreadTypes'
  BY <1>1 DEF StatusTypes, LedgerTypes, MoneyTypes, FunctionTypes, ThreadTypes
<1> QED  BY <1>2, <1>3, <1>4, TouchOne

LEMMA ReserveBuyStep ==
    ASSUME IInv, NEW o \in Orders, ReserveBuy(o)
    PROVE  IInv'
<1> USE IInvParts, IInvPartsNext
<1>1. /\ status' = status \/ status' = [status EXCEPT ![o] = "CREATED"]
      /\ pc[o] = "reserve" /\ status[o] = "NONE" /\ bStatus[o] = "NONE" /\ filled[o] = 0
      /\ pc' = [pc EXCEPT ![o] = IF status' = status THEN "idle" ELSE "place"]
         \/ (pc' = [pc EXCEPT ![o] = "idle"] /\ status' = status)
      /\ phase = "up" /\ phase' = phase /\ seenCash' = seenCash /\ seenPower' = seenPower
      /\ UNCHANGED <<filled, gross, applied, appliedGross, qty, basis, highWater, budget,
                     bStatus, bFilled, bGross, buyingPower>>
  <2>1. pc[o] = "reserve" /\ status[o] = "NONE" /\ bStatus[o] = "NONE" /\ filled[o] = 0
    BY DEF ReserveBuy, OrderOK, RowFacts
  <2>2. status' = [status EXCEPT ![o] = "CREATED"] => status' # status
    BY <2>1 DEF StatusTypes
  <2> QED  BY <2>1, <2>2 DEF ReserveBuy, hwmVars, brokerVars
<1>2. \A p \in Orders \ {o} : Untouched(p)
  BY <1>1 DEF Untouched, StatusTypes
<1>3. OrderOK(o)'
  BY <1>1 DEF OrderOK, Quantities, RowFacts, BrokerFacts, RowOpen, StatusTypes
<1>4. StatusTypes' /\ LedgerTypes' /\ MoneyTypes' /\ FunctionTypes' /\ ThreadTypes'
  BY <1>1 DEF StatusTypes, LedgerTypes, MoneyTypes, FunctionTypes, ThreadTypes
<1> QED  BY <1>2, <1>3, <1>4, TouchOne

LEMMA ReserveSellStep ==
    ASSUME IInv, NEW o \in Orders, ReserveSell(o)
    PROVE  IInv'
<1> USE IInvParts, IInvPartsNext
<1>1. /\ o \in Sells /\ o \notin Buys /\ status[o] = "NONE" /\ bStatus[o] = "NONE" /\ filled[o] = 0
      /\ status' = [status EXCEPT ![o] = "CREATED"] /\ pc' = [pc EXCEPT ![o] = "place"]
      /\ phase = "up" /\ phase' = phase /\ seenCash' = seenCash /\ seenPower' = seenPower
      /\ UNCHANGED <<filled, gross, applied, appliedGross, qty, basis, highWater, budget,
                     bStatus, bFilled, bGross, buyingPower>>
  BY ConstantTypes DEF ReserveSell, hwmVars, brokerVars, OrderOK, RowFacts
<1>2. \A p \in Orders \ {o} : Untouched(p)
  BY <1>1 DEF Untouched, StatusTypes
<1>3. OrderOK(o)'
  BY <1>1 DEF OrderOK, Quantities, RowFacts, BrokerFacts, RowOpen, StatusTypes
<1>4. StatusTypes' /\ LedgerTypes' /\ MoneyTypes' /\ FunctionTypes' /\ ThreadTypes'
  BY <1>1 DEF StatusTypes, LedgerTypes, MoneyTypes, FunctionTypes, ThreadTypes
<1> QED  BY <1>2, <1>3, <1>4, TouchOne

LEMMA PlaceStep ==
    ASSUME IInv, NEW o \in Orders, PlaceOrder(o) \/ PlaceOrderFails(o)
    PROVE  IInv'
<1> USE IInvParts, IInvPartsNext
<1>1. /\ status[o] = "CREATED" /\ bStatus[o] = "NONE" /\ filled[o] = 0 /\ gross[o] = 0
      /\ bFilled[o] = 0 /\ bGross[o] = 0 /\ pc[o] = "place"
      /\ phase = "up" /\ phase' = phase /\ seenCash' = seenCash /\ seenPower' = seenPower
      /\ UNCHANGED <<filled, gross, applied, appliedGross, qty, basis, highWater, budget,
                     bFilled, bGross, buyingPower>>
  BY DEF PlaceOrder, PlaceOrderFails, dbVars, hwmVars, brokerVars, OrderOK, RowFacts, BrokerFacts
<1>2. \/ /\ bStatus' = [bStatus EXCEPT ![o] = "PENDING"] /\ pc' = [pc EXCEPT ![o] = "placed"]
         /\ status' = status
      \/ /\ status' = [status EXCEPT ![o] = "UNKNOWN"] /\ pc' = [pc EXCEPT ![o] = "idle"]
         /\ bStatus' = bStatus
  BY DEF PlaceOrder, PlaceOrderFails, dbVars, brokerVars
<1>3. \A p \in Orders \ {o} : Untouched(p)
  BY <1>1, <1>2 DEF Untouched, StatusTypes
<1>4. OrderOK(o)'
  <2>1. (bFilled[o] - filled[o]) * Limit[o] = 0
    BY <1>1, ConstantTypes
  <2> QED
    BY <1>1, <1>2, <2>1 DEF OrderOK, Quantities, RowFacts, BrokerFacts, RowOpen, StatusTypes
<1>5. StatusTypes' /\ LedgerTypes' /\ MoneyTypes' /\ FunctionTypes' /\ ThreadTypes'
  BY <1>1, <1>2 DEF StatusTypes, LedgerTypes, MoneyTypes, FunctionTypes, ThreadTypes
<1> QED  BY <1>3, <1>4, <1>5, TouchOne

\* A fill within the limit keeps the broker's lead over the row within it.
LEMMA BrokerFillsStep ==
    ASSUME IInv, NEW o \in Orders, NEW n \in 1..Qty[o], NEW p \in Prices, BrokerFills(o, n, p)
    PROVE  IInv'
<1> USE IInvParts, IInvPartsNext
<1>1. /\ bStatus[o] = "PENDING" /\ n \in Nat \ {0} /\ p \in Nat /\ n <= Qty[o] - bFilled[o]
      /\ o \in Buys => p <= Limit[o]
      /\ bFilled' = [bFilled EXCEPT ![o] = bFilled[o] + n]
      /\ bGross' = [bGross EXCEPT ![o] = bGross[o] + n * p]
      /\ bStatus' = [bStatus EXCEPT ![o] = IF bFilled'[o] = Qty[o] THEN "DONE" ELSE bStatus[o]]
      /\ buyingPower' = (IF o \in Buys THEN buyingPower - Scale * n * p
                                       ELSE buyingPower + Scale * n * p)
      /\ phase = "up" /\ phase' = phase /\ seenCash' = seenCash /\ seenPower' = seenPower
      /\ UNCHANGED <<status, filled, gross, applied, appliedGross, qty, basis, highWater, budget, pc>>
  BY ConstantTypes, CapitalAssumption
     DEF BrokerFills, Fillable, Crosses, dbVars, hwmVars, threadVars, OrderOK, Quantities
<1>2. n * p \in Nat /\ Scale * n * p \in Int
  BY <1>1, ConstantTypes, ProductNat
<1>3. \A q \in Orders \ {o} : Untouched(q)
  BY <1>1 DEF Untouched, StatusTypes, FunctionTypes
<1>4. /\ bFilled'[o] = bFilled[o] + n /\ bGross'[o] = bGross[o] + n * p
      /\ bStatus'[o] \in {"PENDING", "DONE"}
  BY <1>1 DEF StatusTypes, FunctionTypes
<1>5. ASSUME o \in Buys
      PROVE  bGross'[o] - gross[o] <= (bFilled'[o] - filled[o]) * Limit[o]
  <2>1. /\ bGross[o] - gross[o] <= (bFilled[o] - filled[o]) * Limit[o]
        /\ bGross[o] \in Nat /\ gross[o] \in Nat /\ bFilled[o] \in Nat /\ filled[o] \in Nat
    BY <1>1, <1>5 DEF OrderOK, BrokerFacts, FunctionTypes
  <2>2. n * p <= n * Limit[o]
    BY <1>1, <1>5, ConstantTypes, ProductMonotone
  <2>3. (bFilled[o] + n - filled[o]) * Limit[o] = (bFilled[o] - filled[o]) * Limit[o] + n * Limit[o]
    BY <1>1, <2>1, ConstantTypes
  <2>4. (bFilled[o] - filled[o]) * Limit[o] \in Int /\ n * Limit[o] \in Int
    BY <1>1, <2>1, ConstantTypes
  <2> QED  BY <1>2, <1>4, <2>1, <2>2, <2>3, <2>4
<1>6. OrderOK(o)'
  <2>1. filled[o] <= bFilled'[o] /\ gross[o] <= bGross'[o] /\ RowOpen(o) /\ RowOpen(o)'
        /\ bFilled'[o] \in 1..Qty[o] /\ bGross'[o] \in Nat
    BY <1>1, <1>2, <1>4, ConstantTypes
       DEF OrderOK, BrokerFacts, Quantities, FunctionTypes, RowOpen
  <2> QED
    BY <1>1, <1>4, <1>5, <2>1 DEF OrderOK, Quantities, RowFacts, BrokerFacts
<1>7. StatusTypes' /\ LedgerTypes' /\ MoneyTypes'
  BY <1>1, <1>2 DEF StatusTypes, LedgerTypes, MoneyTypes
<1>8. FunctionTypes' /\ ThreadTypes'
  BY <1>1, <1>2 DEF FunctionTypes, ThreadTypes
<1> QED  BY <1>3, <1>6, <1>7, <1>8, TouchOne

LEMMA CancelOrderStep ==
    ASSUME IInv, NEW o \in Orders, CancelOrder(o)
    PROVE  IInv'
<1> USE IInvParts, IInvPartsNext
<1>1. /\ bStatus[o] = "PENDING" /\ bStatus' = [bStatus EXCEPT ![o] = "DONE"]
      /\ phase = "up" /\ phase' = phase /\ seenCash' = seenCash /\ seenPower' = seenPower
      /\ UNCHANGED <<status, filled, gross, applied, appliedGross, qty, basis, highWater, budget,
                     bFilled, bGross, buyingPower, pc>>
  BY DEF CancelOrder, dbVars, hwmVars, threadVars
<1>2. \A p \in Orders \ {o} : Untouched(p)
  BY <1>1 DEF Untouched, StatusTypes
<1>3. OrderOK(o)'
  BY <1>1 DEF OrderOK, Quantities, RowFacts, BrokerFacts, RowOpen, StatusTypes
<1>4. StatusTypes' /\ LedgerTypes' /\ MoneyTypes' /\ FunctionTypes' /\ ThreadTypes'
  BY <1>1 DEF StatusTypes, LedgerTypes, MoneyTypes, FunctionTypes, ThreadTypes
<1> QED  BY <1>2, <1>3, <1>4, TouchOne

LEMMA UpdateOrderStep ==
    ASSUME IInv, NEW o \in Orders, UpdateOrder(o)
    PROVE  IInv'
<1> USE IInvParts, IInvPartsNext
<1>1. /\ bStatus[o] # "NONE" /\ RowOpen(o)
      /\ status' = [status EXCEPT ![o] = bStatus[o]] /\ filled' = [filled EXCEPT ![o] = bFilled[o]]
      /\ gross' = [gross EXCEPT ![o] = bGross[o]] /\ pc' = [pc EXCEPT ![o] = "idle"]
      /\ phase = "up" /\ phase' = phase /\ seenCash' = seenCash /\ seenPower' = seenPower
      /\ UNCHANGED <<applied, appliedGross, qty, basis, highWater, budget, bStatus, bFilled, bGross,
                     buyingPower>>
  BY DEF UpdateOrder, hwmVars, brokerVars
<1>2. \A p \in Orders \ {o} : Untouched(p)
  BY <1>1 DEF Untouched, StatusTypes, FunctionTypes
<1>3. /\ status'[o] = bStatus[o] /\ filled'[o] = bFilled[o] /\ gross'[o] = bGross[o]
      /\ pc'[o] = "idle"
  BY <1>1 DEF StatusTypes, FunctionTypes
<1>4. OrderOK(o)'
  <2>1. /\ filled[o] <= bFilled[o] /\ gross[o] <= bGross[o] /\ bStatus[o] \in {"PENDING", "DONE"}
        /\ bGross[o] - bGross[o] = 0 /\ (bFilled[o] - bFilled[o]) * Limit[o] = 0
        /\ bFilled[o] \in Nat /\ bGross[o] \in Nat /\ filled[o] \in Nat /\ gross[o] \in Nat
    BY <1>1, ConstantTypes DEF OrderOK, BrokerFacts, StatusTypes, FunctionTypes
  <2>2. Quantities(o)'
    BY <1>1, <1>3, <2>1, ConstantTypes DEF OrderOK, Quantities
  <2>3. RowFacts(o)' /\ BrokerFacts(o)'
    BY <1>1, <1>3, <2>1 DEF OrderOK, RowFacts, BrokerFacts, RowOpen
  <2> QED  BY <2>2, <2>3 DEF OrderOK
<1>5. StatusTypes' /\ LedgerTypes' /\ MoneyTypes'
  BY <1>1 DEF StatusTypes, LedgerTypes, MoneyTypes
<1>6. FunctionTypes' /\ ThreadTypes'
  BY <1>1 DEF FunctionTypes, ThreadTypes, StatusTypes
<1> QED  BY <1>2, <1>4, <1>5, <1>6, TouchOne

LEMMA ApplyCoreFillStep ==
    ASSUME IInv, NEW o \in Orders, ApplyCoreFill(o)
    PROVE  IInv'
<1> USE IInvParts, IInvPartsNext
<1> DEFINE s == Symbol[o]
           n == filled[o] - applied[o]
<1>1. /\ n > 0
      /\ applied' = [applied EXCEPT ![o] = filled[o]]
      /\ appliedGross' = [appliedGross EXCEPT ![o] = gross[o]]
      /\ phase' = phase /\ seenCash' = seenCash /\ seenPower' = seenPower
      /\ UNCHANGED <<status, filled, gross, highWater, budget, bStatus, bFilled, bGross,
                     buyingPower, pc>>
  BY DEF ApplyCoreFill, hwmVars, brokerVars, threadVars
<1>2. /\ s \in Symbols /\ qty[s] \in Nat /\ basis[s] \in Nat /\ n \in Nat \ {0}
      /\ gross[o] - appliedGross[o] \in Nat
  BY <1>1, ConstantTypes DEF LedgerTypes, OrderOK, Quantities
<1>3. LedgerTypes'
  <2>1. CASE o \in Buys
    <3>1. qty' = [qty EXCEPT ![s] = @ + n]
          /\ basis' = [basis EXCEPT ![s] = @ + Scale * (gross[o] - appliedGross[o])]
      BY <2>1 DEF ApplyCoreFill
    <3>2. Scale * (gross[o] - appliedGross[o]) \in Nat
      BY <1>2, ConstantTypes, ProductNat
    <3> HIDE DEF n
    <3> QED  BY <1>2, <3>1, <3>2 DEF LedgerTypes
  <2>2. CASE o \notin Buys
    <3>1. n <= qty[s] /\ qty' = [qty EXCEPT ![s] = @ - n]
      BY <2>2 DEF ApplyCoreFill
    <3>2. PICK c \in Rounded(basis[s] * (qty[s] - n), qty[s]) :
                  basis' = [basis EXCEPT ![s] = c]
      BY <2>2 DEF ApplyCoreFill
    <3>3. c \in Nat
      <4>1. basis[s] * (qty[s] - n) \in Nat /\ qty[s] \in Nat \ {0}
        BY <1>2, <3>1, ProductNat
      <4>2. basis[s] * (qty[s] - n) + qty[s] - 1 \in Nat
        BY <4>1
      <4> QED  BY <3>2, <4>1, <4>2, DivisionNat DEF Rounded
    <3> HIDE DEF n
    <3> QED  BY <1>2, <3>1, <3>2, <3>3 DEF LedgerTypes
  <2> QED  BY <2>1, <2>2
<1>4. \A p \in Orders \ {o} : Untouched(p)
  BY <1>1 DEF Untouched, FunctionTypes
<1>5. OrderOK(o)'
  BY <1>1 DEF OrderOK, Quantities, RowFacts, BrokerFacts, RowOpen, FunctionTypes
<1>6. StatusTypes' /\ MoneyTypes' /\ FunctionTypes' /\ ThreadTypes'
  BY <1>1 DEF StatusTypes, MoneyTypes, FunctionTypes, ThreadTypes
<1> QED  BY <1>3, <1>4, <1>5, <1>6, TouchOne

LEMMA EquityStep ==
    ASSUME IInv, ReadCash \/ RecordEquity
    PROVE  IInv'
<1> USE IInvParts, IInvPartsNext
<1>1. /\ phase = "up" /\ phase' = phase /\ seenPower' = seenPower
      /\ UNCHANGED <<status, filled, gross, applied, appliedGross, qty, basis, bStatus, bFilled,
                     bGross, buyingPower, pc>>
  BY DEF ReadCash, RecordEquity, dbVars, brokerVars
<1>2. seenCash' \in Int
  BY RawCashType DEF ReadCash, RecordEquity
<1>3. highWater' \in Nat /\ budget' \in Nat
  <2>1. CASE ReadCash
    BY <2>1 DEF ReadCash, hwmVars, MoneyTypes
  <2>2. CASE RecordEquity
    <3>1. PICK e : /\ e = Greatest(0, seenCash + MarketValue)
                   /\ highWater' = Greatest(Greatest(highWater, e), InitialCapital)
                   /\ budget' = HwmRiskBudget(highWater', e)
      BY <2>2 DEF RecordEquity
    <3>2. e \in Int
      BY <3>1, MarketValueType DEF Greatest, ThreadTypes, LedgerTypes
    <3>3. highWater' \in Nat
      BY <3>1, <3>2, ConstantTypes DEF Greatest, MoneyTypes
    <3> QED  BY <3>1, <3>2, <3>3, BudgetNat
  <2> QED  BY <2>1, <2>2
<1>4. \A p \in Orders : Untouched(p)
  BY <1>1 DEF Untouched
<1>5. \A p \in Orders : OrderOK(p)'
  BY <1>4, UntouchedOK
<1>6. StatusTypes' /\ LedgerTypes' /\ MoneyTypes' /\ FunctionTypes' /\ ThreadTypes'
  BY <1>1, <1>2, <1>3 DEF StatusTypes, LedgerTypes, MoneyTypes, FunctionTypes, ThreadTypes
<1> QED  BY <1>5, <1>6

LEMMA CrashStep ==
    ASSUME IInv, Crash
    PROVE  IInv'
<1> USE IInvParts, IInvPartsNext
<1>1. /\ phase' = "recover" /\ buyingPower' = 0 /\ seenCash' = -1
      /\ bStatus' = [o \in Orders |-> "NONE"] /\ bFilled' = [o \in Orders |-> 0]
      /\ bGross' = [o \in Orders |-> 0] /\ pc' = [o \in Orders |-> "idle"]
      /\ seenPower' = [o \in Orders |-> 0]
      /\ UNCHANGED <<status, filled, gross, applied, appliedGross, qty, basis, highWater, budget>>
  BY DEF Crash, dbVars, hwmVars
<1>2. \A o \in Orders : OrderOK(o)'
  BY <1>1, ConstantTypes DEF OrderOK, Quantities, RowFacts, BrokerFacts, RowOpen
<1>3. StatusTypes' /\ LedgerTypes' /\ MoneyTypes' /\ FunctionTypes' /\ ThreadTypes'
  BY <1>1 DEF StatusTypes, LedgerTypes, MoneyTypes, FunctionTypes, ThreadTypes
<1> QED  BY <1>2, <1>3

LEMMA RestoreStep ==
    ASSUME IInv, Restore
    PROVE  IInv'
<1> USE IInvParts, IInvPartsNext
<1>1. /\ phase = "recover" /\ phase' = "up" /\ buyingPower' = Greatest(0, RawCash)
      /\ bStatus' = [o \in Orders |->
                        IF status[o] = "PENDING" /\ filled[o] = 0 THEN "PENDING" ELSE "NONE"]
      /\ UNCHANGED <<status, filled, gross, applied, appliedGross, qty, basis, highWater, budget,
                     bFilled, bGross, pc, seenPower, seenCash>>
  BY DEF Restore, dbVars, hwmVars, threadVars
<1>2. buyingPower' \in Int
  BY <1>1, RawCashType DEF Greatest
<1>3. ASSUME NEW o \in Orders
      PROVE  OrderOK(o)'
  <2>1. /\ bStatus[o] = "NONE" /\ pc[o] = "idle" /\ bFilled[o] = 0 /\ bGross[o] = 0
        /\ status[o] = "PENDING" /\ filled[o] = 0 => gross[o] = 0
        /\ (0 - 0) * Limit[o] = 0
    BY <1>1, ConstantTypes DEF ThreadTypes, OrderOK, RowFacts, BrokerFacts
  <2> QED
    BY <1>1, <2>1 DEF OrderOK, Quantities, RowFacts, BrokerFacts, RowOpen
<1>4. StatusTypes' /\ LedgerTypes' /\ MoneyTypes' /\ FunctionTypes' /\ ThreadTypes'
  BY <1>1, <1>2 DEF StatusTypes, LedgerTypes, MoneyTypes, FunctionTypes, ThreadTypes
<1> QED  BY <1>3, <1>4

LEMMA InitIInv == Init => IInv
<1> SUFFICES ASSUME Init PROVE IInv
  OBVIOUS
<1> USE IInvParts
<1>1. \A o \in Orders : OrderOK(o)
  BY ConstantTypes DEF Init, OrderOK, Quantities, RowFacts, BrokerFacts, RowOpen
<1>2. budget \in Nat
  BY ConstantTypes, BudgetNat DEF Init
<1>3. StatusTypes /\ LedgerTypes /\ MoneyTypes /\ FunctionTypes /\ ThreadTypes
  BY <1>2, ConstantTypes DEF Init, StatusTypes, LedgerTypes, MoneyTypes, FunctionTypes, ThreadTypes
<1> QED  BY <1>1, <1>3

LEMMA StutterStep ==
    ASSUME IInv, UNCHANGED vars
    PROVE  IInv'
<1> USE IInvParts, IInvPartsNext
<1>1. /\ UNCHANGED <<dbVars, hwmVars, brokerVars, threadVars>> /\ phase' = phase
  BY DEF vars
<1>2. \A p \in Orders : Untouched(p)
  BY <1>1 DEF Untouched, dbVars, brokerVars, threadVars
<1>3. \A p \in Orders : OrderOK(p)'
  BY <1>2, UntouchedOK
<1>4. StatusTypes' /\ LedgerTypes' /\ MoneyTypes' /\ FunctionTypes' /\ ThreadTypes'
  BY <1>1 DEF StatusTypes, LedgerTypes, MoneyTypes, FunctionTypes, ThreadTypes, dbVars, hwmVars,
              brokerVars, threadVars
<1> QED  BY <1>3, <1>4

LEMMA NextIInv ==
    ASSUME IInv, [Next]_vars
    PROVE  IInv'
<1>1. ASSUME NEW o \in Orders,
             \/ ReadBuyingPower(o) \/ ReserveBuy(o) \/ ReserveSell(o) \/ PlaceOrder(o)
             \/ PlaceOrderFails(o) \/ CancelOrder(o) \/ UpdateOrder(o) \/ ApplyCoreFill(o)
             \/ \E n \in 1..Qty[o], p \in Prices : BrokerFills(o, n, p)
      PROVE  IInv'
  BY <1>1, ReadBuyingPowerStep, ReserveBuyStep, ReserveSellStep, PlaceStep, CancelOrderStep,
     UpdateOrderStep, ApplyCoreFillStep, BrokerFillsStep
<1> QED
  BY <1>1, EquityStep, CrashStep, RestoreStep, StutterStep DEF Next

\* What the broker and the rows say of an order at all times.
THEOREM Invariance == Spec => []IInv
<1>1. IInv /\ [Next]_vars => IInv'
  BY NextIInv
<1> QED  BY InitIInv, <1>1, PTL DEF Spec

\* No quantity, amount or balance leaves its range: fills stay within the order,
\* the ledger within the fills, and the risk budget never falls below zero.
THEOREM TypeCorrectness == Spec => []TypeOK
<1>1. IInv => TypeOK
  BY DEF IInv
<1> QED  BY Invariance, <1>1, PTL

-----------------------------------------------------------------------------
(* The money *)

\* What a BUY has cost and can still cost: fills, and the open rest at its limit.
Cost(o) == (Scale + FeeRate) * gross[o] + (IF RowOpen(o) THEN Unfilled(o) ELSE 0)

Spent == SumFunction([o \in Buys |-> Cost(o)])
Earned == SumFunction([o \in Sells |-> (Scale - FeeRate) * gross[o]])

RowTypes == filled \in [Orders -> Nat] /\ gross \in [Orders -> Nat]

CostsAreAmounts ==
    \A o \in Buys : /\ Cost(o) \in Int /\ Unfilled(o) \in Int
                    /\ (Scale + FeeRate) * gross[o] \in Int

LEMMA CostType == RowTypes => CostsAreAmounts
<1> SUFFICES ASSUME RowTypes, NEW o \in Buys
             PROVE  /\ Cost(o) \in Int /\ Unfilled(o) \in Int
                    /\ (Scale + FeeRate) * gross[o] \in Int
  BY DEF CostsAreAmounts
<1>1. gross[o] \in Int /\ Qty[o] - filled[o] \in Int /\ Limit[o] \in Int /\ Scale + FeeRate \in Int
  BY ConstantTypes DEF RowTypes
<1>2. \A a, b, c \in Int : a * b * c \in Int
  OBVIOUS
<1>3. Unfilled(o) \in Int
  BY <1>1, <1>2 DEF Unfilled
<1> QED  BY <1>1, <1>3 DEF Cost

LEMMA CostTypeNext == RowTypes' => CostsAreAmounts'
BY CostType, PTL

\* The cash that is left when every open BUY is paid is the capital without the
\* cost of the BUYs, and with the proceeds of the SELLs.
CashIsWhatIsLeft ==
    /\ RawCash - Reserved = InitialCapital + PriorProfit - Spent + Earned
    /\ RawCash \in Int /\ Reserved \in Int /\ Spent \in Int /\ Earned \in Int

LEMMA CashLeft == RowTypes => CashIsWhatIsLeft
<1> SUFFICES ASSUME RowTypes PROVE CashIsWhatIsLeft
  OBVIOUS
<1> DEFINE f == [o \in Buys |-> (Scale + FeeRate) * gross[o]]
           g == [o \in Buys |-> IF RowOpen(o) THEN Unfilled(o) ELSE 0]
           k == [o \in Buys |-> Cost(o)]
           e == [o \in Sells |-> (Scale - FeeRate) * gross[o]]
<1>1. f \in [Buys -> Int] /\ g \in [Buys -> Int] /\ k \in [Buys -> Int]
  BY CostType DEF CostsAreAmounts
<1>2. e \in [Sells -> Int]
  BY ConstantTypes DEF RowTypes
<1>3. \A o \in Buys : k[o] = f[o] + g[o]
  BY DEF Cost
<1>4. /\ SumFunction(f) \in Int /\ SumFunction(g) \in Int /\ SumFunction(k) \in Int
      /\ SumFunction(e) \in Int
  <2> HIDE DEF f, g, k, e
  <2> QED  BY <1>1, <1>2, CapitalAssumption, SumType
<1>5. SumFunction(k) = SumFunction(f) + SumFunction(g)
  <2> HIDE DEF f, g, k
  <2> QED  BY <1>1, <1>3, CapitalAssumption, SumsAddUp
<1>6. RawCash = InitialCapital + PriorProfit - SumFunction(f) + SumFunction(e)
  BY DEF RawCash
<1>7. Reserved = SumFunction(g) /\ Spent = SumFunction(k) /\ Earned = SumFunction(e)
  BY DEF Reserved, Spent, Earned
<1> HIDE DEF f, g, k, e
<1> QED  BY <1>4, <1>5, <1>6, <1>7, ConstantTypes DEF CashIsWhatIsLeft

LEMMA CashLeftNext == RowTypes' => CashIsWhatIsLeft'
BY CashLeft, PTL

\* Cash covers the reservations for as long as no BUY costs more and no SELL has
\* brought less.
LEMMA CashKept ==
    ASSUME RowTypes, RowTypes', CashCoversReservations,
           \A o \in Buys : Cost(o)' <= Cost(o),
           \A o \in Sells : gross[o] <= gross'[o]
    PROVE  CashCoversReservations'
<1> DEFINE k == [o \in Buys |-> Cost(o)]
           k1 == [o \in Buys |-> Cost(o)']
           e == [o \in Sells |-> (Scale - FeeRate) * gross[o]]
           e1 == [o \in Sells |-> (Scale - FeeRate) * gross'[o]]
<1>1. k \in [Buys -> Int] /\ \A o \in Buys : k[o] = Cost(o)
  BY CostType DEF CostsAreAmounts
<1>2. \A o \in Buys : Cost(o)' \in Int
  BY CostTypeNext DEF CostsAreAmounts
<1>3. k1 \in [Buys -> Int]
  BY <1>2
<1>4. e \in [Sells -> Int] /\ e1 \in [Sells -> Int]
  BY ConstantTypes DEF RowTypes
<1>5. \A o \in Sells : e[o] <= e1[o]
  <2>1. ASSUME NEW o \in Sells
        PROVE  (Scale - FeeRate) * gross[o] <= (Scale - FeeRate) * gross'[o]
    BY ConstantTypes, ProductMonotone DEF RowTypes
  <2> QED  BY <2>1
<1>6. SumFunction(k1) <= SumFunction(k)
  <2>1. \A o \in Buys : k1[o] <= k[o]
    OBVIOUS
  <2> HIDE DEF k, k1
  <2> QED  BY <1>1, <1>3, <2>1, CapitalAssumption, SumMonotone
<1>7. SumFunction(e) <= SumFunction(e1)
  <2> HIDE DEF e, e1
  <2> QED  BY <1>4, <1>5, CapitalAssumption, SumMonotone
<1>8. Spent = SumFunction(k) /\ Spent' = SumFunction(k1)
      /\ Earned = SumFunction(e) /\ Earned' = SumFunction(e1)
  BY DEF Spent, Earned
<1>9. /\ RawCash - Reserved = InitialCapital + PriorProfit - Spent + Earned
      /\ Spent \in Int /\ Earned \in Int
  BY CashLeft DEF CashIsWhatIsLeft
<1>10. /\ (RawCash - Reserved)' = InitialCapital + PriorProfit - Spent' + Earned'
       /\ Spent' \in Int /\ Earned' \in Int
  BY CashLeftNext DEF CashIsWhatIsLeft
<1> HIDE DEF k, k1, e, e1
<1> QED  BY <1>6, <1>7, <1>8, <1>9, <1>10, ConstantTypes DEF CashCoversReservations

\* What the broker has filled beyond a row costs no more than was kept for it.
LEMMA FillsWithinTheLimit ==
    ASSUME IInv, NEW o \in Buys, RowOpen(o), bStatus[o] # "NONE"
    PROVE  /\ (Scale + FeeRate) * bGross[o] + (Scale + FeeRate) * (Qty[o] - bFilled[o]) * Limit[o]
                <= Cost(o)
           /\ (Scale + FeeRate) * bGross[o] \in Int /\ Cost(o) \in Int
           /\ (Scale + FeeRate) * (Qty[o] - bFilled[o]) * Limit[o] \in Nat
<1> DEFINE K == Scale + FeeRate
           a == bFilled[o] - filled[o]
           b == Qty[o] - bFilled[o]
<1>1. /\ K \in Nat /\ a \in Int /\ b \in Nat /\ Limit[o] \in Nat
      /\ gross[o] \in Nat /\ bGross[o] \in Nat
      /\ bGross[o] - gross[o] <= a * Limit[o] /\ a * Limit[o] \in Int
      /\ Qty[o] - filled[o] = b + a
  BY IInvParts, ConstantTypes DEF OrderOK, Quantities, BrokerFacts
<1>2. Cost(o) = K * gross[o] + K * (b + a) * Limit[o]
  BY <1>1 DEF Cost, Unfilled
<1> HIDE DEF K, a, b
<1>3. K * (b + a) * Limit[o] = K * b * Limit[o] + K * (a * Limit[o])
      /\ K * b * Limit[o] \in Int
  <2>1. K \in Int /\ a \in Int /\ b \in Int /\ Limit[o] \in Int
    BY <1>1
  <2> QED  BY <2>1
<1>4. K * (bGross[o] - gross[o]) <= K * (a * Limit[o]) /\ K * (a * Limit[o]) \in Int
  BY <1>1, ProductMonotone
<1>5. K * (bGross[o] - gross[o]) = K * bGross[o] - K * gross[o]
      /\ K * bGross[o] \in Int /\ K * gross[o] \in Int
  BY <1>1
<1>6. K * b * Limit[o] \in Nat
  BY <1>1, ProductNat
<1>7. K * bGross[o] + K * b * Limit[o] <= Cost(o) /\ Cost(o) \in Int
  BY <1>2, <1>3, <1>4, <1>5
<1> QED  BY <1>5, <1>6, <1>7 DEF K, b

\* A step that leaves a row alone, or moves it from one open status to another,
\* leaves what it costs.
LEMMA SameCost ==
    ASSUME NEW o \in Buys, filled'[o] = filled[o], gross'[o] = gross[o], RowOpen(o)' = RowOpen(o)
    PROVE  Cost(o)' = Cost(o)
BY DEF Cost, Unfilled

LEMMA CashUpdateStep ==
    ASSUME IInv, IInv', CashCoversReservations, NEW o \in Orders, UpdateOrder(o)
    PROVE  CashCoversReservations'
<1>1. /\ bStatus[o] # "NONE" /\ RowOpen(o)
      /\ status' = [status EXCEPT ![o] = bStatus[o]] /\ filled' = [filled EXCEPT ![o] = bFilled[o]]
      /\ gross' = [gross EXCEPT ![o] = bGross[o]]
  BY DEF UpdateOrder
<1>2. RowTypes /\ RowTypes' /\ StatusTypes /\ OrderOK(o)
  BY IInvParts DEF IInv, FunctionTypes, RowTypes
<1>3. /\ status'[o] = bStatus[o] /\ filled'[o] = bFilled[o] /\ gross'[o] = bGross[o]
      /\ \A p \in Orders \ {o} : /\ status'[p] = status[p] /\ filled'[p] = filled[p]
                                 /\ gross'[p] = gross[p]
  BY <1>1, <1>2 DEF StatusTypes, RowTypes
<1>4. ASSUME NEW p \in Buys
      PROVE  Cost(p)' <= Cost(p)
  <2>1. p \in Orders /\ Cost(p) \in Int
    BY <1>2, ConstantTypes, CostType DEF CostsAreAmounts
  <2>2. CASE p = o
    <3>1. /\ (Scale + FeeRate) * bGross[o] + (Scale + FeeRate) * (Qty[o] - bFilled[o]) * Limit[o]
                <= Cost(o)
          /\ (Scale + FeeRate) * bGross[o] \in Int
          /\ (Scale + FeeRate) * (Qty[o] - bFilled[o]) * Limit[o] \in Nat
      BY <1>1, <2>2, FillsWithinTheLimit
    <3>2. Cost(o)' = (Scale + FeeRate) * bGross[o]
             + (IF RowOpen(o)' THEN (Scale + FeeRate) * (Qty[o] - bFilled[o]) * Limit[o] ELSE 0)
      BY <1>3 DEF Cost, Unfilled
    <3> QED  BY <2>1, <2>2, <3>1, <3>2
  <2>3. CASE p # o
    <3>1. Cost(p)' = Cost(p)
      BY <1>3, <2>1, <2>3, SameCost DEF RowOpen
    <3> QED  BY <2>1, <3>1
  <2> QED  BY <2>2, <2>3
<1>5. ASSUME NEW p \in Sells
      PROVE  gross[p] <= gross'[p]
  <2>1. p \in Orders
    BY ConstantTypes
  <2> QED  BY <1>1, <1>2, <1>3, <2>1 DEF RowTypes, OrderOK, BrokerFacts
<1> QED  BY <1>2, <1>4, <1>5, CashKept

\* The transaction compares what the order needs with the cash that is left.
LEMMA CashReserveStep ==
    ASSUME IInv, IInv', CashCoversReservations, NEW o \in Buys, ReserveBuy(o)
    PROVE  CashCoversReservations'
<1>1. /\ RowTypes /\ RowTypes' /\ StatusTypes /\ OrderOK(o) /\ o \in Orders
      /\ pc[o] = "reserve" /\ status[o] = "NONE" /\ filled[o] = 0 /\ gross[o] = 0
      /\ filled' = filled /\ gross' = gross
  BY IInvParts, ConstantTypes DEF IInv, FunctionTypes, RowTypes, OrderOK, RowFacts, ReserveBuy
<1>2. /\ RawCash - Reserved = InitialCapital + PriorProfit - Spent + Earned
      /\ RawCash \in Int /\ Reserved \in Int /\ Spent \in Int /\ Earned \in Int
  BY <1>1, CashLeft DEF CashIsWhatIsLeft
<1>3. /\ (RawCash - Reserved)' = InitialCapital + PriorProfit - Spent' + Earned'
      /\ Spent' \in Int /\ Earned' \in Int
  BY <1>1, CashLeftNext DEF CashIsWhatIsLeft
<1>4. CASE status' = status
  <2>1. \A p \in Buys : Cost(p)' <= Cost(p)
    <3>1. \A p \in Buys : Cost(p)' = Cost(p)
      BY <1>1, <1>4, SameCost DEF RowOpen
    <3> QED  BY <1>1, <3>1, CostType DEF CostsAreAmounts
  <2> QED  BY <1>1, <2>1, CashKept DEF RowTypes, Orders
<1>5. CASE /\ status' = [status EXCEPT ![o] = "CREATED"]
           /\ Required(o) <= Available(seenPower[o])
  <2> DEFINE k == [p \in Buys |-> Cost(p)]
             k1 == [p \in Buys |-> Cost(p)']
  <2>1. k \in [Buys -> Int] /\ k1 \in [Buys -> Int]
    BY <1>1, CostType, CostTypeNext DEF CostsAreAmounts
  <2>2. \A p \in Buys \ {o} : k1[p] = k[p]
    <3>1. \A p \in Buys \ {o} : Cost(p)' = Cost(p)
      BY <1>1, <1>5, SameCost, ConstantTypes DEF RowOpen, StatusTypes
    <3> QED  BY <3>1
  <2>3. k[o] = 0 /\ k1[o] = Required(o)
    <3>1. (Scale + FeeRate) * 0 = 0 /\ (Scale + FeeRate) * (Qty[o] - 0) * Limit[o] = Required(o)
          /\ Required(o) \in Int
      BY <1>1, ConstantTypes DEF Required
    <3>2. status'[o] = "CREATED" /\ filled'[o] = 0 /\ gross'[o] = 0
      BY <1>1, <1>5 DEF StatusTypes
    <3>3. Cost(o) = 0
      BY <1>1, <3>1 DEF Cost, RowOpen
    <3>4. Cost(o)' = Required(o)
      BY <3>1, <3>2 DEF Cost, RowOpen, Unfilled
    <3> QED  BY <3>3, <3>4
  <2>4. SumFunction(k1) = SumFunction(k) + (k1[o] - k[o])
    <3> HIDE DEF k, k1
    <3> QED  BY <2>1, <2>2, CapitalAssumption, SumChange
  <2>5. Spent' = Spent + Required(o) /\ Earned' = Earned
    <3>1. Spent = SumFunction(k) /\ Spent' = SumFunction(k1)
      BY DEF Spent
    <3>2. Earned' = Earned
      BY <1>1 DEF Earned
    <3>3. Required(o) \in Int
      BY <2>1, <2>3
    <3> HIDE DEF k, k1
    <3> QED  BY <2>3, <2>4, <3>1, <3>2, <3>3, <1>2
  <2>6. Required(o) \in Int
    BY <2>1, <2>3
  <2>7. /\ seenPower[o] \in Int /\ budget \in Int /\ Invested \in Int
    <3>1. basis \in [Symbols -> Nat] /\ budget \in Nat /\ seenPower \in [Orders -> Int]
      BY DEF IInv, TypeOK, ThreadTypes
    <3>2. basis \in [Symbols -> Int] /\ IsFiniteSet(Symbols)
      BY <3>1, CapitalAssumption
    <3>3. SumFunction(basis) \in Int
      BY <3>2, SumType
    <3> QED  BY <1>1, <3>1, <3>3 DEF Invested
  <2>8. Required(o) <= RawCash - Reserved
    BY <1>2, <1>5, <2>6, <2>7 DEF Available, Greatest, Least, CashCoversReservations
  <2> QED  BY <1>2, <1>3, <2>5, <2>6, <2>8, ConstantTypes DEF CashCoversReservations
<1> QED  BY <1>4, <1>5 DEF ReserveBuy

LEMMA CashStep ==
    ASSUME IInv, IInv', CashCoversReservations, [Next]_vars
    PROVE  CashCoversReservations'
<1>1. RowTypes /\ RowTypes' /\ StatusTypes /\ \A o \in Orders : OrderOK(o)
  BY IInvParts DEF IInv, FunctionTypes, RowTypes
<1>2. ASSUME filled' = filled, gross' = gross, \A o \in Buys : RowOpen(o)' = RowOpen(o)
      PROVE  CashCoversReservations'
  <2>1. \A o \in Buys : Cost(o)' = Cost(o) /\ Cost(o) \in Int
    BY <1>1, <1>2, SameCost, CostType DEF CostsAreAmounts
  <2>2. \A o \in Buys : Cost(o)' <= Cost(o)
    BY <2>1
  <2>3. \A o \in Sells : gross[o] <= gross'[o]
    BY <1>1, <1>2, ConstantTypes DEF RowTypes
  <2> QED  BY <1>1, <2>2, <2>3, CashKept
<1>3. ASSUME NEW o \in Orders, ReserveSell(o)
      PROVE  CashCoversReservations'
  <2>1. o \notin Buys
    BY <1>3, ConstantTypes DEF ReserveSell
  <2>2. \A p \in Buys : RowOpen(p)' = RowOpen(p)
    BY <1>1, <1>3, <2>1, ConstantTypes DEF ReserveSell, RowOpen, StatusTypes
  <2> QED  BY <1>2, <1>3, <2>2 DEF ReserveSell
<1>4. ASSUME NEW o \in Orders, PlaceOrderFails(o)
      PROVE  CashCoversReservations'
  <2>1. status[o] = "CREATED"
    BY <1>1, <1>4 DEF PlaceOrderFails, OrderOK, RowFacts
  <2>2. \A p \in Buys : RowOpen(p)' = RowOpen(p)
    BY <1>1, <1>4, <2>1, ConstantTypes DEF PlaceOrderFails, RowOpen, StatusTypes
  <2> QED  BY <1>2, <1>4, <2>2 DEF PlaceOrderFails
<1>5. ASSUME NEW o \in Orders, ReserveBuy(o)
      PROVE  CashCoversReservations'
  <2>1. o \in Buys
    BY <1>1, <1>5 DEF ReserveBuy, OrderOK, RowFacts
  <2> QED  BY <1>5, <2>1, CashReserveStep
<1>6. ASSUME NEW o \in Orders, UpdateOrder(o)
      PROVE  CashCoversReservations'
  BY <1>6, CashUpdateStep
<1>7. ASSUME UNCHANGED <<status, filled, gross>>
      PROVE  CashCoversReservations'
  BY <1>2, <1>7 DEF RowOpen
<1>8. ASSUME NEW o \in Orders,
             \/ ReadBuyingPower(o) \/ PlaceOrder(o) \/ CancelOrder(o) \/ ApplyCoreFill(o)
             \/ \E n \in 1..Qty[o], p \in Prices : BrokerFills(o, n, p)
      PROVE  CashCoversReservations'
  BY <1>7, <1>8 DEF ReadBuyingPower, PlaceOrder, CancelOrder, ApplyCoreFill, BrokerFills, dbVars
<1>9. ASSUME ReadCash \/ RecordEquity \/ Crash \/ Restore \/ UNCHANGED vars
      PROVE  CashCoversReservations'
  BY <1>7, <1>9 DEF ReadCash, RecordEquity, Crash, Restore, vars, dbVars
<1> QED  BY <1>3, <1>4, <1>5, <1>6, <1>8, <1>9 DEF Next

-----------------------------------------------------------------------------
(* The broker's cash *)

Charged == SumFunction([o \in Buys |-> (Scale + FeeRate) * FinalGross(o)])
Credited == SumFunction([o \in Sells |-> (Scale - FeeRate) * FinalGross(o)])

GrossTypes == gross \in [Orders -> Nat] /\ bGross \in [Orders -> Nat]

FinalCashIsWhatIsLeft ==
    /\ \A o \in Orders : FinalGross(o) \in Nat
    /\ \A o \in Buys : (Scale + FeeRate) * FinalGross(o) \in Int
    /\ \A o \in Sells : (Scale - FeeRate) * FinalGross(o) \in Int
    /\ FinalCash = InitialCapital + PriorProfit - Charged + Credited
    /\ Charged \in Int /\ Credited \in Int

LEMMA FinalCashType == GrossTypes => FinalCashIsWhatIsLeft
<1> SUFFICES ASSUME GrossTypes PROVE FinalCashIsWhatIsLeft
  OBVIOUS
<1> DEFINE f == [o \in Buys |-> (Scale + FeeRate) * FinalGross(o)]
           g == [o \in Sells |-> (Scale - FeeRate) * FinalGross(o)]
<1>1. \A o \in Orders : FinalGross(o) \in Nat
  BY DEF GrossTypes, FinalGross
<1>2. \A o \in Buys : (Scale + FeeRate) * FinalGross(o) \in Int
  BY <1>1, ConstantTypes
<1>3. \A o \in Sells : (Scale - FeeRate) * FinalGross(o) \in Int
  BY <1>1, ConstantTypes
<1>4. SumFunction(f) \in Int /\ SumFunction(g) \in Int
  <2>1. f \in [Buys -> Int] /\ g \in [Sells -> Int]
    BY <1>2, <1>3
  <2> HIDE DEF f, g
  <2> QED  BY <2>1, CapitalAssumption, SumType
<1>5. Charged = SumFunction(f) /\ Credited = SumFunction(g)
      /\ FinalCash = InitialCapital + PriorProfit - SumFunction(f) + SumFunction(g)
  BY DEF Charged, Credited, FinalCash
<1> HIDE DEF f, g
<1> QED  BY <1>1, <1>2, <1>3, <1>4, <1>5 DEF FinalCashIsWhatIsLeft

LEMMA FinalCashTypeNext == GrossTypes' => FinalCashIsWhatIsLeft'
BY FinalCashType, PTL

\* A row that catches up with the broker leaves its final amount as it was.
LEMMA SameFinalCash ==
    ASSUME \A o \in Orders : FinalGross(o)' = FinalGross(o)
    PROVE  FinalCash' = FinalCash
<1>1. [o \in Buys |-> (Scale + FeeRate) * FinalGross(o)]
        = [o \in Buys |-> (Scale + FeeRate) * FinalGross(o)']
  BY ConstantTypes
<1>2. [o \in Sells |-> (Scale - FeeRate) * FinalGross(o)]
        = [o \in Sells |-> (Scale - FeeRate) * FinalGross(o)']
  BY ConstantTypes
<1> QED  BY <1>1, <1>2 DEF FinalCash

\* A fill takes from the broker its price and from the rows' cash the fee too.
LEMMA FillMovesCash ==
    ASSUME IInv, IInv', BrokerHasCash,
           NEW o \in Orders, NEW n \in 1..Qty[o], NEW p \in Prices, BrokerFills(o, n, p)
    PROVE  BrokerHasCash'
<1>1. /\ phase = "up" /\ bStatus[o] = "PENDING" /\ n \in Nat /\ p \in Nat
      /\ bGross' = [bGross EXCEPT ![o] = bGross[o] + n * p]
      /\ bStatus' = [bStatus EXCEPT ![o] = IF bFilled'[o] = Qty[o] THEN "DONE" ELSE bStatus[o]]
      /\ buyingPower' = (IF o \in Buys THEN buyingPower - Scale * n * p
                                       ELSE buyingPower + Scale * n * p)
      /\ gross' = gross
  BY ConstantTypes, CapitalAssumption DEF BrokerFills, dbVars
<1>2. GrossTypes /\ GrossTypes' /\ StatusTypes /\ buyingPower \in Int
  BY IInvParts DEF IInv, FunctionTypes, GrossTypes, TypeOK
<1>3. FinalCashIsWhatIsLeft /\ FinalCashIsWhatIsLeft'
  BY <1>2, FinalCashType, FinalCashTypeNext
<1>4. /\ FinalGross(o)' = FinalGross(o) + n * p
      /\ \A q \in Orders \ {o} : FinalGross(q)' = FinalGross(q)
  BY <1>1, <1>2 DEF FinalGross, StatusTypes, GrossTypes
<1>5. FinalGross(o) \in Nat /\ n * p \in Nat /\ Scale * n * p = Scale * (n * p)
      /\ FeeRate * (n * p) \in Nat /\ Scale * (n * p) \in Nat
  <2>1. n * p \in Nat /\ Scale * n * p = Scale * (n * p)
    BY <1>1, ConstantTypes, ProductNat
  <2> QED  BY <1>3, <2>1, ConstantTypes, ProductNat DEF FinalCashIsWhatIsLeft
<1>6. CASE o \in Buys
  <2> DEFINE f == [q \in Buys |-> (Scale + FeeRate) * FinalGross(q)]
             f1 == [q \in Buys |-> (Scale + FeeRate) * FinalGross(q)']
  <2>1. f \in [Buys -> Int] /\ f1 \in [Buys -> Int]
    BY <1>3 DEF FinalCashIsWhatIsLeft
  <2>2. \A q \in Buys \ {o} : f1[q] = f[q]
    BY <1>4, ConstantTypes
  <2>3. f1[o] = f[o] + (Scale * (n * p) + FeeRate * (n * p))
    <3>1. \A a, b, c, d \in Int : (a + b) * (c + d) = (a + b) * c + (a * d + b * d)
      OBVIOUS
    <3>2. (Scale + FeeRate) * (FinalGross(o) + n * p)
            = (Scale + FeeRate) * FinalGross(o) + (Scale * (n * p) + FeeRate * (n * p))
      BY <1>5, <3>1, ConstantTypes
    <3> QED  BY <1>4, <1>6, <3>2
  <2>4. SumFunction(f1) = SumFunction(f) + (f1[o] - f[o])
    <3> HIDE DEF f, f1
    <3> QED  BY <1>6, <2>1, <2>2, CapitalAssumption, SumChange
  <2>5. Charged = SumFunction(f) /\ Charged' = SumFunction(f1)
    BY DEF Charged
  <2>6. Charged' = Charged + (Scale * (n * p) + FeeRate * (n * p))
    <3>1. f[o] \in Int
      BY <1>6, <2>1
    <3> HIDE DEF f, f1
    <3> QED  BY <1>3, <1>5, <2>3, <2>4, <2>5, <3>1 DEF FinalCashIsWhatIsLeft
  <2>7. Credited' = Credited
    <3>1. \A q \in Sells : FinalGross(q)' = FinalGross(q)
      BY <1>4, <1>6, ConstantTypes
    <3>2. [q \in Sells |-> (Scale - FeeRate) * FinalGross(q)]
            = [q \in Sells |-> (Scale - FeeRate) * FinalGross(q)']
      BY <3>1
    <3> QED  BY <3>2 DEF Credited
  <2> QED  BY <1>1, <1>2, <1>3, <1>5, <1>6, <2>6, <2>7, ConstantTypes
           DEF BrokerHasCash, FinalCashIsWhatIsLeft
<1>7. CASE o \in Sells
  <2> DEFINE f == [q \in Sells |-> (Scale - FeeRate) * FinalGross(q)]
             f1 == [q \in Sells |-> (Scale - FeeRate) * FinalGross(q)']
  <2>1. f \in [Sells -> Int] /\ f1 \in [Sells -> Int]
    BY <1>3 DEF FinalCashIsWhatIsLeft
  <2>2. \A q \in Sells \ {o} : f1[q] = f[q]
    BY <1>4, ConstantTypes
  <2>3. f1[o] = f[o] + (Scale * (n * p) - FeeRate * (n * p))
    <3>1. \A a, b, c, d \in Int : (a - b) * (c + d) = (a - b) * c + (a * d - b * d)
      OBVIOUS
    <3>2. (Scale - FeeRate) * (FinalGross(o) + n * p)
            = (Scale - FeeRate) * FinalGross(o) + (Scale * (n * p) - FeeRate * (n * p))
      BY <1>5, <3>1, ConstantTypes
    <3> QED  BY <1>4, <1>7, <3>2
  <2>4. SumFunction(f1) = SumFunction(f) + (f1[o] - f[o])
    <3> HIDE DEF f, f1
    <3> QED  BY <1>7, <2>1, <2>2, CapitalAssumption, SumChange
  <2>5. Credited = SumFunction(f) /\ Credited' = SumFunction(f1)
    BY DEF Credited
  <2>6. Credited' = Credited + (Scale * (n * p) - FeeRate * (n * p))
    <3>1. f[o] \in Int
      BY <1>7, <2>1
    <3> HIDE DEF f, f1
    <3> QED  BY <1>3, <1>5, <2>3, <2>4, <2>5, <3>1 DEF FinalCashIsWhatIsLeft
  <2>7. Charged' = Charged
    <3>1. \A q \in Buys : FinalGross(q)' = FinalGross(q)
      BY <1>4, <1>7, ConstantTypes
    <3>2. [q \in Buys |-> (Scale + FeeRate) * FinalGross(q)]
            = [q \in Buys |-> (Scale + FeeRate) * FinalGross(q)']
      BY <3>1
    <3> QED  BY <3>2 DEF Charged
  <2>8. o \notin Buys
    BY <1>7, ConstantTypes
  <2> QED  BY <1>1, <1>2, <1>3, <1>5, <2>6, <2>7, <2>8, ConstantTypes
           DEF BrokerHasCash, FinalCashIsWhatIsLeft
<1> QED  BY <1>6, <1>7 DEF Orders

\* At a restart the broker has nothing, and gets the cash of the rows.
LEMMA RestoreGivesCash ==
    ASSUME IInv, IInv', Restore
    PROVE  BrokerHasCash'
<1>1. /\ phase = "recover" /\ buyingPower' = Greatest(0, RawCash) /\ gross' = gross
      /\ bStatus' = [o \in Orders |->
                        IF status[o] = "PENDING" /\ filled[o] = 0 THEN "PENDING" ELSE "NONE"]
      /\ bGross' = bGross
  BY DEF Restore, dbVars
<1>2. \A o \in Orders : FinalGross(o)' = gross[o]
  <2>1. ASSUME NEW o \in Orders
        PROVE  /\ bGross[o] = 0
               /\ filled[o] = 0 => gross[o] = 0
    BY <1>1, IInvParts DEF OrderOK, RowFacts, BrokerFacts, ThreadTypes
  <2> QED  BY <1>1, <2>1 DEF FinalGross
<1>3. FinalCash' = RawCash
  <2>1. [o \in Buys |-> (Scale + FeeRate) * FinalGross(o)']
          = [o \in Buys |-> (Scale + FeeRate) * gross[o]]
    BY <1>2, ConstantTypes
  <2>2. [o \in Sells |-> (Scale - FeeRate) * FinalGross(o)']
          = [o \in Sells |-> (Scale - FeeRate) * gross[o]]
    BY <1>2, ConstantTypes
  <2> QED  BY <2>1, <2>2 DEF FinalCash, RawCash
<1>4. RawCash \in Int
  BY RawCashType DEF IInv
<1> QED  BY <1>1, <1>3, <1>4 DEF BrokerHasCash, Greatest

LEMMA BrokerCashStep ==
    ASSUME IInv, IInv', BrokerHasCash, [Next]_vars
    PROVE  BrokerHasCash'
<1>1. \A o \in Orders : OrderOK(o)
  BY IInvParts
<1>2. FunctionTypes /\ StatusTypes
  BY IInvParts
<1>3. ASSUME phase' = phase, buyingPower' = buyingPower,
             \A o \in Orders : FinalGross(o)' = FinalGross(o)
      PROVE  BrokerHasCash'
  BY <1>3, SameFinalCash DEF BrokerHasCash
<1>4. ASSUME NEW o \in Orders, PlaceOrder(o)
      PROVE  BrokerHasCash'
  <2>1. /\ bStatus[o] = "NONE" /\ gross[o] = 0 /\ bGross[o] = 0
    BY <1>1, <1>4 DEF PlaceOrder, OrderOK, RowFacts, BrokerFacts
  <2>2. \A q \in Orders : FinalGross(q)' = FinalGross(q)
    BY <1>2, <1>4, <2>1 DEF PlaceOrder, FinalGross, dbVars, StatusTypes
  <2> QED  BY <1>3, <1>4, <2>2 DEF PlaceOrder
<1>5. ASSUME NEW o \in Orders, CancelOrder(o)
      PROVE  BrokerHasCash'
  <2>1. \A q \in Orders : FinalGross(q)' = FinalGross(q)
    BY <1>2, <1>5 DEF CancelOrder, FinalGross, dbVars, StatusTypes
  <2> QED  BY <1>3, <1>5, <2>1 DEF CancelOrder
<1>6. ASSUME NEW o \in Orders, UpdateOrder(o)
      PROVE  BrokerHasCash'
  <2>1. \A q \in Orders : FinalGross(q)' = FinalGross(q)
    BY <1>2, <1>6 DEF UpdateOrder, FinalGross, brokerVars, FunctionTypes
  <2> QED  BY <1>3, <1>6, <2>1 DEF UpdateOrder, brokerVars
<1>7. ASSUME UNCHANGED <<gross, brokerVars, phase>>
      PROVE  BrokerHasCash'
  BY <1>3, <1>7 DEF FinalGross, brokerVars
<1>8. ASSUME NEW o \in Orders,
             \/ ReadBuyingPower(o) \/ ReserveBuy(o) \/ ReserveSell(o) \/ PlaceOrderFails(o)
             \/ ApplyCoreFill(o)
      PROVE  BrokerHasCash'
  BY <1>7, <1>8 DEF ReadBuyingPower, ReserveBuy, ReserveSell, PlaceOrderFails, ApplyCoreFill, dbVars
<1>9. ASSUME ReadCash \/ RecordEquity \/ UNCHANGED vars
      PROVE  BrokerHasCash'
  BY <1>7, <1>9 DEF ReadCash, RecordEquity, vars, dbVars
<1>10. Crash => BrokerHasCash'
  BY DEF Crash, BrokerHasCash
<1> QED
  BY <1>4, <1>5, <1>6, <1>8, <1>9, <1>10, FillMovesCash, RestoreGivesCash DEF Next

LEMMA InitMoney == Init => Money
<1> SUFFICES ASSUME Init PROVE Money
  OBVIOUS
<1>1. IInv
  BY InitIInv
<1>2. RowTypes /\ GrossTypes
  BY <1>1 DEF IInv, FunctionTypes, RowTypes, GrossTypes
<1>3. Spent = 0 /\ Charged = 0
  <2> DEFINE k == [o \in Buys |-> Cost(o)]
             f == [o \in Buys |-> (Scale + FeeRate) * FinalGross(o)]
  <2>1. \A o \in Buys : k[o] = 0 /\ f[o] = 0
    BY ConstantTypes DEF Init, Cost, RowOpen, FinalGross
  <2>2. k \in [Buys -> Int] /\ f \in [Buys -> Int]
    BY <2>1
  <2>3. SumFunction(k) = 0 /\ SumFunction(f) = 0
    <3> HIDE DEF k, f
    <3> QED  BY <2>1, <2>2, CapitalAssumption, SumOfZeros
  <2> QED  BY <2>3 DEF Spent, Charged
<1>4. Earned = 0 /\ Credited = 0
  <2> DEFINE e == [o \in Sells |-> (Scale - FeeRate) * gross[o]]
             g == [o \in Sells |-> (Scale - FeeRate) * FinalGross(o)]
  <2>1. \A o \in Sells : e[o] = 0 /\ g[o] = 0
    BY ConstantTypes DEF Init, FinalGross
  <2>2. e \in [Sells -> Int] /\ g \in [Sells -> Int]
    BY <2>1
  <2>3. SumFunction(e) = 0 /\ SumFunction(g) = 0
    <3> HIDE DEF e, g
    <3> QED  BY <2>1, <2>2, CapitalAssumption, SumOfZeros
  <2> QED  BY <2>3 DEF Earned, Credited
<1>5. CashCoversReservations
  BY <1>2, <1>3, <1>4, CashLeft, ConstantTypes DEF CashIsWhatIsLeft, CashCoversReservations
<1>6. BrokerHasCash
  BY <1>2, <1>3, <1>4, FinalCashType, ConstantTypes DEF Init, FinalCashIsWhatIsLeft, BrokerHasCash
<1> QED  BY <1>5, <1>6 DEF Money

LEMMA NextMoney ==
    ASSUME IInv, Money, [Next]_vars
    PROVE  Money'
BY NextIInv, CashStep, BrokerCashStep DEF Money

\* At all times the strategy's cash covers its reservations, and the broker's
\* covers what the rows will show when they have caught up with it.
THEOREM MoneyInvariance == Spec => []Money
<1>1. IInv /\ Money /\ [Next]_vars => Money'
  BY NextMoney
<1> QED  BY InitMoney, Invariance, <1>1, PTL DEF Spec

\* Reserving, placing, filling, cancelling, selling and restarting in any order,
\* the cash rebuilt from the rows pays for every open BUY at its limit.
THEOREM CashAlwaysCovers == Spec => []CashCoversReservations
<1>1. Money => CashCoversReservations
  BY DEF Money
<1> QED  BY MoneyInvariance, <1>1, PTL

-----------------------------------------------------------------------------
(* From the ledger's side to the broker's *)

\* What the broker can still buy for o.
Commitment(o) ==
    IF bStatus[o] = "PENDING" \/ pc[o] = "place"
    THEN Scale * (Qty[o] - bFilled[o]) * Limit[o] ELSE 0

\* What the broker has spent and may still spend on a BUY is within its cost.
LEMMA CommitmentWithinCost ==
    ASSUME IInv, NEW o \in Buys
    PROVE  /\ (Scale + FeeRate) * FinalGross(o) + Commitment(o) <= Cost(o)
           /\ (Scale + FeeRate) * FinalGross(o) \in Int /\ Commitment(o) \in Int /\ Cost(o) \in Int
<1> DEFINE b == Qty[o] - bFilled[o]
           rest == (Scale + FeeRate) * b * Limit[o]
<1>1. /\ OrderOK(o) /\ bStatus[o] \in {"NONE", "PENDING", "DONE"}
      /\ filled[o] \in Nat /\ gross[o] \in Nat /\ bFilled[o] \in Nat /\ bGross[o] \in Nat
      /\ b \in Nat /\ Limit[o] \in Nat /\ Scale \in Nat /\ FeeRate \in Nat
  BY IInvParts, ConstantTypes DEF StatusTypes, OrderOK, Quantities, FunctionTypes
<1>2. Cost(o) \in Int
  BY CostType DEF IInv, FunctionTypes, RowTypes, CostsAreAmounts
<1>3. (Scale + FeeRate) * FinalGross(o) \in Int
  BY <1>1 DEF FinalGross
<1>4. Scale * b * Limit[o] \in Int /\ rest \in Nat /\ Scale * b * Limit[o] <= rest
  <2>1. /\ Scale * b * Limit[o] \in Nat /\ FeeRate * b * Limit[o] \in Nat
    BY <1>1, ProductNat
  <2>2. rest = Scale * b * Limit[o] + FeeRate * b * Limit[o]
    BY <1>1
  <2> HIDE DEF b, rest
  <2> QED  BY <2>1, <2>2
<1>5. Commitment(o) \in Int
  BY <1>4 DEF Commitment
<1>6. ASSUME RowOpen(o)
      PROVE  Unfilled(o) \in Nat
  <2>1. Qty[o] - filled[o] \in Nat /\ Scale + FeeRate \in Nat
    BY <1>1, ConstantTypes DEF OrderOK, Quantities
  <2> QED  BY <1>1, <2>1, ProductNat DEF Unfilled
<1>7. CASE bStatus[o] = "NONE"
  <2>1. FinalGross(o) = gross[o]
    BY <1>7 DEF FinalGross
  <2>2. CASE pc[o] = "place"
    <3>1. status[o] = "CREATED" /\ filled[o] = 0 /\ gross[o] = 0 /\ bFilled[o] = 0 /\ RowOpen(o)
      BY <1>1, <1>7, <2>2 DEF OrderOK, RowFacts, BrokerFacts, RowOpen
    <3>2. Cost(o) = (Scale + FeeRate) * gross[o] + rest
      BY <3>1 DEF Cost, Unfilled
    <3> HIDE DEF b, rest
    <3> QED  BY <1>2, <1>3, <1>4, <2>1, <2>2, <3>2 DEF Commitment, b
  <2>3. CASE pc[o] # "place"
    <3>1. Commitment(o) = 0
      BY <1>7, <2>3 DEF Commitment
    <3> QED  BY <1>2, <1>3, <1>6, <2>1, <3>1 DEF Cost
  <2> QED  BY <2>2, <2>3
<1>8. CASE bStatus[o] # "NONE" /\ RowOpen(o)
  <2>1. (Scale + FeeRate) * bGross[o] + rest <= Cost(o) /\ (Scale + FeeRate) * bGross[o] \in Int
    BY <1>8, FillsWithinTheLimit
  <2>2. FinalGross(o) = bGross[o]
    BY <1>8 DEF FinalGross
  <2>3. Commitment(o) <= rest
    BY <1>4 DEF Commitment
  <2> HIDE DEF b, rest
  <2> QED  BY <1>2, <1>4, <1>5, <2>1, <2>2, <2>3
<1>9. CASE bStatus[o] # "NONE" /\ ~RowOpen(o)
  <2>1. bGross[o] = gross[o] /\ bStatus[o] # "PENDING" /\ pc[o] # "place"
    BY <1>1, <1>9 DEF OrderOK, RowFacts, BrokerFacts, RowOpen
  <2>2. FinalGross(o) = gross[o] /\ Commitment(o) = 0
    BY <1>9, <2>1 DEF FinalGross, Commitment
  <2> QED  BY <1>2, <1>3, <1>9, <2>2 DEF Cost
<1> QED  BY <1>2, <1>3, <1>5, <1>7, <1>8, <1>9

LEMMA MoneyCoversOrders ==
    ASSUME IInv, Money
    PROVE  BrokerCashCoversOrders
<1> DEFINE f == [o \in Buys |-> (Scale + FeeRate) * FinalGross(o)]
           c == [o \in Buys |-> Commitment(o)]
           t == [o \in Buys |-> (Scale + FeeRate) * FinalGross(o) + Commitment(o)]
           k == [o \in Buys |-> Cost(o)]
           e == [o \in Sells |-> (Scale - FeeRate) * gross[o]]
           g == [o \in Sells |-> (Scale - FeeRate) * FinalGross(o)]
<1>1. f \in [Buys -> Int] /\ c \in [Buys -> Int] /\ t \in [Buys -> Int] /\ k \in [Buys -> Int]
  BY CommitmentWithinCost
<1>2. \A o \in Buys : t[o] = f[o] + c[o] /\ t[o] <= k[o]
  BY CommitmentWithinCost
<1>3. \A o \in Sells : e[o] \in Int /\ g[o] \in Int /\ e[o] <= g[o]
  <2>1. ASSUME NEW o \in Sells
        PROVE  gross[o] \in Nat /\ FinalGross(o) \in Nat /\ gross[o] <= FinalGross(o)
    <3>1. OrderOK(o) /\ gross[o] \in Nat /\ bGross[o] \in Nat
      BY IInvParts, ConstantTypes DEF FunctionTypes
    <3> QED  BY <3>1 DEF OrderOK, BrokerFacts, FinalGross
  <2>2. ASSUME NEW o \in Sells
        PROVE  /\ (Scale - FeeRate) * gross[o] \in Int /\ (Scale - FeeRate) * FinalGross(o) \in Int
               /\ (Scale - FeeRate) * gross[o] <= (Scale - FeeRate) * FinalGross(o)
    <3>1. Scale - FeeRate \in Nat
      BY ConstantTypes
    <3> QED  BY <2>1, <3>1, ProductMonotone
  <2> QED  BY <2>2
<1>4. e \in [Sells -> Int] /\ g \in [Sells -> Int]
  BY <1>3
<1>5. SumFunction(f) + SumFunction(c) <= SumFunction(k) /\ SumFunction(c) \in Int
  <2> HIDE DEF f, c, t, k
  <2>1. SumFunction(t) = SumFunction(f) + SumFunction(c) /\ SumFunction(t) <= SumFunction(k)
    BY <1>1, <1>2, CapitalAssumption, SumsAddUp, SumMonotone
  <2>2. SumFunction(c) \in Int
    BY <1>1, CapitalAssumption, SumType
  <2> QED  BY <2>1, <2>2
<1>6. SumFunction(e) <= SumFunction(g)
  <2> HIDE DEF e, g
  <2> QED  BY <1>3, <1>4, CapitalAssumption, SumMonotone
<1>7. /\ RawCash - Reserved = InitialCapital + PriorProfit - Spent + Earned
      /\ Spent \in Int /\ Earned \in Int
  BY CashLeft DEF IInv, FunctionTypes, RowTypes, CashIsWhatIsLeft
<1>8. /\ FinalCash = InitialCapital + PriorProfit - Charged + Credited
      /\ Charged \in Int /\ Credited \in Int
  BY FinalCashType DEF IInv, FunctionTypes, GrossTypes, FinalCashIsWhatIsLeft
<1>9. /\ Spent = SumFunction(k) /\ Earned = SumFunction(e)
      /\ Charged = SumFunction(f) /\ Credited = SumFunction(g)
      /\ BrokerCommitment = SumFunction(c)
  BY DEF Spent, Earned, Charged, Credited, BrokerCommitment, Commitment
<1>10. BrokerCommitment <= FinalCash
  <2> HIDE DEF f, c, t, k, e, g
  <2> QED  BY <1>5, <1>6, <1>7, <1>8, <1>9, ConstantTypes DEF Money, CashCoversReservations
<1> HIDE DEF f, c, t, k, e, g
<1>11. BrokerCommitment \in Int /\ FinalCash \in Int /\ buyingPower \in Int
  BY <1>5, <1>8, <1>9, ConstantTypes DEF IInv, TypeOK
<1> QED  BY <1>10, <1>11 DEF Money, BrokerHasCash, BrokerCashCoversOrders

\* No order that the dry-run broker holds can take its cash below zero, whatever
\* order of fills, cancellations and restarts led there.
THEOREM BrokerCanAlwaysPay == Spec => []BrokerCashCoversOrders
<1>1. IInv /\ Money => BrokerCashCoversOrders
  BY MoneyCoversOrders
<1> QED  BY Invariance, MoneyInvariance, <1>1, PTL
=============================================================================
