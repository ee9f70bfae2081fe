------------------------ MODULE DirectPosition_proofs ------------------------
(***************************************************************************)
(* Proofs about DirectPosition for any position, fraction and number of    *)
(* orders and faults.                                                      *)
(*                                                                         *)
(* A take-profit order is live while a fill of it may still be credited:   *)
(* its row is open, the settlement remembers its fill, or its fill is the  *)
(* one being applied. There is at most one live order for each leg, and an *)
(* order of the remainder exit is alone. What follows bounds what a live   *)
(* order has sold by what the plan has left of its leg, and the plan by    *)
(* the position. Net is the position without the fill that is taken out    *)
(* of it next.                                                             *)
(***************************************************************************)
EXTENDS DirectPosition, Sums, TLAPS

RowRecords ==
    [purpose : {"BUY", "TP1", "TP2", "EXIT"}, qty : Nat \ {0},
     base : {"EMPTY", "HOLDING", "PARTIAL"},
     status : {"OPEN", "FILLED", "CANCELED", "UNKNOWN"}, filled : Nat, applied : BOOLEAN,
     bStatus : {"OPEN", "FILLED", "CANCELED", "GONE"}, bFilled : Nat]

Ended(row) == row.status \in {"FILLED", "CANCELED"}

RowOK(row) ==
    /\ row.filled <= row.bFilled /\ row.bFilled <= row.qty
    /\ row.status = "OPEN" => row.filled < row.qty /\ ~row.applied
    /\ Ended(row) => row.bStatus = row.status /\ row.bFilled = row.filled
    /\ row.status = "UNKNOWN" => row.bStatus = "GONE" /\ row.bFilled = 0 /\ row.purpose # "BUY"
    /\ row.bStatus = "FILLED" => row.bFilled = row.qty
    /\ row.bStatus \in {"OPEN", "CANCELED"} => row.bFilled < row.qty
    /\ row.bStatus = "GONE" => row.bFilled = row.filled

Rows == {row \in RowRecords : RowOK(row)}

States == {"EMPTY", "WAITING", "HOLDING", "PARTIAL", "SAFE"}
Plans == [active : BOOLEAN, target : [Legs -> Nat], filled : [Legs -> Nat]]

BuyPlaces == {"buy", "bought", "markBuy", "markUnfilled"}
SellPlaces == {"sell", "sold", "markSell"}
SettlePlaces == {"settle", "credit"}
SubmitPlaces == {"placeTP1", "placeTP2", "placeExit"}
Places == {"idle", "rows", "jobs"} \cup BuyPlaces \cup SellPlaces \cup SettlePlaces \cup SubmitPlaces
Jobs == {"pass", "tp1", "recover", "exit", "switch"}

Runs == [pc : Places, todo : SUBSET Nat, cur : Nat, delta : Nat, fills : SUBSET Nat, job : Jobs,
         tp1 : BOOLEAN, recover : BOOLEAN, exit : BOOLEAN]

Buy == rows[1]

Types ==
    /\ pos \in [state : States, qty : Nat]
    /\ plan \in Plans /\ \A leg \in Legs : plan.filled[leg] <= plan.target[leg]
    /\ rows \in Seq(Rows) /\ Len(rows) \in 1..MaxOrders
    /\ hold \in Nat /\ m \in Runs /\ overfilled \in BOOLEAN
    /\ crashes \in Nat /\ failures \in Nat

\* The first row is the BUY, and no other row comes before it is applied.
BuyFirst ==
    /\ \A i \in DOMAIN rows : rows[i].purpose = "BUY" <=> i = 1
    /\ ~Buy.applied => Len(rows) = 1
    /\ m.pc \in SellPlaces \cup SettlePlaces \cup SubmitPlaces \/ m.tp1 \/ m.recover \/ m.exit
          => Buy.applied

\* The shares held and owned are those of the beginning and what the BUY has brought.
Bounds ==
    /\ Buy.qty <= MaxQty
    /\ pos.qty <= MaxQty + Buy.filled /\ hold <= MaxQty + Buy.bFilled
    /\ pos.state = "WAITING" => pos.qty <= MaxQty
    /\ m.delta <= 2 * MaxQty

\* What a pass knows at each of its steps.
Control ==
    /\ At("idle") => m = Idle
    /\ \A i \in m.todo : i \in DOMAIN rows /\ OpenRow(i)
    /\ At("rows") \/ m.pc \in BuyPlaces => m.job = "pass"
    /\ m.pc \in SettlePlaces \cup {"placeExit"} => m.job # "pass"
    /\ m.pc \notin SettlePlaces \cup SellPlaces \/ m.job = "pass" => m.fills = {}
    /\ \A i \in m.fills : i \in TakeProfits /\ Ended(rows[i]) /\ ~rows[i].applied /\ rows[i].filled > 0
    /\ At("settle") => m.todo = OpenTakeProfits
    /\ m.pc \in {"credit", "placeTP1", "placeExit"} => OpenTakeProfits = {}
    /\ At("placeTP2") => \A i \in OpenTakeProfits : rows[i].purpose = "TP1"
    /\ At("placeExit") => pos.state = "PARTIAL" /\ pos.qty > 0

\* What it knows of the row at hand.
AtBuy ==
    /\ m.pc \in BuyPlaces => m.cur = 1 /\ ~Buy.applied /\ 1 \notin m.todo
    /\ At("buy") => Buy.bStatus # "GONE"
    /\ m.pc \in {"bought", "markBuy", "markUnfilled"} => Ended(Buy)
    /\ At("bought") => /\ Buy.filled > 0 /\ pos.state = "WAITING"
                       /\ plan = NewPlan(pos.qty + Buy.filled)
    /\ At("markBuy") => Buy.filled > 0 /\ pos.state \notin {"WAITING"}
    /\ At("markUnfilled") => Buy.filled = 0 /\ pos.state = Buy.base

AtSell ==
    m.pc \in SellPlaces =>
        /\ m.cur \in TakeProfits /\ m.cur \notin m.fills
        /\ rows[m.cur].status # "UNKNOWN" /\ rows[m.cur].bStatus # "GONE" /\ ~rows[m.cur].applied
        /\ m.job # "pass" => OpenTakeProfits = {} /\ Ended(rows[m.cur])
        /\ At("sold") => m.delta <= pos.qty

Shape == Types /\ BuyFirst /\ Bounds /\ Control /\ AtBuy /\ AtSell

-----------------------------------------------------------------------------
(* Plan and position *)

Pending == IF At("sold") THEN m.delta ELSE 0
Net == pos.qty - Pending

\* Shares of a fill that was refreshed and applied to neither plan nor position: the BUY
\* that a crash, or SAFE_MODE, took from the pass.
BuyIsLost ==
    ~Buy.applied /\ Ended(Buy) /\ Buy.filled > 0 /\ m.pc \notin {"buy", "bought", "markBuy"}

\* As the direct BUY found plan and position.
BeforeBuy ==
    Buy.filled = 0 /\ ~Buy.applied =>
        \/ Buy.base = "EMPTY" /\ pos.qty = 0 /\ Left("TP1") = 0 /\ Left("TP2") = 0
        \/ Buy.base = "HOLDING" /\ plan.active /\ Left("TP1") > 0
        \/ Buy.base = "PARTIAL" /\ plan.active /\ Left("TP1") = 0

\* What the flags and the job of a pass say, and an order of the exit: the first leg is sold.
FirstLegIsSold ==
    m.tp1 \/ m.exit \/ m.job \in {"tp1", "exit", "switch"} \/ \E i \in DOMAIN rows : rows[i].purpose = "EXIT"

\* The plan has no more left than the position has.
PlanIsBacked ==
    /\ ~At("bought") /\ ~BuyIsLost => Left("TP1") + Left("TP2") <= Net
    /\ pos.state = "PARTIAL" => Left("TP1") = 0
    /\ FirstLegIsSold => Left("TP1") = 0
    /\ ~plan.active \/ pos.state = "EMPTY" => pos.qty = 0
    /\ Buy.applied => pos.state # "WAITING"

Live == OpenTakeProfits \cup m.fills \cup (IF At("sell") THEN {m.cur} ELSE {})

\* What the leg had sold when the order was placed.
Base(i) == Greatest(0, plan.target[Leg(i)] - rows[i].qty)

LiveOK(i) ==
    /\ Base(i) <= plan.filled[Leg(i)]
    /\ rows[i].purpose # "EXIT" => /\ rows[i].qty <= plan.target[Leg(i)]
                                   /\ rows[i].qty - rows[i].filled <= Left(Leg(i))
    /\ rows[i].purpose = "EXIT" => /\ rows[i].qty <= Net + plan.filled["TP2"]
                                   /\ rows[i].qty - rows[i].filled <= Net

OneLivePerLeg ==
    \A i, j \in Live : i # j => Leg(i) # Leg(j) /\ rows[i].purpose # "EXIT"

Safe == BeforeBuy /\ PlanIsBacked /\ OneLivePerLeg /\ \A i \in Live : LiveOK(i)

-----------------------------------------------------------------------------
(* Shares at the broker *)

\* What the fills of a row will still take out of the position, at most.
Expected(i) ==
    IF i \in Live /\ rows[i].bStatus # "GONE"
    THEN rows[i].bFilled - rows[i].filled + Greatest(0, Delta(i))
    ELSE 0

\* What the BUY has brought and the position does not have.
BuyDue == IF Buy.applied \/ At("markBuy") THEN 0 ELSE Buy.bFilled

ExpectedShares == SumFunction([i \in TakeProfits |-> Expected(i)])

SoldOnce == overfilled \/ hold + ExpectedShares <= Net + BuyDue

\* Without a crash nothing is missing.
Undisturbed == crashes = 0

Exact(i) ==
    /\ rows[i].qty <= plan.target[Leg(i)]
    /\ rows[i].qty - rows[i].filled <= Left(Leg(i)) /\ 0 < Left(Leg(i))
    /\ OpenRow(i) /\ (At("sell") => i # m.cur) => Left(Leg(i)) = rows[i].qty - rows[i].filled

\* The broker of a process knows its orders, but for those it has refused.
NoneGone == \A i \in DOMAIN rows : rows[i].bStatus = "GONE" => rows[i].status = "UNKNOWN"

\* The fill of the row at hand is in the plan.
IsCredited == m.pc \in {"sold", "markSell"}
SaleFits ==
    /\ rows[m.cur].qty <= plan.target[Leg(m.cur)]
    /\ Left(Leg(m.cur)) = rows[m.cur].qty - rows[m.cur].filled

\* A position is moved by the BUY, or with the first leg.
StateFits ==
    /\ pos.state = "HOLDING" => Left("TP1") > 0 \/ (At("sold") /\ rows[m.cur].purpose = "TP1")
    /\ pos.state \in {"HOLDING", "PARTIAL"} => Buy.applied \/ m.pc \in {"markBuy", "markUnfilled"}

PlanIsExact ==
    /\ NoneGone /\ StateFits
    /\ ~At("bought") => Net = Left("TP1") + Left("TP2")
    /\ \A i \in Live : Exact(i)
    /\ IsCredited => SaleFits

\* Fills of a row that the position does not have. A live order was placed for all that
\* its leg had left: what is missing there now has been credited.
Uncredited(i) ==
    IF i \in Live THEN rows[i].bFilled - (rows[i].qty - Left(Leg(i)))
    ELSE IF rows[i].applied \/ (IsCredited /\ i = m.cur) THEN 0
    ELSE rows[i].bFilled

UncreditedShares == SumFunction([i \in TakeProfits |-> Uncredited(i)])

Balanced == overfilled \/ Net + BuyDue = hold + UncreditedShares

-----------------------------------------------------------------------------
(* What is offered *)

Smooth == crashes + failures = 0 /\ ~overfilled

\* An order that was filled when it was placed: no pass ever credits it.
FilledAtOnce(i) ==
    /\ rows[i].status = "FILLED" /\ ~rows[i].applied
    /\ i \notin m.fills /\ (m.pc \in SellPlaces => i # m.cur)

Offered(leg) ==
    \/ Left(leg) = 0
    \/ \E i \in OpenTakeProfits : Leg(i) = leg
    \/ \E i \in TakeProfits : Leg(i) = leg /\ FilledAtOnce(i) /\ Left(leg) <= rows[i].bFilled

\* The pass will place orders for everything that is left, ...
ReplacesAll ==
    \/ m.tp1 \/ m.recover \/ m.exit \/ m.pc \in SettlePlaces \cup {"placeTP1", "placeExit"}
    \/ m.pc \in SellPlaces /\ m.job # "pass"

\* ... or for the leg at hand.
ReplacesLeg(leg) ==
    \/ At("placeTP2") /\ leg = "TP2"
    \/ m.pc \in SellPlaces /\ Leg(m.cur) = leg

\* A position in SAFE_MODE whose first leg is sold stays there: its exit is not placed again.
Abandoned ==
    pos.state = "SAFE" /\ Left("TP1") = 0 /\ ~(At("sold") /\ rows[m.cur].purpose = "TP1")

Covered(leg) == Offered(leg) \/ ReplacesAll \/ ReplacesLeg(leg)

AllOffered == Smooth /\ Buy.applied /\ ~Abandoned => \A leg \in Legs : Covered(leg)

-----------------------------------------------------------------------------
(* Constants, plans and rows *)

\* The least and the greatest of two numbers.
LEMMA LeastGreatest ==
    ASSUME NEW x \in Int, NEW y \in Int
    PROVE  /\ Least(x, y) \in {x, y} /\ Least(x, y) <= x /\ Least(x, y) <= y
           /\ Greatest(x, y) \in {x, y} /\ x <= Greatest(x, y) /\ y <= Greatest(x, y)
BY DEF Least, Greatest

\* The first leg takes at least one share of a position, and no more than it has.
LEMMA FirstLeg ==
    ASSUME NEW n \in Nat \ {0}
    PROVE  TP1Quantity(n) \in 1..n
<1> DEFINE share == (n * Fraction[1] + Fraction[2] - 1) \div Fraction[2]
<1>1. share \in Int
  <2>1. n * Fraction[1] + Fraction[2] - 1 \in Int /\ Fraction[2] \in Nat \ {0}
    BY PositionAssumption
  <2> QED  BY <2>1
<1> HIDE DEF share
<1>2. Least(n, share) \in Int /\ Least(n, share) <= n
  BY <1>1, LeastGreatest
<1>3. TP1Quantity(n) = Greatest(1, Least(n, share))
  BY DEF TP1Quantity, share
<1>4. TP1Quantity(n) \in {1, Least(n, share)} /\ 1 <= TP1Quantity(n)
  BY <1>2, <1>3, LeastGreatest
<1> QED  BY <1>2, <1>4

\* A new plan is for the whole position.
LEMMA PlanOfPosition ==
    ASSUME NEW n \in Nat \ {0}
    PROVE  /\ NewPlan(n) \in Plans /\ NewPlan(n).active
           /\ Target(n) \in [Legs -> Nat] /\ Target(n)["TP1"] > 0
           /\ Target(n)["TP1"] + Target(n)["TP2"] = n
           /\ NewPlan(n).target = Target(n)
           /\ \A leg \in Legs : NewPlan(n).filled[leg] = 0
<1>1. TP1Quantity(n) \in 1..n
  BY FirstLeg
<1>2. /\ Target(n) \in [Legs -> Nat] /\ Target(n)["TP1"] > 0
      /\ Target(n)["TP1"] + Target(n)["TP2"] = n
  BY <1>1 DEF Target, Legs
<1> QED  BY <1>2 DEF NewPlan, Plans, Legs

\* The fields of a row that no step changes.
SameOrder(new, row) == new.purpose = row.purpose /\ new.qty = row.qty /\ new.base = row.base

\* A refresh, after a cancellation or without: the row has what the broker says.
Refreshed(new, row) ==
    /\ new \in Rows /\ SameOrder(new, row) /\ new.applied = row.applied
    /\ new.status = new.bStatus /\ new.bStatus # "GONE"
    /\ new.filled = row.bFilled /\ new.bFilled = row.bFilled

\* What refresh_order stores, ...
LEMMA StoredRow ==
    ASSUME NEW row \in Rows, row.status = "OPEN", row.bStatus # "GONE"
    PROVE  Refreshed(Stored(row), row) /\ Stored(row).bStatus = row.bStatus
<1>1. row \in RowRecords /\ RowOK(row)
  BY DEF Rows
<1>2. PICK new \in RowRecords : new = Stored(row)
  BY <1>1 DEF Stored, RowRecords
<1>3. /\ SameOrder(new, row) /\ new.applied = row.applied /\ new.status = row.bStatus
      /\ new.bStatus = row.bStatus /\ new.filled = row.bFilled /\ new.bFilled = row.bFilled
  BY <1>1, <1>2 DEF Stored, RowRecords, SameOrder
<1>4. RowOK(new)
  BY <1>1, <1>3 DEF RowOK, RowRecords, SameOrder, Ended
<1> QED  BY <1>2, <1>3, <1>4 DEF Refreshed, Rows

\* ... what is left of an order that the broker has ended, ...
LEMMA CanceledRow ==
    ASSUME NEW row \in Rows
    PROVE  /\ Canceled(row) \in Rows
           /\ Canceled(row).bStatus = IF row.bStatus = "OPEN" THEN "CANCELED" ELSE row.bStatus
           /\ SameOrder(Canceled(row), row) /\ Canceled(row).status = row.status
           /\ Canceled(row).filled = row.filled /\ Canceled(row).applied = row.applied
           /\ Canceled(row).bFilled = row.bFilled
BY DEF Canceled, Rows, RowRecords, RowOK, Ended, SameOrder

\* ... and the refresh of such an order.
LEMMA EndedRow ==
    ASSUME NEW row \in Rows, row.status = "OPEN", row.bStatus # "GONE"
    PROVE  Refreshed(Stored(Canceled(row)), row) /\ Ended(Stored(Canceled(row)))
<1>1. PICK new : new = Canceled(row)
  OBVIOUS
<1>2. /\ new \in Rows /\ new.status = "OPEN" /\ new.bStatus \in {"CANCELED", "FILLED"}
      /\ SameOrder(new, row) /\ new.applied = row.applied /\ new.bFilled = row.bFilled
  BY <1>1, CanceledRow DEF Rows, RowRecords
<1>3. Refreshed(Stored(new), new) /\ Stored(new).bStatus = new.bStatus
  BY <1>2, StoredRow
<1> QED  BY <1>1, <1>2, <1>3 DEF Refreshed, SameOrder, Ended

\* A step that writes one row, and one that appends a row.
Writes(i, new) == rows' = [rows EXCEPT ![i] = new]

LEMMA RowWritten ==
    ASSUME Types, NEW i \in DOMAIN rows, NEW new \in Rows, Writes(i, new)
    PROVE  /\ rows' \in Seq(Rows) /\ Len(rows') = Len(rows) /\ DOMAIN rows' = DOMAIN rows
           /\ rows'[i] = new /\ \A j \in DOMAIN rows : j # i => rows'[j] = rows[j]
BY DEF Types, Writes

LEMMA RowAppended ==
    ASSUME Types, NEW new \in Rows, rows' = Append(rows, new)
    PROVE  /\ rows' \in Seq(Rows) /\ Len(rows') = Len(rows) + 1
           /\ DOMAIN rows' = DOMAIN rows \cup {Len(rows) + 1} /\ Len(rows) + 1 \notin DOMAIN rows
           /\ rows'[Len(rows) + 1] = new /\ \A j \in DOMAIN rows : rows'[j] = rows[j]
BY DEF Types

\* The types of a row, of the run and of what a leg has left.
LEMMA RowTypes ==
    ASSUME Types, NEW i \in DOMAIN rows
    PROVE  /\ rows[i] \in Rows /\ RowOK(rows[i])
           /\ rows[i].purpose \in {"BUY", "TP1", "TP2", "EXIT"}
           /\ rows[i].qty \in Nat /\ rows[i].qty > 0
           /\ rows[i].base \in {"EMPTY", "HOLDING", "PARTIAL"}
           /\ rows[i].status \in {"OPEN", "FILLED", "CANCELED", "UNKNOWN"}
           /\ rows[i].filled \in Nat /\ rows[i].bFilled \in Nat /\ rows[i].applied \in BOOLEAN
           /\ rows[i].bStatus \in {"OPEN", "FILLED", "CANCELED", "GONE"}
           /\ Leg(i) \in Legs
<1>1. rows[i] \in Rows
  BY DEF Types
<1> QED  BY <1>1 DEF Rows, RowRecords, Leg, Legs

LEMMA RunTypes ==
    ASSUME Types
    PROVE  /\ m.pc \in Places /\ m.todo \in SUBSET Nat /\ m.cur \in Nat /\ m.delta \in Nat
           /\ m.fills \in SUBSET Nat /\ m.job \in Jobs
           /\ m.tp1 \in BOOLEAN /\ m.recover \in BOOLEAN /\ m.exit \in BOOLEAN
BY DEF Types, Runs

LEMMA PlanTypes ==
    ASSUME Types, NEW leg \in Legs
    PROVE  /\ plan.target[leg] \in Nat /\ plan.filled[leg] \in Nat /\ Left(leg) \in Nat
           /\ plan.active \in BOOLEAN /\ pos.qty \in Nat /\ pos.state \in States
BY DEF Types, Plans, Left

LEMMA BuyRow ==
    ASSUME Types
    PROVE  1 \in DOMAIN rows /\ Buy \in Rows /\ RowOK(Buy)
<1>1. 1 \in DOMAIN rows
  BY DEF Types
<1> QED  BY <1>1, RowTypes DEF Buy

-----------------------------------------------------------------------------
(* Shape: the steps that change nothing but where the pass is *)

SameBooks == UNCHANGED <<pos, plan, rows, hold>>
SameCounts == UNCHANGED <<overfilled, crashes, failures>>

\* The run moves, and keeps what it knows, as far as pc and job say.
Moves(pc) ==
    /\ m' \in Runs /\ m'.pc = pc
    /\ m'.cur = m.cur /\ m'.delta = m.delta /\ m'.todo = m.todo /\ m'.fills = m.fills
    /\ m'.job = m.job /\ m'.tp1 = m.tp1 /\ m'.recover = m.recover /\ m'.exit = m.exit

LEMMA GotoMoves ==
    ASSUME Types, NEW pc \in Places, Goto(pc)
    PROVE  Moves(pc)
BY DEF Types, Runs, Goto, Moves

\* The types and bounds of books and counters that stay.
LEMMA BooksStay ==
    ASSUME Shape, SameBooks, m' \in Runs, m'.delta <= 2 * MaxQty,
           overfilled' \in BOOLEAN, crashes' \in Nat, failures' \in Nat,
           m'.pc \in SellPlaces \cup SettlePlaces \cup SubmitPlaces \/ m'.tp1 \/ m'.recover \/ m'.exit
              => Buy.applied,
           Control', AtBuy', AtSell'
    PROVE  Shape'
<1>1. Types'
  BY DEF Shape, Types, SameBooks
<1>2. BuyFirst'
  BY DEF Shape, BuyFirst, SameBooks, Buy
<1>3. Bounds'
  BY DEF Shape, Bounds, SameBooks, Buy
<1> QED  BY <1>1, <1>2, <1>3 DEF Shape

LEMMA BuyGoesOnShape == ASSUME Shape, BuyGoesOn PROVE Shape'
<1>1. /\ SameBooks /\ SameCounts /\ Types /\ m.pc = "buy" /\ Goto("rows")
  BY DEF BuyGoesOn, SameBooks, SameCounts, At, Shape
<1>2. Moves("rows")
  BY <1>1, GotoMoves DEF Places
<1>3. Control' /\ AtBuy' /\ AtSell'
  BY <1>1, <1>2 DEF Shape, Control, AtBuy, AtSell, At, Moves, SameBooks, BuyPlaces, SellPlaces, SettlePlaces,
     OpenTakeProfits, TakeProfits, OpenRow
<1> QED  BY <1>1, <1>2, <1>3, BooksStay DEF Moves, SameCounts, Shape, Types, Bounds, BuyFirst, SellPlaces, SettlePlaces, SubmitPlaces

\* A pass that is over knows nothing.
LEMMA LeftBehind ==
    ASSUME Leave
    PROVE  /\ m' = Idle /\ m' \in Runs /\ m'.pc = "idle" /\ m'.delta = 0
           /\ m'.todo = {} /\ m'.fills = {} /\ ~m'.tp1 /\ ~m'.recover /\ ~m'.exit
           /\ Control' /\ AtBuy' /\ AtSell'
<1>1. /\ m' = Idle /\ m' \in Runs /\ m'.pc = "idle" /\ m'.delta = 0 /\ m'.job = "pass"
      /\ m'.todo = {} /\ m'.fills = {} /\ ~m'.tp1 /\ ~m'.recover /\ ~m'.exit
  BY DEF Leave, Idle, Runs, Places, Jobs
<1>2. Control' /\ AtBuy' /\ AtSell'
  BY <1>1 DEF Control, AtBuy, AtSell, At, BuyPlaces, SellPlaces, SettlePlaces
<1> QED  BY <1>1, <1>2

LEMMA LeaveShape ==
    ASSUME Shape, Leave, SameBooks, overfilled' \in BOOLEAN, crashes' \in Nat, failures' \in Nat
    PROVE  Shape'
BY LeftBehind, BooksStay, PositionAssumption DEF SellPlaces, SettlePlaces, SubmitPlaces

LEMMA BeginShape == ASSUME Shape, Begin PROVE Shape'
<1>1. /\ SameBooks /\ SameCounts /\ Types
      /\ m' = [Idle EXCEPT !.pc = "rows", !.todo = {i \in DOMAIN rows : OpenRow(i)}]
  BY DEF Begin, SameBooks, SameCounts, Shape
<1>2. {i \in DOMAIN rows : OpenRow(i)} \in SUBSET Nat
  BY <1>1 DEF Types
<1>3. /\ m' \in Runs /\ m'.pc = "rows" /\ m'.todo = {i \in DOMAIN rows : OpenRow(i)}
      /\ m'.delta = 0 /\ m'.fills = {} /\ m'.job = "pass" /\ ~m'.tp1 /\ ~m'.recover /\ ~m'.exit
  BY <1>1, <1>2 DEF Idle, Runs, Places, Jobs
<1>4. Control' /\ AtBuy' /\ AtSell'
  BY <1>1, <1>3 DEF Control, AtBuy, AtSell, At, SameBooks, BuyPlaces, SellPlaces, SettlePlaces, OpenRow
<1> QED  BY <1>1, <1>3, <1>4, BooksStay, PositionAssumption
         DEF SameCounts, Types, SellPlaces, SettlePlaces, SubmitPlaces

LEMMA PassDoneShape == ASSUME Shape, PassDone PROVE Shape'
<1>1. /\ SameBooks /\ SameCounts /\ Types /\ m.pc = "rows" /\ Goto("jobs")
  BY DEF PassDone, SameBooks, SameCounts, At, Shape
<1>2. Moves("jobs")
  BY <1>1, GotoMoves DEF Places
<1>3. Control' /\ AtBuy' /\ AtSell'
  BY <1>1, <1>2 DEF Shape, Control, AtBuy, AtSell, At, Moves, SameBooks, BuyPlaces, SellPlaces, SettlePlaces,
     OpenTakeProfits, TakeProfits, OpenRow
<1> QED  BY <1>1, <1>2, <1>3, BooksStay
         DEF Moves, SameCounts, Shape, Types, Bounds, BuyFirst, SellPlaces, SettlePlaces, SubmitPlaces

LEMMA SettledShape == ASSUME Shape, Settled PROVE Shape'
<1>1. /\ SameBooks /\ SameCounts /\ Types /\ m.pc = "settle" /\ m.todo = {} /\ Goto("credit")
  BY DEF Settled, SameBooks, SameCounts, At, Shape
<1>2. Moves("credit")
  BY <1>1, GotoMoves DEF Places, SettlePlaces
<1>3. Control' /\ AtBuy' /\ AtSell'
  BY <1>1, <1>2 DEF Shape, Control, AtBuy, AtSell, At, Moves, SameBooks, BuyPlaces, SellPlaces, SettlePlaces,
     OpenTakeProfits, TakeProfits, OpenRow
<1> QED  BY <1>1, <1>2, <1>3, BooksStay
         DEF Moves, SameCounts, Shape, Types, Bounds, BuyFirst, SellPlaces, SettlePlaces, SubmitPlaces

LEMMA ReplaceShape == ASSUME Shape, Replace PROVE Shape'
<1>1. /\ SameBooks /\ SameCounts /\ Types /\ m.pc = "credit" /\ m.fills = {}
      /\ \E pc \in {"placeTP1", "placeExit", "jobs"} : Goto(pc) /\ (pc = "placeExit" => Remainder)
  BY DEF Replace, SameBooks, SameCounts, At, Shape
<1>2. PICK pc \in {"placeTP1", "placeExit", "jobs"} : Moves(pc) /\ (pc = "placeExit" => Remainder)
  BY <1>1, GotoMoves DEF Places, SubmitPlaces
<1>3. Control' /\ AtBuy' /\ AtSell'
  BY <1>1, <1>2 DEF Shape, Control, AtBuy, AtSell, At, Moves, SameBooks, BuyPlaces, SellPlaces, SettlePlaces,
     OpenTakeProfits, TakeProfits, OpenRow, Remainder
<1> QED  BY <1>1, <1>2, <1>3, BooksStay
         DEF Moves, SameCounts, Shape, Types, Bounds, BuyFirst, SellPlaces, SettlePlaces, SubmitPlaces

\* A job begins with the take-profit orders that are open; some order made it due.
JobBegins(job) ==
    /\ SameBooks /\ SameCounts /\ Buy.applied /\ m.pc = "jobs"
    /\ Settle(job)

LEMMA JobShape ==
    ASSUME Shape, NEW job \in Jobs \ {"pass"}, JobBegins(job)
    PROVE  /\ Shape' /\ m' \in Runs /\ m'.pc = "settle" /\ m'.job = job /\ m'.todo = OpenTakeProfits
           /\ ~m'.tp1 /\ (m'.exit => m.exit) /\ m'.delta = m.delta /\ m'.fills = m.fills /\ m.fills = {}
           /\ m'.cur = m.cur
<1>1. Types /\ SameBooks /\ SameCounts /\ Buy.applied /\ m.fills = {}
  BY DEF Shape, JobBegins, Control, SettlePlaces, SellPlaces
<1>2. OpenTakeProfits \in SUBSET Nat /\ OpenTakeProfits \subseteq DOMAIN rows
  BY <1>1 DEF OpenTakeProfits, TakeProfits, Types
<1>3. /\ m' \in Runs /\ m'.pc = "settle" /\ m'.job = job /\ m'.todo = OpenTakeProfits
      /\ ~m'.tp1 /\ (m'.exit => m.exit) /\ m'.delta = m.delta /\ m'.fills = m.fills /\ m'.cur = m.cur
  BY <1>1, <1>2 DEF JobBegins, Settle, Types, Runs, Places, SettlePlaces
<1>4. Control' /\ AtBuy' /\ AtSell'
  BY <1>1, <1>2, <1>3 DEF Control, AtBuy, AtSell, At, SameBooks, BuyPlaces, SellPlaces, SettlePlaces,
     OpenTakeProfits, TakeProfits, OpenRow
<1>5. Shape'
  BY <1>1, <1>3, <1>4, BooksStay DEF SameCounts, Shape, Types, Bounds
<1> QED  BY <1>1, <1>3, <1>5

\* The jobs of the pass: what is due was an order's, so the BUY is applied.
LEMMA JobsBegin ==
    ASSUME Shape, RefreshAfterTP1 \/ RecoverTakeProfits \/ RecoverExit \/ SwitchToExit
    PROVE  \/ JobBegins("tp1") /\ m.tp1
           \/ JobBegins("recover") /\ m.recover
           \/ JobBegins("exit") /\ m.exit
           \/ JobBegins("switch") /\ pos.state = "PARTIAL"
<1>1. CASE RefreshAfterTP1 \/ RecoverTakeProfits \/ RecoverExit
  BY <1>1 DEF RefreshAfterTP1, RecoverTakeProfits, RecoverExit, At, JobBegins, SameBooks, SameCounts, Shape, BuyFirst
<1>2. CASE SwitchToExit
  <2>1. PICK i \in TakeProfits : rows[i].purpose = "TP2"
    BY <1>2 DEF SwitchToExit
  <2>2. i \in DOMAIN rows /\ i # 1 /\ Types
    BY <2>1 DEF Shape, BuyFirst, TakeProfits
  <2>3. Len(rows) # 1
    BY <2>2 DEF Types
  <2>4. Buy.applied
    BY <2>3 DEF Shape, BuyFirst
  <2> QED  BY <1>2, <2>4 DEF SwitchToExit, At, JobBegins, SameBooks, SameCounts
<1> QED  BY <1>1, <1>2

LEMMA JobsShape ==
    ASSUME Shape, RefreshAfterTP1 \/ RecoverTakeProfits \/ RecoverExit \/ SwitchToExit
    PROVE  Shape'
BY JobsBegin, JobShape DEF Jobs

LEMMA CreditFillShape ==
    ASSUME Shape, NEW i \in m.fills, CreditFill(i)
    PROVE  /\ Shape' /\ SameBooks /\ SameCounts /\ m.pc = "credit"
           /\ m' \in Runs /\ m'.pc = "sell" /\ m'.cur = i /\ m'.fills = m.fills \ {i}
           /\ m'.todo = m.todo /\ m'.delta = m.delta /\ m'.job = m.job
           /\ m'.tp1 = m.tp1 /\ m'.recover = m.recover /\ m'.exit = m.exit
<1>1. /\ SameBooks /\ SameCounts /\ Types /\ m.pc = "credit"
      /\ m' = [m EXCEPT !.pc = "sell", !.cur = i, !.fills = @ \ {i}]
  BY DEF CreditFill, SameBooks, SameCounts, At, Shape
<1>2. i \in Nat
  BY <1>1 DEF Types, Runs
<1>3. /\ m' \in Runs /\ m'.pc = "sell" /\ m'.cur = i /\ m'.fills = m.fills \ {i}
      /\ m'.todo = m.todo /\ m'.delta = m.delta /\ m'.job = m.job
      /\ m'.tp1 = m.tp1 /\ m'.recover = m.recover /\ m'.exit = m.exit
  BY <1>1, <1>2 DEF Types, Runs, Places, SellPlaces
<1>4. i \in DOMAIN rows /\ RowOK(rows[i])
  BY <1>1, RowTypes DEF Shape, Control, TakeProfits
<1>5. Control'
  BY <1>1, <1>3 DEF Shape, Control, At, SameBooks, BuyPlaces, SellPlaces, SettlePlaces,
     OpenTakeProfits, TakeProfits, OpenRow, Ended
<1>6. AtBuy' /\ AtSell'
  BY <1>1, <1>3, <1>4 DEF Shape, Control, AtBuy, AtSell, At, SameBooks, BuyPlaces, SellPlaces, SettlePlaces,
     OpenTakeProfits, TakeProfits, OpenRow, Ended, RowOK
<1>7. Shape'
  BY <1>1, <1>3, <1>5, <1>6, BooksStay
     DEF SameCounts, Shape, Types, Bounds, BuyFirst, SellPlaces, SettlePlaces, SubmitPlaces
<1> QED  BY <1>1, <1>3, <1>7

LEMMA DoneShape == ASSUME Shape, Done PROVE Shape' /\ SameBooks /\ SameCounts /\ Leave
<1>1. SameBooks /\ SameCounts /\ Leave
  BY DEF Done, SameBooks, SameCounts
<1> QED  BY <1>1, LeaveShape DEF SameCounts, Shape, Types

LEMMA RefreshFailsShape ==
    ASSUME Shape, RefreshFails
    PROVE  /\ Shape' /\ SameBooks /\ Leave /\ UNCHANGED <<overfilled, crashes>>
           /\ failures' = failures + 1 /\ m.pc = "rows"
<1>1. /\ SameBooks /\ Leave /\ UNCHANGED <<overfilled, crashes>> /\ failures' = failures + 1
      /\ m.pc = "rows" /\ Types
  BY DEF RefreshFails, SameBooks, Shape, At
<1> QED  BY <1>1, LeaveShape DEF Types

-----------------------------------------------------------------------------
(* Shape: a sale is applied *)

\* After a fill, or none: on with the pass, or with the settlement.
GoesOn ==
    /\ m' \in Runs /\ m'.pc = IF m.job = "pass" THEN "rows" ELSE "credit"
    /\ m'.cur = m.cur /\ m'.delta = m.delta /\ m'.todo = m.todo /\ m'.fills = m.fills /\ m'.job = m.job
    /\ (m.tp1 => m'.tp1) /\ (m.recover => m'.recover) /\ (m.exit => m'.exit)
    /\ m'.tp1 => m.tp1 \/ pos'.state = "PARTIAL"
    /\ m'.exit => m.exit \/ rows[m.cur].purpose = "EXIT"
    /\ m.job = "pass" /\ rows[m.cur].status = "CANCELED" =>
          \/ m'.exit
          \/ m'.recover
          \/ rows[m.cur].purpose # "EXIT" /\ ~(plan'.active /\ Unfinished(m.cur))

LEMMA AppliedGoesOn ==
    ASSUME Types, m' = Applied(m.cur)
    PROVE  GoesOn
<1>1. CASE m.job = "pass"
  <2>1. m' = AfterSell(m.cur)
    BY <1>1 DEF Applied
  <2>2. /\ m' \in Runs /\ m'.pc = "rows"
        /\ m'.cur = m.cur /\ m'.delta = m.delta /\ m'.todo = m.todo /\ m'.fills = m.fills /\ m'.job = m.job
        /\ m'.tp1 = (m.tp1 \/ (/\ rows[m.cur].purpose = "TP1" /\ rows[m.cur].filled > 0
                               /\ pos'.state = "PARTIAL"))
        /\ m'.exit = (m.exit \/ (rows[m.cur].status = "CANCELED" /\ rows[m.cur].purpose = "EXIT"))
        /\ m'.recover = (m.recover \/ (/\ rows[m.cur].status = "CANCELED"
                                       /\ rows[m.cur].purpose # "EXIT"
                                       /\ plan'.active /\ Unfinished(m.cur)))
    BY <2>1 DEF AfterSell, Types, Runs, Places
  <2> QED  BY <1>1, <2>2 DEF GoesOn
<1>2. CASE m.job # "pass"
  BY <1>2 DEF Applied, GoesOn, Types, Runs, Places, SettlePlaces
<1> QED  BY <1>1, <1>2

LEMMA NothingSoldShape ==
    ASSUME Shape, NothingSold
    PROVE  /\ Shape' /\ SameBooks /\ SameCounts /\ GoesOn /\ m.pc = "sell"
           /\ rows[m.cur].filled = 0
<1>1. /\ SameBooks /\ SameCounts /\ Types /\ m.pc = "sell" /\ m' = Applied(m.cur)
      /\ rows[m.cur].filled = 0 \/ rows[m.cur].applied
  BY DEF NothingSold, SameBooks, SameCounts, At, Shape
<1>2. GoesOn
  BY <1>1, AppliedGoesOn
<1>3. rows[m.cur].filled = 0
  BY <1>1 DEF Shape, AtSell, SellPlaces
<1>4. Control' /\ AtBuy' /\ AtSell'
  BY <1>1, <1>2 DEF Shape, Control, AtBuy, AtSell, At, GoesOn, SameBooks, BuyPlaces, SellPlaces, SettlePlaces,
     OpenTakeProfits, TakeProfits, OpenRow
<1>5. Shape'
  BY <1>1, <1>2, <1>4, BooksStay
     DEF GoesOn, SameCounts, Shape, Types, Bounds, BuyFirst, SellPlaces, SettlePlaces, SubmitPlaces
<1> QED  BY <1>1, <1>2, <1>3, <1>5

\* The fill that a leg is credited with is within its target.
LEMMA LegTypes ==
    ASSUME Types, NEW i \in DOMAIN rows
    PROVE  /\ Base(i) \in Nat /\ LegFilled(i) \in Nat /\ LegFilled(i) <= plan.target[Leg(i)]
           /\ LegFilled(i) = Least(plan.target[Leg(i)], Base(i) + rows[i].filled)
           /\ Delta(i) = LegFilled(i) - plan.filled[Leg(i)] /\ Delta(i) \in Int
<1>1. Leg(i) \in Legs /\ rows[i].qty \in Nat /\ rows[i].filled \in Nat
  BY RowTypes
<1>2. plan.target[Leg(i)] \in Nat /\ plan.filled[Leg(i)] \in Nat
  BY <1>1, PlanTypes
<1> QED  BY <1>1, <1>2 DEF Base, LegFilled, Delta, Least, Greatest

\* A fill is credited to its leg, or the pass is given up.
Credits ==
    /\ m.pc = "sell" /\ rows[m.cur].filled > 0 /\ UNCHANGED <<pos, rows, hold>> /\ SameCounts
    /\ \/ /\ plan.active /\ Delta(m.cur) \in Nat /\ Delta(m.cur) <= pos.qty
          /\ plan' \in Plans /\ plan'.active = plan.active /\ plan'.target = plan.target
          /\ plan'.filled[Leg(m.cur)] = LegFilled(m.cur)
          /\ \A leg \in Legs : leg # Leg(m.cur) => plan'.filled[leg] = plan.filled[leg]
          /\ m' \in Runs /\ m'.pc = "sold" /\ m'.delta = Delta(m.cur) /\ m'.cur = m.cur
          /\ m'.todo = m.todo /\ m'.fills = m.fills /\ m'.job = m.job
          /\ m'.tp1 = m.tp1 /\ m'.recover = m.recover /\ m'.exit = m.exit
       \/ ~(plan.active /\ Delta(m.cur) \in Nat /\ Delta(m.cur) <= pos.qty) /\ Leave /\ UNCHANGED plan

LEMMA FillPlanCredits ==
    ASSUME Shape, FillPlan
    PROVE  Credits
<1>1. /\ m.pc = "sell" /\ rows[m.cur].filled > 0 /\ UNCHANGED <<pos, rows, hold>> /\ SameCounts /\ Types
      /\ IF plan.active /\ Delta(m.cur) \in 0..pos.qty
         THEN /\ plan' = [plan EXCEPT !.filled[Leg(m.cur)] = LegFilled(m.cur)]
              /\ m' = [m EXCEPT !.pc = "sold", !.delta = Delta(m.cur)]
         ELSE Leave /\ UNCHANGED plan
  BY DEF FillPlan, At, SameCounts, Shape
<1>2. m.cur \in DOMAIN rows
  BY <1>1 DEF Shape, AtSell, SellPlaces, TakeProfits
<1>3. /\ Leg(m.cur) \in Legs /\ LegFilled(m.cur) \in Nat /\ Delta(m.cur) \in Int /\ pos.qty \in Nat
  BY <1>1, <1>2, RowTypes, LegTypes DEF Types
<1>4. CASE plan.active /\ Delta(m.cur) \in 0..pos.qty
  <2>1. /\ plan' \in Plans /\ plan'.active = plan.active /\ plan'.target = plan.target
        /\ plan'.filled[Leg(m.cur)] = LegFilled(m.cur)
        /\ \A leg \in Legs : leg # Leg(m.cur) => plan'.filled[leg] = plan.filled[leg]
    <3>1. PICK f : f = [plan.filled EXCEPT ![Leg(m.cur)] = LegFilled(m.cur)]
      OBVIOUS
    <3>2. plan' = [plan EXCEPT !.filled = f]
      BY <1>1, <1>4, <3>1
    <3>3. f \in [Legs -> Nat] /\ f[Leg(m.cur)] = LegFilled(m.cur)
          /\ \A leg \in Legs : leg # Leg(m.cur) => f[leg] = plan.filled[leg]
      BY <1>1, <1>3, <3>1 DEF Types, Plans
    <3> QED  BY <1>1, <3>2, <3>3 DEF Types, Plans
  <2>2. Delta(m.cur) \in Nat /\ Delta(m.cur) <= pos.qty
    BY <1>3, <1>4
  <2>3. /\ m' \in Runs /\ m'.pc = "sold" /\ m'.delta = Delta(m.cur) /\ m'.cur = m.cur
        /\ m'.todo = m.todo /\ m'.fills = m.fills /\ m'.job = m.job
        /\ m'.tp1 = m.tp1 /\ m'.recover = m.recover /\ m'.exit = m.exit
    BY <1>1, <1>4, <2>2 DEF Types, Runs, Places, SellPlaces
  <2> QED  BY <1>1, <1>4, <2>1, <2>2, <2>3 DEF Credits
<1>5. CASE ~(plan.active /\ Delta(m.cur) \in 0..pos.qty)
  BY <1>1, <1>3, <1>5 DEF Credits
<1> QED  BY <1>4, <1>5

LEMMA FillPlanShape == ASSUME Shape, FillPlan PROVE Shape'
<1>1. Credits /\ Types
  BY FillPlanCredits DEF Shape
<1>2. CASE Leave /\ UNCHANGED plan
  BY <1>1, <1>2, LeaveShape DEF Credits, SameBooks, SameCounts, Types
<1>3. CASE m'.pc = "sold"
  <2>1. m.cur \in DOMAIN rows /\ Leg(m.cur) \in Legs
    BY <1>1, RowTypes DEF Credits, Shape, AtSell, SellPlaces, TakeProfits
  <2>2. \A leg \in Legs : plan'.filled[leg] <= plan'.target[leg]
    BY <1>1, <1>3, <2>1, LegTypes, LeftBehind DEF Credits, Types
  <2>3. Types'
    BY <1>1, <1>3, <2>2, LeftBehind DEF Credits, SameCounts, Types
  <2>4. BuyFirst' /\ Bounds'
    <3>1. pos.qty <= 2 * MaxQty
      BY <1>1, BuyRow, PositionAssumption DEF Shape, Bounds, Types, RowOK, Rows, RowRecords
    <3> QED  BY <1>1, <1>3, <3>1, LeftBehind, PositionAssumption
             DEF Credits, Shape, BuyFirst, Bounds, Buy, SellPlaces, Types
  <2>5. Control' /\ AtBuy'
    BY <1>1, <1>3, LeftBehind
       DEF Credits, Shape, Control, AtBuy, At, BuyPlaces, SellPlaces, SettlePlaces, OpenTakeProfits, TakeProfits, OpenRow, Buy
  <2>6. AtSell'
    BY <1>1, <1>3, LeftBehind
       DEF Credits, Shape, AtSell, At, SellPlaces, OpenTakeProfits, TakeProfits, OpenRow
  <2> QED  BY <2>3, <2>4, <2>5, <2>6 DEF Shape
<1> QED  BY <1>1, <1>2, <1>3 DEF Credits

\* The credited shares leave the position.
Removes ==
    /\ m.pc = "sold" /\ UNCHANGED <<plan, rows, hold>> /\ SameCounts /\ Moves("markSell")
    /\ pos' \in [state : States, qty : Nat] /\ pos'.qty = pos.qty - m.delta
    /\ pos'.state = "EMPTY" => pos.state = "EMPTY" \/ pos'.qty = 0
    /\ pos'.state = "PARTIAL" => pos.state = "PARTIAL" \/ (rows[m.cur].purpose = "TP1" /\ Left("TP1") <= 0)
    /\ pos'.state = "WAITING" => pos.state = "WAITING"
    /\ pos'.state = "HOLDING" =>
          pos.state = "HOLDING" /\ (rows[m.cur].purpose = "TP1" => Left("TP1") > 0 )
    /\ pos'.state # "SAFE" /\ pos.state = "SAFE" =>
          pos'.qty = 0 \/ (rows[m.cur].purpose = "TP1" /\ Left("TP1") <= 0)

LEMMA RemoveSharesRemoves == ASSUME Shape, RemoveShares PROVE Removes
<1>1. /\ m.pc = "sold" /\ UNCHANGED <<plan, rows, hold>> /\ SameCounts /\ Types /\ Goto("markSell")
      /\ pos' = [state |-> StateAfterSell(pos.qty - m.delta), qty |-> pos.qty - m.delta]
  BY DEF RemoveShares, SameCounts, At, Shape
<1>2. Moves("markSell")
  BY <1>1, GotoMoves DEF Places, SellPlaces
<1>3. pos.qty - m.delta \in Nat /\ m.cur \in DOMAIN rows
  BY <1>1 DEF Types, Runs, Shape, AtSell, SellPlaces, At, TakeProfits
<1>4. PICK n \in Nat : n = pos.qty - m.delta
  BY <1>3
<1>5. Left("TP1") \in Nat /\ pos.state \in States
  BY <1>1, PlanTypes DEF Legs
<1>6. pos'.state = StateAfterSell(n) /\ pos'.qty = n /\ pos' = [state |-> StateAfterSell(n), qty |-> n]
  BY <1>1, <1>4
<1>7. /\ StateAfterSell(n) \in States
      /\ StateAfterSell(n) = "EMPTY" => pos.state = "EMPTY" \/ n = 0
      /\ StateAfterSell(n) = "PARTIAL" =>
            pos.state = "PARTIAL" \/ (rows[m.cur].purpose = "TP1" /\ Left("TP1") <= 0)
      /\ StateAfterSell(n) = "WAITING" => pos.state = "WAITING"
      /\ StateAfterSell(n) = "HOLDING" =>
            pos.state = "HOLDING" /\ (rows[m.cur].purpose = "TP1" => Left("TP1") > 0)
      /\ StateAfterSell(n) # "SAFE" /\ pos.state = "SAFE" =>
            n = 0 \/ (rows[m.cur].purpose = "TP1" /\ Left("TP1") <= 0)
  BY <1>5 DEF StateAfterSell, States
<1> HIDE DEF Left
<1> QED  BY <1>1, <1>2, <1>4, <1>6, <1>7 DEF Removes

LEMMA RemoveSharesShape == ASSUME Shape, RemoveShares PROVE Shape'
<1>1. Removes /\ Types
  BY RemoveSharesRemoves DEF Shape
<1>2. Types' /\ BuyFirst'
  BY <1>1 DEF Removes, SameCounts, Moves, Shape, Types, BuyFirst, Buy, SellPlaces
<1>4. Bounds'
  <2>1. Buy' = Buy /\ hold' = hold /\ m'.delta = m.delta
    BY <1>1 DEF Removes, Moves, Buy
  <2>2. pos'.qty <= pos.qty /\ pos'.qty \in Nat /\ pos.qty \in Nat
    BY <1>1, RunTypes DEF Removes, Types
  <2>3. pos'.state = "WAITING" => pos.state = "WAITING"
    BY <1>1 DEF Removes
  <2>4. Buy.filled \in Nat /\ MaxQty \in Nat
    BY <1>1, BuyRow, PositionAssumption DEF Rows, RowRecords
  <2>5. Bounds
    BY DEF Shape
  <2> HIDE DEF Buy
  <2> QED  BY <2>1, <2>2, <2>3, <2>4, <2>5 DEF Bounds
<1>3. Control' /\ AtBuy' /\ AtSell'
  BY <1>1 DEF Removes, Moves, Shape, Control, AtBuy, AtSell, At, BuyPlaces, SellPlaces, SettlePlaces,
     OpenTakeProfits, TakeProfits, OpenRow, Buy
<1> QED  BY <1>2, <1>3, <1>4 DEF Shape

\* The row is marked when it has ended, and the plan is closed with the position.
Closes ==
    /\ m.pc = "markSell" /\ UNCHANGED <<pos, hold>> /\ SameCounts /\ GoesOn
    /\ plan' \in Plans /\ plan'.target = plan.target /\ plan'.filled = plan.filled
    /\ plan'.active = (pos.state # "EMPTY" /\ plan.active)
    /\ \E new \in Rows :
          /\ Writes(m.cur, new) /\ SameOrder(new, rows[m.cur])
          /\ new.status = rows[m.cur].status /\ new.filled = rows[m.cur].filled
          /\ new.bStatus = rows[m.cur].bStatus /\ new.bFilled = rows[m.cur].bFilled
          /\ new.applied = (rows[m.cur].status # "OPEN")

LEMMA MarkSellCloses == ASSUME Shape, MarkSell PROVE Closes
<1>1. /\ m.pc = "markSell" /\ UNCHANGED <<pos, hold>> /\ SameCounts /\ Types /\ m' = Applied(m.cur)
      /\ plan' = [plan EXCEPT !.active = pos.state # "EMPTY" /\ @]
      /\ rows' = [rows EXCEPT ![m.cur].applied = rows[m.cur].status # "OPEN"]
  BY DEF MarkSell, SameCounts, At, Shape
<1>2. GoesOn
  BY <1>1, AppliedGoesOn
<1>3. /\ plan' \in Plans /\ plan'.target = plan.target /\ plan'.filled = plan.filled
      /\ plan'.active = (pos.state # "EMPTY" /\ plan.active)
  BY <1>1 DEF Types, Plans
<1>4. m.cur \in DOMAIN rows /\ rows[m.cur] \in RowRecords /\ RowOK(rows[m.cur])
  BY <1>1, RowTypes DEF Shape, AtSell, SellPlaces, TakeProfits, Rows
<1>5. PICK new : new = [rows[m.cur] EXCEPT !.applied = rows[m.cur].status # "OPEN"]
  OBVIOUS
<1>6. /\ new \in RowRecords /\ SameOrder(new, rows[m.cur])
      /\ new.status = rows[m.cur].status /\ new.filled = rows[m.cur].filled
      /\ new.bStatus = rows[m.cur].bStatus /\ new.bFilled = rows[m.cur].bFilled
      /\ new.applied = (rows[m.cur].status # "OPEN")
  BY <1>4, <1>5 DEF RowRecords, SameOrder
<1>7. new \in Rows
  BY <1>4, <1>6 DEF Rows, RowOK, Ended, SameOrder
<1>8. Writes(m.cur, new)
  BY <1>1, <1>5 DEF Writes
<1> QED  BY <1>1, <1>2, <1>3, <1>6, <1>7, <1>8 DEF Closes

LEMMA MarkSellShape == ASSUME Shape, MarkSell PROVE Shape'
<1>1. Closes /\ Types
  BY MarkSellCloses DEF Shape
<1>2. m.cur \in DOMAIN rows /\ m.cur # 1
  BY <1>1 DEF Closes, Shape, AtSell, SellPlaces, TakeProfits, BuyFirst
<1>3. PICK new \in Rows :
          /\ Writes(m.cur, new) /\ SameOrder(new, rows[m.cur])
          /\ new.status = rows[m.cur].status /\ new.filled = rows[m.cur].filled
          /\ new.bStatus = rows[m.cur].bStatus /\ new.bFilled = rows[m.cur].bFilled
          /\ new.applied = (rows[m.cur].status # "OPEN")
  BY <1>1 DEF Closes
<1>4. /\ rows' \in Seq(Rows) /\ Len(rows') = Len(rows) /\ DOMAIN rows' = DOMAIN rows
      /\ rows'[m.cur] = new /\ \A j \in DOMAIN rows : j # m.cur => rows'[j] = rows[j]
  BY <1>1, <1>2, <1>3, RowWritten
<1>5. \A j \in DOMAIN rows : /\ rows'[j].purpose = rows[j].purpose /\ rows'[j].status = rows[j].status
                             /\ rows'[j].filled = rows[j].filled
                             /\ j # m.cur => rows'[j].applied = rows[j].applied
  BY <1>3, <1>4 DEF SameOrder
<1>6. Buy' = Buy
  BY <1>1, <1>2, <1>4, BuyRow DEF Buy
<1>7. Types'
  BY <1>1, <1>4 DEF Closes, SameCounts, GoesOn, Types
<1>8. BuyFirst' /\ Bounds'
  BY <1>1, <1>4, <1>5, <1>6 DEF Closes, GoesOn, Shape, BuyFirst, Bounds, SellPlaces
<1>9. TakeProfits' = TakeProfits /\ OpenTakeProfits' = OpenTakeProfits
  BY <1>4, <1>5 DEF TakeProfits, OpenTakeProfits, OpenRow
<1>10. m.cur \notin m.fills
  BY <1>1 DEF Closes, Shape, AtSell, SellPlaces
<1>11. \A i \in m.fills : i \in TakeProfits' /\ Ended(rows'[i]) /\ ~rows'[i].applied /\ rows'[i].filled > 0
  <2>1. \A i \in m.fills : i \in TakeProfits /\ i \in DOMAIN rows /\ Ended(rows[i]) /\ ~rows[i].applied
                           /\ rows[i].filled > 0 /\ i # m.cur
    BY <1>10 DEF Shape, Control, TakeProfits
  <2> QED  BY <2>1, <1>9, <1>5, <1>4
<1>12. \A i \in m.todo : i \in DOMAIN rows' /\ OpenRow(i)'
  BY <1>4, <1>5 DEF Shape, Control, OpenRow
<1>13. Control'
  BY <1>1, <1>9, <1>11, <1>12
     DEF Closes, GoesOn, Shape, Control, At, AtSell, BuyPlaces, SellPlaces, SettlePlaces
<1>14. AtBuy' /\ AtSell'
  BY <1>1 DEF Closes, GoesOn, AtBuy, AtSell, At, BuyPlaces, SellPlaces
<1> QED  BY <1>7, <1>8, <1>13, <1>14 DEF Shape

-----------------------------------------------------------------------------
(* Shape: one row is written *)

\* The order stays, and so does what is asked of the rows by their purpose.
LEMMA OneRow ==
    ASSUME Types, NEW i \in DOMAIN rows, NEW new \in Rows, Writes(i, new), SameOrder(new, rows[i])
    PROVE  /\ rows' \in Seq(Rows) /\ Len(rows') = Len(rows) /\ DOMAIN rows' = DOMAIN rows
           /\ rows'[i] = new /\ \A j \in DOMAIN rows : j # i => rows'[j] = rows[j]
           /\ \A j \in DOMAIN rows : /\ rows'[j].purpose = rows[j].purpose /\ rows'[j].qty = rows[j].qty
                                     /\ rows'[j].base = rows[j].base
           /\ TakeProfits' = TakeProfits
           /\ Buy' = IF i = 1 THEN new ELSE Buy
           /\ Buy'.qty = Buy.qty /\ Buy'.base = Buy.base
<1>1. /\ rows' \in Seq(Rows) /\ Len(rows') = Len(rows) /\ DOMAIN rows' = DOMAIN rows
      /\ rows'[i] = new /\ \A j \in DOMAIN rows : j # i => rows'[j] = rows[j]
  BY RowWritten
<1>2. \A j \in DOMAIN rows : /\ rows'[j].purpose = rows[j].purpose /\ rows'[j].qty = rows[j].qty
                             /\ rows'[j].base = rows[j].base
  BY <1>1 DEF SameOrder
<1>3. TakeProfits' = TakeProfits
  BY <1>1, <1>2 DEF TakeProfits
<1>4. 1 \in DOMAIN rows
  BY BuyRow
<1> QED  BY <1>1, <1>2, <1>3, <1>4 DEF Buy

\* A row of the pass is refreshed.
Refreshes(i) ==
    /\ m.pc = "rows" /\ i \in m.todo /\ UNCHANGED <<pos, plan, hold>> /\ SameCounts
    /\ rows[i].bStatus # "GONE"
    /\ \E new \in Rows : Writes(i, new) /\ Refreshed(new, rows[i])
    /\ m' \in Runs /\ m'.pc = (IF rows[i].purpose = "BUY" THEN "buy" ELSE "sell")
    /\ m'.cur = i /\ m'.todo = m.todo \ {i} /\ m'.delta = m.delta
    /\ m'.fills = m.fills /\ m.fills = {} /\ m'.job = "pass" /\ m.job = "pass"
    /\ m'.tp1 = m.tp1 /\ m'.recover = m.recover /\ m'.exit = m.exit

LEMMA RefreshRowRefreshes ==
    ASSUME Shape, NEW i \in m.todo, RefreshRow(i)
    PROVE  Refreshes(i) /\ i \in DOMAIN rows /\ rows[i].status = "OPEN"
<1>1. /\ m.pc = "rows" /\ UNCHANGED <<pos, plan, hold>> /\ SameCounts /\ Types
      /\ rows[i].bStatus # "GONE" /\ rows' = [rows EXCEPT ![i] = Stored(@)]
      /\ m' = [m EXCEPT !.pc = IF rows[i].purpose = "BUY" THEN "buy" ELSE "sell",
                        !.todo = @ \ {i}, !.cur = i, !.job = "pass"]
  BY DEF RefreshRow, SameCounts, At, Shape
<1>2. /\ i \in DOMAIN rows /\ rows[i].status = "OPEN" /\ m.fills = {} /\ m.job = "pass"
  BY <1>1 DEF Shape, Control, OpenRow, At
<1>3. rows[i] \in Rows
  BY <1>1, <1>2, RowTypes
<1>4. PICK new : new = Stored(rows[i])
  OBVIOUS
<1>5. new \in Rows /\ Refreshed(new, rows[i])
  BY <1>1, <1>2, <1>3, <1>4, StoredRow DEF Refreshed
<1>6. Writes(i, new)
  BY <1>1, <1>4 DEF Writes
<1>7. /\ m' \in Runs /\ m'.pc = (IF rows[i].purpose = "BUY" THEN "buy" ELSE "sell")
      /\ m'.cur = i /\ m'.todo = m.todo \ {i} /\ m'.delta = m.delta
      /\ m'.fills = m.fills /\ m'.job = "pass"
      /\ m'.tp1 = m.tp1 /\ m'.recover = m.recover /\ m'.exit = m.exit
  BY <1>1, <1>2 DEF Types, Runs, Places, Jobs, BuyPlaces, SellPlaces
<1> QED  BY <1>1, <1>2, <1>5, <1>6, <1>7 DEF Refreshes

LEMMA RefreshRowShape == ASSUME Shape, NEW i \in m.todo, RefreshRow(i) PROVE Shape'
<1>1. Refreshes(i) /\ i \in DOMAIN rows /\ rows[i].status = "OPEN" /\ Types
  BY RefreshRowRefreshes DEF Shape
<1>2. PICK new \in Rows : Writes(i, new) /\ Refreshed(new, rows[i])
  BY <1>1 DEF Refreshes
<1>3. /\ rows' \in Seq(Rows) /\ Len(rows') = Len(rows) /\ DOMAIN rows' = DOMAIN rows
      /\ rows'[i] = new /\ \A j \in DOMAIN rows : j # i => rows'[j] = rows[j]
      /\ \A j \in DOMAIN rows : rows'[j].purpose = rows[j].purpose
      /\ TakeProfits' = TakeProfits
      /\ Buy' = (IF i = 1 THEN new ELSE Buy) /\ Buy'.qty = Buy.qty
  BY <1>1, <1>2, OneRow DEF Refreshed
<1>4. RowOK(rows[i]) /\ RowOK(Buy) /\ Buy \in RowRecords
  BY <1>1, RowTypes, BuyRow DEF Rows
<1>5. Buy'.applied = Buy.applied /\ Buy'.filled >= Buy.filled /\ Buy'.bFilled = Buy.bFilled
  BY <1>2, <1>3, <1>4 DEF Refreshed, RowOK, RowRecords, Buy
<1>6. Types'
  BY <1>1, <1>3 DEF Refreshes, SameCounts, Types
<1>7. BuyFirst'
  BY <1>1, <1>3, <1>5 DEF Refreshes, Shape, BuyFirst, SellPlaces, SettlePlaces, SubmitPlaces
<1>8. Bounds'
  <2>1. new \in RowRecords
    BY DEF Rows
  <2>2. Buy.filled \in Nat /\ Buy'.filled \in Nat /\ pos.qty \in Nat
    BY <1>1, <1>3, <1>4, <2>1, PlanTypes DEF RowRecords, Types
  <2> QED  BY <1>1, <1>3, <1>5, <2>2, PositionAssumption DEF Refreshes, Shape, Bounds
<1>9. \A j \in m'.todo : j \in DOMAIN rows' /\ OpenRow(j)'
  BY <1>1, <1>3 DEF Refreshes, Shape, Control, OpenRow
<1>10. Control'
  BY <1>1, <1>9 DEF Refreshes, Control, At, SettlePlaces, BuyPlaces, SellPlaces
<1>11. AtBuy'
  <2>1. i = 1 <=> rows[i].purpose = "BUY"
    BY <1>1 DEF Shape, BuyFirst
  <2>2. i = 1 => ~Buy'.applied /\ Buy'.bStatus # "GONE"
    BY <1>1, <1>2, <1>3, <1>4, <1>5 DEF Refreshed, RowOK, Buy
  <2> QED  BY <1>1, <2>1, <2>2 DEF Refreshes, AtBuy, At, BuyPlaces
<1>12. AtSell'
  <2>1. CASE rows[i].purpose = "BUY"
    BY <1>1, <2>1 DEF Refreshes, AtSell, At, SellPlaces
  <2>2. CASE rows[i].purpose # "BUY"
    <3>1. i \in TakeProfits' /\ ~new.applied
      BY <1>1, <1>2, <1>3, <1>4, <2>2 DEF TakeProfits, Refreshed, RowOK
    <3> QED  BY <1>1, <1>2, <1>3, <3>1, <2>2 DEF Refreshes, AtSell, At, SellPlaces, Refreshed, Rows, RowRecords
  <2> QED  BY <2>1, <2>2
<1> QED  BY <1>6, <1>7, <1>8, <1>10, <1>11, <1>12 DEF Shape

\* What is left of a late BUY is canceled.
EndsBuy ==
    /\ m.pc = "buy" /\ UNCHANGED <<pos, plan, hold, m>> /\ SameCounts
    /\ Buy.status = "OPEN" /\ Buy.filled > 0
    /\ \E new \in Rows : Writes(1, new) /\ Refreshed(new, Buy) /\ Ended(new)

LEMMA CancelLateBuyEnds == ASSUME Shape, CancelLateBuy PROVE EndsBuy
<1>1. /\ m.pc = "buy" /\ UNCHANGED <<pos, plan, hold, m>> /\ SameCounts /\ Types
      /\ rows[m.cur].status = "OPEN" /\ rows[m.cur].filled > 0
      /\ rows' = [rows EXCEPT ![m.cur] = Stored(Canceled(@))]
  BY DEF CancelLateBuy, SameCounts, At, Shape
<1>2. m.cur = 1 /\ Buy.bStatus # "GONE" /\ Buy \in Rows
  BY <1>1, BuyRow DEF Shape, AtBuy, At, BuyPlaces
<1>3. PICK new : new = Stored(Canceled(Buy))
  OBVIOUS
<1>4. new \in Rows /\ Refreshed(new, Buy) /\ Ended(new)
  BY <1>1, <1>2, <1>3, EndedRow DEF Buy, Refreshed
<1>5. Writes(1, new)
  BY <1>1, <1>2, <1>3 DEF Writes, Buy
<1> QED  BY <1>1, <1>2, <1>4, <1>5 DEF EndsBuy, Buy

LEMMA CancelLateBuyShape == ASSUME Shape, CancelLateBuy PROVE Shape'
<1>1. EndsBuy /\ Types
  BY CancelLateBuyEnds DEF Shape
<1>2. PICK new \in Rows : Writes(1, new) /\ Refreshed(new, Buy) /\ Ended(new)
  BY <1>1 DEF EndsBuy
<1>3. /\ rows' \in Seq(Rows) /\ Len(rows') = Len(rows) /\ DOMAIN rows' = DOMAIN rows
      /\ \A j \in DOMAIN rows : j # 1 => rows'[j] = rows[j]
      /\ \A j \in DOMAIN rows : rows'[j].purpose = rows[j].purpose
      /\ TakeProfits' = TakeProfits /\ Buy' = new /\ Buy'.qty = Buy.qty
  BY <1>1, <1>2, BuyRow, OneRow DEF Refreshed, Buy
<1>4. RowOK(Buy) /\ Buy \in RowRecords /\ new \in RowRecords /\ Buy.filled \in Nat /\ new.filled \in Nat
  BY <1>1, BuyRow DEF Rows, RowRecords
<1>5. Buy'.applied = Buy.applied /\ Buy'.filled >= Buy.filled /\ Buy'.bFilled = Buy.bFilled
  BY <1>2, <1>3, <1>4 DEF Refreshed, RowOK
<1>6. Types'
  BY <1>1, <1>3 DEF EndsBuy, SameCounts, Types
<1>7. BuyFirst'
  BY <1>1, <1>3, <1>5 DEF EndsBuy, Shape, BuyFirst, SellPlaces, SettlePlaces, SubmitPlaces
<1>8. Bounds'
  BY <1>1, <1>3, <1>4, <1>5, PlanTypes, PositionAssumption DEF EndsBuy, Shape, Bounds, Types
<1>9. \A j \in TakeProfits : j # 1 /\ rows'[j] = rows[j]
  BY <1>1, <1>3 DEF Shape, BuyFirst, TakeProfits
<1>10. OpenTakeProfits' = OpenTakeProfits
  BY <1>3, <1>9 DEF OpenTakeProfits, OpenRow
<1>11. \A j \in m'.todo : j \in DOMAIN rows' /\ OpenRow(j)'
  BY <1>1, <1>3 DEF EndsBuy, Shape, Control, AtBuy, BuyPlaces, OpenRow
<1>12. Control'
  BY <1>1, <1>3, <1>9, <1>10, <1>11 DEF EndsBuy, Shape, Control, At, SettlePlaces, BuyPlaces, SellPlaces
<1>13. AtBuy'
  BY <1>1, <1>2, <1>3, <1>5 DEF EndsBuy, Shape, AtBuy, At, BuyPlaces, Refreshed
<1>14. AtSell'
  BY <1>1 DEF EndsBuy, AtSell, SellPlaces
<1> QED  BY <1>6, <1>7, <1>8, <1>12, <1>13, <1>14 DEF Shape

\* One order of a settlement is ended, and its fill remembered or the row marked.
EndsOrder(i) ==
    /\ rows[i].bStatus # "GONE"
    /\ \E new \in Rows :
          /\ Writes(i, new) /\ SameOrder(new, rows[i]) /\ Ended(new)
          /\ new.filled = rows[i].bFilled /\ new.bFilled = rows[i].bFilled
          /\ new.applied = (rows[i].bFilled = 0)
    /\ m' \in Runs /\ m'.pc = m.pc /\ m'.todo = m.todo \ {i} /\ m'.cur = m.cur /\ m'.delta = m.delta
    /\ m'.fills = (IF rows[i].bFilled > 0 THEN m.fills \cup {i} ELSE m.fills)
    /\ m'.job = m.job /\ m'.tp1 = m.tp1 /\ m'.recover = m.recover /\ m'.exit = m.exit

Settles(i) ==
    /\ m.pc = "settle" /\ i \in m.todo /\ UNCHANGED <<pos, plan, hold>> /\ SameCounts
    /\ \/ rows[i].bStatus = "GONE" /\ UNCHANGED rows /\ Leave
       \/ EndsOrder(i)

LEMMA SettleRowSettles ==
    ASSUME Shape, NEW i \in m.todo, SettleRow(i)
    PROVE  Settles(i) /\ i \in OpenTakeProfits /\ i \in DOMAIN rows
<1>1. /\ m.pc = "settle" /\ UNCHANGED <<pos, plan, hold>> /\ SameCounts /\ Types
      /\ IF rows[i].bStatus = "GONE"
         THEN Leave /\ UNCHANGED rows
         ELSE /\ rows' = [rows EXCEPT ![i] = SettledRow(@)]
              /\ m' = [m EXCEPT !.todo = @ \ {i},
                                !.fills = IF rows[i].bFilled > 0 THEN @ \cup {i} ELSE @]
  BY DEF SettleRow, SameCounts, At, Shape
<1>2. i \in OpenTakeProfits /\ i \in DOMAIN rows /\ rows[i] \in Rows /\ rows[i].status = "OPEN" /\ i \in Nat
  BY <1>1, RowTypes DEF Shape, Control, At, OpenTakeProfits, TakeProfits, OpenRow, Types
<1>3. ASSUME rows[i].bStatus # "GONE" PROVE EndsOrder(i)
  <2>1. PICK ended : ended = Stored(Canceled(rows[i]))
    OBVIOUS
  <2>2. Refreshed(ended, rows[i]) /\ Ended(ended) /\ ended \in RowRecords /\ RowOK(ended)
    BY <1>2, <1>3, <2>1, EndedRow DEF Refreshed, Rows
  <2>3. ~rows[i].applied
    BY <1>1, <1>2, RowTypes DEF RowOK
  <2>4. PICK new : new = SettledRow(rows[i]) /\ new = [ended EXCEPT !.applied = @ \/ rows[i].bFilled = 0]
    BY <2>1 DEF SettledRow
  <2>5. /\ new \in RowRecords /\ SameOrder(new, rows[i]) /\ new.status = ended.status
        /\ new.bStatus = ended.bStatus
        /\ new.filled = rows[i].bFilled /\ new.bFilled = rows[i].bFilled
        /\ new.applied = (rows[i].bFilled = 0)
    <3>1. ended.applied = FALSE
      BY <2>2, <2>3 DEF Refreshed, RowRecords
    <3> QED  BY <2>2, <2>4, <3>1 DEF Refreshed, SameOrder, RowRecords
  <2>6. new \in Rows /\ Ended(new)
    BY <2>2, <2>5 DEF Rows, RowOK, Ended, Refreshed, SameOrder
  <2>7. Writes(i, new)
    <3>1. rows' = [rows EXCEPT ![i] = SettledRow(rows[i])]
      BY <1>1, <1>3
    <3> QED  BY <2>4, <3>1 DEF Writes
  <2>8. /\ m' \in Runs /\ m'.pc = m.pc /\ m'.todo = m.todo \ {i} /\ m'.cur = m.cur /\ m'.delta = m.delta
        /\ m'.fills = (IF rows[i].bFilled > 0 THEN m.fills \cup {i} ELSE m.fills)
        /\ m'.job = m.job /\ m'.tp1 = m.tp1 /\ m'.recover = m.recover /\ m'.exit = m.exit
    <3>1. PICK f : f = IF rows[i].bFilled > 0 THEN m.fills \cup {i} ELSE m.fills
      OBVIOUS
    <3>2. f \in SUBSET Nat /\ m' = [m EXCEPT !.todo = @ \ {i}, !.fills = f]
      BY <1>1, <1>2, <1>3, <3>1, RunTypes
    <3> QED  BY <1>1, <3>1, <3>2 DEF Types, Runs
  <2> QED  BY <1>3, <2>5, <2>6, <2>7, <2>8 DEF EndsOrder
<1> QED  BY <1>1, <1>2, <1>3 DEF Settles

LEMMA SettleRowShape == ASSUME Shape, NEW i \in m.todo, SettleRow(i) PROVE Shape'
<1>1. Settles(i) /\ i \in OpenTakeProfits /\ i \in DOMAIN rows /\ Types
  BY SettleRowSettles DEF Shape
<1>2. CASE UNCHANGED rows /\ Leave
  BY <1>1, <1>2, LeaveShape DEF Settles, SameBooks, SameCounts, Types
<1>3. CASE EndsOrder(i)
  <2>1. PICK new \in Rows :
          /\ Writes(i, new) /\ SameOrder(new, rows[i]) /\ Ended(new)
          /\ new.filled = rows[i].bFilled /\ new.bFilled = rows[i].bFilled
          /\ new.applied = (rows[i].bFilled = 0)
    BY <1>3 DEF EndsOrder
  <2>2. /\ rows' \in Seq(Rows) /\ Len(rows') = Len(rows) /\ DOMAIN rows' = DOMAIN rows
        /\ rows'[i] = new /\ \A j \in DOMAIN rows : j # i => rows'[j] = rows[j]
        /\ \A j \in DOMAIN rows : rows'[j].purpose = rows[j].purpose
        /\ TakeProfits' = TakeProfits
        /\ Buy' = (IF i = 1 THEN new ELSE Buy)
    BY <1>1, <2>1, OneRow
  <2>3. i # 1 /\ i \in TakeProfits /\ Buy' = Buy
    BY <1>1, <2>2 DEF Shape, BuyFirst, OpenTakeProfits, TakeProfits
  <2>4. Types'
    BY <1>1, <1>3, <2>2 DEF Settles, EndsOrder, SameCounts, Types
  <2>5. BuyFirst' /\ Bounds'
    BY <1>1, <1>3, <2>2, <2>3 DEF Settles, EndsOrder, Shape, BuyFirst, Bounds, SettlePlaces
  <2>6. ~OpenRow(i)'
    BY <2>1, <2>2 DEF OpenRow, Ended
  <2>7. \A j \in TakeProfits : j \in DOMAIN rows
    BY DEF TakeProfits
  <2>8. OpenTakeProfits' = OpenTakeProfits \ {i}
    BY <1>1, <2>2, <2>6, <2>7 DEF OpenTakeProfits, OpenRow
  <2>9. m.todo = OpenTakeProfits /\ m.job # "pass"
    BY <1>1 DEF Settles, Shape, Control, At, SettlePlaces
  <2>10. \A j \in m'.fills : j \in TakeProfits' /\ Ended(rows'[j]) /\ ~rows'[j].applied /\ rows'[j].filled > 0
    <3>1. \A j \in m.fills : j # i
      BY <1>1 DEF Shape, Control, OpenTakeProfits, OpenRow, Ended
    <3>2. \A j \in m.fills : j \in TakeProfits' /\ Ended(rows'[j]) /\ ~rows'[j].applied /\ rows'[j].filled > 0
      BY <2>2, <2>7, <3>1 DEF Shape, Control
    <3>3. i \in m'.fills => i \in TakeProfits' /\ Ended(rows'[i]) /\ ~rows'[i].applied /\ rows'[i].filled > 0
      <4>1. rows[i].bFilled \in Nat
        BY <1>1, RowTypes
      <4>2. i \in m'.fills => rows[i].bFilled > 0
        BY <1>3, <3>1 DEF EndsOrder
      <4>3. ASSUME rows[i].bFilled > 0 PROVE ~new.applied /\ new.filled > 0
        <5>1. rows[i].bFilled # 0 /\ new.applied = (rows[i].bFilled = 0)
          BY <4>1, <4>3, <2>1
        <5> QED  BY <5>1, <2>1, <4>3
      <4> QED  BY <4>2, <4>3, <2>1, <2>2, <2>3
    <3> QED  BY <1>3, <3>2, <3>3 DEF EndsOrder
  <2>11. \A j \in m'.todo : j \in DOMAIN rows' /\ OpenRow(j)'
    BY <1>3, <2>2, <2>9 DEF EndsOrder, Shape, Control, OpenRow
  <2>12. Control'
    BY <1>1, <1>3, <2>8, <2>9, <2>10, <2>11 DEF Settles, EndsOrder, Control, At, BuyPlaces, SettlePlaces, SellPlaces
  <2>13. AtBuy' /\ AtSell'
    BY <1>1, <1>3 DEF Settles, EndsOrder, AtBuy, AtSell, At, BuyPlaces, SellPlaces
  <2> QED  BY <2>4, <2>5, <2>12, <2>13 DEF Shape
<1> QED  BY <1>1, <1>2, <1>3 DEF Settles

-----------------------------------------------------------------------------
(* Shape: the position goes to SAFE_MODE, and the steps of the BUY *)

SafeMode == pos' \in [state : States, qty : Nat] /\ pos'.state = "SAFE" /\ pos'.qty = pos.qty

LEMMA SafeModeIs ==
    ASSUME Types, pos' = [pos EXCEPT !.state = "SAFE"]
    PROVE  SafeMode
BY DEF Types, SafeMode, States

\* An order that the broker does not know.
Misses(i) ==
    /\ m.pc = "rows" /\ i \in m.todo /\ UNCHANGED <<plan, rows, hold>> /\ SameCounts /\ SafeMode
    /\ m' \in Runs /\ m'.pc = "rows" /\ m'.todo = m.todo \ {i} /\ m'.cur = m.cur
    /\ m'.delta = m.delta /\ m'.fills = m.fills /\ m'.job = m.job
    /\ m'.tp1 = m.tp1 /\ m'.recover = m.recover /\ m'.exit = m.exit

LEMMA MissingRowShape ==
    ASSUME Shape, NEW i \in m.todo, MissingRow(i)
    PROVE  Shape' /\ Misses(i)
<1>1. /\ m.pc = "rows" /\ UNCHANGED <<plan, rows, hold>> /\ SameCounts /\ Types
      /\ pos' = [pos EXCEPT !.state = "SAFE"] /\ m' = [m EXCEPT !.todo = @ \ {i}]
  BY DEF MissingRow, SameCounts, At, Shape
<1>2. /\ m' \in Runs /\ m'.pc = "rows" /\ m'.todo = m.todo \ {i} /\ m'.cur = m.cur
      /\ m'.delta = m.delta /\ m'.fills = m.fills /\ m'.job = m.job
      /\ m'.tp1 = m.tp1 /\ m'.recover = m.recover /\ m'.exit = m.exit
  BY <1>1 DEF Types, Runs
<1>3. SafeMode
  BY <1>1, SafeModeIs
<1>4. Types' /\ BuyFirst' /\ Bounds'
  BY <1>1, <1>2, <1>3 DEF SafeMode, SameCounts, Shape, Types, BuyFirst, Bounds, Buy
<1>5. Control' /\ AtBuy' /\ AtSell'
  BY <1>1, <1>2 DEF Shape, Control, AtBuy, AtSell, At, BuyPlaces, SellPlaces, SettlePlaces,
     OpenTakeProfits, TakeProfits, OpenRow
<1> QED  BY <1>1, <1>2, <1>3, <1>4, <1>5 DEF Misses, Shape

LEMMA ReconcileShape ==
    ASSUME Shape, Reconcile
    PROVE  Shape' /\ m.pc = "idle" /\ SafeMode /\ UNCHANGED <<plan, rows, hold, m>> /\ SameCounts
<1>1. /\ m.pc = "idle" /\ UNCHANGED <<plan, rows, hold, m>> /\ SameCounts /\ Types
      /\ pos' = [pos EXCEPT !.state = "SAFE"]
  BY DEF Reconcile, SameCounts, At, Shape
<1>2. SafeMode
  BY <1>1, SafeModeIs
<1>3. Types' /\ BuyFirst' /\ Bounds'
  BY <1>1, <1>2 DEF SafeMode, SameCounts, Shape, Types, BuyFirst, Bounds, Buy
<1>4. Control' /\ AtBuy' /\ AtSell'
  BY <1>1 DEF Shape, Control, AtBuy, AtSell, At, BuyPlaces, SellPlaces, SettlePlaces,
     OpenTakeProfits, TakeProfits, OpenRow
<1> QED  BY <1>1, <1>2, <1>3, <1>4 DEF Shape

\* The plan of the whole position, or nothing if the position does not wait for it.
PlansBuy ==
    /\ m.pc = "buy" /\ Ended(Buy) /\ Buy.filled > 0 /\ UNCHANGED <<pos, rows, hold>> /\ SameCounts
    /\ \/ pos.state = "WAITING" /\ plan' = NewPlan(pos.qty + Buy.filled) /\ Moves("bought")
       \/ pos.state # "WAITING" /\ UNCHANGED plan /\ Leave

LEMMA CreatePlanShape ==
    ASSUME Shape, CreatePlan
    PROVE  Shape' /\ PlansBuy
<1>1. /\ m.pc = "buy" /\ UNCHANGED <<pos, rows, hold>> /\ SameCounts /\ Types
      /\ BuyEnded /\ rows[m.cur].filled > 0
      /\ IF pos.state = "WAITING"
         THEN plan' = BoughtPlan /\ Goto("bought")
         ELSE Leave /\ UNCHANGED plan
  BY DEF CreatePlan, SameCounts, At, Shape
<1>2. m.cur = 1 /\ rows[m.cur] = Buy
  BY <1>1 DEF Shape, AtBuy, BuyPlaces, Buy
<1>3. PlansBuy
  BY <1>1, <1>2, GotoMoves DEF PlansBuy, BuyEnded, Ended, BoughtPlan, Places, BuyPlaces
<1>4. CASE UNCHANGED plan /\ Leave
  BY <1>1, <1>3, <1>4, LeaveShape DEF SameBooks, SameCounts, Types
<1>5. CASE pos.state = "WAITING" /\ plan' = NewPlan(pos.qty + Buy.filled) /\ Moves("bought")
  <2>1. pos.qty + Buy.filled \in Nat \ {0}
    BY <1>1, <1>2, BuyRow DEF Types, Rows, RowRecords
  <2>2. plan' \in Plans /\ \A leg \in Legs : plan'.filled[leg] <= plan'.target[leg]
    <3>1. PICK n \in Nat \ {0} : n = pos.qty + Buy.filled
      BY <2>1
    <3>2. /\ NewPlan(n) \in Plans /\ \A leg \in Legs : NewPlan(n).filled[leg] = 0
      BY PlanOfPosition
    <3>3. \A leg \in Legs : NewPlan(n).target[leg] \in Nat
      BY <3>2 DEF Plans
    <3>4. plan' = NewPlan(n)
      BY <1>5, <3>1
    <3> HIDE DEF NewPlan
    <3> QED  BY <3>2, <3>3, <3>4
  <2>3. Types'
    BY <1>1, <1>5, <2>2 DEF Moves, SameCounts, Types
  <2>4. BuyFirst' /\ Bounds'
    BY <1>1, <1>5 DEF Moves, Shape, BuyFirst, Bounds, Buy, SellPlaces, SettlePlaces, SubmitPlaces
  <2>5. Control' /\ AtSell'
    BY <1>1, <1>5 DEF Moves, Shape, Control, AtSell, At, BuyPlaces, SellPlaces, SettlePlaces,
       OpenTakeProfits, TakeProfits, OpenRow
  <2>6. AtBuy'
    <3>1. plan' = NewPlan(pos'.qty + Buy'.filled) /\ Ended(Buy') /\ Buy'.filled > 0
      BY <1>1, <1>2, <1>3, <1>5 DEF PlansBuy, Buy
    <3> HIDE DEF NewPlan
    <3> QED  BY <1>1, <1>5, <3>1 DEF Moves, Shape, AtBuy, At, BuyPlaces, Buy
  <2> QED  BY <1>3, <2>3, <2>4, <2>5, <2>6 DEF Shape
<1> QED  BY <1>3, <1>4, <1>5 DEF PlansBuy

\* The position takes the shares.
Adds ==
    /\ m.pc = "bought" /\ Moves("markBuy") /\ UNCHANGED <<plan, rows, hold>> /\ SameCounts
    /\ pos' \in [state : States, qty : Nat] /\ pos'.state = "HOLDING"
    /\ pos'.qty = pos.qty + Buy.filled

LEMMA AddSharesShape == ASSUME Shape, AddShares PROVE Shape' /\ Adds
<1>1. /\ m.pc = "bought" /\ Goto("markBuy") /\ UNCHANGED <<plan, rows, hold>> /\ SameCounts /\ Types
      /\ pos' = [state |-> "HOLDING", qty |-> pos.qty + rows[m.cur].filled]
  BY DEF AddShares, SameCounts, At, Shape
<1>2. m.cur = 1 /\ rows[m.cur] = Buy /\ Buy.filled \in Nat /\ Ended(Buy) /\ Buy.filled > 0 /\ pos.state = "WAITING"
  BY <1>1, BuyRow DEF Shape, AtBuy, BuyPlaces, Buy, Rows, RowRecords, At
<1>3. Adds
  BY <1>1, <1>2, GotoMoves DEF Adds, Places, BuyPlaces, States, Types
<1>4. Types'
  BY <1>1, <1>3 DEF Adds, Moves, SameCounts, Types
<1>5. BuyFirst'
  BY <1>1, <1>3 DEF Adds, Moves, Shape, BuyFirst, Buy, SellPlaces, SettlePlaces, SubmitPlaces
<1>6. Bounds'
  <2>1. Buy' = Buy
    BY <1>1 DEF Buy
  <2>2. pos.qty \in Nat /\ MaxQty \in Nat
    BY <1>1, PositionAssumption DEF Types
  <2> HIDE DEF Buy
  <2> QED  BY <1>1, <1>2, <1>3, <2>1, <2>2 DEF Adds, Moves, Shape, Bounds
<1>7. Control' /\ AtSell'
  BY <1>1, <1>3 DEF Adds, Moves, Shape, Control, AtSell, At, BuyPlaces, SellPlaces, SettlePlaces,
     OpenTakeProfits, TakeProfits, OpenRow
<1>8. AtBuy'
  BY <1>1, <1>2, <1>3 DEF Adds, Moves, Shape, AtBuy, At, BuyPlaces, Buy
<1> QED  BY <1>3, <1>4, <1>5, <1>6, <1>7, <1>8 DEF Shape

\* The BUY is marked as applied.
MarksBuy ==
    /\ m.pc \in {"markBuy", "markUnfilled"} /\ UNCHANGED <<pos, plan, hold>> /\ SameCounts
    /\ \E new \in Rows :
          /\ Writes(1, new) /\ SameOrder(new, Buy) /\ new.applied
          /\ new.status = Buy.status /\ new.filled = Buy.filled
          /\ new.bStatus = Buy.bStatus /\ new.bFilled = Buy.bFilled
    /\ Moves("placeTP1") \/ (m.pc = "markUnfilled" /\ Moves("rows") /\ ~(Buy.base # "EMPTY" /\ plan.active))

LEMMA MarkBuyMarks == ASSUME Shape, MarkBuy \/ MarkUnfilled PROVE MarksBuy
<1>1. /\ m.pc \in {"markBuy", "markUnfilled"} /\ UNCHANGED <<pos, plan, hold>> /\ SameCounts /\ Types
      /\ rows' = [rows EXCEPT ![m.cur].applied = TRUE]
      /\ \/ Goto("placeTP1")
         \/ m.pc = "markUnfilled" /\ Goto("rows") /\ ~(rows[m.cur].base # "EMPTY" /\ plan.active)
  BY DEF MarkBuy, MarkUnfilled, MarkApplied, SameCounts, At, Shape
<1>2. m.cur = 1 /\ Ended(Buy)
  BY <1>1 DEF Shape, AtBuy, BuyPlaces, At
<1>3. Buy \in RowRecords /\ RowOK(Buy)
  BY <1>1, BuyRow DEF Rows
<1>4. PICK new : new = [Buy EXCEPT !.applied = TRUE]
  OBVIOUS
<1>5. /\ new \in RowRecords /\ SameOrder(new, Buy) /\ new.applied
      /\ new.status = Buy.status /\ new.filled = Buy.filled
      /\ new.bStatus = Buy.bStatus /\ new.bFilled = Buy.bFilled
  BY <1>3, <1>4 DEF RowRecords, SameOrder
<1>6. new \in Rows
  BY <1>2, <1>3, <1>5 DEF Rows, RowOK, Ended, SameOrder
<1>7. Writes(1, new)
  BY <1>1, <1>2, <1>4 DEF Writes, Buy
<1>8. \/ Moves("placeTP1")
      \/ m.pc = "markUnfilled" /\ Moves("rows") /\ ~(Buy.base # "EMPTY" /\ plan.active)
  BY <1>1, <1>2, GotoMoves DEF Places, SubmitPlaces, Buy
<1> QED  BY <1>1, <1>5, <1>6, <1>7, <1>8 DEF MarksBuy

LEMMA MarkBuyShape == ASSUME Shape, MarkBuy \/ MarkUnfilled PROVE Shape'
<1>1. MarksBuy /\ Types
  BY MarkBuyMarks DEF Shape
<1>2. PICK new \in Rows :
          /\ Writes(1, new) /\ SameOrder(new, Buy) /\ new.applied
          /\ new.status = Buy.status /\ new.filled = Buy.filled
          /\ new.bStatus = Buy.bStatus /\ new.bFilled = Buy.bFilled
  BY <1>1 DEF MarksBuy
<1>3. PICK pc \in {"placeTP1", "rows"} : Moves(pc)
  BY <1>1 DEF MarksBuy
<1>4. /\ rows' \in Seq(Rows) /\ Len(rows') = Len(rows) /\ DOMAIN rows' = DOMAIN rows
      /\ \A j \in DOMAIN rows : j # 1 => rows'[j] = rows[j]
      /\ \A j \in DOMAIN rows : rows'[j].purpose = rows[j].purpose
      /\ TakeProfits' = TakeProfits /\ Buy' = new /\ Buy'.qty = Buy.qty
  BY <1>1, <1>2, BuyRow, OneRow DEF Buy
<1>5. Types'
  BY <1>1, <1>3, <1>4 DEF MarksBuy, Moves, SameCounts, Types
<1>6. BuyFirst' /\ Bounds'
  BY <1>1, <1>2, <1>3, <1>4 DEF MarksBuy, Moves, Shape, BuyFirst, Bounds
<1>7. m.cur = 1 /\ ~Buy.applied /\ 1 \notin m.todo /\ m.job = "pass" /\ m.fills = {}
  BY <1>1 DEF MarksBuy, Shape, AtBuy, Control, BuyPlaces
<1>8. OpenTakeProfits' = {}
  <2>1. DOMAIN rows = {1}
    BY <1>1, <1>7 DEF Shape, BuyFirst, Types
  <2> QED  BY <2>1, <1>4 DEF Shape, BuyFirst, OpenTakeProfits, TakeProfits
<1>9. \A j \in m'.todo : j \in DOMAIN rows' /\ OpenRow(j)'
  BY <1>3, <1>4, <1>7 DEF Moves, Shape, Control, OpenRow
<1>10. Control'
  BY <1>3, <1>7, <1>8, <1>9 DEF Moves, Control, At, BuyPlaces, SettlePlaces, SellPlaces
<1>11. AtBuy' /\ AtSell'
  BY <1>3 DEF Moves, AtBuy, AtSell, At, BuyPlaces, SellPlaces
<1> QED  BY <1>5, <1>6, <1>10, <1>11 DEF Shape

\* A BUY that has bought nothing: the position is in the state before, as it was.
Restores ==
    /\ m.pc = "buy" /\ Ended(Buy) /\ Buy.filled = 0 /\ Moves("markUnfilled")
    /\ UNCHANGED <<plan, rows, hold>> /\ SameCounts
    /\ pos' \in [state : States, qty : Nat] /\ pos'.state = Buy.base /\ pos'.qty = pos.qty

LEMMA RestoreUnfilledShape == ASSUME Shape, RestoreUnfilled PROVE Shape' /\ Restores
<1>1. /\ m.pc = "buy" /\ UNCHANGED <<plan, rows, hold>> /\ SameCounts /\ Types
      /\ BuyEnded /\ rows[m.cur].filled = 0
      /\ pos' = [pos EXCEPT !.state = rows[m.cur].base] /\ Goto("markUnfilled")
  BY DEF RestoreUnfilled, SameCounts, At, Shape
<1>2. m.cur = 1 /\ rows[m.cur] = Buy /\ Buy.base \in {"EMPTY", "HOLDING", "PARTIAL"}
  BY <1>1, BuyRow DEF Shape, AtBuy, BuyPlaces, Buy, Rows, RowRecords
<1>3. Restores
  BY <1>1, <1>2, GotoMoves DEF Restores, BuyEnded, Ended, Places, BuyPlaces, States, Types
<1>4. Types'
  BY <1>1, <1>3 DEF Restores, Moves, SameCounts, Types
<1>5. Buy' = Buy
  BY <1>1 DEF Buy
<1>6. BuyFirst'
  BY <1>1, <1>3, <1>5 DEF Restores, Moves, Shape, BuyFirst, SellPlaces, SettlePlaces, SubmitPlaces
<1>7. Bounds'
  BY <1>1, <1>2, <1>3, <1>5 DEF Restores, Moves, Shape, Bounds
<1>8. Control' /\ AtSell'
  BY <1>1, <1>3 DEF Restores, Moves, Shape, Control, AtSell, At, BuyPlaces, SellPlaces, SettlePlaces,
     OpenTakeProfits, TakeProfits, OpenRow
<1>9. AtBuy'
  BY <1>1, <1>3, <1>5 DEF Restores, Moves, Shape, AtBuy, At, BuyPlaces
<1> QED  BY <1>3, <1>4, <1>6, <1>7, <1>8, <1>9 DEF Shape

-----------------------------------------------------------------------------
(* Shape: orders are placed *)

\* An order is added: open, filled at once, or UNKNOWN.
Submits(purpose, n, next) ==
    /\ UNCHANGED <<pos, plan, crashes>>
    /\ Len(rows) < MaxOrders
    /\ \E new \in Rows :
          /\ rows' = Append(rows, new) /\ new.purpose = purpose /\ new.qty = n /\ ~new.applied
          /\ \/ /\ new.status = "OPEN" /\ new.bStatus = "OPEN" /\ new.filled = 0 /\ new.bFilled = 0
                /\ Moves(next) /\ UNCHANGED <<hold, overfilled, failures>>
             \/ /\ new.status = "FILLED" /\ new.bStatus = "FILLED" /\ new.filled = n /\ new.bFilled = n
                /\ Moves(next) /\ n <= hold /\ hold' = hold - n /\ UNCHANGED <<overfilled, failures>>
             \/ /\ new.status = "UNKNOWN" /\ new.bStatus = "GONE" /\ new.filled = 0 /\ new.bFilled = 0
                /\ Leave /\ UNCHANGED hold
                /\ \/ overfilled' = TRUE /\ failures' = failures
                   \/ overfilled' = overfilled /\ failures' = failures + 1

LEMMA SubmitSubmits ==
    ASSUME Types, NEW purpose \in {"TP1", "TP2", "EXIT"}, NEW n \in Nat \ {0}, NEW next \in Places,
           Submit(purpose, n, next), UNCHANGED <<pos, plan, crashes>>
    PROVE  Submits(purpose, n, next)
<1>1. PICK row : row = Row(purpose, n, "EMPTY")
  OBVIOUS
<1>2. /\ row \in RowRecords /\ row.purpose = purpose /\ row.qty = n /\ ~row.applied
      /\ row.status = "OPEN" /\ row.bStatus = "OPEN" /\ row.filled = 0 /\ row.bFilled = 0
  BY <1>1 DEF Row, RowRecords
<1>3. PICK done : done = Stored([row EXCEPT !.bStatus = "FILLED", !.bFilled = n])
  OBVIOUS
<1>4. PICK lost : lost = [row EXCEPT !.status = "UNKNOWN", !.bStatus = "GONE"]
  OBVIOUS
<1>5. row \in Rows
  BY <1>2 DEF Rows, RowOK, Ended
<1>6. /\ done \in Rows /\ done.purpose = purpose /\ done.qty = n /\ ~done.applied
      /\ done.status = "FILLED" /\ done.bStatus = "FILLED" /\ done.filled = n /\ done.bFilled = n
  <2>1. PICK full : full = [row EXCEPT !.bStatus = "FILLED", !.bFilled = n]
    OBVIOUS
  <2>2. /\ full \in RowRecords /\ full.purpose = purpose /\ full.qty = n /\ ~full.applied
        /\ full.status = "OPEN" /\ full.bStatus = "FILLED" /\ full.filled = 0 /\ full.bFilled = n
    BY <1>2, <2>1 DEF RowRecords
  <2>3. RowOK(full)
    BY <2>2 DEF RowOK, Ended
  <2>4. full \in Rows
    BY <2>2, <2>3 DEF Rows
  <2>5. Refreshed(Stored(full), full) /\ Stored(full).bStatus = "FILLED"
    BY <2>2, <2>4, StoredRow
  <2> QED  BY <1>3, <2>1, <2>2, <2>5 DEF Refreshed, SameOrder
<1>7. /\ lost \in Rows /\ lost.purpose = purpose /\ lost.qty = n /\ ~lost.applied
      /\ lost.status = "UNKNOWN" /\ lost.bStatus = "GONE" /\ lost.filled = 0 /\ lost.bFilled = 0
  <2>1. /\ lost \in RowRecords /\ lost.purpose = purpose /\ lost.qty = n /\ ~lost.applied
        /\ lost.status = "UNKNOWN" /\ lost.bStatus = "GONE" /\ lost.filled = 0 /\ lost.bFilled = 0
    BY <1>2, <1>4 DEF RowRecords
  <2> QED  BY <2>1 DEF Rows, RowOK, Ended
<1>8. /\ Len(rows) < MaxOrders
      /\ \/ rows' = Append(rows, row) /\ Moves(next) /\ UNCHANGED <<hold, overfilled, failures>>
         \/ /\ n <= hold /\ rows' = Append(rows, done) /\ hold' = hold - n
            /\ Moves(next) /\ UNCHANGED <<overfilled, failures>>
         \/ /\ \/ overfilled' = TRUE /\ failures' = failures
               \/ overfilled' = overfilled /\ failures' = failures + 1
            /\ rows' = Append(rows, lost) /\ Leave /\ UNCHANGED hold
  BY <1>1, <1>3, <1>4, GotoMoves DEF Submit
<1> QED  BY <1>2, <1>5, <1>6, <1>7, <1>8 DEF Submits

LEMMA SubmitsShape ==
    ASSUME Shape, NEW purpose \in {"TP1", "TP2", "EXIT"}, NEW n \in Nat \ {0},
           NEW next \in {"placeTP2", "rows", "jobs"}, Submits(purpose, n, next),
           m.pc \in SubmitPlaces,
           next = "placeTP2" => m.pc = "placeTP1" /\ purpose = "TP1",
           next = "rows" => m.job = "pass"
    PROVE  Shape'
<1>1. PICK new \in Rows :
          /\ rows' = Append(rows, new) /\ new.purpose = purpose /\ new.qty = n /\ ~new.applied
          /\ \/ /\ new.status = "OPEN" /\ new.bStatus = "OPEN" /\ new.filled = 0 /\ new.bFilled = 0
                /\ Moves(next) /\ UNCHANGED <<hold, overfilled, failures>>
             \/ /\ new.status = "FILLED" /\ new.bStatus = "FILLED" /\ new.filled = n /\ new.bFilled = n
                /\ Moves(next) /\ n <= hold /\ hold' = hold - n /\ UNCHANGED <<overfilled, failures>>
             \/ /\ new.status = "UNKNOWN" /\ new.bStatus = "GONE" /\ new.filled = 0 /\ new.bFilled = 0
                /\ Leave /\ UNCHANGED hold
                /\ \/ overfilled' = TRUE /\ failures' = failures
                   \/ overfilled' = overfilled /\ failures' = failures + 1
  BY DEF Submits
<1>2. Types /\ UNCHANGED <<pos, plan, crashes>> /\ Len(rows) < MaxOrders
  BY DEF Shape, Submits
<1>3. /\ rows' \in Seq(Rows) /\ Len(rows') = Len(rows) + 1
      /\ DOMAIN rows' = DOMAIN rows \cup {Len(rows) + 1} /\ Len(rows) + 1 \notin DOMAIN rows
      /\ rows'[Len(rows) + 1] = new /\ \A j \in DOMAIN rows : rows'[j] = rows[j]
  BY <1>1, <1>2, RowAppended
<1>4. Buy.applied /\ Buy' = Buy /\ Len(rows) \in Nat /\ Len(rows) + 1 # 1 /\ Len(rows) >= 1
  BY <1>2, <1>3, BuyRow DEF Shape, BuyFirst, Types, Buy
<1>5. hold' \in Nat /\ hold' <= hold /\ hold \in Nat
  <2>1. hold' = hold \/ (n <= hold /\ hold' = hold - n)
    BY <1>1
  <2>2. hold \in Nat
    BY <1>2 DEF Types
  <2> QED  BY <2>1, <2>2
<1>6. overfilled' \in BOOLEAN /\ failures' \in Nat
  <2>1. (overfilled' = overfilled \/ overfilled' = TRUE) /\ (failures' = failures \/ failures' = failures + 1)
    BY <1>1
  <2>2. overfilled \in BOOLEAN /\ failures \in Nat
    BY <1>2 DEF Types
  <2>3. overfilled' \in BOOLEAN
    BY <2>1, <2>2, Zenon
  <2> QED  BY <2>1, <2>2, <2>3
<1>7. Moves(next) \/ Leave
  BY <1>1
<1>8. m' \in Runs /\ (m'.delta = m.delta \/ m'.delta = 0)
  BY <1>7, LeftBehind DEF Moves
<1>9. Types'
  BY <1>2, <1>3, <1>5, <1>6, <1>8, PositionAssumption DEF Types
<1>10. BuyFirst'
  <2>1. \A j \in DOMAIN rows' : rows'[j].purpose = "BUY" <=> j = 1
    BY <1>1, <1>3, <1>4 DEF Shape, BuyFirst
  <2> QED  BY <2>1, <1>4 DEF BuyFirst
<1>11. Bounds'
  <2>1. Buy.bFilled \in Nat /\ MaxQty \in Nat
    BY <1>2, BuyRow, PositionAssumption DEF Rows, RowRecords
  <2>2. hold' <= MaxQty + Buy.bFilled
    BY <2>1, <1>5 DEF Shape, Bounds
  <2>3. m'.delta <= 2 * MaxQty
    BY <2>1, <1>8 DEF Shape, Bounds
  <2> QED  BY <1>2, <1>4, <2>2, <2>3 DEF Shape, Bounds
<1>12. CASE Leave
  BY <1>9, <1>10, <1>11, <1>12, LeftBehind DEF Shape
<1>13. CASE Moves(next)
  <2>1. /\ m'.pc = next /\ m'.todo = m.todo /\ m'.fills = {} /\ m'.job = m.job
    BY <1>13 DEF Moves, Shape, Control, SubmitPlaces, SettlePlaces, SellPlaces
  <2>2. \A j \in m'.todo : j \in DOMAIN rows' /\ OpenRow(j)'
    BY <1>3, <2>1 DEF Shape, Control, OpenRow
  <2>3. next = "placeTP2" => \A j \in OpenTakeProfits' : rows'[j].purpose = "TP1"
    <3>1. ASSUME next = "placeTP2", NEW j \in OpenTakeProfits' PROVE rows'[j].purpose = "TP1"
      <4>1. j \in DOMAIN rows' /\ rows'[j].purpose # "BUY" /\ rows'[j].status = "OPEN"
        BY <3>1 DEF OpenTakeProfits, TakeProfits, OpenRow
      <4>2. j \notin DOMAIN rows
        BY <1>3, <3>1, <4>1 DEF Shape, Control, At, OpenTakeProfits, TakeProfits, OpenRow
      <4> QED  BY <1>1, <1>3, <3>1, <4>1, <4>2
    <3> QED  BY <3>1
  <2>4. Control'
    BY <2>1, <2>2, <2>3 DEF Control, At, BuyPlaces, SettlePlaces, SellPlaces
  <2>5. AtBuy' /\ AtSell'
    BY <2>1 DEF AtBuy, AtSell, At, BuyPlaces, SellPlaces
  <2> QED  BY <1>9, <1>10, <1>11, <2>4, <2>5 DEF Shape
<1> QED  BY <1>7, <1>12, <1>13

\* A leg that has nothing left is passed over.
PassesOver(next) == SameBooks /\ SameCounts /\ Moves(next)

LEMMA PassesOverShape ==
    ASSUME Shape, NEW next \in {"placeTP2", "rows", "jobs"}, PassesOver(next),
           m.pc \in SubmitPlaces, next = "placeTP2" => m.pc = "placeTP1", next = "rows" => m.job = "pass"
    PROVE  Shape'
<1>1. SameBooks /\ SameCounts /\ Moves(next) /\ Types
  BY DEF PassesOver, Shape
<1>2. Control' /\ AtBuy' /\ AtSell'
  BY <1>1 DEF Shape, Control, AtBuy, AtSell, At, Moves, SameBooks, BuyPlaces, SellPlaces, SettlePlaces, SubmitPlaces,
     OpenTakeProfits, TakeProfits, OpenRow
<1> QED  BY <1>1, <1>2, BooksStay DEF Moves, SameCounts, Shape, Types, Bounds, BuyFirst

\* What placing orders for the legs, or the exit, does.
LEMMA Placement ==
    ASSUME Shape, PlaceTP1 \/ PlaceTP2 \/ PlaceExit
    PROVE  \/ m.pc = "placeTP1" /\ Left("TP1") > 0 /\ Submits("TP1", Left("TP1"), "placeTP2")
           \/ m.pc = "placeTP1" /\ Left("TP1") = 0 /\ PassesOver("placeTP2")
           \/ m.pc = "placeTP2" /\ Left("TP2") > 0 /\ Submits("TP2", Left("TP2"), Placed)
           \/ m.pc = "placeTP2" /\ Left("TP2") = 0 /\ PassesOver(Placed)
           \/ m.pc = "placeExit" /\ pos.qty > 0 /\ Submits("EXIT", pos.qty, "jobs")
<1>1. Types
  BY DEF Shape
<1>2. Left("TP1") \in Nat /\ Left("TP2") \in Nat /\ pos.qty \in Nat
  BY <1>1, PlanTypes DEF Legs
<1>3. Placed \in Places /\ "placeTP2" \in Places /\ "jobs" \in Places
  BY DEF Placed, Places, SubmitPlaces
<1>4. CASE PlaceTP1
  <2>1. CASE Left("TP1") > 0
    BY <1>1, <1>2, <1>3, <1>4, <2>1, SubmitSubmits DEF PlaceTP1, At
  <2>2. CASE ~(Left("TP1") > 0)
    BY <1>1, <1>2, <1>3, <1>4, <2>2, GotoMoves DEF PlaceTP1, At, PassesOver, SameBooks, SameCounts
  <2> QED  BY <2>1, <2>2
<1>5. CASE PlaceTP2
  <2>1. CASE Left("TP2") > 0
    BY <1>1, <1>2, <1>3, <1>5, <2>1, SubmitSubmits DEF PlaceTP2, At
  <2>2. CASE ~(Left("TP2") > 0)
    BY <1>1, <1>2, <1>3, <1>5, <2>2, GotoMoves DEF PlaceTP2, At, PassesOver, SameBooks, SameCounts
  <2> QED  BY <2>1, <2>2
<1>6. CASE PlaceExit
  <2>1. m.pc = "placeExit" /\ pos.qty > 0
    BY <1>6 DEF PlaceExit, At, Shape, Control
  <2> QED  BY <1>1, <1>2, <1>3, <1>6, <2>1, SubmitSubmits DEF PlaceExit
<1> QED  BY <1>4, <1>5, <1>6

LEMMA PlacementShape == ASSUME Shape, PlaceTP1 \/ PlaceTP2 \/ PlaceExit PROVE Shape'
<1>1. Left("TP1") \in Nat /\ Left("TP2") \in Nat /\ pos.qty \in Nat
  BY PlanTypes DEF Legs, Shape
<1>2. Placed \in {"rows", "jobs"} /\ (Placed = "rows" => m.job = "pass")
  BY DEF Placed
<1> HIDE DEF Left, Placed
<1> QED  BY <1>1, <1>2, Placement, SubmitsShape, PassesOverShape DEF SubmitPlaces

-----------------------------------------------------------------------------
(* Shape: the broker and the process *)

\* The broker fills or ends an order, or makes up a fill and raises.
BrokerActs(i) ==
    /\ UNCHANGED <<pos, plan, crashes, failures>>
    /\ i \in DOMAIN rows /\ rows[i].status = "OPEN" /\ rows[i].bStatus = "OPEN"
    /\ \E new \in Rows :
          /\ Writes(i, new) /\ SameOrder(new, rows[i]) /\ new.applied = rows[i].applied
          /\ new.status = rows[i].status /\ new.filled = rows[i].filled
          /\ new.bStatus # "GONE"
          /\ \/ /\ new.bFilled = rows[i].bFilled /\ UNCHANGED <<hold, m, overfilled>>
             \/ /\ new.bFilled > rows[i].bFilled /\ UNCHANGED <<m, overfilled>>
                /\ IF rows[i].purpose = "BUY" THEN hold' = hold + (new.bFilled - rows[i].bFilled)
                   ELSE /\ new.bFilled - rows[i].bFilled <= hold
                        /\ hold' = hold - (new.bFilled - rows[i].bFilled)
             \/ /\ new.bFilled >= rows[i].bFilled /\ overfilled' = TRUE /\ UNCHANGED hold /\ Leave
                /\ rows[i].purpose # "BUY" /\ m.pc = "rows"

\* The broker's orders: what is OPEN there has a row that is.
LEMMA OpenAtBroker ==
    ASSUME Shape, NEW i \in DOMAIN rows, rows[i].bStatus = "OPEN"
    PROVE  rows[i] \in RowRecords /\ RowOK(rows[i]) /\ rows[i].status = "OPEN"
<1>1. rows[i] \in RowRecords /\ RowOK(rows[i])
  BY RowTypes DEF Shape, Rows
<1> QED  BY <1>1 DEF RowOK, Ended, RowRecords

LEMMA BrokerCancelsActs ==
    ASSUME Shape, NEW i \in DOMAIN rows, BrokerCancels(i)
    PROVE  BrokerActs(i)
<1>1. /\ UNCHANGED <<pos, plan, hold, m, overfilled, crashes, failures>> /\ rows[i].bStatus = "OPEN"
      /\ rows' = [rows EXCEPT ![i] = Canceled(@)] /\ rows[i].status = "OPEN" /\ rows[i] \in Rows
  BY OpenAtBroker, RowTypes DEF BrokerCancels, Shape
<1>2. PICK new : new = Canceled(rows[i])
  OBVIOUS
<1>3. /\ new \in Rows /\ SameOrder(new, rows[i]) /\ new.applied = rows[i].applied
      /\ new.status = rows[i].status /\ new.filled = rows[i].filled
      /\ new.bStatus # "GONE" /\ new.bFilled = rows[i].bFilled
  BY <1>1, <1>2, CanceledRow
<1>4. Writes(i, new)
  BY <1>1, <1>2 DEF Writes
<1> QED  BY <1>1, <1>3, <1>4 DEF BrokerActs

LEMMA BrokerFillsActs ==
    ASSUME Shape, NEW i \in DOMAIN rows, NEW n \in 1..rows[i].qty, BrokerFills(i, n)
    PROVE  BrokerActs(i)
<1>1. /\ UNCHANGED <<pos, plan, m, overfilled, crashes, failures>> /\ rows[i].bStatus = "OPEN"
      /\ n \in 1..(rows[i].qty - rows[i].bFilled)
      /\ IF rows[i].purpose = "BUY" THEN hold' = hold + n ELSE n <= hold /\ hold' = hold - n
      /\ rows' = [rows EXCEPT ![i].bFilled = @ + n,
                              ![i].bStatus = IF rows[i].bFilled + n = rows[i].qty THEN "FILLED" ELSE @]
  BY DEF BrokerFills
<1>2. rows[i] \in RowRecords /\ RowOK(rows[i]) /\ rows[i].status = "OPEN"
  BY <1>1, OpenAtBroker
<1>3. PICK new : new = [rows[i] EXCEPT !.bFilled = @ + n,
                        !.bStatus = IF rows[i].bFilled + n = rows[i].qty THEN "FILLED" ELSE @]
  OBVIOUS
<1>4. /\ new \in RowRecords /\ SameOrder(new, rows[i]) /\ new.applied = rows[i].applied
      /\ new.status = rows[i].status /\ new.filled = rows[i].filled /\ new.bFilled = rows[i].bFilled + n
      /\ new.bStatus = IF rows[i].bFilled + n = rows[i].qty THEN "FILLED" ELSE "OPEN"
  BY <1>1, <1>2, <1>3 DEF RowRecords, SameOrder
<1>5. new \in Rows
  BY <1>1, <1>2, <1>4 DEF Rows, RowRecords, RowOK, Ended, SameOrder
<1>6. Writes(i, new)
  BY <1>1, <1>3 DEF Types, Shape, Writes
<1>7. new.bFilled - rows[i].bFilled = n /\ new.bFilled > rows[i].bFilled /\ new.bStatus # "GONE"
  BY <1>1, <1>2, <1>4 DEF RowRecords
<1> QED  BY <1>1, <1>2, <1>4, <1>5, <1>6, <1>7 DEF BrokerActs

LEMMA OverfillsActs ==
    ASSUME Shape, NEW i \in m.todo, Overfills(i)
    PROVE  i \in DOMAIN rows /\ BrokerActs(i)
<1>1. /\ UNCHANGED <<pos, plan, hold, crashes, failures>> /\ overfilled' = TRUE /\ Leave
      /\ rows[i].bStatus = "OPEN" /\ rows[i].purpose # "BUY" /\ m.pc = "rows"
      /\ rows' = [rows EXCEPT ![i].bStatus = "FILLED", ![i].bFilled = rows[i].qty]
  BY DEF Overfills, At
<1>2. i \in DOMAIN rows /\ rows[i] \in RowRecords /\ RowOK(rows[i]) /\ rows[i].status = "OPEN"
  BY <1>1, OpenAtBroker DEF Shape, Control
<1>3. PICK new : new = [rows[i] EXCEPT !.bStatus = "FILLED", !.bFilled = rows[i].qty]
  OBVIOUS
<1>4. /\ new \in RowRecords /\ SameOrder(new, rows[i]) /\ new.applied = rows[i].applied
      /\ new.status = rows[i].status /\ new.filled = rows[i].filled /\ new.bFilled = rows[i].qty
      /\ new.bStatus = "FILLED"
  BY <1>2, <1>3 DEF RowRecords, SameOrder
<1>5. new \in Rows /\ new.bFilled >= rows[i].bFilled
  BY <1>2, <1>4 DEF Rows, RowRecords, RowOK, Ended, SameOrder
<1>6. Writes(i, new)
  BY <1>1, <1>3 DEF Writes
<1> QED  BY <1>1, <1>2, <1>4, <1>5, <1>6 DEF BrokerActs

LEMMA BrokerActsShape == ASSUME Shape, NEW i \in DOMAIN rows, BrokerActs(i) PROVE Shape'
<1>1. PICK new \in Rows :
          /\ Writes(i, new) /\ SameOrder(new, rows[i]) /\ new.applied = rows[i].applied
          /\ new.status = rows[i].status /\ new.filled = rows[i].filled
          /\ new.bStatus # "GONE"
          /\ \/ /\ new.bFilled = rows[i].bFilled /\ UNCHANGED <<hold, m, overfilled>>
             \/ /\ new.bFilled > rows[i].bFilled /\ UNCHANGED <<m, overfilled>>
                /\ IF rows[i].purpose = "BUY" THEN hold' = hold + (new.bFilled - rows[i].bFilled)
                   ELSE /\ new.bFilled - rows[i].bFilled <= hold
                        /\ hold' = hold - (new.bFilled - rows[i].bFilled)
             \/ /\ new.bFilled >= rows[i].bFilled /\ overfilled' = TRUE /\ UNCHANGED hold /\ Leave
                /\ rows[i].purpose # "BUY" /\ m.pc = "rows"
  BY DEF BrokerActs
<1>2. Types /\ UNCHANGED <<pos, plan, crashes, failures>> /\ rows[i].status = "OPEN" /\ rows[i].bStatus = "OPEN"
  BY DEF Shape, BrokerActs
<1>3. /\ rows' \in Seq(Rows) /\ Len(rows') = Len(rows) /\ DOMAIN rows' = DOMAIN rows
      /\ rows'[i] = new /\ \A j \in DOMAIN rows : j # i => rows'[j] = rows[j]
      /\ \A j \in DOMAIN rows : rows'[j].purpose = rows[j].purpose
      /\ TakeProfits' = TakeProfits
      /\ Buy' = (IF i = 1 THEN new ELSE Buy) /\ Buy'.qty = Buy.qty /\ Buy'.base = Buy.base
  BY <1>1, <1>2, OneRow
<1>4. rows[i].bFilled \in Nat /\ new.bFilled \in Nat /\ hold \in Nat
  BY <1>2, RowTypes DEF Types, Rows, RowRecords
<1>5. hold' \in Nat /\ overfilled' \in BOOLEAN
  <2>1. hold' = hold \/ (new.bFilled > rows[i].bFilled /\ hold' = hold + (new.bFilled - rows[i].bFilled))
        \/ (new.bFilled - rows[i].bFilled <= hold /\ hold' = hold - (new.bFilled - rows[i].bFilled))
    BY <1>1
  <2>2. overfilled' \in BOOLEAN
    BY <1>1, <1>2 DEF Types
  <2> QED  BY <1>4, <2>1, <2>2
<1>6. m' = m \/ Leave
  BY <1>1
<1>7. Types'
  BY <1>2, <1>3, <1>5, <1>6, LeftBehind DEF Types
<1>8. \A j \in DOMAIN rows : /\ rows'[j].status = rows[j].status /\ rows'[j].applied = rows[j].applied
                             /\ rows'[j].filled = rows[j].filled
  BY <1>1, <1>3
<1>9. /\ Buy'.applied = Buy.applied /\ Buy'.filled = Buy.filled /\ Buy'.status = Buy.status
      /\ (Buy'.bStatus = "GONE" => Buy.bStatus = "GONE")
  BY <1>2, <1>8, <1>3, <1>1, BuyRow DEF Buy
<1>10. BuyFirst'
  BY <1>3, <1>6, <1>9, LeftBehind DEF Shape, BuyFirst, SellPlaces, SettlePlaces, SubmitPlaces
<1>11. Bounds'
  <2>1. i = 1 <=> rows[i].purpose = "BUY"
    BY DEF Shape, BuyFirst
  <2>2. hold' <= MaxQty + Buy'.bFilled
    <3>1. MaxQty \in Nat /\ Buy.bFilled \in Nat /\ hold <= MaxQty + Buy.bFilled
      BY <1>2, BuyRow, PositionAssumption DEF Rows, RowRecords, Shape, Bounds
    <3>2. CASE i = 1
      <4>1. rows[i] = Buy /\ Buy' = new /\ rows[i].purpose = "BUY"
        BY <1>3, <3>2, <2>1 DEF Buy
      <4>2. \/ hold' = hold /\ new.bFilled = rows[i].bFilled
            \/ hold' = hold + (new.bFilled - rows[i].bFilled)
        BY <1>1, <4>1
      <4> QED  BY <4>1, <4>2, <3>1, <1>4
    <3>3. CASE i # 1
      <4>1. Buy' = Buy /\ rows[i].purpose # "BUY"
        BY <1>3, <3>3, <2>1
      <4>2. \/ hold' = hold
            \/ hold' = hold - (new.bFilled - rows[i].bFilled) /\ new.bFilled > rows[i].bFilled
        BY <1>1, <4>1
      <4> QED  BY <4>1, <4>2, <3>1, <1>4
    <3> QED  BY <3>2, <3>3
  <2>3. m'.delta <= 2 * MaxQty
    BY <1>6, LeftBehind, PositionAssumption DEF Shape, Bounds
  <2> QED  BY <1>2, <1>3, <1>9, <2>2, <2>3 DEF Shape, Bounds
<1>12. CASE Leave
  BY <1>7, <1>10, <1>11, <1>12, LeftBehind DEF Shape
<1>13. CASE m' = m
  <2>1. OpenTakeProfits' = OpenTakeProfits /\ \A j \in TakeProfits : j \in DOMAIN rows
    BY <1>3, <1>8 DEF OpenTakeProfits, TakeProfits, OpenRow
  <2>2. /\ \A j \in m.todo : j \in DOMAIN rows' /\ OpenRow(j)'
    BY <1>3, <1>8 DEF Shape, Control, OpenRow
  <2>3. \A j \in m.fills : j \in TakeProfits' /\ Ended(rows'[j]) /\ ~rows'[j].applied /\ rows'[j].filled > 0
    BY <1>3, <1>8, <2>1 DEF Shape, Control, Ended
  <2>4. At("placeTP2") => \A j \in OpenTakeProfits' : rows'[j].purpose = "TP1"
    BY <1>3, <2>1 DEF Shape, Control, OpenTakeProfits
  <2>5. Control'
    BY <1>2, <1>13, <2>1, <2>2, <2>3, <2>4 DEF Shape, Control, At
  <2>6. AtBuy'
    BY <1>2, <1>3, <1>9, <1>13 DEF Shape, AtBuy, At, Ended
  <2>7. AtSell'
    <3>1. \A j \in DOMAIN rows : rows[j].bStatus # "GONE" => rows'[j].bStatus # "GONE"
      BY <1>1, <1>3
    <3> QED  BY <1>2, <1>3, <1>8, <1>13, <2>1, <3>1 DEF Shape, AtSell, At, Ended
  <2> QED  BY <1>7, <1>10, <1>11, <2>5, <2>6, <2>7 DEF Shape
<1> QED  BY <1>6, <1>12, <1>13

\* A new process: the broker holds what the ledger says, and knows nothing of fills.
Restarts ==
    /\ UNCHANGED <<pos, plan, overfilled, failures>> /\ crashes' = crashes + 1 /\ hold' = pos.qty /\ Leave
    /\ rows' \in Seq(Rows) /\ Len(rows') = Len(rows) /\ DOMAIN rows' = DOMAIN rows
    /\ \A i \in DOMAIN rows :
          /\ SameOrder(rows'[i], rows[i]) /\ rows'[i].applied = rows[i].applied
          /\ rows'[i].status = rows[i].status /\ rows'[i].filled = rows[i].filled
          /\ rows'[i].bFilled = rows[i].filled
          /\ rows[i].status = "OPEN" /\ rows[i].filled > 0 => rows'[i].bStatus = "GONE"

LEMMA RestoredRow ==
    ASSUME NEW row \in Rows
    PROVE  /\ Restored(row) \in Rows /\ SameOrder(Restored(row), row) /\ Restored(row).applied = row.applied
           /\ Restored(row).status = row.status /\ Restored(row).filled = row.filled
           /\ Restored(row).bFilled = row.filled
           /\ row.status = "OPEN" /\ row.filled > 0 => Restored(row).bStatus = "GONE"
<1>1. row \in RowRecords /\ RowOK(row)
  BY DEF Rows
<1>2. PICK new : new = Restored(row)
  OBVIOUS
<1>3. /\ new \in RowRecords /\ SameOrder(new, row) /\ new.applied = row.applied
      /\ new.status = row.status /\ new.filled = row.filled /\ new.bFilled = row.filled
      /\ new.bStatus = (IF row.status # "OPEN" THEN row.bStatus
                        ELSE IF row.filled = 0 THEN "OPEN" ELSE "GONE")
  BY <1>1, <1>2 DEF Restored, RowRecords, SameOrder
<1>4. RowOK(new)
  BY <1>1, <1>3 DEF RowOK, RowRecords, Ended, SameOrder
<1> QED  BY <1>1, <1>2, <1>3, <1>4 DEF Rows, RowRecords

LEMMA CrashShape == ASSUME Shape, Crash PROVE Shape' /\ Restarts
<1>1. /\ UNCHANGED <<pos, plan, overfilled, failures>> /\ crashes' = crashes + 1 /\ hold' = pos.qty /\ Leave
      /\ rows' = [i \in DOMAIN rows |-> Restored(rows[i])] /\ Types
  BY DEF Crash, Leave, Shape
<1>2. \A i \in DOMAIN rows : rows'[i] = Restored(rows[i]) /\ rows[i] \in Rows
  BY <1>1, RowTypes
<1>3. rows' \in Seq(Rows) /\ Len(rows') = Len(rows) /\ DOMAIN rows' = DOMAIN rows
  <2>1. Len(rows) \in Nat /\ DOMAIN rows = 1..Len(rows)
    BY <1>1 DEF Types
  <2>2. \A i \in 1..Len(rows) : Restored(rows[i]) \in Rows
    BY <1>2, <2>1, RestoredRow
  <2>3. rows' = [i \in 1..Len(rows) |-> Restored(rows[i])]
    BY <1>1, <2>1
  <2> HIDE DEF Rows
  <2> QED  BY <2>1, <2>2, <2>3
<1>4. Restarts
  BY <1>1, <1>2, <1>3, RestoredRow DEF Restarts
<1>5. \A i \in DOMAIN rows : /\ rows'[i].purpose = rows[i].purpose /\ rows'[i].qty = rows[i].qty
                             /\ rows'[i].applied = rows[i].applied /\ rows'[i].filled = rows[i].filled
                             /\ rows'[i].bFilled = rows[i].filled
  BY <1>4 DEF Restarts, SameOrder
<1>6. 1 \in DOMAIN rows /\ Buy'.qty = Buy.qty /\ Buy'.applied = Buy.applied /\ Buy'.filled = Buy.filled
      /\ Buy'.bFilled = Buy.filled
  BY <1>1, <1>5, BuyRow DEF Buy
<1>7. Types'
  BY <1>1, <1>3, LeftBehind DEF Types
<1>8. BuyFirst'
  BY <1>1, <1>3, <1>5, <1>6, LeftBehind DEF Shape, BuyFirst, SellPlaces, SettlePlaces, SubmitPlaces
<1>9. Bounds'
  <2>1. m'.delta = 0 /\ MaxQty \in Nat
    BY <1>1, LeftBehind, PositionAssumption
  <2> HIDE DEF Buy
  <2> QED  BY <1>1, <1>6, <2>1 DEF Shape, Bounds
<1> QED  BY <1>1, <1>4, <1>7, <1>8, <1>9, LeftBehind DEF Shape

-----------------------------------------------------------------------------
(* Shape holds from the beginning *)

\* What Init allows: an open BUY, and a plan for what is held.
Begins ==
    /\ pos \in [state : States, qty : Nat] /\ pos.state = "WAITING" /\ pos.qty <= MaxQty
    /\ plan \in Plans /\ (\A leg \in Legs : plan.filled[leg] <= plan.target[leg])
    /\ rows \in Seq(Rows) /\ Len(rows) = 1 /\ hold = pos.qty /\ m = Idle
    /\ Buy.purpose = "BUY" /\ Buy.qty <= MaxQty /\ Buy.status = "OPEN" /\ Buy.filled = 0 /\ Buy.bFilled = 0
    /\ ~Buy.applied /\ Buy.bStatus = "OPEN"
    /\ Left("TP1") + Left("TP2") = pos.qty /\ (~plan.active => pos.qty = 0)
    /\ \/ Buy.base = "EMPTY" /\ pos.qty = 0 /\ Left("TP1") = 0 /\ Left("TP2") = 0
       \/ Buy.base = "HOLDING" /\ plan.active /\ Left("TP1") > 0
       \/ Buy.base = "PARTIAL" /\ plan.active /\ Left("TP1") = 0
    /\ overfilled = FALSE /\ crashes = 0 /\ failures = 0

\* The books of a BUY of at most MaxQty shares that has just been submitted.
Submitted(n, base, p) ==
    /\ pos = [state |-> "WAITING", qty |-> n] /\ plan = p /\ hold = n
    /\ rows \in Seq(Rows) /\ Len(rows) = 1
    /\ Buy.purpose = "BUY" /\ Buy.qty <= MaxQty /\ Buy.status = "OPEN" /\ Buy.filled = 0 /\ Buy.bFilled = 0
    /\ ~Buy.applied /\ Buy.bStatus = "OPEN" /\ Buy.base = base

LEMMA WaitingRow ==
    ASSUME NEW b \in 1..MaxQty, NEW n, NEW base \in {"EMPTY", "HOLDING", "PARTIAL"}, NEW p,
           Waiting(b, n, base, p)
    PROVE  Submitted(n, base, p)
<1>1. PICK row : row = Row("BUY", b, base)
  OBVIOUS
<1>2. b \in Nat \ {0} /\ b <= MaxQty
  BY PositionAssumption
<1>3. /\ row \in RowRecords /\ row.purpose = "BUY" /\ row.qty <= MaxQty /\ row.status = "OPEN"
      /\ row.filled = 0 /\ row.bFilled = 0 /\ ~row.applied /\ row.bStatus = "OPEN" /\ row.base = base
  BY <1>1, <1>2 DEF Row, RowRecords
<1>4. row \in Rows
  BY <1>3 DEF Rows, RowRecords, RowOK, Ended
<1>5. rows = <<row>>
  BY <1>1 DEF Waiting
<1>6. rows \in Seq(Rows) /\ Len(rows) = 1 /\ Buy = row
  BY <1>4, <1>5 DEF Buy
<1> QED  BY <1>3, <1>6 DEF Waiting, Submitted

\* The plan of the position is what remains of these books to know.
LEMMA SubmittedBegins ==
    ASSUME NEW n \in Nat, n <= MaxQty, NEW base, NEW p, Submitted(n, base, p),
           m = Idle, overfilled = FALSE, crashes = 0, failures = 0,
           p \in Plans, \A leg \in Legs : p.filled[leg] <= p.target[leg],
           Left("TP1") + Left("TP2") = n, ~p.active => n = 0,
           \/ base = "EMPTY" /\ n = 0 /\ Left("TP1") = 0 /\ Left("TP2") = 0
           \/ base = "HOLDING" /\ p.active /\ Left("TP1") > 0
           \/ base = "PARTIAL" /\ p.active /\ Left("TP1") = 0
    PROVE  Begins
<1>1. pos \in [state : States, qty : Nat] /\ pos.state = "WAITING" /\ pos.qty = n
  BY DEF Submitted, States
<1> HIDE DEF Left, Buy
<1> QED  BY <1>1 DEF Submitted, Begins

LEMMA InitBegins == ASSUME Init PROVE Begins
<1>1. /\ m = Idle /\ overfilled = FALSE /\ crashes = 0 /\ failures = 0 /\ MaxQty \in Nat
  BY PositionAssumption DEF Init
<1>2. PICK b \in 1..MaxQty :
          \/ Waiting(b, 0, "EMPTY", NoPlan)
          \/ \E n \in 1..MaxQty : Waiting(b, n, "HOLDING", NewPlan(n))
          \/ \E n \in 2..MaxQty :
                /\ Target(n)["TP2"] > 0
                /\ Waiting(b, Target(n)["TP2"], "PARTIAL",
                           [NewPlan(n) EXCEPT !.filled["TP1"] = Target(n)["TP1"]])
  BY DEF Init
<1>3. CASE Waiting(b, 0, "EMPTY", NoPlan)
  <2>1. Submitted(0, "EMPTY", NoPlan)
    BY <1>3, WaitingRow
  <2>2. /\ NoPlan \in Plans /\ ~NoPlan.active
        /\ \A leg \in Legs : NoPlan.filled[leg] = 0 /\ NoPlan.target[leg] = 0
    BY DEF NoPlan, Plans, Legs
  <2>3. Left("TP1") = 0 /\ Left("TP2") = 0
    BY <2>1, <2>2 DEF Left, Submitted, Legs
  <2>4. /\ \A leg \in Legs : NoPlan.filled[leg] <= NoPlan.target[leg]
        /\ Left("TP1") + Left("TP2") = 0 /\ 0 <= MaxQty /\ 0 \in Nat
    BY <1>1, <2>2, <2>3
  <2> HIDE DEF NoPlan, Left
  <2> QED  BY <1>1, <2>1, <2>2, <2>3, <2>4, SubmittedBegins
<1>4. CASE \E n \in 1..MaxQty : Waiting(b, n, "HOLDING", NewPlan(n))
  <2>1. PICK n \in 1..MaxQty : Waiting(b, n, "HOLDING", NewPlan(n))
    BY <1>4
  <2>2. n \in Nat \ {0} /\ n <= MaxQty
    BY <1>1
  <2>3. Submitted(n, "HOLDING", NewPlan(n))
    BY <2>1, WaitingRow
  <2>4. PICK p : p = NewPlan(n)
    OBVIOUS
  <2>5. /\ p \in Plans /\ p.active /\ p.target["TP1"] > 0 /\ p.target["TP1"] + p.target["TP2"] = n
        /\ \A leg \in Legs : p.filled[leg] = 0 /\ p.target[leg] \in Nat
    <3> HIDE DEF NewPlan, Target
    <3> QED  BY <2>2, <2>4, PlanOfPosition DEF Plans
  <2>6. plan = p
    BY <2>3, <2>4 DEF Submitted
  <2>7. Left("TP1") > 0 /\ Left("TP1") + Left("TP2") = n
    BY <2>5, <2>6 DEF Left, Legs
  <2>8. \A leg \in Legs : p.filled[leg] <= p.target[leg]
    BY <2>5
  <2> HIDE DEF NewPlan, Left
  <2> QED  BY <1>1, <2>2, <2>3, <2>4, <2>5, <2>7, <2>8, SubmittedBegins
<1>5. CASE \E n \in 2..MaxQty :
              /\ Target(n)["TP2"] > 0
              /\ Waiting(b, Target(n)["TP2"], "PARTIAL", [NewPlan(n) EXCEPT !.filled["TP1"] = Target(n)["TP1"]])
  <2>1. PICK n \in 2..MaxQty :
              /\ Target(n)["TP2"] > 0
              /\ Waiting(b, Target(n)["TP2"], "PARTIAL", [NewPlan(n) EXCEPT !.filled["TP1"] = Target(n)["TP1"]])
    BY <1>5
  <2>2. n \in Nat \ {0} /\ n <= MaxQty
    BY <1>1
  <2>3. /\ NewPlan(n) \in Plans /\ NewPlan(n).active
        /\ Target(n) \in [Legs -> Nat] /\ Target(n)["TP1"] > 0
        /\ Target(n)["TP1"] + Target(n)["TP2"] = n /\ NewPlan(n).target = Target(n)
        /\ \A leg \in Legs : NewPlan(n).filled[leg] = 0
    BY <2>2, PlanOfPosition
  <2>4. PICK p, t : p = NewPlan(n) /\ t = Target(n)
    OBVIOUS
  <2>5. /\ p \in Plans /\ p.active /\ t \in [Legs -> Nat] /\ t["TP1"] > 0 /\ t["TP1"] + t["TP2"] = n
        /\ p.target = t /\ t["TP2"] > 0 /\ \A leg \in Legs : p.filled[leg] = 0
    BY <2>1, <2>3, <2>4
  <2>6. PICK sold : sold = [p EXCEPT !.filled["TP1"] = t["TP1"]]
    OBVIOUS
  <2>7. PICK k : k = t["TP2"]
    OBVIOUS
  <2>8. Submitted(k, "PARTIAL", sold)
    BY <2>1, <2>4, <2>6, <2>7, WaitingRow
  <2>9. /\ sold \in Plans /\ sold.active /\ sold.target = t
        /\ sold.filled["TP1"] = t["TP1"] /\ sold.filled["TP2"] = 0
    BY <2>5, <2>6 DEF Plans, Legs
  <2>10. k \in Nat /\ k <= MaxQty /\ t["TP1"] \in Nat
    BY <1>1, <2>2, <2>5, <2>7 DEF Legs
  <2>11. Left("TP1") = 0 /\ Left("TP2") = k /\ \A leg \in Legs : sold.filled[leg] <= sold.target[leg]
    BY <2>7, <2>8, <2>9, <2>10 DEF Left, Legs, Submitted
  <2>12. Left("TP1") + Left("TP2") = k
    BY <2>10, <2>11
  <2> HIDE DEF Left
  <2> QED  BY <1>1, <2>8, <2>9, <2>10, <2>11, <2>12, SubmittedBegins
<1> QED  BY <1>2, <1>3, <1>4, <1>5

LEMMA InitShape == ASSUME Init PROVE Shape
<1>1. Begins
  BY InitBegins
<1>2. m \in Runs /\ MaxQty \in Nat \ {0} /\ MaxOrders \in Nat \ {0}
  BY <1>1, PositionAssumption DEF Begins, Idle, Runs, Places, Jobs
<1>3. Types
  <2>1. pos.qty \in Nat /\ Len(rows) \in 1..MaxOrders
    BY <1>1, <1>2 DEF Begins
  <2> QED  BY <1>1, <1>2, <2>1 DEF Begins, Types
<1>4. BuyFirst /\ Bounds
  BY <1>1, <1>2 DEF Begins, BuyFirst, Bounds, Idle, Buy, SellPlaces, SettlePlaces, SubmitPlaces
<1>5. Control /\ AtBuy /\ AtSell
  BY <1>1 DEF Begins, Idle, Control, AtBuy, AtSell, At, BuyPlaces, SellPlaces, SettlePlaces
<1> QED  BY <1>3, <1>4, <1>5 DEF Shape

-----------------------------------------------------------------------------
(* Shape is inductive *)

\* The steps of Next, one by one.
Kinds ==
    \/ Begin
    \/ \E i \in m.todo : RefreshRow(i)
    \/ \E i \in m.todo : MissingRow(i)
    \/ \E i \in m.todo : SettleRow(i)
    \/ BuyGoesOn
    \/ CancelLateBuy
    \/ CreatePlan
    \/ AddShares
    \/ MarkBuy \/ MarkUnfilled
    \/ RestoreUnfilled
    \/ NothingSold
    \/ FillPlan
    \/ RemoveShares
    \/ MarkSell
    \/ PassDone
    \/ RefreshAfterTP1 \/ RecoverTakeProfits \/ RecoverExit \/ SwitchToExit
    \/ Done
    \/ Settled
    \/ \E i \in m.fills : CreditFill(i)
    \/ Replace
    \/ PlaceTP1 \/ PlaceTP2 \/ PlaceExit
    \/ RefreshFails
    \/ \E i \in DOMAIN rows : BrokerActs(i)
    \/ Reconcile
    \/ Crash

LEMMA NextKinds == ASSUME Shape, Next PROVE Kinds
<1>1. CASE \E i \in m.todo : Overfills(i)
  BY <1>1, OverfillsActs DEF Kinds
<1>2. CASE \E i \in DOMAIN rows : BrokerCancels(i) \/ \E n \in 1..rows[i].qty : BrokerFills(i, n)
  BY <1>2, BrokerCancelsActs, BrokerFillsActs DEF Kinds
<1>3. CASE Step
  BY <1>3 DEF Step, Kinds
<1> QED  BY <1>1, <1>2, <1>3 DEF Next, Kinds

LEMMA NextShape == ASSUME Shape, Next PROVE Shape'
<1>1. Kinds
  BY NextKinds
<1> QED
  BY <1>1, BeginShape, RefreshRowShape, MissingRowShape, SettleRowShape, BuyGoesOnShape, CancelLateBuyShape,
     CreatePlanShape, AddSharesShape, MarkBuyShape, RestoreUnfilledShape, NothingSoldShape, FillPlanShape,
     RemoveSharesShape, MarkSellShape, PassDoneShape, JobsShape, DoneShape, SettledShape, CreditFillShape,
     ReplaceShape, PlacementShape, RefreshFailsShape, BrokerActsShape, ReconcileShape, CrashShape
  DEF Kinds

LEMMA StutterShape == ASSUME Shape, UNCHANGED vars PROVE Shape'
<1>1. SameBooks /\ SameCounts /\ m' = m /\ Types
  BY DEF vars, SameBooks, SameCounts, Shape
<1>2. Control' /\ AtBuy' /\ AtSell'
  BY <1>1 DEF Shape, Control, AtBuy, AtSell, At, SameBooks, OpenTakeProfits, TakeProfits, OpenRow, Buy
<1> QED  BY <1>1, <1>2, BooksStay DEF SameCounts, Shape, Types, Bounds, BuyFirst

\* The types: TypeOK for any position, fraction and number of orders and faults. A leg is
\* never credited with more than its target, and the position never becomes negative.
THEOREM TypeCorrectness == Spec => []TypeOK
<1>1. Init => Shape
  BY InitShape
<1>2. Shape /\ [Next]_vars => Shape'
  BY NextShape, StutterShape
<1>3. Shape => TypeOK
  <2> SUFFICES ASSUME Shape PROVE TypeOK
    OBVIOUS
  <2>1. Types /\ Bounds /\ RowOK(Buy) /\ Buy \in RowRecords
    BY BuyRow DEF Shape, Rows
  <2>2. MaxQty \in Nat /\ MaxQty + Buy.filled <= 2 * MaxQty /\ MaxQty + Buy.bFilled <= 2 * MaxQty
    BY <2>1, PositionAssumption DEF RowOK, RowRecords, Bounds
  <2>3. pos.qty \in 0..2 * MaxQty /\ hold \in 0..2 * MaxQty /\ m.delta \in 0..2 * MaxQty
    BY <2>1, <2>2, RunTypes, BuyRow DEF Types, Bounds, RowRecords
  <2>4. pos \in [state : {"EMPTY", "WAITING", "HOLDING", "PARTIAL", "SAFE"}, qty : 0..2 * MaxQty]
    BY <2>1, <2>3 DEF Types, States
  <2>5. /\ plan.active \in BOOLEAN
        /\ \A leg \in Legs : plan.filled[leg] \in 0..plan.target[leg] /\ plan.target[leg] \in Nat
    <3>1. \A leg \in Legs : plan.filled[leg] \in Nat /\ plan.target[leg] \in Nat /\ plan.active \in BOOLEAN
      BY <2>1, PlanTypes
    <3> QED  BY <2>1, <3>1 DEF Types, Plans
  <2>6. \A i \in DOMAIN rows :
          /\ rows[i].purpose \in {"BUY", "TP1", "TP2", "EXIT"}
          /\ rows[i].status \in {"OPEN", "FILLED", "CANCELED", "UNKNOWN"}
          /\ rows[i].bStatus \in {"OPEN", "FILLED", "CANCELED", "GONE"}
          /\ rows[i].filled \in 0..rows[i].bFilled /\ rows[i].bFilled \in 0..rows[i].qty
    BY <2>1, RowTypes DEF RowOK
  <2>7. Len(rows) <= MaxOrders /\ overfilled \in BOOLEAN
    BY <2>1, PositionAssumption DEF Types
  <2> QED  BY <2>3, <2>4, <2>5, <2>6, <2>7 DEF TypeOK
<1> QED  BY <1>1, <1>2, <1>3, PTL DEF Spec

-----------------------------------------------------------------------------
(* Safe: a step that leaves the plan as it is *)

\* Live orders are take-profit orders.
LEMMA LiveRows ==
    ASSUME Shape
    PROVE  /\ Live \subseteq TakeProfits /\ TakeProfits \subseteq DOMAIN rows
           /\ OpenTakeProfits \subseteq TakeProfits
BY DEF Live, Shape, Control, AtSell, SellPlaces, At, OpenTakeProfits, TakeProfits

LEMMA StateSays ==
    ASSUME Safe
    PROVE  /\ pos.state = "PARTIAL" => Left("TP1") = 0
           /\ FirstLegIsSold => Left("TP1") = 0
           /\ ~plan.active \/ pos.state = "EMPTY" => pos.qty = 0
           /\ Buy.applied => pos.state # "WAITING"
BY DEF Safe, PlanIsBacked, FirstLegIsSold

\* The orders have gone on, the plan has not, and the position is not less.
LEMMA SafeStays ==
    ASSUME Shape, Shape', Safe,
           DOMAIN rows' = DOMAIN rows,
           \A j \in DOMAIN rows : SameOrder(rows'[j], rows[j]) /\ rows[j].filled <= rows'[j].filled,
           Buy.applied => Buy'.applied,
           plan'.target = plan.target, plan'.filled = plan.filled,
           plan'.active = plan.active \/ (Buy.applied /\ pos'.qty = 0),
           pos'.qty <= pos.qty, Net <= Net',
           pos'.state = "PARTIAL" => Left("TP1") = 0,
           pos'.state = "EMPTY" => pos'.qty = 0,
           Buy'.applied => pos'.state # "WAITING",
           m'.tp1 \/ m'.exit \/ m'.job \in {"tp1", "exit", "switch"} => Left("TP1") = 0,
           Live' \subseteq Live,
           ~At("bought")' /\ ~BuyIsLost' => ~At("bought") /\ ~BuyIsLost
    PROVE  Safe'
<1>1. \A j \in DOMAIN rows : /\ Leg(j)' = Leg(j) /\ rows'[j].purpose = rows[j].purpose /\ rows'[j].qty = rows[j].qty
                             /\ rows'[j].base = rows[j].base
  BY DEF Leg, SameOrder
<1>2. \A leg \in Legs : Left(leg)' = Left(leg)
  BY DEF Left
<1>3. /\ Left("TP1")' = Left("TP1") /\ Left("TP2")' = Left("TP2")
      /\ Left("TP1") \in Nat /\ Left("TP2") \in Nat /\ pos.qty \in Nat /\ pos'.qty \in Nat
      /\ Net \in Int /\ Net' \in Int
  <2>1. /\ Left("TP1")' = Left("TP1") /\ Left("TP2")' = Left("TP2")
        /\ Left("TP1") \in Nat /\ Left("TP2") \in Nat
    BY <1>2, PlanTypes DEF Legs, Shape
  <2>2. pos.qty \in Nat /\ pos'.qty \in Nat
    BY DEF Shape, Types
  <2>3. m.delta \in Nat /\ m'.delta \in Nat
    BY RunTypes DEF Shape, Types, Runs
  <2> HIDE DEF Left
  <2> QED  BY <2>1, <2>2, <2>3 DEF Net, Pending
<1>4. BeforeBuy'
  <2>1. 1 \in DOMAIN rows /\ Buy'.base = Buy.base /\ Buy.filled <= Buy'.filled
        /\ Buy.filled \in Nat /\ Buy'.filled \in Nat
    <3>1. 1 \in DOMAIN rows /\ Buy \in Rows /\ Buy' \in Rows
      BY BuyRow DEF Shape, Types, Buy
    <3> QED  BY <1>1, <3>1 DEF Buy, Rows, RowRecords
  <2>2. BeforeBuy
    BY DEF Safe
  <2>3. Buy'.filled = 0 /\ ~Buy'.applied => Buy.filled = 0 /\ ~Buy.applied /\ plan'.active = plan.active
    BY <2>1
  <2> HIDE DEF Buy
  <2> QED  BY <1>3, <2>1, <2>2, <2>3 DEF BeforeBuy
<1>5. PlanIsBacked'
  <2>1. ~At("bought")' /\ ~BuyIsLost' => Left("TP1")' + Left("TP2")' <= Net'
    BY <1>3 DEF Safe, PlanIsBacked
  <2>2. (\E i \in DOMAIN rows' : rows'[i].purpose = "EXIT") => Left("TP1")' = 0
    BY <1>1, <1>3, StateSays DEF FirstLegIsSold
  <2>3. ~plan'.active \/ pos'.state = "EMPTY" => pos'.qty = 0
    BY <1>3, StateSays
  <2> QED  BY <1>3, <2>1, <2>2, <2>3 DEF PlanIsBacked, FirstLegIsSold
<1>6. \A i \in Live' : i \in Live /\ i \in DOMAIN rows
  BY LiveRows
<1>7. OneLivePerLeg'
  BY <1>1, <1>6 DEF Safe, OneLivePerLeg
<1>8. ASSUME NEW i \in Live' PROVE LiveOK(i)'
  <2>1. LiveOK(i) /\ i \in DOMAIN rows
    BY <1>6 DEF Safe
  <2>2. Base(i)' = Base(i) /\ Leg(i)' = Leg(i) /\ Left(Leg(i))' = Left(Leg(i)) /\ Left(Leg(i)) \in Nat
        /\ plan'.filled[Leg(i)'] = plan.filled[Leg(i)] /\ plan'.target[Leg(i)'] = plan.target[Leg(i)]
    BY <1>1, <1>2, <2>1, RowTypes, PlanTypes DEF Base, Shape, Left
  <2>3. rows[i].filled \in Nat /\ rows'[i].filled \in Nat /\ rows[i].qty \in Nat /\ plan.filled["TP2"] \in Nat
    <3>1. rows[i] \in Rows /\ rows'[i] \in Rows
      BY <2>1 DEF Shape, Types
    <3> QED  BY <3>1, PlanTypes DEF Shape, Rows, RowRecords, Legs
  <2>4. rows'[i].qty = rows[i].qty /\ rows'[i].purpose = rows[i].purpose /\ rows[i].filled <= rows'[i].filled
    BY <1>1, <2>1
  <2>5. rows'[i].purpose # "EXIT" => rows'[i].qty <= plan'.target[Leg(i)'] /\ rows'[i].qty - rows'[i].filled <= Left(Leg(i))'
    BY <2>1, <2>2, <2>3, <2>4 DEF LiveOK
  <2>6. rows'[i].purpose = "EXIT" => rows'[i].qty <= Net' + plan'.filled["TP2"] /\ rows'[i].qty - rows'[i].filled <= Net'
    BY <1>3, <2>1, <2>3, <2>4 DEF LiveOK
  <2> HIDE DEF Left, Base, Net
  <2> QED  BY <2>1, <2>2, <2>5, <2>6 DEF LiveOK
<1> QED  BY <1>4, <1>5, <1>7, <1>8 DEF Safe

\* The pass moves on.
LEMMA SafeMoves ==
    ASSUME Shape, Shape', Safe, UNCHANGED <<pos, plan, rows>>,
           m.pc \notin {"sold", "bought"}, m'.pc \notin {"sold"} \cup BuyPlaces, Live' \subseteq Live,
           m'.tp1 \/ m'.exit \/ m'.job \in {"tp1", "exit", "switch"} => Left("TP1") = 0
    PROVE  Safe'
<1>1. Net' = Net /\ pos.qty \in Nat /\ Net \in Int
  BY RunTypes DEF Net, Pending, At, Shape, Types
<1>2. \A j \in DOMAIN rows : SameOrder(rows'[j], rows[j]) /\ rows[j].filled <= rows'[j].filled
  BY RowTypes DEF Shape, SameOrder
<1>3. ~At("bought")' /\ ~BuyIsLost' => ~At("bought") /\ ~BuyIsLost
  BY DEF At, BuyIsLost, BuyPlaces, Buy
<1>4. /\ pos'.state = "PARTIAL" => Left("TP1") = 0
      /\ pos'.state = "EMPTY" => pos'.qty = 0
      /\ Buy'.applied => pos'.state # "WAITING" 
      /\ Buy.applied => Buy'.applied
  BY StateSays DEF Buy
<1> QED  BY <1>1, <1>2, <1>3, <1>4, SafeStays

\* Goto, or Leave, from anywhere but the middle of a transfer.
LEMMA GoesSafe ==
    ASSUME Shape, Shape', Safe, UNCHANGED <<pos, plan, rows>>, m.pc \notin {"sold", "bought"},
           NEW pc \in {"rows", "jobs", "credit", "placeTP1", "placeTP2", "placeExit"}, Moves(pc)
    PROVE  Safe'
<1>1. Live' \subseteq Live
  BY DEF Live, Moves, At, OpenTakeProfits, TakeProfits, OpenRow
<1>2. m'.tp1 \/ m'.exit \/ m'.job \in {"tp1", "exit", "switch"} => Left("TP1") = 0
  BY StateSays DEF Moves, FirstLegIsSold
<1> QED  BY <1>1, <1>2, SafeMoves DEF Moves, BuyPlaces

LEMMA LeaveSafe ==
    ASSUME Shape, Shape', Safe, UNCHANGED <<pos, plan, rows>>, m.pc \notin {"sold", "bought"}, Leave
    PROVE  Safe'
<1>1. m'.fills = {} /\ m'.pc = "idle" /\ ~m'.tp1 /\ ~m'.exit /\ m'.job = "pass"
  BY LeftBehind DEF Idle
<1>2. Live' \subseteq Live
  BY <1>1 DEF Live, At, OpenTakeProfits, TakeProfits, OpenRow
<1> QED  BY <1>1, <1>2, SafeMoves DEF BuyPlaces

\* The steps of the pass that only say where it goes next.
LEMMA ControlSafe ==
    ASSUME Shape, Safe, Begin \/ BuyGoesOn \/ PassDone \/ Done \/ Settled \/ Replace \/ RefreshFails
    PROVE  Safe'
<1>0. Types
  BY DEF Shape
<1>1. CASE Begin
  <2>1. /\ UNCHANGED <<pos, plan, rows>> /\ m.pc = "idle" /\ m'.pc = "rows" /\ m'.fills = {}
        /\ ~m'.tp1 /\ ~m'.exit /\ m'.job = "pass"
    BY <1>1 DEF Begin, Idle, At
  <2>2. Live' \subseteq Live
    BY <2>1 DEF Live, At, OpenTakeProfits, TakeProfits, OpenRow
  <2> QED  BY <1>1, <2>1, <2>2, BeginShape, SafeMoves DEF BuyPlaces
<1>2. CASE BuyGoesOn
  <2>1. UNCHANGED <<pos, plan, rows>> /\ m.pc = "buy" /\ Moves("rows")
    BY <1>0, <1>2, GotoMoves DEF BuyGoesOn, At, Places
  <2> QED  BY <1>2, <2>1, BuyGoesOnShape, GoesSafe
<1>3. CASE PassDone
  <2>1. UNCHANGED <<pos, plan, rows>> /\ m.pc = "rows" /\ Moves("jobs")
    BY <1>0, <1>3, GotoMoves DEF PassDone, At, Places
  <2> QED  BY <1>3, <2>1, PassDoneShape, GoesSafe
<1>4. CASE Done
  <2>1. UNCHANGED <<pos, plan, rows>> /\ m.pc = "jobs" /\ Leave
    BY <1>4 DEF Done, At
  <2> QED  BY <1>4, <2>1, DoneShape, LeaveSafe
<1>5. CASE Settled
  <2>1. UNCHANGED <<pos, plan, rows>> /\ m.pc = "settle" /\ Moves("credit")
    BY <1>0, <1>5, GotoMoves DEF Settled, At, Places, SettlePlaces
  <2> QED  BY <1>5, <2>1, SettledShape, GoesSafe
<1>6. CASE Replace
  <2>1. UNCHANGED <<pos, plan, rows>> /\ m.pc = "credit"
        /\ \E pc \in {"placeTP1", "placeExit", "jobs"} : Goto(pc)
    BY <1>6 DEF Replace, At
  <2>2. PICK pc \in {"placeTP1", "placeExit", "jobs"} : Moves(pc)
    BY <1>0, <2>1, GotoMoves DEF Places, SubmitPlaces
  <2> QED  BY <1>6, <2>1, <2>2, ReplaceShape, GoesSafe
<1>7. CASE RefreshFails
  <2>1. UNCHANGED <<pos, plan, rows>> /\ m.pc = "rows" /\ Leave
    BY <1>7, RefreshFailsShape DEF SameBooks
  <2> QED  BY <1>7, <2>1, RefreshFailsShape, LeaveSafe
<1> QED  BY <1>1, <1>2, <1>3, <1>4, <1>5, <1>6, <1>7

\* A job that concerns the second leg begins when the first one is sold.
LEMMA JobsSafe ==
    ASSUME Shape, Safe, RefreshAfterTP1 \/ RecoverTakeProfits \/ RecoverExit \/ SwitchToExit
    PROVE  Safe'
<1>1. PICK job \in {"tp1", "recover", "exit", "switch"} :
          JobBegins(job) /\ (job # "recover" => m.tp1 \/ m.exit \/ pos.state = "PARTIAL")
  BY JobsBegin
<1>2. /\ Shape' /\ m'.pc = "settle" /\ m'.job = job /\ ~m'.tp1 /\ (m'.exit => m.exit) /\ m'.fills = m.fills
  BY <1>1, JobShape DEF Jobs
<1>3. UNCHANGED <<pos, plan, rows>> /\ m.pc = "jobs"
  BY <1>1 DEF JobBegins, SameBooks
<1>4. Live' \subseteq Live
  BY <1>2, <1>3 DEF Live, At, OpenTakeProfits, TakeProfits, OpenRow
<1>5. m'.tp1 \/ m'.exit \/ m'.job \in {"tp1", "exit", "switch"} => Left("TP1") = 0
  BY <1>1, <1>2, StateSays DEF FirstLegIsSold
<1> QED  BY <1>2, <1>3, <1>4, <1>5, SafeMoves DEF BuyPlaces

LEMMA CreditFillSafe == ASSUME Shape, Safe, NEW i \in m.fills, CreditFill(i) PROVE Safe'
<1>1. /\ Shape' /\ UNCHANGED <<pos, plan, rows>> /\ m.pc = "credit"
      /\ m'.pc = "sell" /\ m'.cur = i /\ m'.fills = m.fills \ {i}
      /\ m'.job = m.job /\ m'.tp1 = m.tp1 /\ m'.exit = m.exit
  BY CreditFillShape DEF SameBooks
<1>2. Live' \subseteq Live
  BY <1>1 DEF Live, At, OpenTakeProfits, TakeProfits, OpenRow
<1> QED  BY <1>1, <1>2, StateSays, SafeMoves DEF BuyPlaces, FirstLegIsSold

LEMMA NothingSoldSafe == ASSUME Shape, Safe, NothingSold PROVE Safe'
<1>1. /\ Shape' /\ UNCHANGED <<pos, plan, rows>> /\ m.pc = "sell" /\ GoesOn
  BY NothingSoldShape DEF SameBooks
<1>2. Live' \subseteq Live
  BY <1>1 DEF Live, GoesOn, At, OpenTakeProfits, TakeProfits, OpenRow
<1>3. m.cur \in DOMAIN rows
  BY <1>1 DEF Shape, AtSell, SellPlaces, TakeProfits
<1>4. m'.tp1 \/ m'.exit \/ m'.job \in {"tp1", "exit", "switch"} => Left("TP1") = 0
  BY <1>1, <1>3, StateSays DEF GoesOn, FirstLegIsSold
<1> QED  BY <1>1, <1>2, <1>4, SafeMoves DEF GoesOn, BuyPlaces

\* SAFE_MODE asks nothing of the plan.
LEMMA SafeModeSafe ==
    ASSUME Shape, Shape', Safe, UNCHANGED <<plan, rows>>, SafeMode, m.pc \in {"idle", "rows"},
           m'.pc = m.pc, m'.fills = m.fills, m'.job = m.job, m'.tp1 = m.tp1, m'.exit = m.exit
    PROVE  Safe'
<1>1. pos'.qty = pos.qty /\ pos'.state = "SAFE" /\ pos.qty \in Nat
  BY DEF SafeMode, Shape, Types
<1>2. Net' = Net /\ Net \in Int
  BY <1>1 DEF Net, Pending, At
<1>3. \A j \in DOMAIN rows : SameOrder(rows'[j], rows[j]) /\ rows[j].filled <= rows'[j].filled
  BY RowTypes DEF Shape, SameOrder
<1>4. Live' \subseteq Live
  BY DEF Live, At, OpenTakeProfits, TakeProfits, OpenRow
<1>5. ~At("bought")' /\ ~BuyIsLost' => ~At("bought") /\ ~BuyIsLost
  BY DEF At, BuyIsLost, Buy
<1>6. m'.tp1 \/ m'.exit \/ m'.job \in {"tp1", "exit", "switch"} => Left("TP1") = 0
  BY StateSays DEF FirstLegIsSold
<1>7. Buy.applied => Buy'.applied
  BY DEF Buy
<1> QED  BY <1>1, <1>2, <1>3, <1>4, <1>5, <1>6, <1>7, SafeStays

LEMMA SafeModesSafe ==
    ASSUME Shape, Safe, Reconcile \/ \E i \in m.todo : MissingRow(i)
    PROVE  Safe'
<1>1. CASE Reconcile
  BY <1>1, ReconcileShape, SafeModeSafe
<1>2. CASE \E i \in m.todo : MissingRow(i)
  BY <1>2, MissingRowShape, SafeModeSafe DEF Misses
<1> QED  BY <1>1, <1>2

-----------------------------------------------------------------------------
(* Safe: orders are refreshed, ended, filled and forgotten *)

LEMMA RefreshRowSafe == ASSUME Shape, Safe, NEW i \in m.todo, RefreshRow(i) PROVE Safe'
<1>1. Refreshes(i) /\ i \in DOMAIN rows /\ rows[i].status = "OPEN" /\ Types /\ Shape'
  BY RefreshRowRefreshes, RefreshRowShape DEF Shape
<1>2. PICK new \in Rows : Writes(i, new) /\ Refreshed(new, rows[i])
  BY <1>1 DEF Refreshes
<1>3. /\ DOMAIN rows' = DOMAIN rows /\ TakeProfits' = TakeProfits
      /\ rows'[i] = new /\ \A j \in DOMAIN rows : j # i => rows'[j] = rows[j]
      /\ Buy' = (IF i = 1 THEN new ELSE Buy)
  BY <1>1, <1>2, OneRow DEF Refreshed
<1>4. rows[i].filled <= new.filled /\ new.applied = rows[i].applied /\ SameOrder(new, rows[i])
  BY <1>1, <1>2, RowTypes DEF Refreshed, RowOK
<1>5. \A j \in DOMAIN rows : SameOrder(rows'[j], rows[j]) /\ rows[j].filled <= rows'[j].filled
                             /\ rows'[j].applied = rows[j].applied
  BY <1>1, <1>3, <1>4, RowTypes DEF SameOrder
<1>6. i = 1 <=> rows[i].purpose = "BUY"
  BY <1>1 DEF Shape, BuyFirst
<1>7. Buy.applied = Buy'.applied /\ Buy = rows[1] /\ 1 \in DOMAIN rows
  BY <1>1, <1>5, BuyRow DEF Buy
<1>8. Net' = Net /\ Net \in Int /\ pos'.qty = pos.qty /\ pos.qty \in Nat
  BY <1>1 DEF Refreshes, Net, Pending, At, Types
<1>9. Live' \subseteq Live
  <2>1. i \in TakeProfits => i \in OpenTakeProfits
    BY <1>1 DEF OpenTakeProfits, OpenRow
  <2>2. OpenTakeProfits' \subseteq OpenTakeProfits
    BY <1>1, <1>3, LiveRows DEF OpenTakeProfits, OpenRow
  <2>3. At("sell")' => m'.cur \in TakeProfits
    BY <1>1, <1>3 DEF AtSell, At, SellPlaces, Shape
  <2> QED  BY <1>1, <2>1, <2>2, <2>3 DEF Live, Refreshes, At
<1>10. ~At("bought")' /\ ~BuyIsLost' => ~At("bought") /\ ~BuyIsLost
  <2>1. CASE i = 1
    BY <1>1, <1>7, <2>1 DEF Refreshes, At, BuyIsLost, Ended
  <2>2. CASE i # 1
    BY <1>1, <1>3, <1>6, <2>2 DEF Refreshes, At, BuyIsLost
  <2> QED  BY <2>1, <2>2
<1> QED
  BY <1>1, <1>3, <1>5, <1>7, <1>8, <1>9, <1>10, StateSays, SafeStays DEF Refreshes, FirstLegIsSold

LEMMA SettleRowSafe == ASSUME Shape, Safe, NEW i \in m.todo, SettleRow(i) PROVE Safe'
<1>1. Settles(i) /\ i \in OpenTakeProfits /\ i \in DOMAIN rows /\ Types /\ Shape'
  BY SettleRowSettles, SettleRowShape DEF Shape
<1>2. CASE UNCHANGED rows /\ Leave
  BY <1>1, <1>2, LeaveSafe DEF Settles
<1>3. CASE EndsOrder(i)
  <2>1. PICK new \in Rows :
          /\ Writes(i, new) /\ SameOrder(new, rows[i]) /\ Ended(new)
          /\ new.filled = rows[i].bFilled /\ new.bFilled = rows[i].bFilled
          /\ new.applied = (rows[i].bFilled = 0)
    BY <1>3 DEF EndsOrder
  <2>2. /\ DOMAIN rows' = DOMAIN rows /\ TakeProfits' = TakeProfits
        /\ rows'[i] = new /\ \A j \in DOMAIN rows : j # i => rows'[j] = rows[j]
        /\ Buy' = (IF i = 1 THEN new ELSE Buy)
    BY <1>1, <2>1, OneRow
  <2>3. i # 1 /\ Buy' = Buy
    BY <1>1, <2>2 DEF Shape, BuyFirst, OpenTakeProfits, TakeProfits
  <2>4. rows[i].filled <= new.filled
    BY <1>1, <2>1, RowTypes DEF RowOK
  <2>5. \A j \in DOMAIN rows : SameOrder(rows'[j], rows[j]) /\ rows[j].filled <= rows'[j].filled
    BY <1>1, <2>1, <2>2, <2>4, RowTypes DEF SameOrder
  <2>6. Net' = Net /\ Net \in Int /\ pos'.qty = pos.qty /\ pos.qty \in Nat
    BY <1>1, <1>3 DEF Settles, EndsOrder, Net, Pending, At, Types
  <2>7. OpenTakeProfits' \subseteq OpenTakeProfits
    BY <1>1, <2>2, LiveRows DEF OpenTakeProfits, OpenRow
  <2>8. Live' \subseteq Live
    BY <1>1, <1>3, <2>7 DEF Live, Settles, EndsOrder, At
  <2>9. ~At("bought")' /\ ~BuyIsLost' => ~At("bought") /\ ~BuyIsLost
    BY <1>1, <1>3, <2>3 DEF Settles, EndsOrder, At, BuyIsLost
  <2> QED
    BY <1>1, <1>3, <2>2, <2>3, <2>5, <2>6, <2>8, <2>9, StateSays, SafeStays DEF Settles, EndsOrder, FirstLegIsSold
<1> QED  BY <1>1, <1>2, <1>3 DEF Settles

LEMMA CancelLateBuySafe == ASSUME Shape, Safe, CancelLateBuy PROVE Safe'
<1>1. EndsBuy /\ Types /\ Shape'
  BY CancelLateBuyEnds, CancelLateBuyShape DEF Shape
<1>2. PICK new \in Rows : Writes(1, new) /\ Refreshed(new, Buy) /\ Ended(new)
  BY <1>1 DEF EndsBuy
<1>3. /\ DOMAIN rows' = DOMAIN rows /\ TakeProfits' = TakeProfits
      /\ rows'[1] = new /\ \A j \in DOMAIN rows : j # 1 => rows'[j] = rows[j]
      /\ Buy' = new /\ 1 \in DOMAIN rows
  BY <1>1, <1>2, BuyRow, OneRow DEF Refreshed, Buy
<1>4. Buy.filled <= new.filled /\ new.applied = Buy.applied /\ SameOrder(new, Buy) /\ Buy = rows[1]
  BY <1>1, <1>2, BuyRow DEF Refreshed, RowOK, Buy
<1>5. \A j \in DOMAIN rows : SameOrder(rows'[j], rows[j]) /\ rows[j].filled <= rows'[j].filled
  BY <1>1, <1>3, <1>4, RowTypes DEF SameOrder
<1>6. Net' = Net /\ Net \in Int /\ pos'.qty = pos.qty /\ pos.qty \in Nat
  BY <1>1 DEF EndsBuy, Net, Pending, At, Types
<1>7. Live' \subseteq Live
  <2>1. OpenTakeProfits' \subseteq OpenTakeProfits
    BY <1>1, <1>3, LiveRows DEF OpenTakeProfits, TakeProfits, OpenRow, Shape, BuyFirst
  <2> QED  BY <1>1, <2>1 DEF Live, EndsBuy, At
<1>8. ~At("bought")' /\ ~BuyIsLost' => ~At("bought") /\ ~BuyIsLost
  BY <1>1 DEF EndsBuy, At, BuyIsLost
<1> QED
  BY <1>1, <1>3, <1>4, <1>5, <1>6, <1>7, <1>8, StateSays, SafeStays DEF EndsBuy, FirstLegIsSold

LEMMA BrokerActsSafe == ASSUME Shape, Safe, NEW i \in DOMAIN rows, BrokerActs(i) PROVE Safe'
<1>1. Types /\ Shape' /\ UNCHANGED <<pos, plan>>
  BY BrokerActsShape DEF Shape, BrokerActs
<1>2. PICK new \in Rows :
          /\ Writes(i, new) /\ SameOrder(new, rows[i]) /\ new.applied = rows[i].applied
          /\ new.status = rows[i].status /\ new.filled = rows[i].filled
          /\ m' = m \/ (Leave /\ m.pc = "rows")
  BY DEF BrokerActs
<1>3. /\ DOMAIN rows' = DOMAIN rows /\ TakeProfits' = TakeProfits
      /\ rows'[i] = new /\ \A j \in DOMAIN rows : j # i => rows'[j] = rows[j]
  BY <1>1, <1>2, OneRow
<1>4. \A j \in DOMAIN rows : /\ SameOrder(rows'[j], rows[j]) /\ rows[j].filled <= rows'[j].filled
                             /\ rows'[j].applied = rows[j].applied /\ rows'[j].status = rows[j].status
                             /\ rows'[j].filled = rows[j].filled
  BY <1>1, <1>2, <1>3, RowTypes DEF SameOrder
<1>5. /\ Buy'.applied = Buy.applied /\ Buy'.status = Buy.status /\ Buy'.filled = Buy.filled
  BY <1>1, <1>4, BuyRow DEF Buy
<1>6. OpenTakeProfits' = OpenTakeProfits
  BY <1>3, <1>4, LiveRows DEF OpenTakeProfits, OpenRow
<1>7. CASE m' = m
  <2>1. Net' = Net /\ Net \in Int /\ pos'.qty = pos.qty /\ pos.qty \in Nat
    BY <1>1, <1>7, RunTypes DEF Net, Pending, At, Types
  <2>2. Live' \subseteq Live
    BY <1>6, <1>7 DEF Live, At
  <2>3. ~At("bought")' /\ ~BuyIsLost' => ~At("bought") /\ ~BuyIsLost
    BY <1>5, <1>7 DEF At, BuyIsLost, Ended
  <2> QED
    BY <1>1, <1>3, <1>4, <1>5, <1>7, <2>1, <2>2, <2>3, StateSays, SafeStays DEF FirstLegIsSold
<1>8. CASE Leave /\ m.pc = "rows"
  <2>1. m'.fills = {} /\ m'.pc = "idle" /\ ~m'.tp1 /\ ~m'.exit /\ m'.job = "pass"
    BY <1>8, LeftBehind DEF Idle
  <2>2. Net' = Net /\ Net \in Int /\ pos'.qty = pos.qty /\ pos.qty \in Nat
    BY <1>1, <1>8, <2>1 DEF Net, Pending, At, Types
  <2>3. Live' \subseteq Live
    BY <1>6, <2>1 DEF Live, At
  <2>4. ~At("bought")' /\ ~BuyIsLost' => ~At("bought") /\ ~BuyIsLost
    BY <1>5, <1>8, <2>1 DEF At, BuyIsLost, Ended
  <2> QED
    BY <1>1, <1>3, <1>4, <1>5, <2>1, <2>2, <2>3, <2>4, StateSays, SafeStays
<1> QED  BY <1>2, <1>7, <1>8

\* A crash forgets fills to be credited, and may leave a BUY that is in plan or position
\* but not in both.
LEMMA CrashSafe == ASSUME Shape, Safe, Crash PROVE Safe'
<1>1. Types /\ Shape' /\ Restarts
  BY CrashShape DEF Shape
<1>2. UNCHANGED <<pos, plan>> /\ DOMAIN rows' = DOMAIN rows
  BY <1>1 DEF Restarts
<1>3. \A j \in DOMAIN rows : /\ SameOrder(rows'[j], rows[j]) /\ rows[j].filled <= rows'[j].filled
                             /\ rows'[j].applied = rows[j].applied /\ rows'[j].status = rows[j].status
                             /\ rows'[j].filled = rows[j].filled /\ rows'[j].purpose = rows[j].purpose
  BY <1>1, RowTypes DEF Restarts, SameOrder
<1>4. /\ Buy'.applied = Buy.applied /\ Buy'.status = Buy.status /\ Buy'.filled = Buy.filled
  BY <1>1, <1>3, BuyRow DEF Buy
<1>5. OpenTakeProfits' = OpenTakeProfits
  BY <1>2, <1>3 DEF OpenTakeProfits, TakeProfits, OpenRow
<1>6. m'.fills = {} /\ m'.pc = "idle" /\ ~m'.tp1 /\ ~m'.exit /\ m'.job = "pass"
  BY <1>1, LeftBehind DEF Restarts, Idle
<1>7. Net <= Net' /\ pos'.qty = pos.qty /\ pos.qty \in Nat
  BY <1>1, <1>2, <1>6, RunTypes DEF Net, Pending, At, Types
<1>8. Live' \subseteq Live
  BY <1>5, <1>6 DEF Live, At
<1>9. ~At("bought")' /\ ~BuyIsLost' => ~At("bought") /\ ~BuyIsLost
  BY <1>4, <1>6 DEF At, BuyIsLost, Ended, Shape, AtBuy, BuyPlaces
<1> QED
  BY <1>1, <1>2, <1>3, <1>4, <1>6, <1>7, <1>8, <1>9, StateSays, SafeStays

-----------------------------------------------------------------------------
(* Safe: the BUY *)

\* Before it is applied the BUY is the only order.
LEMMA BuyIsAlone ==
    ASSUME Shape, m.pc \in BuyPlaces
    PROVE  /\ DOMAIN rows = {1} /\ TakeProfits = {} /\ OpenTakeProfits = {} /\ Live = {}
           /\ ~m.tp1 /\ ~m.exit /\ m.job = "pass" /\ m.fills = {} /\ ~Buy.applied
<1>1. ~Buy.applied /\ m.job = "pass"
  BY DEF Shape, AtBuy, Control
<1>2. DOMAIN rows = {1} /\ TakeProfits = {} /\ ~m.tp1 /\ ~m.exit
  BY <1>1 DEF Shape, BuyFirst, Types, TakeProfits
<1>3. OpenTakeProfits = {} /\ m.fills = {}
  BY <1>1, <1>2 DEF OpenTakeProfits, Shape, Control
<1> QED  BY <1>1, <1>2, <1>3 DEF Live, At, BuyPlaces

LEMMA CreatePlanSafe == ASSUME Shape, Safe, CreatePlan PROVE Safe'
<1>1. Types /\ Shape' /\ PlansBuy
  BY CreatePlanShape DEF Shape
<1>2. CASE UNCHANGED plan /\ Leave
  BY <1>1, <1>2, LeaveSafe DEF PlansBuy
<1>3. CASE pos.state = "WAITING" /\ plan' = NewPlan(pos.qty + Buy.filled) /\ Moves("bought")
  <2>1. m.pc = "buy" /\ Buy.filled > 0 /\ UNCHANGED <<pos, rows>> /\ Buy.filled \in Nat /\ pos.qty \in Nat
    BY <1>1, BuyRow DEF PlansBuy, Types, Rows, RowRecords
  <2>2. /\ DOMAIN rows = {1} /\ OpenTakeProfits = {} /\ m.fills = {} /\ ~m.tp1 /\ ~m.exit /\ m.job = "pass" /\ ~Buy.applied
    BY <2>1, BuyIsAlone DEF BuyPlaces
  <2>3. plan'.active
    BY <1>3, <2>1, PlanOfPosition
  <2>4. Live' = {}
    BY <1>3, <2>1, <2>2 DEF Live, Moves, At, OpenTakeProfits, TakeProfits, OpenRow
  <2>5. BeforeBuy'
    BY <2>1 DEF BeforeBuy, Buy
  <2>6. PlanIsBacked'
    BY <1>3, <2>1, <2>2, <2>3 DEF PlanIsBacked, Moves, At, Buy, FirstLegIsSold, Shape, BuyFirst
  <2> QED  BY <2>4, <2>5, <2>6 DEF Safe, OneLivePerLeg
<1> QED  BY <1>1, <1>2, <1>3 DEF PlansBuy

LEMMA AddSharesSafe == ASSUME Shape, Safe, AddShares PROVE Safe'
<1>1. Types /\ Shape' /\ Adds
  BY AddSharesShape DEF Shape
<1>2. m.pc = "bought" /\ UNCHANGED <<plan, rows>> /\ Moves("markBuy") /\ pos'.state = "HOLDING"
      /\ pos'.qty = pos.qty + Buy.filled /\ pos'.qty \in Nat
  BY <1>1 DEF Adds
<1>3. Buy.filled > 0 /\ Buy.filled \in Nat /\ pos.qty \in Nat /\ plan = NewPlan(pos'.qty)
  BY <1>1, <1>2, BuyRow DEF Shape, AtBuy, At, Types, Rows, RowRecords
<1>4. /\ DOMAIN rows = {1} /\ OpenTakeProfits = {} /\ m.fills = {} /\ ~m.tp1 /\ ~m.exit /\ m.job = "pass" /\ ~Buy.applied
  BY <1>2, BuyIsAlone DEF BuyPlaces
<1>5. /\ plan.active /\ plan.target["TP1"] + plan.target["TP2"] = pos'.qty
      /\ plan.filled["TP1"] = 0 /\ plan.filled["TP2"] = 0
      /\ plan.target["TP1"] \in Nat /\ plan.target["TP2"] \in Nat
  <2>1. PICK n \in Nat \ {0} : n = pos'.qty
    BY <1>2, <1>3
  <2>2. plan = NewPlan(n)
    BY <1>3, <2>1
  <2> HIDE DEF NewPlan
  <2> QED  BY <2>1, <2>2, PlanOfPosition DEF Legs
<1>6. Left("TP1")' + Left("TP2")' = pos'.qty
  BY <1>2, <1>5 DEF Left
<1>7. Net' = pos'.qty
  BY <1>2 DEF Net, Pending, Moves, At
<1>8. Live' = {}
  BY <1>2, <1>4 DEF Live, Moves, At, OpenTakeProfits, TakeProfits, OpenRow
<1>9. BeforeBuy'
  BY <1>2, <1>3 DEF BeforeBuy, Buy
<1>10. PlanIsBacked'
  <2>1. ~FirstLegIsSold'
    BY <1>2, <1>4 DEF Moves, FirstLegIsSold, Shape, BuyFirst
  <2> HIDE DEF Left
  <2> QED  BY <1>2, <1>4, <1>5, <1>6, <1>7, <2>1 DEF PlanIsBacked, Buy
<1> QED  BY <1>8, <1>9, <1>10 DEF Safe, OneLivePerLeg

\* A BUY that brought nothing leaves the position where the BUY found it.
LEMMA RestoreUnfilledSafe == ASSUME Shape, Safe, RestoreUnfilled PROVE Safe'
<1>1. Types /\ Shape' /\ Restores
  BY RestoreUnfilledShape DEF Shape
<1>2. /\ m.pc = "buy" /\ Buy.filled = 0 /\ UNCHANGED <<plan, rows>> /\ Moves("markUnfilled")
      /\ pos'.state = Buy.base /\ pos'.qty = pos.qty /\ pos.qty \in Nat
  BY <1>1 DEF Restores, Types
<1>3. OpenTakeProfits = {} /\ m.fills = {} /\ ~m.tp1 /\ ~m.exit /\ m.job = "pass" /\ ~Buy.applied
  BY <1>2, BuyIsAlone DEF BuyPlaces
<1>4. \/ Buy.base = "EMPTY" /\ pos.qty = 0 /\ Left("TP1") = 0 /\ Left("TP2") = 0
      \/ Buy.base = "HOLDING" /\ plan.active /\ Left("TP1") > 0
      \/ Buy.base = "PARTIAL" /\ plan.active /\ Left("TP1") = 0
  BY <1>2, <1>3 DEF Safe, BeforeBuy
<1>5. Net' = Net /\ Net \in Int
  BY <1>2 DEF Net, Pending, Moves, At
<1>6. \A j \in DOMAIN rows : SameOrder(rows'[j], rows[j]) /\ rows[j].filled <= rows'[j].filled
  BY <1>1, <1>2, RowTypes DEF SameOrder
<1>7. Live' \subseteq Live
  BY <1>2, <1>3 DEF Live, Moves, At, OpenTakeProfits, TakeProfits, OpenRow
<1>8. ~At("bought")' /\ ~BuyIsLost' => ~At("bought") /\ ~BuyIsLost
  BY <1>2 DEF At, BuyIsLost
<1>9. Buy' = Buy
  BY <1>2 DEF Buy
<1>10. /\ pos'.state = "PARTIAL" => Left("TP1") = 0
       /\ pos'.state = "EMPTY" => pos'.qty = 0
       /\ pos'.state # "WAITING"
  BY <1>2, <1>4
<1>11. ~m'.tp1 /\ ~m'.exit /\ m'.job = "pass"
  BY <1>2, <1>3 DEF Moves
<1> HIDE DEF Buy
<1> QED
  BY <1>1, <1>2, <1>3, <1>5, <1>6, <1>7, <1>8, <1>9, <1>10, <1>11, SafeStays

LEMMA MarkBuySafe == ASSUME Shape, Safe, MarkBuy \/ MarkUnfilled PROVE Safe'
<1>1. Types /\ Shape' /\ MarksBuy
  BY MarkBuyMarks, MarkBuyShape DEF Shape
<1>2. PICK new \in Rows :
          /\ Writes(1, new) /\ SameOrder(new, Buy) /\ new.applied
          /\ new.status = Buy.status /\ new.filled = Buy.filled
          /\ new.bStatus = Buy.bStatus /\ new.bFilled = Buy.bFilled
  BY <1>1 DEF MarksBuy
<1>3. m.pc \in {"markBuy", "markUnfilled"} /\ UNCHANGED <<pos, plan>> /\ \E pc \in {"placeTP1", "rows"} : Moves(pc)
  BY <1>1 DEF MarksBuy
<1>4. PICK pc \in {"placeTP1", "rows"} : Moves(pc)
  BY <1>3
<1>5. DOMAIN rows = {1} /\ TakeProfits = {} /\ m.fills = {} /\ ~m.tp1 /\ ~m.exit /\ m.job = "pass" /\ ~Buy.applied
  BY <1>3, BuyIsAlone DEF BuyPlaces
<1>6. /\ DOMAIN rows' = DOMAIN rows /\ TakeProfits' = TakeProfits /\ Buy' = new /\ rows'[1] = new /\ Buy = rows[1]
  BY <1>1, <1>2, <1>5, OneRow DEF Buy
<1>7. \A j \in DOMAIN rows : SameOrder(rows'[j], rows[j]) /\ rows[j].filled <= rows'[j].filled
  BY <1>1, <1>2, <1>5, <1>6, RowTypes
<1>8. Net' = Net /\ Net \in Int /\ pos'.qty = pos.qty /\ pos.qty \in Nat
  BY <1>1, <1>3, <1>4 DEF Net, Pending, Moves, At, Types
<1>9. Live' \subseteq Live
  BY <1>4, <1>5, <1>6 DEF Live, Moves, At, OpenTakeProfits
<1>10. ~At("bought")' /\ ~BuyIsLost' => ~At("bought") /\ ~BuyIsLost
  BY <1>3, <1>2, <1>6 DEF Shape, AtBuy, At, BuyIsLost
<1>11. Buy'.applied => pos'.state # "WAITING"
  <2>1. Buy.base # "WAITING"
    BY <1>1, BuyRow DEF Rows, RowRecords
  <2> QED  BY <1>3, <2>1 DEF Shape, AtBuy, At
<1>12. ~m'.tp1 /\ ~m'.exit /\ m'.job = "pass"
  BY <1>4, <1>5 DEF Moves
<1>13. UNCHANGED <<pos, plan>> /\ (pos'.state = "PARTIAL" => Left("TP1") = 0) /\ (pos'.state = "EMPTY" => pos'.qty = 0)
  BY <1>3, StateSays
<1> HIDE DEF Buy
<1> QED
  BY <1>1, <1>2, <1>5, <1>6, <1>7, <1>8, <1>9, <1>10, <1>11, <1>12, <1>13, SafeStays

-----------------------------------------------------------------------------
(* Safe: a sale is applied *)

LEMMA RemoveSharesSafe == ASSUME Shape, Safe, RemoveShares PROVE Safe'
<1>1. Types /\ Shape' /\ Removes
  BY RemoveSharesRemoves, RemoveSharesShape DEF Shape
<1>2. /\ m.pc = "sold" /\ UNCHANGED <<plan, rows>> /\ Moves("markSell") /\ pos'.qty = pos.qty - m.delta
      /\ pos'.qty \in Nat /\ pos.qty \in Nat /\ m.delta \in Nat
  BY <1>1, RunTypes DEF Removes, Types
<1>3. Net' = Net /\ Net \in Int /\ pos'.qty <= pos.qty
  BY <1>2 DEF Net, Pending, Moves, At
<1>4. \A j \in DOMAIN rows : SameOrder(rows'[j], rows[j]) /\ rows[j].filled <= rows'[j].filled
  BY <1>1, <1>2, RowTypes DEF SameOrder
<1>5. Live' \subseteq Live
  BY <1>2 DEF Live, Moves, At, OpenTakeProfits, TakeProfits, OpenRow
<1>6. Buy.applied
  BY <1>2 DEF Shape, BuyFirst, SellPlaces
<1>7. ~At("bought")' /\ ~BuyIsLost' => ~At("bought") /\ ~BuyIsLost
  BY <1>2, <1>6 DEF At, BuyIsLost
<1>8. Left("TP1") \in Nat
  BY <1>1, PlanTypes DEF Legs
<1>9. /\ pos'.state = "PARTIAL" => Left("TP1") = 0
      /\ pos'.state = "EMPTY" => pos'.qty = 0
      /\ pos'.state # "WAITING"
  <2>1. pos.state = "EMPTY" => pos'.qty = 0
    BY <1>2, StateSays
  <2> HIDE DEF Left
  <2> QED  BY <1>1, <1>6, <1>8, <2>1, StateSays DEF Removes
<1>10. m'.tp1 \/ m'.exit \/ m'.job \in {"tp1", "exit", "switch"} => Left("TP1") = 0
  BY <1>2, StateSays DEF Moves, FirstLegIsSold
<1>11. Buy' = Buy
  BY <1>2 DEF Buy
<1> HIDE DEF Buy
<1> QED
  BY <1>1, <1>2, <1>3, <1>4, <1>5, <1>6, <1>7, <1>9, <1>10, <1>11, SafeStays

LEMMA MarkSellSafe == ASSUME Shape, Safe, MarkSell PROVE Safe'
<1>1. Types /\ Shape' /\ Closes
  BY MarkSellCloses, MarkSellShape DEF Shape
<1>2. /\ m.pc = "markSell" /\ pos' = pos /\ GoesOn /\ plan'.target = plan.target /\ plan'.filled = plan.filled
      /\ plan'.active = (pos.state # "EMPTY" /\ plan.active) /\ pos.qty \in Nat /\ plan.active \in BOOLEAN
  BY <1>1, PlanTypes DEF Closes, Types, Plans
<1>3. PICK new \in Rows :
          /\ Writes(m.cur, new) /\ SameOrder(new, rows[m.cur])
          /\ new.status = rows[m.cur].status /\ new.filled = rows[m.cur].filled
  BY <1>1 DEF Closes
<1>4. m.cur \in DOMAIN rows /\ m.cur # 1 /\ Buy.applied
  BY <1>2 DEF Shape, AtSell, BuyFirst, SellPlaces, TakeProfits
<1>5. /\ DOMAIN rows' = DOMAIN rows /\ TakeProfits' = TakeProfits /\ Buy' = Buy
      /\ rows'[m.cur] = new /\ \A j \in DOMAIN rows : j # m.cur => rows'[j] = rows[j]
  BY <1>1, <1>3, <1>4, OneRow
<1>6. \A j \in DOMAIN rows : /\ SameOrder(rows'[j], rows[j]) /\ rows[j].filled <= rows'[j].filled
                             /\ rows'[j].status = rows[j].status
  BY <1>1, <1>3, <1>5, RowTypes DEF SameOrder
<1>7. Net' = Net /\ Net \in Int
  BY <1>2 DEF Net, Pending, GoesOn, At
<1>8. Live' \subseteq Live
  <2>1. OpenTakeProfits' = OpenTakeProfits
    BY <1>5, <1>6, LiveRows DEF OpenTakeProfits, OpenRow
  <2> QED  BY <1>2, <2>1 DEF Live, GoesOn, At
<1>9. plan'.active = plan.active \/ (Buy.applied /\ pos'.qty = 0)
  BY <1>2, <1>4, StateSays
<1>10. ~At("bought")' /\ ~BuyIsLost' => ~At("bought") /\ ~BuyIsLost
  BY <1>2, <1>4 DEF At, BuyIsLost
<1>11. m'.tp1 \/ m'.exit \/ m'.job \in {"tp1", "exit", "switch"} => Left("TP1") = 0
  BY <1>2, <1>4, StateSays DEF GoesOn, FirstLegIsSold
<1>12. /\ pos'.state = "PARTIAL" => Left("TP1") = 0
       /\ pos'.state = "EMPTY" => pos'.qty = 0
       /\ Buy'.applied => pos'.state # "WAITING"
  BY <1>2, <1>5, StateSays
<1> HIDE DEF Buy
<1> QED
  BY <1>1, <1>2, <1>4, <1>5, <1>6, <1>7, <1>8, <1>9, <1>10, <1>11, <1>12, SafeStays

\* What is taken out of the leg is taken out of the position: the order at hand keeps its
\* bound, and no other order shares the leg, or, for the exit, is there at all.
LEMMA FillPlanSafe == ASSUME Shape, Safe, FillPlan PROVE Safe'
<1>1. Types /\ Shape' /\ Credits
  BY FillPlanCredits, FillPlanShape DEF Shape
<1>2. CASE UNCHANGED plan /\ Leave
  BY <1>1, <1>2, LeaveSafe DEF Credits
<1>3. CASE /\ plan.active /\ Delta(m.cur) \in Nat /\ Delta(m.cur) <= pos.qty
           /\ plan' \in Plans /\ plan'.active = plan.active /\ plan'.target = plan.target
           /\ plan'.filled[Leg(m.cur)] = LegFilled(m.cur)
           /\ \A leg \in Legs : leg # Leg(m.cur) => plan'.filled[leg] = plan.filled[leg]
           /\ m' \in Runs /\ m'.pc = "sold" /\ m'.delta = Delta(m.cur) /\ m'.cur = m.cur
           /\ m'.todo = m.todo /\ m'.fills = m.fills /\ m'.job = m.job
           /\ m'.tp1 = m.tp1 /\ m'.recover = m.recover /\ m'.exit = m.exit
  <2>0. PICK c, leg, d : c = m.cur /\ leg = Leg(c) /\ d = Delta(c)
    OBVIOUS
  <2>1. /\ m.pc = "sell" /\ UNCHANGED <<pos, rows>> /\ c \in DOMAIN rows /\ c \in Live /\ Buy.applied /\ leg \in Legs
        /\ rows[c].filled > 0
    BY <1>1, <2>0, RowTypes DEF Credits, Shape, AtSell, SellPlaces, TakeProfits, BuyFirst, Live, At
  <2>2. /\ d \in Nat /\ LegFilled(c) \in Nat /\ LegFilled(c) = plan.filled[leg] + d
        /\ plan.filled[leg] \in Nat /\ plan.target[leg] \in Nat /\ Left(leg) \in Nat
        /\ pos.qty \in Nat /\ rows[c].qty \in Nat /\ rows[c].filled \in Nat
    BY <1>1, <1>3, <2>0, <2>1, LegTypes, PlanTypes, RowTypes
  <2>3. plan'.filled[leg] = plan.filled[leg] + d /\ m'.delta = d
        /\ \A k \in Legs : k # leg => plan'.filled[k] = plan.filled[k]
    BY <1>3, <2>0, <2>2
  <2>4. Net = pos.qty /\ Net' = pos.qty - d /\ Net \in Nat /\ Net' \in Int
    BY <1>3, <2>1, <2>2, <2>3 DEF Net, Pending, At
  <2>5. \A j \in DOMAIN rows : Leg(j)' = Leg(j) /\ rows'[j] = rows[j]
    BY <2>1 DEF Leg
  <2>6. Left(leg)' = Left(leg) - d
    BY <1>3, <2>2, <2>3 DEF Left
  <2>7. \A k \in Legs : k # leg => Left(k)' = Left(k)
    BY <1>3, <2>3 DEF Left
  <2>8. Live' \subseteq Live
    BY <1>3, <2>1 DEF Live, At, OpenTakeProfits, TakeProfits, OpenRow
  <2>9. LiveOK(c) /\ OneLivePerLeg /\ Left("TP1") + Left("TP2") <= Net
    BY <2>1 DEF Safe, PlanIsBacked, At, BuyIsLost
  <2>10. BeforeBuy'
    BY <2>1 DEF BeforeBuy, Buy
  <2>11. PlanIsBacked'
    <3>1. Left("TP1")' + Left("TP2")' <= Net' /\ Left("TP1")' <= Left("TP1") /\ Left("TP1")' \in Nat
      <4>1. Left("TP1") \in Nat /\ Left("TP2") \in Nat /\ Left("TP1")' \in Nat
        <5>1. Types'
          BY <1>1 DEF Shape
        <5>2. \A k \in Legs : Left(k) \in Nat /\ Left(k)' \in Nat
          BY <1>1, <5>1 DEF Left, Types, Plans
        <5> QED  BY <5>2 DEF Legs
      <4>2. CASE leg = "TP1"
        BY <2>2, <2>4, <2>6, <2>7, <2>9, <4>1, <4>2 DEF Legs
      <4>3. CASE leg = "TP2"
        BY <2>2, <2>4, <2>6, <2>7, <2>9, <4>1, <4>3 DEF Legs
      <4> QED  BY <2>1, <4>2, <4>3 DEF Legs
    <3>2. FirstLegIsSold' => FirstLegIsSold
      BY <1>3, <2>1 DEF FirstLegIsSold
    <3>3. /\ pos'.state = "PARTIAL" => Left("TP1")' = 0
          /\ FirstLegIsSold' => Left("TP1")' = 0
      <4>1. Left("TP1") \in Nat
        BY <1>1, PlanTypes DEF Legs
      <4> HIDE DEF Left
      <4> QED  BY <2>1, <3>1, <3>2, <4>1, StateSays
    <3> QED  BY <1>3, <2>1, <3>1, <3>3, StateSays DEF PlanIsBacked, Buy
  <2>12. OneLivePerLeg'
    BY <2>5, <2>8, <2>9, LiveRows DEF OneLivePerLeg
  <2>13. ASSUME NEW i \in Live' PROVE LiveOK(i)'
    <3>1. i \in Live /\ i \in DOMAIN rows /\ LiveOK(i) /\ Leg(i) \in Legs
          /\ Leg(i)' = Leg(i) /\ rows'[i] = rows[i] /\ Base(i)' = Base(i)
      <4>1. i \in Live /\ i \in DOMAIN rows
        BY <2>8, LiveRows
      <4> QED  BY <1>1, <1>3, <2>1, <2>5, <4>1, RowTypes DEF Safe, Base
    <3>2. CASE i # c
      <4>1. Leg(i) # leg /\ rows[i].purpose # "EXIT"
        BY <2>0, <2>1, <2>9, <3>1, <3>2 DEF OneLivePerLeg
      <4>2. Left(Leg(i))' = Left(Leg(i)) /\ plan'.filled[Leg(i)] = plan.filled[Leg(i)]
        BY <2>3, <2>7, <3>1, <4>1
      <4> HIDE DEF Left, Leg, Base
      <4> QED  BY <1>3, <3>1, <4>1, <4>2 DEF LiveOK
    <3>3. CASE i = c
      <4>1. LegFilled(c) = Least(plan.target[leg], Base(c) + rows[c].filled) /\ Base(c) \in Nat
        BY <1>1, <2>0, <2>1, LegTypes
      <4>2. Base(c) = Greatest(0, plan.target[leg] - rows[c].qty)
        BY <2>0 DEF Base
      <4>3. Base(c) <= plan'.filled[leg]
        BY <2>0, <2>2, <2>3, <2>9, <4>1 DEF LiveOK
      <4>4. RowOK(rows[c]) /\ rows[c].filled <= rows[c].qty
        BY <1>1, <2>1, RowTypes DEF RowOK
      <4>5. CASE rows[c].purpose # "EXIT"
        <5>1. rows[c].qty <= plan.target[leg]
          BY <2>0, <2>9, <4>5 DEF LiveOK
        <5>2. LegFilled(c) = plan.target[leg] - rows[c].qty + rows[c].filled
          BY <2>2, <4>1, <4>2, <4>4, <5>1 DEF Least, Greatest
        <5>3. Left(leg)' = rows[c].qty - rows[c].filled
          BY <1>3, <2>2, <2>3, <5>2 DEF Left
        <5> HIDE DEF Left, Leg, Base
        <5> QED  BY <1>3, <2>0, <2>2, <3>1, <3>3, <4>3, <4>5, <5>1, <5>3 DEF LiveOK
      <4>6. CASE rows[c].purpose = "EXIT"
        <5>1. leg = "TP2"
          BY <2>0, <4>6 DEF Leg
        <5>2. rows[c].qty <= Net + plan.filled["TP2"] /\ rows[c].qty - rows[c].filled <= Net
          BY <2>9, <4>6 DEF LiveOK
        <5>3. rows[c].qty <= Net' + plan'.filled["TP2"]
          BY <2>2, <2>3, <2>4, <5>1, <5>2
        <5>4. Left("TP1") \in Nat /\ Left("TP2") = plan.target["TP2"] - plan.filled["TP2"]
          BY <1>1, PlanTypes DEF Legs, Left
        <5>5. rows[c].qty - rows[c].filled <= Net'
          <6>1. CASE rows[c].qty <= plan.target["TP2"]
            BY <2>2, <2>4, <2>9, <4>1, <4>2, <5>1, <5>2, <5>4, <6>1 DEF Least, Greatest
          <6>2. CASE ~(rows[c].qty <= plan.target["TP2"])
            BY <2>2, <2>4, <4>1, <4>2, <5>1, <5>2, <6>2 DEF Least, Greatest
          <6> QED  BY <6>1, <6>2
        <5> HIDE DEF Left, Leg, Base
        <5> QED  BY <1>3, <2>0, <2>2, <3>1, <3>3, <4>3, <4>6, <5>3, <5>5 DEF LiveOK
      <4> QED  BY <4>5, <4>6
    <3> QED  BY <3>2, <3>3
  <2> QED  BY <2>10, <2>11, <2>12, <2>13 DEF Safe
<1> QED  BY <1>1, <1>2, <1>3 DEF Credits

-----------------------------------------------------------------------------
(* Safe: orders are placed *)

\* No order of the leg is live, and the new one is for what the leg, or the position, has left.
LEMMA SubmitsSafe ==
    ASSUME Shape, Shape', Safe, NEW purpose, NEW n \in Nat \ {0}, NEW next \in {"placeTP2", "rows", "jobs"},
           Submits(purpose, n, next),
           \/ m.pc = "placeTP1" /\ purpose = "TP1" /\ n = Left("TP1")
           \/ m.pc = "placeTP2" /\ purpose = "TP2" /\ n = Left("TP2")
           \/ m.pc = "placeExit" /\ purpose = "EXIT" /\ n = pos.qty
    PROVE  Safe'
<1>1. PICK new \in Rows :
          /\ rows' = Append(rows, new) /\ new.purpose = purpose /\ new.qty = n
          /\ (new.status = "OPEN" => new.filled = 0)
          /\ Moves(next) \/ Leave
  BY DEF Submits
<1>2. Types /\ UNCHANGED <<pos, plan>>
  BY DEF Shape, Submits
<1>3. PICK k : k = Len(rows) + 1
  OBVIOUS
<1>4. /\ DOMAIN rows' = DOMAIN rows \cup {k} /\ k \notin DOMAIN rows
      /\ rows'[k] = new /\ \A j \in DOMAIN rows : rows'[j] = rows[j]
  BY <1>1, <1>2, <1>3, RowAppended
<1>5. Buy.applied /\ Buy' = Buy /\ m.pc \in SubmitPlaces /\ m.fills = {}
  BY <1>2, <1>4, BuyRow DEF Shape, BuyFirst, Buy, Control, SubmitPlaces, SettlePlaces, SellPlaces
<1>6. m'.fills = {} /\ m'.pc \in {"placeTP2", "rows", "jobs", "idle"}
      /\ (m'.tp1 => m.tp1) /\ (m'.exit => m.exit) /\ m'.job \in {m.job, "pass"}
  BY <1>1, <1>5, LeftBehind DEF Moves, Idle
<1>7. /\ Left("TP1")' = Left("TP1") /\ Left("TP2")' = Left("TP2") /\ Left("TP1") \in Nat /\ Left("TP2") \in Nat
      /\ Net' = pos.qty /\ Net = pos.qty /\ pos.qty \in Nat
  BY <1>2, <1>5, <1>6, PlanTypes DEF Left, Net, Pending, At, Legs, SubmitPlaces, Types
<1>8. Left("TP1") + Left("TP2") <= pos.qty
  BY <1>5, <1>7 DEF Safe, PlanIsBacked, At, BuyIsLost, SubmitPlaces
<1>9. \A j \in DOMAIN rows : Leg(j)' = Leg(j) /\ Base(j)' = Base(j)
  BY <1>2, <1>4 DEF Leg, Base
<1>10. BeforeBuy'
  BY <1>5 DEF BeforeBuy
<1>11. PlanIsBacked'
  <2>1. FirstLegIsSold' => Left("TP1") = 0
    <3>1. CASE purpose = "EXIT"
      BY <3>1, StateSays DEF Shape, Control, At
    <3>2. CASE purpose # "EXIT"
      <4>1. FirstLegIsSold' => FirstLegIsSold
        BY <1>1, <1>4, <1>6, <3>2 DEF FirstLegIsSold
      <4> QED  BY <4>1, StateSays
    <3> QED  BY <3>1, <3>2
  <2>2. /\ pos'.state = "PARTIAL" => Left("TP1") = 0
        /\ ~plan'.active \/ pos'.state = "EMPTY" => pos'.qty = 0
        /\ Buy'.applied => pos'.state # "WAITING"
    BY <1>2, <1>5, StateSays
  <2> HIDE DEF Left, Net, Buy
  <2> QED  BY <1>2, <1>7, <1>8, <2>1, <2>2 DEF PlanIsBacked
<1>12. \A i \in Live' : (i \in OpenTakeProfits /\ i \in Live /\ i \in DOMAIN rows) \/ (i = k /\ new.status = "OPEN")
  <2> TAKE i \in Live'
  <2>1. i \in DOMAIN rows' /\ rows'[i].purpose # "BUY" /\ rows'[i].status = "OPEN"
    BY <1>6 DEF Live, At, OpenTakeProfits, TakeProfits, OpenRow
  <2>2. CASE i = k
    BY <1>4, <2>1, <2>2
  <2>3. CASE i \in DOMAIN rows
    <3>1. i \in OpenTakeProfits
      BY <1>4, <2>1, <2>3 DEF OpenTakeProfits, TakeProfits, OpenRow
    <3> QED  BY <2>3, <3>1 DEF Live
  <2> QED  BY <1>4, <2>1, <2>2, <2>3
<1>13. new.status = "OPEN" => Leg(k)' = (IF purpose = "TP1" THEN "TP1" ELSE "TP2")
  BY <1>1, <1>4 DEF Leg
<1>14. \A i \in OpenTakeProfits : m.pc = "placeTP2" /\ rows[i].purpose = "TP1" /\ Leg(i) = "TP1"
  BY <1>5 DEF Shape, Control, At, Leg, SubmitPlaces
<1>15. OneLivePerLeg'
  <2> SUFFICES ASSUME NEW i \in Live', NEW j \in Live', i # j
               PROVE  Leg(i)' # Leg(j)' /\ rows'[i].purpose # "EXIT"
    BY DEF OneLivePerLeg
  <2>1. CASE i \in Live /\ j \in Live /\ i \in DOMAIN rows /\ j \in DOMAIN rows
    BY <1>4, <1>9, <2>1 DEF Safe, OneLivePerLeg
  <2>2. CASE i = k \/ j = k
    BY <1>1, <1>4, <1>9, <1>12, <1>13, <1>14, <2>2
  <2> QED  BY <1>12, <2>1, <2>2
<1>16. ASSUME NEW i \in Live' PROVE LiveOK(i)'
  <2>1. CASE i # k
    <3>1. i \in Live /\ i \in DOMAIN rows /\ rows'[i] = rows[i] /\ Leg(i)' = Leg(i) /\ Base(i)' = Base(i) /\ LiveOK(i)
          /\ Leg(i) = "TP1" /\ rows[i].purpose = "TP1"
      BY <1>4, <1>9, <1>12, <1>14, <2>1 DEF Safe
    <3> HIDE DEF Left, Net, Base
    <3> QED  BY <1>2, <1>7, <3>1 DEF LiveOK
  <2>2. CASE i = k
    <3>1. /\ rows'[i].purpose = purpose /\ rows'[i].qty = n /\ rows'[i].filled = 0
          /\ Leg(i)' = (IF purpose = "TP1" THEN "TP1" ELSE "TP2")
      BY <1>1, <1>4, <1>12, <1>13, <2>2
    <3>2. /\ \A leg \in Legs : plan'.target[leg] = plan.target[leg] /\ plan'.filled[leg] = plan.filled[leg]
                               /\ plan.target[leg] \in Nat /\ plan.filled[leg] \in Nat
                               /\ Left(leg) = plan.target[leg] - plan.filled[leg]
      BY <1>2, PlanTypes DEF Left
    <3>3. Base(i)' = Greatest(0, plan'.target[Leg(i)'] - n)
      BY <3>1 DEF Base
    <3>4. CASE purpose \in {"TP1", "TP2"}
      <4>1. PICK leg \in Legs : leg = Leg(i)' /\ n = Left(leg) /\ Left(Leg(i))' = Left(leg)
        BY <1>7, <3>1, <3>4 DEF Legs
      <4>2. /\ Base(i)' <= plan'.filled[leg] /\ n <= plan'.target[leg] /\ n - 0 <= Left(leg)
        BY <3>2, <3>3, <4>1 DEF Greatest
      <4> HIDE DEF Left, Net, Base
      <4> QED  BY <3>1, <3>4, <4>1, <4>2 DEF LiveOK
    <3>5. CASE purpose = "EXIT"
      <4>1. n = pos.qty /\ Leg(i)' = "TP2" /\ "TP2" \in Legs
        BY <3>1, <3>5 DEF Legs
      <4>2. Base(i)' <= plan'.filled["TP2"]
        BY <1>7, <1>8, <3>2, <3>3, <4>1 DEF Greatest
      <4>3. n <= Net' + plan'.filled["TP2"] /\ n - 0 <= Net'
        BY <1>7, <3>2, <4>1
      <4> HIDE DEF Left, Net, Base
      <4> QED  BY <3>1, <3>5, <4>1, <4>2, <4>3 DEF LiveOK
    <3> QED  BY <3>4, <3>5
  <2> QED  BY <2>1, <2>2
<1> QED  BY <1>10, <1>11, <1>15, <1>16 DEF Safe

LEMMA PlacementSafe == ASSUME Shape, Safe, PlaceTP1 \/ PlaceTP2 \/ PlaceExit PROVE Safe'
<1>1. Left("TP1") \in Nat /\ Left("TP2") \in Nat /\ pos.qty \in Nat /\ Shape'
  BY PlanTypes, PlacementShape DEF Legs, Shape
<1>2. Placed \in {"rows", "jobs"}
  BY DEF Placed
<1>3. ASSUME NEW next \in {"placeTP2", "rows", "jobs"}, PassesOver(next), m.pc \in SubmitPlaces
      PROVE  Safe'
  BY <1>1, <1>3, GoesSafe DEF PassesOver, SameBooks, SubmitPlaces
<1> HIDE DEF Left, Placed
<1> QED  BY <1>1, <1>2, <1>3, Placement, SubmitsSafe DEF SubmitPlaces

-----------------------------------------------------------------------------
(* Safe is inductive *)

LEMMA InitSafe == ASSUME Init PROVE Safe
<1>1. Begins /\ Shape
  BY InitBegins, InitShape
<1>2. Live = {}
  BY <1>1, LiveRows DEF Begins, Live, Idle, At, OpenTakeProfits, TakeProfits, Shape, BuyFirst, Types
<1>3. Net = pos.qty /\ pos.qty \in Nat
  BY <1>1 DEF Begins, Net, Pending, Idle, At
<1>4. BeforeBuy
  BY <1>1 DEF Begins, BeforeBuy
<1>5. ~FirstLegIsSold
  BY <1>1 DEF Begins, FirstLegIsSold, Idle, Shape, BuyFirst, Types
<1>6. PlanIsBacked
  <2> HIDE DEF Left
  <2> QED  BY <1>1, <1>3, <1>5 DEF Begins, PlanIsBacked
<1> QED  BY <1>2, <1>4, <1>6 DEF Safe, OneLivePerLeg

LEMMA NextSafe == ASSUME Shape, Safe, Next PROVE Safe'
<1>1. Kinds
  BY NextKinds
<1> QED
  BY <1>1, ControlSafe, RefreshRowSafe, SafeModesSafe, SettleRowSafe, CancelLateBuySafe, CreatePlanSafe, AddSharesSafe,
     MarkBuySafe, RestoreUnfilledSafe, NothingSoldSafe, FillPlanSafe, RemoveSharesSafe, MarkSellSafe, JobsSafe,
     CreditFillSafe, PlacementSafe, BrokerActsSafe, CrashSafe
  DEF Kinds

LEMMA StutterSafe == ASSUME Shape, Safe, UNCHANGED vars PROVE Safe'
BY DEF vars, Safe, BeforeBuy, PlanIsBacked, OneLivePerLeg, LiveOK, Live, Base, Leg, Left, Net, Pending, BuyIsLost, Buy,
   FirstLegIsSold, At, Ended, OpenTakeProfits, TakeProfits, OpenRow

\* Two orders at most, and what they offer is what their legs, or the position, have left.
LEMMA OffersWithinPosition == ASSUME Shape, Safe PROVE SellsWithinPosition
<1> DEFINE f == [i \in OpenTakeProfits |-> rows[i].qty - rows[i].filled]
<1>1. Types /\ OpenTakeProfits \subseteq Live /\ OpenTakeProfits \subseteq DOMAIN rows /\ pos.qty \in Nat
  BY LiveRows DEF Live, Shape, Types
<1>2. \A i \in OpenTakeProfits : LiveOK(i) /\ Leg(i) \in Legs /\ rows[i].qty \in Nat /\ rows[i].filled \in Nat
  BY <1>1, RowTypes DEF Safe
<1>3. f \in [OpenTakeProfits -> Int] /\ \A i \in OpenTakeProfits : f[i] = rows[i].qty - rows[i].filled
  BY <1>2
<1>4. CASE OpenTakeProfits = {}
  <2>1. SumFunction(f) = 0
    <3> HIDE DEF f
    <3> QED  BY <1>3, <1>4, SumOfFew
  <2> QED  BY <1>1, <2>1 DEF SellsWithinPosition
<1>5. CASE OpenTakeProfits # {}
  <2>1. Left("TP1") + Left("TP2") <= Net /\ Net <= pos.qty /\ Net \in Int
    <3>1. Buy.applied
      <4>1. Len(rows) # 1
        BY <1>1, <1>5 DEF OpenTakeProfits, TakeProfits, Shape, BuyFirst, Types
      <4> QED  BY <4>1 DEF Shape, BuyFirst
    <3>2. ~At("bought")
      BY <3>1 DEF Shape, AtBuy, At, BuyPlaces
    <3>3. Net <= pos.qty /\ Net \in Int
      BY <1>1, RunTypes DEF Net, Pending
    <3> QED  BY <3>1, <3>2, <3>3 DEF Safe, PlanIsBacked, BuyIsLost
  <2>2. Left("TP1") \in Nat /\ Left("TP2") \in Nat
    BY <1>1, PlanTypes DEF Legs
  <2>3. \A i \in OpenTakeProfits : f[i] <= Net /\ (rows[i].purpose # "EXIT" => f[i] <= Left(Leg(i)))
    <3>1. ASSUME NEW i \in OpenTakeProfits PROVE f[i] <= Net /\ (rows[i].purpose # "EXIT" => f[i] <= Left(Leg(i)))
      <4>1. LiveOK(i) /\ f[i] = rows[i].qty - rows[i].filled /\ Leg(i) \in Legs /\ f[i] \in Int
        BY <1>2, <1>3
      <4>2. Left(Leg(i)) <= Net
        BY <2>1, <2>2, <4>1 DEF Legs
      <4>3. Left(Leg(i)) \in Nat
        BY <2>2, <4>1 DEF Legs
      <4> HIDE DEF f, Left, Net
      <4> QED  BY <2>1, <4>1, <4>2, <4>3 DEF LiveOK
    <3> QED  BY <3>1
  <2>4. PICK x \in OpenTakeProfits : TRUE
    BY <1>5
  <2>5. CASE OpenTakeProfits = {x}
    <3>1. SumFunction(f) = f[x]
      <4> HIDE DEF f
      <4> QED  BY <1>3, <2>5, SumOfFew
    <3>2. f[x] \in Int /\ f[x] <= Net
      BY <1>3, <2>3
    <3>3. SumFunction(f) <= pos.qty
      <4> HIDE DEF f
      <4> QED  BY <1>1, <2>1, <3>1, <3>2
    <3> QED  BY <3>3 DEF SellsWithinPosition
  <2>6. CASE OpenTakeProfits # {x}
    <3>1. PICK y \in OpenTakeProfits : y # x
      BY <2>6
    <3>2. Leg(x) # Leg(y) /\ rows[x].purpose # "EXIT" /\ rows[y].purpose # "EXIT"
      BY <1>1, <3>1 DEF Safe, OneLivePerLeg
    <3>3. OpenTakeProfits = {x, y}
      <4>1. \A z \in OpenTakeProfits : Leg(z) \in {"TP1", "TP2"}
        BY <1>2 DEF Legs
      <4>2. \A z \in OpenTakeProfits : z = x \/ z = y
        BY <1>1, <3>1, <3>2, <4>1 DEF Safe, OneLivePerLeg
      <4> QED  BY <3>1, <4>2
    <3>4. SumFunction(f) = f[x] + f[y]
      <4> HIDE DEF f
      <4> QED  BY <1>3, <3>1, <3>3, SumOfFew
    <3>5. f[x] \in Int /\ f[y] \in Int /\ f[x] <= Left(Leg(x)) /\ f[y] <= Left(Leg(y))
      BY <1>3, <2>3, <3>2
    <3>6. Left(Leg(x)) + Left(Leg(y)) = Left("TP1") + Left("TP2") /\ Left(Leg(x)) \in Nat /\ Left(Leg(y)) \in Nat
      BY <1>2, <2>2, <3>2 DEF Legs
    <3>7. SumFunction(f) <= pos.qty
      <4> HIDE DEF f
      <4> QED  BY <1>1, <2>1, <2>2, <3>4, <3>5, <3>6
    <3> QED  BY <3>7 DEF SellsWithinPosition
  <2> QED  BY <2>5, <2>6
<1> QED  BY <1>4, <1>5

\* The orders that are open never offer more than the position has: SellsWithinPosition,
\* for any position, fraction and number of orders, crashes and failures.
THEOREM OffersStayWithinPosition == Spec => []SellsWithinPosition
<1>1. Init => Shape /\ Safe
  BY InitShape, InitSafe
<1>2. (Shape /\ Safe) /\ [Next]_vars => (Shape /\ Safe)'
  BY NextShape, StutterShape, NextSafe, StutterSafe
<1>3. Shape /\ Safe => SellsWithinPosition
  BY OffersWithinPosition
<1> QED  BY <1>1, <1>2, <1>3, PTL DEF Spec

-----------------------------------------------------------------------------
(* Sold once: a step that touches one order at most *)

\* What a row will still take out of the position, the sum, and what it is compared with.
Numbers ==
    /\ IsFiniteSet(TakeProfits) /\ TakeProfits \subseteq DOMAIN rows
    /\ \A i \in TakeProfits : Expected(i) \in Nat
    /\ ExpectedShares \in Nat /\ Net \in Nat /\ BuyDue \in Nat /\ hold \in Nat /\ pos.qty \in Nat
    /\ Net <= pos.qty

LEMMA ShapeNumbers == Shape => Numbers
<1> SUFFICES ASSUME Shape PROVE Numbers
  OBVIOUS
<1>1. Types /\ TakeProfits \subseteq DOMAIN rows
  BY DEF Shape, TakeProfits
<1>2. IsFiniteSet(TakeProfits)
  <2>1. DOMAIN rows = 1..Len(rows) /\ Len(rows) \in Int
    BY <1>1 DEF Types
  <2>2. IsFiniteSet(DOMAIN rows)
    BY <2>1, FS_Interval
  <2> QED  BY <1>1, <2>2, FS_Subset
<1>3. ASSUME NEW i \in TakeProfits PROVE Expected(i) \in Nat
  <2>1. rows[i].bFilled \in Nat /\ rows[i].filled \in Nat /\ rows[i].filled <= rows[i].bFilled /\ Delta(i) \in Int
    BY <1>1, RowTypes, LegTypes DEF RowOK
  <2>2. Greatest(0, Delta(i)) \in Nat
    BY <2>1, LeastGreatest
  <2> QED  BY <2>1, <2>2 DEF Expected
<1>4. ExpectedShares \in Nat
  <2> DEFINE f == [i \in TakeProfits |-> Expected(i)]
  <2>1. f \in [TakeProfits -> Int] /\ \A i \in TakeProfits : f[i] >= 0
    BY <1>3
  <2>2. SumFunction(f) \in Nat
    <3> HIDE DEF f
    <3> QED  BY <1>2, <2>1, SumNat
  <2> QED  BY <2>2 DEF ExpectedShares
<1>5. Net \in Nat /\ BuyDue \in Nat /\ hold \in Nat /\ pos.qty \in Nat /\ Net <= pos.qty
  <2>1. Buy.bFilled \in Nat
    BY <1>1, BuyRow DEF Rows, RowRecords
  <2>2. m.delta \in Nat /\ pos.qty \in Nat
    BY <1>1, RunTypes DEF Types
  <2>3. At("sold") => m.delta <= pos.qty
    BY DEF Shape, AtSell, At, SellPlaces
  <2> QED  BY <1>1, <2>1, <2>2, <2>3 DEF Net, Pending, BuyDue, Types
<1> QED  BY <1>1, <1>2, <1>3, <1>4, <1>5 DEF Numbers

\* So they are after a step.
LEMMA ShapeNumbersNext == Shape' => Numbers'
BY ShapeNumbers, PTL

\* The sums stay on their sides.
LEMMA OnceWeighs ==
    ASSUME Numbers, Numbers', SoldOnce, overfilled => overfilled', NEW d \in Int, NEW e \in Int,
           overfilled' \/ (hold' <= hold + d /\ ExpectedShares' <= ExpectedShares + e
                           /\ Net + BuyDue + d + e <= Net' + BuyDue')
    PROVE  SoldOnce'
<1>1. /\ Net \in Int /\ BuyDue \in Int /\ hold \in Int /\ ExpectedShares \in Int
      /\ Net' \in Int /\ BuyDue' \in Int /\ hold' \in Int /\ ExpectedShares' \in Int
  BY DEF Numbers
<1>2. CASE overfilled'
  BY <1>2 DEF SoldOnce
<1>3. CASE ~overfilled'
  <2>1. hold' <= hold + d /\ ExpectedShares' <= ExpectedShares + e /\ Net + BuyDue + d + e <= Net' + BuyDue'
    BY <1>3
  <2>2. hold + ExpectedShares <= Net + BuyDue
    BY <1>3 DEF SoldOnce
  <2>3. PICK n \in Int, k \in Int, h \in Int, x \in Int, n1 \in Int, k1 \in Int, h1 \in Int, x1 \in Int :
          /\ n = Net /\ k = BuyDue /\ h = hold /\ x = ExpectedShares
          /\ n1 = Net' /\ k1 = BuyDue' /\ h1 = hold' /\ x1 = ExpectedShares'
    BY <1>1
  <2>4. h1 <= h + d /\ x1 <= x + e /\ n + k + d + e <= n1 + k1 /\ h + x <= n + k
    BY <2>1, <2>2, <2>3
  <2>5. h1 + x1 <= n1 + k1
    BY <2>4
  <2> QED  BY <2>3, <2>5 DEF SoldOnce
<1> QED  BY <1>2, <1>3

\* No order has more to take out: what the broker holds and what the BUY has brought
\* change together.
LEMMA OnceStays ==
    ASSUME Shape, Shape', SoldOnce, TakeProfits' = TakeProfits,
           \A j \in TakeProfits : Expected(j)' <= Expected(j),
           overfilled => overfilled', NEW d \in Int,
           hold' <= hold + d, Net + BuyDue + d <= Net' + BuyDue'
    PROVE  SoldOnce'
<1>1. ExpectedShares' <= ExpectedShares
  <2> DEFINE f == [i \in TakeProfits |-> Expected(i)]
  <2> DEFINE g == [i \in TakeProfits |-> Expected(i)']
  <2>1. /\ f \in [TakeProfits -> Int] /\ g \in [TakeProfits -> Int] /\ IsFiniteSet(TakeProfits)
        /\ \A j \in TakeProfits : g[j] <= f[j]
    BY ShapeNumbers, ShapeNumbersNext DEF Numbers
  <2>2. SumFunction(g) <= SumFunction(f)
    <3> HIDE DEF f, g
    <3> QED  BY <2>1, SumMonotone
  <2>3. ExpectedShares = SumFunction(f) /\ ExpectedShares' = SumFunction(g)
    BY DEF ExpectedShares
  <2> HIDE DEF f, g
  <2> QED  BY <2>2, <2>3
<1>2. ExpectedShares \in Int /\ Net \in Int /\ BuyDue \in Int
  BY ShapeNumbers DEF Numbers
<1>3. 0 \in Int /\ ExpectedShares' <= ExpectedShares + 0 /\ Net + BuyDue + d + 0 <= Net' + BuyDue'
  BY <1>1, <1>2
<1> QED  BY <1>3, ShapeNumbers, ShapeNumbersNext, OnceWeighs

\* One order has: the broker or the position has the difference.
LEMMA OnceRow ==
    ASSUME Shape, Shape', SoldOnce, TakeProfits' = TakeProfits, NEW i \in TakeProfits,
           \A j \in TakeProfits \ {i} : Expected(j)' <= Expected(j),
           overfilled => overfilled',
           NEW d \in Int,
           overfilled' \/ (hold' <= hold + d /\ Net + BuyDue + d + (Expected(i)' - Expected(i)) <= Net' + BuyDue')
    PROVE  SoldOnce'
<1>1. ExpectedShares' <= ExpectedShares + (Expected(i)' - Expected(i))
  <2> DEFINE f == [j \in TakeProfits |-> Expected(j)]
  <2> DEFINE g == [j \in TakeProfits |-> Expected(j)']
  <2>1. /\ f \in [TakeProfits -> Int] /\ g \in [TakeProfits -> Int] /\ IsFiniteSet(TakeProfits)
        /\ \A j \in TakeProfits \ {i} : g[j] <= f[j]
    BY ShapeNumbers, ShapeNumbersNext DEF Numbers
  <2>2. SumFunction(g) <= SumFunction(f) + (g[i] - f[i])
    <3> HIDE DEF f, g
    <3> QED  BY <2>1, SumChangeBelow
  <2>3. ExpectedShares = SumFunction(f) /\ ExpectedShares' = SumFunction(g)
    BY DEF ExpectedShares
  <2>4. f[i] = Expected(i) /\ g[i] = Expected(i)'
    OBVIOUS
  <2> HIDE DEF f, g
  <2> QED  BY <2>2, <2>3, <2>4
<1>2. Expected(i) \in Nat /\ Expected(i)' \in Nat
  BY ShapeNumbers, ShapeNumbersNext DEF Numbers
<1>3. PICK e \in Int : e = Expected(i)' - Expected(i)
  BY <1>2
<1>4. ExpectedShares' <= ExpectedShares + e
  BY <1>1, <1>3
<1> QED  BY <1>3, <1>4, ShapeNumbers, ShapeNumbersNext, OnceWeighs

\* A row that the step leaves as it is, in a leg that it leaves as it is.
SameRow(j) ==
    /\ SameOrder(rows'[j], rows[j]) /\ rows'[j].filled = rows[j].filled
    /\ rows'[j].bFilled = rows[j].bFilled
    /\ rows[j].bStatus = "GONE" => rows'[j].bStatus = "GONE"

SameLeg(leg) == plan'.target[leg] = plan.target[leg] /\ plan'.filled[leg] = plan.filled[leg]

LEMMA ExpectedStays ==
    ASSUME Shape, Shape', NEW j \in TakeProfits, j \in DOMAIN rows', SameRow(j), SameLeg(Leg(j)),
           j \in Live' => j \in Live
    PROVE  Leg(j)' = Leg(j) /\ Delta(j)' = Delta(j) /\ Expected(j)' <= Expected(j)
<1>1. Leg(j)' = Leg(j) /\ Delta(j)' = Delta(j)
  BY DEF SameRow, SameLeg, SameOrder, Leg, Delta, LegFilled
<1>2. Expected(j) \in Nat
  BY ShapeNumbers, ShapeNumbersNext DEF Numbers
<1>3. Expected(j)' = IF j \in Live' /\ rows'[j].bStatus # "GONE"
                     THEN rows[j].bFilled - rows[j].filled + Greatest(0, Delta(j)) ELSE 0
  BY <1>1 DEF Expected, SameRow
<1>4. Expected(j)' = 0 \/ Expected(j)' = Expected(j)
  <2> HIDE DEF Delta
  <2> QED  BY <1>3 DEF Expected, SameRow
<1> HIDE DEF Expected
<1> QED  BY <1>1, <1>2, <1>4

\* A refresh asks for no more than the broker has filled in between.
LEMMA ExpectedRefreshed ==
    ASSUME Shape, Shape', NEW j \in Live, j \in DOMAIN rows', SameOrder(rows'[j], rows[j]), SameLeg(Leg(j)),
           rows[j].bStatus # "GONE",
           rows'[j].filled = rows[j].bFilled, rows'[j].bFilled = rows[j].bFilled
    PROVE  Expected(j)' <= Expected(j)
<1>1. PICK b, f, t, c, p : /\ b = rows[j].bFilled /\ f = rows[j].filled /\ t = plan.target[Leg(j)]
                           /\ c = Base(j) /\ p = plan.filled[Leg(j)]
  OBVIOUS
<1>2. j \in DOMAIN rows /\ j \in TakeProfits /\ Types
  BY LiveRows DEF Shape
<1>3. b \in Nat /\ f \in Nat /\ f <= b /\ t \in Nat /\ c \in Nat /\ p \in Nat
  BY <1>1, <1>2, RowTypes, LegTypes, PlanTypes DEF RowOK
<1>4. Delta(j) = Least(t, c + f) - p
  BY <1>1, <1>2, LegTypes
<1>5. Delta(j)' = Least(t, c + b) - p
  <2>1. Leg(j)' = Leg(j) /\ rows'[j].qty = rows[j].qty
    BY DEF SameOrder, Leg
  <2> QED  BY <1>1, <2>1 DEF Delta, LegFilled, Base, SameLeg
<1>6. PICK x \in Int, y \in Int : x = Delta(j) /\ y = Delta(j)' /\ y <= x + (b - f)
  BY <1>3, <1>4, <1>5 DEF Least
<1>7. Expected(j) = b - f + Greatest(0, x) /\ Expected(j)' \in {0, Greatest(0, y)}
  BY <1>1, <1>3, <1>6 DEF Expected, Greatest
<1>8. Greatest(0, y) <= b - f + Greatest(0, x) /\ 0 <= b - f + Greatest(0, x)
  BY <1>3, <1>6 DEF Greatest
<1> QED  BY <1>7, <1>8

\* A step that touches neither the rows nor what the plan has left, and takes nothing out
\* of the position: fills may be forgotten, and no fill becomes due.
Quiet ==
    /\ UNCHANGED <<rows, hold, overfilled>> /\ \A leg \in Legs : SameLeg(leg)
    /\ Net' = Net /\ BuyDue' = BuyDue /\ Live' \subseteq Live

LEMMA QuietOnce == ASSUME Shape, Shape', SoldOnce, Quiet PROVE SoldOnce'
<1>1. TakeProfits' = TakeProfits /\ TakeProfits \subseteq DOMAIN rows'
  BY DEF Quiet, TakeProfits
<1>2. ASSUME NEW j \in TakeProfits PROVE Expected(j)' <= Expected(j)
  <2>1. SameRow(j) /\ SameLeg(Leg(j)) /\ (j \in Live' => j \in Live)
    BY <1>1, <1>2, RowTypes DEF Quiet, SameRow, SameOrder, Shape
  <2> QED  BY <1>1, <2>1, ExpectedStays
<1>3. 0 \in Int /\ hold' <= hold + 0 /\ Net + BuyDue + 0 <= Net' + BuyDue'
  BY ShapeNumbers DEF Numbers, Quiet
<1> QED  BY <1>1, <1>2, <1>3, OnceStays DEF Quiet

\* The fills in play when the pass moves on, or is over.
LEMMA LiveMoves ==
    ASSUME NEW pc, Moves(pc), pc # "sell", UNCHANGED rows
    PROVE  Live' \subseteq Live
BY DEF Live, Moves, At, OpenTakeProfits, TakeProfits, OpenRow

LEMMA LiveLeaves == ASSUME Leave, UNCHANGED rows PROVE Live' \subseteq Live
BY LeftBehind DEF Live, At, OpenTakeProfits, TakeProfits, OpenRow

LEMMA QuietSteps ==
    ASSUME UNCHANGED <<plan, rows, hold, overfilled>>, pos'.qty = pos.qty,
           m.pc \notin {"sold", "markBuy"}, m'.pc \notin {"sold", "markBuy"}, Live' \subseteq Live
    PROVE  Quiet
BY DEF Quiet, SameLeg, Net, Pending, BuyDue, Buy, At

\* The steps that are quiet.
LEMMA ControlQuiet ==
    ASSUME Shape, Begin \/ BuyGoesOn \/ PassDone \/ Done \/ Settled \/ Replace \/ RefreshFails
    PROVE  Shape' /\ Quiet
<1>0. Types
  BY DEF Shape
<1>1. CASE Begin
  <2>1. /\ UNCHANGED <<pos, plan, rows, hold, overfilled>> /\ m.pc = "idle" /\ m'.pc = "rows" /\ m'.fills = {}
    BY <1>1 DEF Begin, Idle, At
  <2>2. Live' \subseteq Live
    BY <2>1 DEF Live, At, OpenTakeProfits, TakeProfits, OpenRow
  <2> QED  BY <1>1, <2>1, <2>2, BeginShape, QuietSteps
<1>2. CASE BuyGoesOn
  <2>1. UNCHANGED <<pos, plan, rows, hold, overfilled>> /\ m.pc = "buy" /\ Moves("rows")
    BY <1>0, <1>2, GotoMoves DEF BuyGoesOn, At, Places
  <2> QED  BY <1>2, <2>1, BuyGoesOnShape, LiveMoves, QuietSteps DEF Moves
<1>3. CASE PassDone
  <2>1. UNCHANGED <<pos, plan, rows, hold, overfilled>> /\ m.pc = "rows" /\ Moves("jobs")
    BY <1>0, <1>3, GotoMoves DEF PassDone, At, Places
  <2> QED  BY <1>3, <2>1, PassDoneShape, LiveMoves, QuietSteps DEF Moves
<1>4. CASE Done
  <2>1. UNCHANGED <<pos, plan, rows, hold, overfilled>> /\ m.pc = "jobs" /\ Leave
    BY <1>4 DEF Done, At
  <2> QED  BY <1>4, <2>1, DoneShape, LeftBehind, LiveLeaves, QuietSteps
<1>5. CASE Settled
  <2>1. UNCHANGED <<pos, plan, rows, hold, overfilled>> /\ m.pc = "settle" /\ Moves("credit")
    BY <1>0, <1>5, GotoMoves DEF Settled, At, Places, SettlePlaces
  <2> QED  BY <1>5, <2>1, SettledShape, LiveMoves, QuietSteps DEF Moves
<1>6. CASE Replace
  <2>1. UNCHANGED <<pos, plan, rows, hold, overfilled>> /\ m.pc = "credit"
        /\ \E pc \in {"placeTP1", "placeExit", "jobs"} : Goto(pc)
    BY <1>6 DEF Replace, At
  <2>2. PICK pc \in {"placeTP1", "placeExit", "jobs"} : Moves(pc)
    BY <1>0, <2>1, GotoMoves DEF Places, SubmitPlaces
  <2> QED  BY <1>6, <2>1, <2>2, ReplaceShape, LiveMoves, QuietSteps DEF Moves
<1>7. CASE RefreshFails
  <2>1. UNCHANGED <<pos, plan, rows, hold, overfilled>> /\ m.pc = "rows" /\ Leave /\ Shape'
    BY <1>7, RefreshFailsShape DEF SameBooks
  <2> QED  BY <2>1, LeftBehind, LiveLeaves, QuietSteps
<1> QED  BY <1>1, <1>2, <1>3, <1>4, <1>5, <1>6, <1>7

LEMMA SaysQuiet ==
    ASSUME Shape,
           \/ RefreshAfterTP1 \/ RecoverTakeProfits \/ RecoverExit \/ SwitchToExit
           \/ \E i \in m.fills : CreditFill(i)
           \/ NothingSold \/ Reconcile \/ RestoreUnfilled
           \/ \E i \in m.todo : MissingRow(i)
    PROVE  Shape' /\ Quiet
<1>1. CASE RefreshAfterTP1 \/ RecoverTakeProfits \/ RecoverExit \/ SwitchToExit
  <2>1. PICK job \in {"tp1", "recover", "exit", "switch"} : JobBegins(job)
    BY <1>1, JobsBegin
  <2>2. Shape' /\ m'.pc = "settle" /\ m'.fills = m.fills
    BY <2>1, JobShape DEF Jobs
  <2>3. UNCHANGED <<pos, plan, rows, hold, overfilled>> /\ m.pc = "jobs"
    BY <2>1 DEF JobBegins, SameBooks, SameCounts
  <2>4. Live' \subseteq Live
    BY <2>2, <2>3 DEF Live, At, OpenTakeProfits, TakeProfits, OpenRow
  <2> QED  BY <2>2, <2>3, <2>4, QuietSteps
<1>2. CASE \E i \in m.fills : CreditFill(i)
  <2>1. PICK i \in m.fills : CreditFill(i)
    BY <1>2
  <2>2. /\ Shape' /\ UNCHANGED <<pos, plan, rows, hold, overfilled>> /\ m.pc = "credit"
        /\ m'.pc = "sell" /\ m'.cur = i /\ m'.fills = m.fills \ {i}
    BY <2>1, CreditFillShape DEF SameBooks, SameCounts
  <2>3. Live' \subseteq Live
    BY <2>1, <2>2 DEF Live, At, OpenTakeProfits, TakeProfits, OpenRow
  <2> QED  BY <2>2, <2>3, QuietSteps
<1>3. CASE NothingSold
  <2>1. /\ Shape' /\ UNCHANGED <<pos, plan, rows, hold, overfilled>> /\ m.pc = "sell" /\ GoesOn
    BY <1>3, NothingSoldShape DEF SameBooks, SameCounts
  <2>2. Live' \subseteq Live
    BY <2>1 DEF Live, GoesOn, At, OpenTakeProfits, TakeProfits, OpenRow
  <2> QED  BY <2>1, <2>2, QuietSteps DEF GoesOn
<1>4. CASE Reconcile
  <2>1. /\ Shape' /\ UNCHANGED <<plan, rows, hold, m, overfilled>> /\ m.pc = "idle" /\ pos'.qty = pos.qty
    BY <1>4, ReconcileShape DEF SafeMode, SameCounts
  <2>2. Live' \subseteq Live
    BY <2>1 DEF Live, At, OpenTakeProfits, TakeProfits, OpenRow
  <2> QED  BY <2>1, <2>2, QuietSteps
<1>5. CASE RestoreUnfilled
  <2>1. /\ Shape' /\ UNCHANGED <<plan, rows, hold, overfilled>> /\ m.pc = "buy" /\ Moves("markUnfilled")
        /\ pos'.qty = pos.qty
    BY <1>5, RestoreUnfilledShape DEF Restores, SameCounts
  <2> QED  BY <2>1, LiveMoves, QuietSteps DEF Moves
<1>6. CASE \E i \in m.todo : MissingRow(i)
  <2>1. /\ Shape' /\ UNCHANGED <<plan, rows, hold, overfilled>> /\ m.pc = "rows" /\ m'.pc = "rows"
        /\ m'.fills = m.fills /\ pos'.qty = pos.qty
    BY <1>6, MissingRowShape DEF Misses, SafeMode, SameCounts
  <2>2. Live' \subseteq Live
    BY <2>1 DEF Live, At, OpenTakeProfits, TakeProfits, OpenRow
  <2> QED  BY <2>1, <2>2, QuietSteps
<1> QED  BY <1>1, <1>2, <1>3, <1>4, <1>5, <1>6

-----------------------------------------------------------------------------
(* Sold once: a row is written *)

\* The row is the BUY, or is as it was for the sum, or has been refreshed.
LEMMA OnceWrites ==
    ASSUME Shape, Shape', SoldOnce, NEW i \in DOMAIN rows, NEW new \in Rows, Writes(i, new),
           SameOrder(new, rows[i]), \A leg \in Legs : SameLeg(leg), Live' \subseteq Live,
           overfilled => overfilled', NEW d \in Int, hold' <= hold + d, Net + BuyDue + d <= Net' + BuyDue',
           \/ i = 1
           \/ new.filled = rows[i].filled /\ new.bFilled = rows[i].bFilled
              /\ (rows[i].bStatus = "GONE" => new.bStatus = "GONE")
           \/ /\ i \in Live /\ rows[i].bStatus # "GONE"
              /\ new.filled = rows[i].bFilled /\ new.bFilled = rows[i].bFilled
    PROVE  SoldOnce'
<1>1. /\ DOMAIN rows' = DOMAIN rows /\ TakeProfits' = TakeProfits
      /\ rows'[i] = new /\ \A j \in DOMAIN rows : j # i => rows'[j] = rows[j]
  BY OneRow DEF Shape
<1>2. ASSUME NEW j \in TakeProfits PROVE Expected(j)' <= Expected(j)
  <2>1. j \in DOMAIN rows /\ j # 1 /\ Leg(j) \in Legs
    BY <1>2, RowTypes DEF TakeProfits, Shape, BuyFirst
  <2>2. CASE j # i \/ (new.filled = rows[i].filled /\ new.bFilled = rows[i].bFilled
                       /\ (rows[i].bStatus = "GONE" => new.bStatus = "GONE"))
    <3>1. SameRow(j)
      BY <1>1, <2>1, <2>2 DEF SameRow, SameOrder
    <3> QED  BY <1>1, <1>2, <2>1, <3>1, ExpectedStays
  <2>3. CASE j = i /\ i \in Live /\ rows[i].bStatus # "GONE"
             /\ new.filled = rows[i].bFilled /\ new.bFilled = rows[i].bFilled
    BY <1>1, <2>1, <2>3, ExpectedRefreshed
  <2> QED  BY <2>1, <2>2, <2>3
<1> QED  BY <1>1, <1>2, OnceStays

\* The bounds of the sides, for steps that leave them.
LEMMA SidesStay ==
    ASSUME Shape, UNCHANGED hold, Net' = Net, BuyDue' = BuyDue
    PROVE  0 \in Int /\ hold' <= hold + 0 /\ Net + BuyDue + 0 <= Net' + BuyDue'
BY ShapeNumbers DEF Numbers

LEMMA RefreshRowOnce == ASSUME Shape, SoldOnce, NEW i \in m.todo, RefreshRow(i) PROVE SoldOnce'
<1>1. Refreshes(i) /\ i \in DOMAIN rows /\ rows[i].status = "OPEN" /\ Types /\ Shape'
  BY RefreshRowRefreshes, RefreshRowShape DEF Shape
<1>2. PICK new \in Rows : Writes(i, new) /\ Refreshed(new, rows[i])
  BY <1>1 DEF Refreshes
<1>3. /\ DOMAIN rows' = DOMAIN rows /\ TakeProfits' = TakeProfits
      /\ rows'[i] = new /\ \A j \in DOMAIN rows : j # i => rows'[j] = rows[j]
      /\ Buy' = (IF i = 1 THEN new ELSE Buy) /\ SameOrder(new, rows[i])
  BY <1>1, <1>2, OneRow DEF Refreshed
<1>4. Live' \subseteq Live
  <2>1. i \in TakeProfits => i \in OpenTakeProfits
    BY <1>1 DEF OpenTakeProfits, OpenRow
  <2>2. OpenTakeProfits' \subseteq OpenTakeProfits
    BY <1>1, <1>3, LiveRows DEF OpenTakeProfits, OpenRow
  <2>3. At("sell")' => m'.cur \in TakeProfits
    BY <1>1, <1>3 DEF AtSell, At, SellPlaces, Shape
  <2> QED  BY <1>1, <2>1, <2>2, <2>3 DEF Live, Refreshes, At
<1>5. Net' = Net /\ BuyDue' = BuyDue
  <2>1. Net' = Net /\ ~At("markBuy") /\ ~At("markBuy")'
    BY <1>1 DEF Refreshes, Net, Pending, At
  <2>2. Buy'.applied = Buy.applied /\ Buy'.bFilled = Buy.bFilled
    BY <1>1, <1>2, <1>3 DEF Refreshed, Buy
  <2> QED  BY <2>1, <2>2 DEF BuyDue
<1>6. i = 1 \/ i \in Live
  BY <1>1 DEF Shape, BuyFirst, Live, OpenTakeProfits, TakeProfits, OpenRow
<1>7. /\ \A leg \in Legs : SameLeg(leg)
      /\ rows[i].bStatus # "GONE" /\ new.filled = rows[i].bFilled /\ new.bFilled = rows[i].bFilled
      /\ (overfilled => overfilled') /\ UNCHANGED hold
  BY <1>1, <1>2 DEF Refreshes, SameLeg, SameCounts, Refreshed
<1> QED  BY <1>1, <1>2, <1>3, <1>4, <1>5, <1>6, <1>7, SidesStay, OnceWrites

LEMMA SettleRowOnce == ASSUME Shape, SoldOnce, NEW i \in m.todo, SettleRow(i) PROVE SoldOnce'
<1>1. Settles(i) /\ i \in OpenTakeProfits /\ i \in DOMAIN rows /\ Types /\ Shape'
  BY SettleRowSettles, SettleRowShape DEF Shape
<1>2. CASE UNCHANGED rows /\ Leave
  <2>1. Quiet
    BY <1>1, <1>2, LeftBehind, LiveLeaves, QuietSteps DEF Settles, SameCounts
  <2> QED  BY <1>1, <2>1, QuietOnce
<1>3. CASE EndsOrder(i)
  <2>1. PICK new \in Rows :
          /\ Writes(i, new) /\ SameOrder(new, rows[i]) /\ Ended(new)
          /\ new.filled = rows[i].bFilled /\ new.bFilled = rows[i].bFilled
    BY <1>3 DEF EndsOrder
  <2>2. /\ DOMAIN rows' = DOMAIN rows /\ TakeProfits' = TakeProfits
        /\ rows'[i] = new /\ \A j \in DOMAIN rows : j # i => rows'[j] = rows[j]
        /\ Buy' = (IF i = 1 THEN new ELSE Buy)
    BY <1>1, <2>1, OneRow
  <2>3. i # 1 /\ Buy' = Buy
    BY <1>1, <2>2 DEF Shape, BuyFirst, OpenTakeProfits, TakeProfits
  <2>4. OpenTakeProfits' \subseteq OpenTakeProfits
    BY <1>1, <2>2, LiveRows DEF OpenTakeProfits, OpenRow
  <2>5. Live' \subseteq Live /\ i \in Live
    BY <1>1, <1>3, <2>4 DEF Live, Settles, EndsOrder, At
  <2>6. Net' = Net /\ BuyDue' = BuyDue
    BY <1>1, <1>3, <2>3 DEF Settles, EndsOrder, Net, Pending, At, BuyDue
  <2>7. /\ \A leg \in Legs : SameLeg(leg)
        /\ rows[i].bStatus # "GONE" /\ (overfilled => overfilled') /\ UNCHANGED hold
    BY <1>1, <1>3 DEF Settles, EndsOrder, SameLeg, SameCounts
  <2>8. 0 \in Int /\ hold' <= hold + 0 /\ Net + BuyDue + 0 <= Net' + BuyDue'
    BY <2>6, <2>7, SidesStay
  <2> QED  BY <1>1, <2>1, <2>5, <2>7, <2>8, OnceWrites
<1> QED  BY <1>1, <1>2, <1>3 DEF Settles

\* The broker: what it no longer holds is due, and what it holds more the BUY has brought.
LEMMA BrokerActsOnce == ASSUME Shape, SoldOnce, NEW i \in DOMAIN rows, BrokerActs(i) PROVE SoldOnce'
<1>1. Types /\ Shape' /\ UNCHANGED <<pos, plan>> /\ rows[i].status = "OPEN" /\ rows[i].bStatus = "OPEN"
  BY BrokerActsShape DEF Shape, BrokerActs
<1>2. PICK new \in Rows :
          /\ Writes(i, new) /\ SameOrder(new, rows[i]) /\ new.applied = rows[i].applied
          /\ new.status = rows[i].status /\ new.filled = rows[i].filled
          /\ new.bStatus # "GONE"
          /\ \/ /\ new.bFilled = rows[i].bFilled /\ UNCHANGED <<hold, m, overfilled>>
             \/ /\ new.bFilled > rows[i].bFilled /\ UNCHANGED <<m, overfilled>>
                /\ IF rows[i].purpose = "BUY" THEN hold' = hold + (new.bFilled - rows[i].bFilled)
                   ELSE /\ new.bFilled - rows[i].bFilled <= hold
                        /\ hold' = hold - (new.bFilled - rows[i].bFilled)
             \/ /\ new.bFilled >= rows[i].bFilled /\ overfilled' = TRUE /\ UNCHANGED hold /\ Leave
                /\ rows[i].purpose # "BUY" /\ m.pc = "rows"
  BY DEF BrokerActs
<1>3. /\ DOMAIN rows' = DOMAIN rows /\ TakeProfits' = TakeProfits
      /\ rows'[i] = new /\ \A j \in DOMAIN rows : j # i => rows'[j] = rows[j]
      /\ Buy' = (IF i = 1 THEN new ELSE Buy)
  BY <1>1, <1>2, OneRow
<1>4. CASE overfilled' = TRUE
  BY <1>4 DEF SoldOnce
<1>5. CASE UNCHANGED <<m, overfilled>>
  <2>1. OpenTakeProfits' = OpenTakeProfits
    BY <1>2, <1>3, LiveRows DEF OpenTakeProfits, OpenRow
  <2>2. Live' \subseteq Live /\ Net' = Net
    BY <1>1, <1>5, <2>1 DEF Live, At, Net, Pending
  <2>3. \A leg \in Legs : SameLeg(leg)
    BY <1>1 DEF SameLeg
  <2>4. i = 1 <=> rows[i].purpose = "BUY"
    BY DEF Shape, BuyFirst
  <2>5. Buy'.applied = Buy.applied /\ At("markBuy")' = At("markBuy")
    BY <1>2, <1>3, <1>5 DEF Buy, At
  <2>6. rows[i].bFilled \in Nat /\ new.bFilled \in Nat /\ hold \in Nat
    BY <1>1, <1>2, RowTypes DEF Types, Rows, RowRecords
  <2>7. CASE new.bFilled = rows[i].bFilled /\ UNCHANGED hold
    <3>1. BuyDue' = BuyDue
      BY <1>3, <2>5, <2>7 DEF BuyDue, Buy
    <3> QED  BY <1>1, <1>2, <1>5, <2>2, <2>3, <2>7, <3>1, SidesStay, OnceWrites
  <2>8. CASE i = 1 /\ new.bFilled > rows[i].bFilled /\ hold' = hold + (new.bFilled - rows[i].bFilled)
    <3>1. ~Buy.applied /\ ~At("markBuy") /\ Buy = rows[i] /\ Buy' = new
      BY <1>1, <1>3, <2>8, RowTypes DEF Buy, RowOK, Shape, AtBuy, At, Ended
    <3>2. PICK d \in Int : d = new.bFilled - rows[i].bFilled
      BY <2>6
    <3>3. BuyDue = rows[i].bFilled /\ BuyDue' = new.bFilled
      BY <2>5, <3>1 DEF BuyDue
    <3>4. hold' <= hold + d /\ Net + BuyDue + d <= Net' + BuyDue'
      <4>1. Net \in Nat
        BY ShapeNumbers DEF Numbers
      <4> QED  BY <2>2, <2>6, <2>8, <3>2, <3>3, <4>1
    <3> QED  BY <1>1, <1>2, <1>5, <2>2, <2>3, <2>8, <3>4, OnceWrites
  <2>9. CASE i # 1 /\ new.bFilled > rows[i].bFilled /\ hold' = hold - (new.bFilled - rows[i].bFilled)
    <3>1. BuyDue' = BuyDue /\ i \in TakeProfits
      BY <1>3, <2>4, <2>5, <2>9 DEF BuyDue, Buy, TakeProfits
    <3>2. ASSUME NEW j \in TakeProfits \ {i} PROVE Expected(j)' <= Expected(j)
      <4>1. j \in DOMAIN rows /\ Leg(j) \in Legs /\ SameRow(j)
        BY <1>1, <1>3, <3>2, RowTypes DEF TakeProfits, SameRow, SameOrder
      <4> QED  BY <1>1, <1>3, <2>2, <2>3, <4>1, ExpectedStays
    <3>3. Delta(i)' = Delta(i) /\ Delta(i) \in Int
      BY <1>1, <1>2, <1>3, LegTypes DEF Delta, LegFilled, Leg, SameOrder
    <3>4. PICK x \in Nat, y \in Nat : x = Expected(i) /\ y = Expected(i)'
      BY <1>1, <1>3, <3>1, ShapeNumbers, ShapeNumbersNext DEF Numbers
    <3>5. y <= x + (new.bFilled - rows[i].bFilled)
      <4>1. CASE i \in Live'
        <5>1. PICK g \in Nat : g = Greatest(0, Delta(i))
          BY <3>3 DEF Greatest
        <5>2. y = new.bFilled - new.filled + g
          <6> HIDE DEF Delta
          <6> QED  BY <1>2, <1>3, <3>3, <3>4, <4>1, <5>1 DEF Expected
        <5>3. x = rows[i].bFilled - rows[i].filled + g
          BY <1>1, <2>2, <3>4, <4>1, <5>1 DEF Expected
        <5> QED  BY <1>1, <1>2, <2>6, <5>1, <5>2, <5>3, RowTypes
      <4>2. CASE i \notin Live'
        BY <2>6, <2>9, <3>4, <4>2 DEF Expected
      <4> QED  BY <4>1, <4>2
    <3>6. PICK d \in Int : d = rows[i].bFilled - new.bFilled
      BY <2>6
    <3>7. hold' <= hold + d /\ Net + BuyDue + d + (Expected(i)' - Expected(i)) <= Net' + BuyDue'
      <4>1. Net \in Nat /\ BuyDue \in Nat
        BY ShapeNumbers DEF Numbers
      <4>2. PICK n \in Nat, b \in Nat : n = Net /\ b = BuyDue
        BY <4>1
      <4>3. n + b + d + (y - x) <= n + b
        BY <2>6, <3>5, <3>6
      <4> QED  BY <2>2, <2>6, <2>9, <3>1, <3>4, <3>6, <4>2, <4>3
    <3> QED  BY <1>1, <1>3, <1>5, <3>1, <3>2, <3>7, OnceRow
  <2> QED  BY <1>2, <1>4, <2>4, <2>7, <2>8, <2>9
<1> QED  BY <1>2, <1>4, <1>5

-----------------------------------------------------------------------------
(* Sold once: the BUY, the sale, placements and the process *)

\* The steps of the BUY: there is no other order, and the shares of the BUY move from what
\* is due into the position.
LEMMA BuyOnce ==
    ASSUME Shape, SoldOnce, CancelLateBuy \/ CreatePlan \/ AddShares \/ MarkBuy \/ MarkUnfilled
    PROVE  SoldOnce'
<1>0. Types /\ Buy.filled \in Nat /\ Buy.bFilled \in Nat /\ pos.qty \in Nat
  BY BuyRow DEF Shape, Types, Rows, RowRecords
<1>1. ASSUME m.pc \in BuyPlaces, Shape', DOMAIN rows' = DOMAIN rows, TakeProfits' = TakeProfits,
             UNCHANGED <<hold, overfilled>>, Net + BuyDue <= Net' + BuyDue'
      PROVE  SoldOnce'
  <2>1. TakeProfits = {} /\ 0 \in Int
    BY <1>1, BuyIsAlone
  <2>2. hold' <= hold + 0 /\ Net + BuyDue + 0 <= Net' + BuyDue'
    BY <1>1, ShapeNumbers DEF Numbers
  <2> QED  BY <1>1, <2>1, <2>2, OnceStays
<1>2. CASE CancelLateBuy
  <2>1. EndsBuy /\ Shape'
    BY <1>2, CancelLateBuyEnds, CancelLateBuyShape
  <2>2. PICK new \in Rows : Writes(1, new) /\ Refreshed(new, Buy) /\ Ended(new)
    BY <2>1 DEF EndsBuy
  <2>3. /\ DOMAIN rows' = DOMAIN rows /\ TakeProfits' = TakeProfits /\ Buy' = new
    BY <1>0, <2>2, BuyRow, OneRow DEF Refreshed, Buy
  <2>4. Net' = Net /\ BuyDue' = BuyDue
    BY <2>1, <2>2, <2>3 DEF EndsBuy, Net, Pending, At, BuyDue, Refreshed
  <2> QED  BY <1>1, <2>1, <2>3, <2>4, ShapeNumbers DEF EndsBuy, SameCounts, BuyPlaces, Numbers
<1>3. CASE CreatePlan
  <2>1. PlansBuy /\ Shape'
    BY <1>3, CreatePlanShape
  <2>2. /\ m.pc = "buy" /\ UNCHANGED <<pos, rows, hold, overfilled>> /\ m'.pc \in {"bought", "idle"}
    BY <2>1, LeftBehind DEF PlansBuy, Moves, SameCounts
  <2>3. Net' = Net /\ BuyDue' = BuyDue /\ TakeProfits' = TakeProfits
    BY <2>2 DEF Net, Pending, At, BuyDue, Buy, TakeProfits
  <2> QED  BY <1>1, <2>1, <2>2, <2>3, ShapeNumbers DEF BuyPlaces, Numbers
<1>4. CASE AddShares
  <2>1. Adds /\ Shape'
    BY <1>4, AddSharesShape
  <2>2. /\ m.pc = "bought" /\ UNCHANGED <<rows, hold, overfilled>> /\ m'.pc = "markBuy" /\ Ended(Buy)
        /\ pos'.qty = pos.qty + Buy.filled
    BY <2>1 DEF Adds, Moves, SameCounts, Shape, AtBuy, At
  <2>3. TakeProfits' = TakeProfits /\ Buy.bFilled = Buy.filled /\ ~Buy.applied
    BY <1>0, <2>2, BuyRow, BuyIsAlone DEF TakeProfits, RowOK, BuyPlaces
  <2>4. Net = pos.qty /\ Net' = pos.qty + Buy.filled /\ BuyDue = Buy.filled /\ BuyDue' = 0
    BY <1>0, <2>2, <2>3 DEF Net, Pending, At, BuyDue
  <2>5. Net + BuyDue <= Net' + BuyDue'
    BY <1>0, <2>4
  <2> QED  BY <1>1, <2>1, <2>2, <2>3, <2>5 DEF BuyPlaces
<1>5. CASE MarkBuy \/ MarkUnfilled
  <2>1. MarksBuy /\ Shape'
    BY <1>5, MarkBuyMarks, MarkBuyShape
  <2>2. PICK new \in Rows :
          /\ Writes(1, new) /\ SameOrder(new, Buy) /\ new.applied
          /\ new.status = Buy.status /\ new.filled = Buy.filled
    BY <2>1 DEF MarksBuy
  <2>3. /\ m.pc \in {"markBuy", "markUnfilled"} /\ UNCHANGED <<pos, hold, overfilled>>
        /\ m'.pc \in {"placeTP1", "rows"}
    BY <2>1 DEF MarksBuy, Moves, SameCounts
  <2>4. /\ DOMAIN rows' = DOMAIN rows /\ TakeProfits' = TakeProfits /\ Buy' = new
    BY <1>0, <2>2, BuyRow, OneRow DEF Buy
  <2>5. Net' = Net /\ BuyDue' = 0
    BY <2>2, <2>3, <2>4 DEF Net, Pending, At, BuyDue
  <2>6. BuyDue = 0
    <3>1. m.pc = "markUnfilled" => Buy.bFilled = 0
      BY <1>0, <2>3, BuyRow DEF Shape, AtBuy, At, RowOK
    <3> QED  BY <2>3, <3>1 DEF BuyDue, At
  <2> QED  BY <1>1, <2>1, <2>3, <2>4, <2>5, <2>6, ShapeNumbers DEF BuyPlaces, Numbers
<1> QED  BY <1>2, <1>3, <1>4, <1>5

\* The fill that leaves the plan is taken out of the position next, and of no other order
\* that is still expected to sell: none has the same leg.
LEMMA FillPlanOnce == ASSUME Shape, Safe, SoldOnce, FillPlan PROVE SoldOnce'
<1>1. Types /\ Shape' /\ Credits
  BY FillPlanCredits, FillPlanShape DEF Shape
<1>2. CASE UNCHANGED plan /\ Leave
  <2>1. Quiet
    BY <1>1, <1>2, LeftBehind, LiveLeaves, QuietSteps DEF Credits, SameCounts
  <2> QED  BY <1>1, <2>1, QuietOnce
<1>3. CASE /\ plan.active /\ Delta(m.cur) \in Nat /\ Delta(m.cur) <= pos.qty
           /\ plan' \in Plans /\ plan'.active = plan.active /\ plan'.target = plan.target
           /\ plan'.filled[Leg(m.cur)] = LegFilled(m.cur)
           /\ \A leg \in Legs : leg # Leg(m.cur) => plan'.filled[leg] = plan.filled[leg]
           /\ m' \in Runs /\ m'.pc = "sold" /\ m'.delta = Delta(m.cur) /\ m'.cur = m.cur
           /\ m'.todo = m.todo /\ m'.fills = m.fills /\ m'.job = m.job
           /\ m'.tp1 = m.tp1 /\ m'.recover = m.recover /\ m'.exit = m.exit
  <2>0. PICK c, leg, x : c = m.cur /\ leg = Leg(c) /\ x = Delta(c)
    OBVIOUS
  <2>1. /\ m.pc = "sell" /\ UNCHANGED <<pos, rows, hold, overfilled>> /\ c \in TakeProfits /\ c \in DOMAIN rows
        /\ c \in Live /\ leg \in Legs /\ rows[c].bStatus # "GONE"
    BY <1>1, <2>0, RowTypes DEF Credits, SameCounts, Shape, AtSell, SellPlaces, TakeProfits, Live, At
  <2>2. x \in Nat /\ TakeProfits' = TakeProfits
    BY <1>3, <2>0, <2>1 DEF TakeProfits
  <2>3. Live' \subseteq Live
    BY <1>3, <2>1 DEF Live, At, OpenTakeProfits, TakeProfits, OpenRow
  <2>4. Net = pos.qty /\ Net' = pos.qty - x /\ BuyDue' = BuyDue /\ pos.qty \in Nat
    BY <1>1, <1>3, <2>0, <2>1 DEF Net, Pending, At, BuyDue, Buy, Types
  <2>5. ASSUME NEW j \in TakeProfits \ {c} PROVE Expected(j)' <= Expected(j)
    <3>1. CASE j \in Live'
      <4>1. j \in Live /\ j # c /\ Leg(j) # leg /\ j \in DOMAIN rows /\ Leg(j) \in Legs
        BY <1>1, <2>0, <2>1, <2>3, <2>5, <3>1, RowTypes DEF Safe, OneLivePerLeg, TakeProfits
      <4>2. SameLeg(Leg(j)) /\ SameRow(j)
        BY <1>3, <2>0, <2>1, <4>1 DEF SameLeg, SameRow, SameOrder
      <4> QED  BY <1>1, <2>1, <2>5, <4>1, <4>2, ExpectedStays
    <3>2. CASE j \notin Live'
      <4>1. Expected(j)' = 0 /\ Expected(j) \in Nat
        BY <2>5, <3>2, ShapeNumbers DEF Expected, Numbers
      <4> QED  BY <4>1
    <3> QED  BY <3>1, <3>2
  <2>6. PICK y \in Nat, z \in Nat, b \in Nat : y = Expected(c) /\ z = Expected(c)' /\ b = rows[c].bFilled - rows[c].filled
    BY <1>1, <2>1, <2>2, ShapeNumbers, ShapeNumbersNext, RowTypes DEF Numbers, RowOK
  <2>7. y = b + x
    <3>1. Greatest(0, x) = x
      BY <2>2 DEF Greatest
    <3> HIDE DEF Delta
    <3> QED  BY <2>0, <2>1, <2>6, <3>1 DEF Expected
  <2>8. z <= b
    <3>1. Delta(c)' = 0
      <4>1. LegFilled(c)' = LegFilled(c) /\ Leg(c)' = leg /\ LegFilled(c) \in Nat
        BY <1>1, <1>3, <2>0, <2>1, LegTypes DEF LegFilled, Leg
      <4> QED  BY <1>3, <2>0, <4>1 DEF Delta
    <3>2. Greatest(0, 0) = 0
      BY DEF Greatest
    <3> HIDE DEF Delta
    <3> QED  BY <2>1, <2>6, <3>1, <3>2 DEF Expected
  <2>9. 0 \in Int /\ hold' <= hold + 0 /\ Net + BuyDue + 0 + (Expected(c)' - Expected(c)) <= Net' + BuyDue'
    <3>1. hold \in Nat /\ BuyDue \in Nat
      BY ShapeNumbers DEF Numbers
    <3>2. PICK q \in Nat, d \in Nat : q = pos.qty /\ d = BuyDue
      BY <2>4, <3>1
    <3>3. q + d + 0 + (z - y) <= q - x + d
      BY <2>2, <2>7, <2>8
    <3> QED  BY <2>1, <2>4, <2>6, <3>1, <3>2, <3>3
  <2> QED  BY <1>1, <2>1, <2>2, <2>5, <2>9, OnceRow
<1> QED  BY <1>1, <1>2, <1>3 DEF Credits

LEMMA RemoveSharesOnce == ASSUME Shape, SoldOnce, RemoveShares PROVE SoldOnce'
<1>1. Types /\ Shape' /\ Removes
  BY RemoveSharesRemoves, RemoveSharesShape DEF Shape
<1>2. /\ m.pc = "sold" /\ UNCHANGED <<plan, rows, hold, overfilled>> /\ Moves("markSell")
      /\ pos'.qty = pos.qty - m.delta
  BY <1>1 DEF Removes, SameCounts
<1>3. Net' = Net /\ BuyDue' = BuyDue
  BY <1>1, <1>2 DEF Net, Pending, Moves, At, BuyDue, Buy, Types, Removes
<1>4. Quiet
  BY <1>2, <1>3, LiveMoves DEF Quiet, SameLeg
<1> QED  BY <1>1, <1>4, QuietOnce

LEMMA MarkSellOnce == ASSUME Shape, SoldOnce, MarkSell PROVE SoldOnce'
<1>1. Types /\ Shape' /\ Closes
  BY MarkSellCloses, MarkSellShape DEF Shape
<1>2. PICK new \in Rows :
          /\ Writes(m.cur, new) /\ SameOrder(new, rows[m.cur])
          /\ new.status = rows[m.cur].status /\ new.filled = rows[m.cur].filled
          /\ new.bStatus = rows[m.cur].bStatus /\ new.bFilled = rows[m.cur].bFilled
  BY <1>1 DEF Closes
<1>3. /\ m.pc = "markSell" /\ UNCHANGED <<pos, hold, overfilled>> /\ GoesOn
      /\ plan'.target = plan.target /\ plan'.filled = plan.filled
  BY <1>1 DEF Closes, SameCounts
<1>4. m.cur \in DOMAIN rows /\ m.cur # 1
  BY <1>3 DEF Shape, AtSell, BuyFirst, SellPlaces, TakeProfits
<1>5. /\ DOMAIN rows' = DOMAIN rows /\ TakeProfits' = TakeProfits /\ Buy' = Buy
      /\ rows'[m.cur] = new /\ \A j \in DOMAIN rows : j # m.cur => rows'[j] = rows[j]
  BY <1>1, <1>2, <1>4, OneRow
<1>6. Net' = Net /\ BuyDue' = BuyDue
  BY <1>3, <1>5 DEF Net, Pending, GoesOn, At, BuyDue
<1>7. Live' \subseteq Live
  <2>1. OpenTakeProfits' = OpenTakeProfits
    BY <1>2, <1>5, LiveRows DEF OpenTakeProfits, OpenRow
  <2> QED  BY <1>3, <2>1 DEF Live, GoesOn, At
<1>8. \A leg \in Legs : SameLeg(leg)
  BY <1>3 DEF SameLeg
<1>9. 0 \in Int /\ hold' <= hold + 0 /\ Net + BuyDue + 0 <= Net' + BuyDue'
  BY <1>3, <1>6, SidesStay
<1> QED  BY <1>1, <1>2, <1>3, <1>4, <1>7, <1>8, <1>9, OnceWrites

\* The sum with a new row, in terms of what the others expect after the step.
LEMMA ExpectedAppended ==
    ASSUME Shape, Shape', NEW k, k \notin TakeProfits, TakeProfits' = TakeProfits \cup {k}, Expected(k)' = 0,
           \A j \in TakeProfits : Expected(j)' <= Expected(j)
    PROVE  ExpectedShares' <= ExpectedShares + 0
<1> DEFINE f == [i \in TakeProfits |-> Expected(i)]
<1> DEFINE g == [i \in TakeProfits |-> Expected(i)']
<1> DEFINE h == [i \in TakeProfits \cup {k} |-> Expected(i)']
<1>1. /\ f \in [TakeProfits -> Int] /\ g \in [TakeProfits -> Int] /\ IsFiniteSet(TakeProfits)
      /\ h \in [TakeProfits \cup {k} -> Int] /\ h[k] = 0
      /\ \A j \in TakeProfits : g[j] <= f[j] /\ h[j] = g[j]
  BY ShapeNumbers, ShapeNumbersNext DEF Numbers
<1>2. SumFunction(h) = SumFunction(g) + 0 /\ SumFunction(g) <= SumFunction(f)
      /\ SumFunction(g) \in Int /\ SumFunction(f) \in Int
  <2> HIDE DEF f, g, h
  <2> QED  BY <1>1, SumAdds, SumMonotone, SumType
<1>3. ExpectedShares = SumFunction(f) /\ ExpectedShares' = SumFunction(h)
  BY DEF ExpectedShares
<1> HIDE DEF f, g, h
<1> QED  BY <1>2, <1>3

\* An order that has been placed is not expected to sell more than its leg, or the
\* position, has left; one that was filled at once is not expected at all.
LEMMA SubmitsOnce ==
    ASSUME Shape, Shape', Safe', SoldOnce, NEW purpose \in {"TP1", "TP2", "EXIT"}, NEW n \in Nat \ {0},
           NEW next \in {"placeTP2", "rows", "jobs"}, Submits(purpose, n, next), m.pc \in SubmitPlaces
    PROVE  SoldOnce'
<1>1. PICK new \in Rows :
          /\ rows' = Append(rows, new) /\ new.purpose = purpose
          /\ \/ new.status = "OPEN" /\ new.filled = 0 /\ new.bFilled = 0 /\ hold' = hold
             \/ new.status # "OPEN" /\ n <= hold /\ hold' = hold - n
             \/ new.status # "OPEN" /\ hold' = hold
          /\ overfilled => overfilled'
          /\ Moves(next) \/ Leave
  BY DEF Submits
<1>2. Types /\ UNCHANGED <<pos, plan>>
  BY DEF Shape, Submits
<1>3. PICK k : k = Len(rows) + 1
  OBVIOUS
<1>4. /\ DOMAIN rows' = DOMAIN rows \cup {k} /\ k \notin DOMAIN rows
      /\ rows'[k] = new /\ \A j \in DOMAIN rows : rows'[j] = rows[j]
  BY <1>1, <1>2, <1>3, RowAppended
<1>5. TakeProfits' = TakeProfits \cup {k} /\ k \notin TakeProfits /\ Buy' = Buy
  BY <1>1, <1>2, <1>4, BuyRow DEF TakeProfits, Buy
<1>6. m'.fills = m.fills /\ m.fills = {} /\ m'.pc \in {"placeTP2", "rows", "jobs", "idle"}
  BY <1>1, LeftBehind DEF Moves, Shape, Control, SubmitPlaces, SettlePlaces, SellPlaces
<1>7. Net' = Net /\ BuyDue' = BuyDue
  BY <1>2, <1>5, <1>6 DEF Net, Pending, At, BuyDue, SubmitPlaces
<1>8. ASSUME NEW j \in TakeProfits PROVE Expected(j)' <= Expected(j)
  <2>1. j \in DOMAIN rows /\ SameRow(j) /\ SameLeg(Leg(j))
    BY <1>2, <1>4, <1>8 DEF TakeProfits, SameRow, SameOrder, SameLeg
  <2>2. j \in Live' => j \in Live
    <3>1. j \in OpenTakeProfits' => j \in OpenTakeProfits
      BY <1>4, <1>8, <2>1 DEF OpenTakeProfits, OpenRow
    <3> QED  BY <1>6, <3>1 DEF Live, At
  <2> QED  BY <1>4, <1>8, <2>1, <2>2, ExpectedStays
<1>9. Expected(k)' = 0
  <2>1. CASE new.status = "OPEN" /\ k \in Live'
    <3>1. PICK t, c, p : t = plan'.target[Leg(k)'] /\ c = Base(k)' /\ p = plan'.filled[Leg(k)']
      OBVIOUS
    <3>2. c <= p
      BY <2>1, <3>1 DEF Safe, LiveOK
    <3>3. Leg(k)' \in Legs /\ rows'[k].filled = 0 /\ rows'[k].bFilled = 0 /\ rows'[k].qty \in Nat
      BY <1>1, <1>4, <2>1 DEF Leg, Legs, Rows, RowRecords
    <3>4. t \in Nat /\ p \in Nat
      BY <1>2, <3>1, <3>3, PlanTypes
    <3>5. c = Greatest(0, t - rows'[k].qty) /\ c \in Nat
      BY <3>1, <3>3, <3>4 DEF Base, Greatest
    <3>6. Delta(k)' = Least(t, c + 0) - p
      BY <3>1, <3>3, <3>5 DEF Delta, LegFilled
    <3>7. Greatest(0, Delta(k)') = 0 /\ 0 - 0 + 0 = 0
      <4>1. PICK d \in Int : d = Delta(k)' /\ d <= 0
        BY <3>2, <3>4, <3>5, <3>6 DEF Least
      <4>2. Greatest(0, d) = 0
        BY <4>1 DEF Greatest
      <4> QED  BY <4>1, <4>2
    <3> HIDE DEF Delta
    <3> QED  BY <3>3, <3>7 DEF Expected
  <2>2. CASE k \notin Live'
    BY <2>2 DEF Expected
  <2>3. CASE new.status # "OPEN"
    <3>1. k \notin Live'
      BY <1>4, <1>6, <2>3 DEF Live, At, OpenTakeProfits, OpenRow
    <3> QED  BY <3>1 DEF Expected
  <2> QED  BY <2>1, <2>2, <2>3
<1>10. ExpectedShares' <= ExpectedShares + 0
  BY <1>5, <1>8, <1>9, ExpectedAppended
<1>11. 0 \in Int /\ hold' <= hold + 0 /\ Net + BuyDue + 0 + 0 <= Net' + BuyDue'
  <2>1. hold \in Nat /\ Net \in Nat /\ BuyDue \in Nat
    BY ShapeNumbers DEF Numbers
  <2>2. hold' <= hold + 0
    BY <1>1, <2>1
  <2> QED  BY <1>7, <2>1, <2>2
<1> QED  BY <1>1, <1>10, <1>11, ShapeNumbers, ShapeNumbersNext, OnceWeighs

LEMMA PlacementOnce == ASSUME Shape, Safe, SoldOnce, PlaceTP1 \/ PlaceTP2 \/ PlaceExit PROVE SoldOnce'
<1>1. Left("TP1") \in Nat /\ Left("TP2") \in Nat /\ pos.qty \in Nat /\ Shape' /\ Safe'
  BY PlanTypes, PlacementShape, PlacementSafe DEF Legs, Shape
<1>2. Placed \in {"rows", "jobs"}
  BY DEF Placed
<1>3. ASSUME NEW next \in {"placeTP2", "rows", "jobs"}, PassesOver(next), m.pc \in SubmitPlaces
      PROVE  SoldOnce'
  <2>1. Quiet
    BY <1>3, LiveMoves, QuietSteps DEF PassesOver, SameBooks, SameCounts, SubmitPlaces, Moves
  <2> QED  BY <1>1, <2>1, QuietOnce
<1> HIDE DEF Left, Placed
<1> QED  BY <1>1, <1>2, <1>3, Placement, SubmitsOnce DEF SubmitPlaces

\* A new process knows no fill that it has not stored, and expects none of the orders
\* that it has restored.
LEMMA CrashOnce == ASSUME Shape, Safe, Crash PROVE SoldOnce'
<1>1. Types /\ Shape' /\ Restarts
  BY CrashShape DEF Shape
<1>2. UNCHANGED <<pos, plan>> /\ DOMAIN rows' = DOMAIN rows /\ hold' = pos.qty /\ pos.qty \in Nat
  BY <1>1 DEF Restarts, Types
<1>3. m'.fills = {} /\ m'.pc = "idle"
  BY <1>1, LeftBehind DEF Restarts
<1>4. ASSUME NEW j \in TakeProfits' PROVE Expected(j)' = 0
  <2>1. /\ j \in DOMAIN rows /\ SameOrder(rows'[j], rows[j]) /\ rows'[j].status = rows[j].status
        /\ rows'[j].filled = rows[j].filled /\ rows'[j].bFilled = rows[j].filled
        /\ rows[j].status = "OPEN" /\ rows[j].filled > 0 => rows'[j].bStatus = "GONE"
    BY <1>1, <1>2 DEF Restarts, TakeProfits
  <2>2. CASE j \in Live' /\ rows'[j].bStatus # "GONE"
    <3>1. j \in OpenTakeProfits
      BY <1>2, <1>3, <2>1, <2>2 DEF Live, At, OpenTakeProfits, TakeProfits, OpenRow, SameOrder
    <3>2. rows[j].filled = 0
      BY <1>1, <2>1, <2>2, <3>1, RowTypes DEF OpenTakeProfits, OpenRow
    <3>3. PICK t, c, p : t = plan.target[Leg(j)] /\ c = Base(j) /\ p = plan.filled[Leg(j)]
      OBVIOUS
    <3>4. c <= p /\ c \in Nat /\ p \in Nat /\ t \in Nat
      BY <1>1, <2>1, <3>1, <3>3, LegTypes, PlanTypes, RowTypes DEF Safe, LiveOK, Live
    <3>5. Leg(j)' = Leg(j) /\ Base(j)' = c
      BY <1>2, <2>1, <3>3 DEF Leg, SameOrder, Base
    <3>6. Delta(j)' = Least(t, c + 0) - p
      BY <1>2, <2>1, <3>2, <3>3, <3>5 DEF Delta, LegFilled, Base
    <3>7. Greatest(0, Delta(j)') = 0
      <4>1. PICK d \in Int : d = Delta(j)' /\ d <= 0
        BY <3>4, <3>6 DEF Least
      <4>2. Greatest(0, d) = 0
        BY <4>1 DEF Greatest
      <4> QED  BY <4>1, <4>2
    <3>8. 0 - 0 + 0 = 0
      OBVIOUS
    <3> HIDE DEF Delta
    <3> QED  BY <2>1, <3>2, <3>7, <3>8 DEF Expected
  <2>3. CASE ~(j \in Live' /\ rows'[j].bStatus # "GONE")
    BY <2>3 DEF Expected
  <2> QED  BY <2>2, <2>3
<1>5. ExpectedShares' = 0
  <2>1. PICK S : S = TakeProfits' /\ IsFiniteSet(S)
    BY <1>1, ShapeNumbersNext DEF Numbers
  <2> DEFINE g == [i \in S |-> Expected(i)']
  <2>2. g \in [S -> Int] /\ \A i \in S : g[i] = 0
    BY <1>4, <2>1
  <2>3. SumFunction(g) = 0
    <3> HIDE DEF g
    <3> QED  BY <2>1, <2>2, SumOfZeros
  <2> QED  BY <2>1, <2>3 DEF ExpectedShares
<1>6. Net' = pos.qty /\ BuyDue' \in Nat
  BY <1>1, <1>2, <1>3, ShapeNumbersNext DEF Net, Pending, At, Numbers
<1>7. hold' + ExpectedShares' <= Net' + BuyDue'
  <2>1. PICK b \in Nat, q \in Nat : b = BuyDue' /\ q = pos.qty
    BY <1>2, <1>6
  <2>2. q + 0 <= q + b
    OBVIOUS
  <2> QED  BY <1>2, <1>5, <1>6, <2>1, <2>2
<1> QED  BY <1>7 DEF SoldOnce

-----------------------------------------------------------------------------
(* Sold once is inductive *)

LEMMA InitOnce == ASSUME Init PROVE SoldOnce
<1>1. Begins /\ Shape
  BY InitBegins, InitShape
<1>2. TakeProfits = {}
  BY <1>1 DEF Begins, TakeProfits, Shape, BuyFirst
<1>3. ExpectedShares = 0
  <2> DEFINE f == [i \in TakeProfits |-> Expected(i)]
  <2>1. f \in [TakeProfits -> Int]
    BY <1>2
  <2>2. SumFunction(f) = 0
    <3> HIDE DEF f
    <3> QED  BY <1>2, <2>1, SumOfFew
  <2> QED  BY <2>2 DEF ExpectedShares
<1>4. hold = pos.qty /\ Net = pos.qty /\ pos.qty \in Nat /\ BuyDue = 0
  BY <1>1 DEF Begins, Net, Pending, BuyDue, Idle, At
<1> QED  BY <1>3, <1>4 DEF SoldOnce

LEMMA NextOnce == ASSUME Shape, Safe, SoldOnce, Next PROVE SoldOnce'
<1>1. Kinds
  BY NextKinds
<1>2. ASSUME Shape' /\ Quiet PROVE SoldOnce'
  BY <1>2, QuietOnce
<1> QED
  BY <1>1, <1>2, ControlQuiet, SaysQuiet, RefreshRowOnce, SettleRowOnce, BuyOnce, FillPlanOnce, RemoveSharesOnce,
     MarkSellOnce, PlacementOnce, BrokerActsOnce, CrashOnce
  DEF Kinds

LEMMA StutterOnce == ASSUME Shape, SoldOnce, UNCHANGED vars PROVE SoldOnce'
<1>1. Shape'
  BY StutterShape
<1>2. Quiet
  BY DEF vars, Quiet, SameLeg, Net, Pending, BuyDue, Buy, Live, At, OpenTakeProfits, TakeProfits, OpenRow
<1> QED  BY <1>1, <1>2, QuietOnce

\* What the BUY has brought is what its row has at the broker.
LEMMA BuyBrings ==
    ASSUME Shape
    PROVE  LET due == SumFunction([i \in UnappliedBuys |-> rows[i].bFilled])
           IN  due \in Nat /\ BuyDue <= due /\ (~At("markBuy") => due = BuyDue)
<1> DEFINE f == [i \in UnappliedBuys |-> rows[i].bFilled]
<1>1. UnappliedBuys = (IF Buy.applied THEN {} ELSE {1}) /\ Buy.bFilled \in Nat
  BY BuyRow DEF UnappliedBuys, Shape, BuyFirst, Buy, Rows, RowRecords
<1>2. SumFunction(f) \in Nat /\ BuyDue <= SumFunction(f) /\ (~At("markBuy") => SumFunction(f) = BuyDue)
  <2>1. CASE Buy.applied
    <3>1. UnappliedBuys = {} /\ BuyDue = 0 /\ f \in [UnappliedBuys -> Int]
      BY <1>1, <2>1 DEF BuyDue
    <3>2. SumFunction(f) = 0
      <4> HIDE DEF f
      <4> QED  BY <3>1, SumOfFew
    <3> QED  BY <3>1, <3>2
  <2>2. CASE ~Buy.applied
    <3>1. /\ UnappliedBuys = {1} /\ BuyDue = (IF At("markBuy") THEN 0 ELSE Buy.bFilled)
          /\ f \in [UnappliedBuys -> Int] /\ f[1] = Buy.bFilled
      BY <1>1, <2>2 DEF BuyDue, Buy
    <3>2. SumFunction(f) = f[1]
      <4> HIDE DEF f
      <4> QED  BY <3>1, SumOfFew
    <3> HIDE DEF f
    <3> QED  BY <1>1, <3>1, <3>2
  <2> QED  BY <2>1, <2>2
<1> QED  BY <1>2

LEMMA SharesSoldOnce == ASSUME Shape, SoldOnce PROVE NoShareSoldTwice
<1> DEFINE f == [i \in UnappliedBuys |-> rows[i].bFilled]
<1>1. Net \in Nat /\ BuyDue \in Nat /\ hold \in Nat /\ pos.qty \in Nat /\ Net <= pos.qty /\ ExpectedShares \in Nat
  BY ShapeNumbers DEF Numbers
<1>2. SumFunction(f) \in Nat /\ BuyDue <= SumFunction(f)
  BY BuyBrings
<1>3. overfilled \/ hold <= pos.qty + SumFunction(f)
  <2> HIDE DEF f
  <2> QED  BY <1>1, <1>2 DEF SoldOnce
<1> QED  BY <1>3 DEF NoShareSoldTwice

\* No share is taken out of the position twice: NoShareSoldTwice, for any position,
\* fraction and number of orders, crashes and failures.
THEOREM EveryShareIsSoldOnce == Spec => []NoShareSoldTwice
<1>1. Init => Shape /\ Safe /\ SoldOnce
  BY InitShape, InitSafe, InitOnce
<1>2. (Shape /\ Safe /\ SoldOnce) /\ [Next]_vars => (Shape /\ Safe /\ SoldOnce)'
  BY NextShape, StutterShape, NextSafe, StutterSafe, NextOnce, StutterOnce
<1>3. Shape /\ Safe /\ SoldOnce => NoShareSoldTwice
  BY SharesSoldOnce
<1> QED  BY <1>1, <1>2, <1>3, PTL DEF Spec

-----------------------------------------------------------------------------
(* Without a crash: the steps that touch no book *)

\* Where no fill is remembered, the live orders are those that are open.
LEMMA LiveIsOpen ==
    ASSUME Shape, m.pc \notin SettlePlaces \cup SellPlaces
    PROVE  Live = OpenTakeProfits /\ m.fills = {}
BY DEF Shape, Control, Live, At, SellPlaces

\* The places of a step at which plan and position, or position and row, differ.
Halfway == {"bought", "markBuy", "markUnfilled", "sold", "markSell"}

\* The pass moves, and forgets no fill.
Passing ==
    /\ UNCHANGED <<pos, plan, rows, hold, overfilled, crashes>>
    /\ m.pc \notin Halfway \cup {"sell"} /\ m'.pc \notin Halfway
    /\ Live' = Live

\* From where no fill is remembered, none is forgotten.
LEMMA NothingForgotten ==
    ASSUME Shape, UNCHANGED <<pos, plan, rows, hold, overfilled, crashes>>,
           m.pc \notin Halfway \cup SettlePlaces \cup SellPlaces, m'.pc \notin Halfway, Live' \subseteq Live
    PROVE  Passing
<1>1. Live = OpenTakeProfits
  BY LiveIsOpen
<1>2. OpenTakeProfits' = OpenTakeProfits
  BY DEF OpenTakeProfits, TakeProfits, OpenRow
<1>3. OpenTakeProfits' \subseteq Live'
  BY DEF Live
<1> QED  BY <1>1, <1>2, <1>3 DEF Passing, SellPlaces

LEMMA ControlPasses ==
    ASSUME Shape, Begin \/ BuyGoesOn \/ PassDone \/ Done \/ Settled \/ Replace \/ RefreshFails
    PROVE  Shape' /\ Passing
<1>1. Shape' /\ Live' \subseteq Live /\ Types
  BY ControlQuiet DEF Quiet, Shape
<1>2. CASE Begin
  <2>1. UNCHANGED <<pos, plan, rows, hold, overfilled, crashes>> /\ m.pc = "idle" /\ m'.pc = "rows"
    BY <1>2 DEF Begin, Idle, At
  <2> QED  BY <1>1, <2>1, NothingForgotten DEF Halfway, SettlePlaces, SellPlaces
<1>3. CASE BuyGoesOn \/ PassDone
  <2>1. UNCHANGED <<pos, plan, rows, hold, overfilled, crashes>> /\ m.pc \in {"buy", "rows"}
        /\ \E pc \in {"rows", "jobs"} : Goto(pc)
    BY <1>3 DEF BuyGoesOn, PassDone, At
  <2>2. m'.pc \in {"rows", "jobs"}
    BY <1>1, <2>1, GotoMoves DEF Places, Moves
  <2> QED  BY <1>1, <2>1, <2>2, NothingForgotten DEF Halfway, SettlePlaces, SellPlaces
<1>4. CASE Done \/ RefreshFails
  <2>1. UNCHANGED <<pos, plan, rows, hold, overfilled, crashes>> /\ m.pc \in {"jobs", "rows"} /\ Leave
    BY <1>4 DEF Done, RefreshFails, At
  <2> QED  BY <1>1, <2>1, LeftBehind, NothingForgotten DEF Halfway, SettlePlaces, SellPlaces
<1>5. CASE Settled \/ Replace
  <2>1. UNCHANGED <<pos, plan, rows, hold, overfilled, crashes>> /\ m.pc \in {"settle", "credit"}
        /\ \E pc \in {"credit", "placeTP1", "placeExit", "jobs"} : Goto(pc)
    BY <1>5 DEF Settled, Replace, At
  <2>2. PICK pc \in {"credit", "placeTP1", "placeExit", "jobs"} : Moves(pc)
    BY <1>1, <2>1, GotoMoves DEF Places, SettlePlaces, SubmitPlaces
  <2>3. Live' = Live
    BY <2>1, <2>2 DEF Live, Moves, At, OpenTakeProfits, TakeProfits, OpenRow
  <2> QED  BY <1>1, <2>1, <2>2, <2>3 DEF Passing, Moves, Halfway
<1> QED  BY <1>1, <1>2, <1>3, <1>4, <1>5

LEMMA SaysPasses ==
    ASSUME Shape,
           \/ RefreshAfterTP1 \/ RecoverTakeProfits \/ RecoverExit \/ SwitchToExit
           \/ \E i \in m.fills : CreditFill(i)
    PROVE  Shape' /\ Passing
<1>1. Shape' /\ Live' \subseteq Live
  BY SaysQuiet DEF Quiet
<1>2. CASE RefreshAfterTP1 \/ RecoverTakeProfits \/ RecoverExit \/ SwitchToExit
  <2>1. PICK job \in {"tp1", "recover", "exit", "switch"} : JobBegins(job)
    BY <1>2, JobsBegin
  <2>2. UNCHANGED <<pos, plan, rows, hold, overfilled, crashes>> /\ m.pc = "jobs" /\ m'.pc = "settle"
    BY <2>1, JobShape DEF Jobs, JobBegins, SameBooks, SameCounts
  <2> QED  BY <1>1, <2>2, NothingForgotten DEF Halfway, SettlePlaces, SellPlaces
<1>3. CASE \E i \in m.fills : CreditFill(i)
  <2>1. PICK i \in m.fills : CreditFill(i)
    BY <1>3
  <2>2. /\ UNCHANGED <<pos, plan, rows, hold, overfilled, crashes>> /\ m.pc = "credit"
        /\ m'.pc = "sell" /\ m'.cur = i /\ m'.fills = m.fills \ {i}
    BY <2>1, CreditFillShape DEF SameBooks, SameCounts
  <2>3. Live' = Live
    BY <2>1, <2>2 DEF Live, At, OpenTakeProfits, TakeProfits, OpenRow
  <2> QED  BY <1>1, <2>2, <2>3 DEF Passing, Halfway
<1> QED  BY <1>2, <1>3

\* A leg that is passed over.
LEMMA PassesOverPasses ==
    ASSUME Shape, NEW next \in {"placeTP2", "rows", "jobs"}, PassesOver(next), m.pc \in SubmitPlaces
    PROVE  Passing
<1>1. UNCHANGED <<pos, plan, rows, hold, overfilled, crashes>> /\ m'.pc = next /\ Live' \subseteq Live
  BY LiveMoves DEF PassesOver, SameBooks, SameCounts, Moves
<1> QED  BY <1>1, NothingForgotten DEF Halfway, SubmitPlaces, SettlePlaces, SellPlaces

-----------------------------------------------------------------------------
(* The plan is exact: orders and plan stay as they are *)

\* What the plan has left of each leg, and of both.
LEMMA LeftTypes ==
    ASSUME Shape
    PROVE  /\ \A leg \in Legs : /\ Left(leg) \in Nat /\ plan.target[leg] \in Nat /\ plan.filled[leg] \in Nat
                                /\ Left(leg) = plan.target[leg] - plan.filled[leg]
           /\ Left("TP1") \in Nat /\ Left("TP2") \in Nat
           /\ \A leg \in Legs : Left(leg) <= Left("TP1") + Left("TP2")
<1>1. \A leg \in Legs : /\ Left(leg) \in Nat /\ plan.target[leg] \in Nat /\ plan.filled[leg] \in Nat
                        /\ Left(leg) = plan.target[leg] - plan.filled[leg]
  BY PlanTypes DEF Shape, Left
<1>2. Left("TP1") \in Nat /\ Left("TP2") \in Nat
  BY <1>1 DEF Legs
<1> HIDE DEF Left
<1> QED  BY <1>1, <1>2 DEF Legs

\* An order is not placed for less than its leg has left.
LEMMA LeftWithinOrder ==
    ASSUME Shape, Safe, NEW i \in Live, Exact(i)
    PROVE  Left(Leg(i)) <= rows[i].qty
<1>1. i \in DOMAIN rows /\ Leg(i) \in Legs /\ rows[i].qty \in Nat /\ LiveOK(i)
  BY LiveRows, RowTypes DEF Safe, Shape
<1>2. PICK t \in Nat, p \in Nat : t = plan.target[Leg(i)] /\ p = plan.filled[Leg(i)] /\ Left(Leg(i)) = t - p
  BY <1>1, LeftTypes
<1>3. Base(i) = Greatest(0, t - rows[i].qty) /\ Base(i) <= p /\ rows[i].qty <= t
  BY <1>1, <1>2 DEF Base, LiveOK, Exact
<1>4. t - rows[i].qty <= p
  BY <1>1, <1>2, <1>3 DEF Greatest
<1> QED  BY <1>1, <1>2, <1>4

LEMMA ExactStays ==
    ASSUME Shape, Shape', PlanIsExact, DOMAIN rows' = DOMAIN rows, NoneGone', StateFits',
           \A j \in TakeProfits : /\ SameOrder(rows'[j], rows[j])
                                  /\ rows'[j].filled = rows[j].filled /\ rows'[j].status = rows[j].status,
           \A leg \in Legs : SameLeg(leg), Net' = Net, At("bought") => At("bought")', Live' \subseteq Live,
           \A i \in Live' : OpenRow(i) /\ At("sell") /\ i = m.cur =>
               Left(Leg(i)) = rows[i].qty - rows[i].filled \/ (At("sell")' /\ i = m'.cur),
           IsCredited' => IsCredited /\ m'.cur = m.cur
    PROVE  PlanIsExact'
<1>1. \A leg \in Legs : Left(leg)' = Left(leg) /\ plan'.target[leg] = plan.target[leg]
  BY DEF SameLeg, Left
<1>2. \A j \in TakeProfits :
          /\ j \in DOMAIN rows /\ Leg(j) \in Legs /\ Leg(j)' = Leg(j) /\ rows'[j].qty = rows[j].qty
          /\ Left(Leg(j))' = Left(Leg(j)) /\ plan'.target[Leg(j)'] = plan.target[Leg(j)]
          /\ OpenRow(j)' = OpenRow(j)
  <2>1. ASSUME NEW j \in TakeProfits
        PROVE  /\ j \in DOMAIN rows /\ Leg(j) \in Legs /\ Leg(j)' = Leg(j) /\ rows'[j].qty = rows[j].qty
               /\ OpenRow(j)' = OpenRow(j)
    <3>1. j \in DOMAIN rows /\ Leg(j) \in Legs
      BY <2>1, LiveRows, RowTypes DEF Shape
    <3>2. SameOrder(rows'[j], rows[j]) /\ rows'[j].status = rows[j].status
      BY <2>1
    <3> QED  BY <3>1, <3>2 DEF SameOrder, Leg, OpenRow
  <2>2. ASSUME NEW j \in TakeProfits
        PROVE  Left(Leg(j))' = Left(Leg(j)) /\ plan'.target[Leg(j)'] = plan.target[Leg(j)]
    <3>1. PICK leg \in Legs : leg = Leg(j) /\ Leg(j)' = leg
      BY <2>1, <2>2
    <3>2. Left(Leg(j))' = plan'.target[leg] - plan'.filled[leg]
      BY <3>1 DEF Left
    <3> QED  BY <3>1, <3>2 DEF Left, SameLeg
  <2> QED  BY <2>1, <2>2
<1>3. ASSUME ~At("bought")' PROVE Net' = Left("TP1")' + Left("TP2")'
  <2>1. Net = Left("TP1") + Left("TP2")
    BY <1>3 DEF PlanIsExact
  <2>2. Left("TP1")' = Left("TP1") /\ Left("TP2")' = Left("TP2")
    BY <1>1 DEF Legs
  <2> HIDE DEF Left
  <2> QED  BY <2>1, <2>2
<1>4. ASSUME NEW i \in Live' PROVE Exact(i)'
  <2>1. Exact(i) /\ i \in TakeProfits
    BY <1>4, LiveRows DEF PlanIsExact
  <2>2. rows'[i].filled = rows[i].filled /\ rows'[i].qty = rows[i].qty
    BY <1>2, <2>1
  <2>3. OpenRow(i) /\ ~(At("sell")' /\ i = m'.cur) => Left(Leg(i)) = rows[i].qty - rows[i].filled
    <3>1. CASE At("sell") /\ i = m.cur
      BY <1>4, <3>1
    <3>2. CASE ~(At("sell") /\ i = m.cur)
      BY <2>1, <3>2 DEF Exact
    <3> QED  BY <3>1, <3>2
  <2> HIDE DEF Left
  <2> QED  BY <1>2, <2>1, <2>2, <2>3 DEF Exact
<1>5. ASSUME IsCredited' PROVE SaleFits'
  <2>1. PICK c : c = m.cur /\ m'.cur = c /\ c \in TakeProfits /\ SaleFits
    BY <1>5 DEF PlanIsExact, IsCredited, Shape, AtSell, SellPlaces
  <2>2. /\ Left(Leg(c))' = Left(Leg(c)) /\ plan'.target[Leg(c)'] = plan.target[Leg(c)]
        /\ rows'[c].qty = rows[c].qty /\ rows'[c].filled = rows[c].filled
    BY <1>2, <2>1
  <2>3. Left(Leg(m.cur))' = Left(Leg(c))' /\ Leg(m.cur)' = Leg(c)'
    BY <2>1 DEF Leg, Left
  <2> HIDE DEF Left, Leg
  <2> QED  BY <2>1, <2>2, <2>3 DEF SaleFits
<1> QED  BY <1>3, <1>4, <1>5 DEF PlanIsExact

\* The steps that touch no book.
LEMMA PassingExact == ASSUME Shape, Shape', PlanIsExact, Passing PROVE PlanIsExact'
<1>1. /\ DOMAIN rows' = DOMAIN rows /\ NoneGone'
      /\ \A j \in TakeProfits : /\ SameOrder(rows'[j], rows[j])
                               /\ rows'[j].filled = rows[j].filled /\ rows'[j].status = rows[j].status
      /\ \A leg \in Legs : SameLeg(leg)
  BY DEF Passing, PlanIsExact, NoneGone, SameOrder, SameLeg
<1>2. Net' = Net /\ ~At("bought") /\ Live' \subseteq Live /\ ~At("sell") /\ ~IsCredited'
  BY DEF Passing, Net, Pending, At, Halfway, IsCredited
<1>3. StateFits'
  <2>1. pos' = pos /\ Buy' = Buy /\ Left("TP1")' = Left("TP1") /\ ~At("sold") /\ m.pc \notin {"markBuy", "markUnfilled"}
    BY DEF Passing, Buy, Left, At, Halfway
  <2> HIDE DEF Left
  <2> QED  BY <2>1 DEF PlanIsExact, StateFits
<1> QED  BY <1>1, <1>2, <1>3, ExactStays

\* Nothing was sold: an order that is still open offers all that its leg has left.
LEMMA NothingSoldExact == ASSUME Shape, Safe, PlanIsExact, NothingSold PROVE PlanIsExact'
<1>1. /\ Shape' /\ UNCHANGED <<pos, plan, rows>> /\ m.pc = "sell" /\ GoesOn /\ rows[m.cur].filled = 0
  BY NothingSoldShape DEF SameBooks
<1>2. m'.pc \in {"rows", "credit"} /\ Live' \subseteq Live
  BY <1>1 DEF Live, GoesOn, At, OpenTakeProfits, TakeProfits, OpenRow
<1>3. /\ DOMAIN rows' = DOMAIN rows /\ NoneGone'
      /\ \A j \in TakeProfits : /\ SameOrder(rows'[j], rows[j])
                               /\ rows'[j].filled = rows[j].filled /\ rows'[j].status = rows[j].status
      /\ \A leg \in Legs : SameLeg(leg)
  BY <1>1 DEF PlanIsExact, NoneGone, SameOrder, SameLeg
<1>4. Net' = Net /\ ~IsCredited' /\ ~At("bought")
  BY <1>1, <1>2 DEF Net, Pending, At, IsCredited
<1>5. StateFits'
  <2>1. pos' = pos /\ Buy' = Buy /\ Left("TP1")' = Left("TP1") /\ ~At("sold") /\ m.pc \notin {"markBuy", "markUnfilled"}
    BY <1>1 DEF Buy, Left, At
  <2> HIDE DEF Left
  <2> QED  BY <2>1 DEF PlanIsExact, StateFits
<1>6. Left(Leg(m.cur)) = rows[m.cur].qty - rows[m.cur].filled
  <2>1. m.cur \in Live /\ Exact(m.cur)
    BY <1>1 DEF Live, At, PlanIsExact
  <2>2. Left(Leg(m.cur)) <= rows[m.cur].qty /\ rows[m.cur].qty - 0 <= Left(Leg(m.cur))
    BY <1>1, <2>1, LeftWithinOrder DEF Exact
  <2>3. rows[m.cur].qty \in Nat /\ Left(Leg(m.cur)) \in Nat
    BY <2>1, LiveRows, RowTypes, LeftTypes DEF Shape
  <2> HIDE DEF Left
  <2> QED  BY <1>1, <2>2, <2>3
<1> QED  BY <1>1, <1>2, <1>3, <1>4, <1>5, <1>6, ExactStays

LEMMA RemoveSharesExact == ASSUME Shape, PlanIsExact, RemoveShares PROVE PlanIsExact'
<1>1. Shape' /\ Removes
  BY RemoveSharesRemoves, RemoveSharesShape
<1>2. /\ m.pc = "sold" /\ UNCHANGED <<plan, rows>> /\ Moves("markSell") /\ pos'.qty = pos.qty - m.delta
  BY <1>1 DEF Removes
<1>3. m'.pc = "markSell" /\ m'.cur = m.cur /\ Live' \subseteq Live
  BY <1>2, LiveMoves DEF Moves
<1>4. /\ DOMAIN rows' = DOMAIN rows /\ NoneGone'
      /\ \A j \in TakeProfits : /\ SameOrder(rows'[j], rows[j])
                               /\ rows'[j].filled = rows[j].filled /\ rows'[j].status = rows[j].status
      /\ \A leg \in Legs : SameLeg(leg)
  BY <1>2 DEF PlanIsExact, NoneGone, SameOrder, SameLeg
<1>5. Net' = Net /\ IsCredited /\ ~At("sell") /\ ~At("bought")
  <2>1. pos.qty \in Nat /\ m.delta \in Nat
    BY RunTypes DEF Shape, Types
  <2> QED  BY <1>2, <1>3, <2>1 DEF Net, Pending, At, IsCredited
<1>6. StateFits'
  <2>1. Buy.applied /\ Buy' = Buy /\ Left("TP1")' = Left("TP1")
    BY <1>2 DEF Shape, BuyFirst, SellPlaces, Buy, Left
  <2>2. pos'.state = "HOLDING" => Left("TP1") > 0
    BY <1>1 DEF Removes, PlanIsExact, StateFits
  <2> HIDE DEF Left
  <2> QED  BY <2>1, <2>2 DEF StateFits
<1> QED  BY <1>1, <1>2, <1>3, <1>4, <1>5, <1>6, ExactStays

LEMMA MarkSellExact == ASSUME Shape, PlanIsExact, MarkSell PROVE PlanIsExact'
<1>1. Types /\ Shape' /\ Closes
  BY MarkSellCloses, MarkSellShape DEF Shape
<1>2. PICK new \in Rows :
          /\ Writes(m.cur, new) /\ SameOrder(new, rows[m.cur])
          /\ new.status = rows[m.cur].status /\ new.filled = rows[m.cur].filled
          /\ new.bStatus = rows[m.cur].bStatus /\ new.bFilled = rows[m.cur].bFilled
  BY <1>1 DEF Closes
<1>3. /\ m.pc = "markSell" /\ UNCHANGED pos /\ GoesOn
      /\ plan'.target = plan.target /\ plan'.filled = plan.filled
  BY <1>1 DEF Closes
<1>4. m.cur \in DOMAIN rows /\ m.cur # 1 /\ Buy.applied
  BY <1>3 DEF Shape, AtSell, BuyFirst, SellPlaces, TakeProfits
<1>5. /\ DOMAIN rows' = DOMAIN rows /\ Buy' = Buy
      /\ rows'[m.cur] = new /\ \A j \in DOMAIN rows : j # m.cur => rows'[j] = rows[j]
  BY <1>1, <1>2, <1>4, OneRow
<1>6. \A j \in DOMAIN rows : /\ SameOrder(rows'[j], rows[j]) /\ rows'[j].bStatus = rows[j].bStatus
                             /\ rows'[j].filled = rows[j].filled /\ rows'[j].status = rows[j].status
  BY <1>2, <1>5 DEF SameOrder
<1>7. NoneGone' /\ TakeProfits \subseteq DOMAIN rows
  BY <1>5, <1>6 DEF PlanIsExact, NoneGone, TakeProfits
<1>8. Net' = Net /\ ~IsCredited' /\ ~At("sell") /\ ~At("bought") /\ ~At("sold")
  BY <1>3 DEF Net, Pending, At, GoesOn, IsCredited
<1>9. Live' \subseteq Live
  <2>1. OpenTakeProfits' = OpenTakeProfits
    BY <1>5, <1>6 DEF OpenTakeProfits, TakeProfits, OpenRow, SameOrder
  <2> QED  BY <1>3, <2>1 DEF Live, GoesOn, At
<1>10. \A leg \in Legs : SameLeg(leg)
  BY <1>3 DEF SameLeg
<1>11. StateFits'
  <2>1. Left("TP1")' = Left("TP1")
    BY <1>3 DEF Left
  <2> HIDE DEF Left
  <2> QED  BY <1>3, <1>4, <1>5, <1>8, <2>1 DEF PlanIsExact, StateFits
<1> QED  BY <1>1, <1>3, <1>5, <1>6, <1>7, <1>8, <1>9, <1>10, <1>11, ExactStays

\* What the broker does is not yet in the rows.
LEMMA BrokerActsExact == ASSUME Shape, PlanIsExact, NEW i \in DOMAIN rows, BrokerActs(i) PROVE PlanIsExact'
<1>1. Types /\ Shape' /\ UNCHANGED <<pos, plan>>
  BY BrokerActsShape DEF Shape, BrokerActs
<1>2. PICK new \in Rows :
          /\ Writes(i, new) /\ SameOrder(new, rows[i]) /\ new.applied = rows[i].applied
          /\ new.status = rows[i].status /\ new.filled = rows[i].filled /\ new.bStatus # "GONE"
          /\ m' = m \/ (Leave /\ m.pc = "rows")
  BY DEF BrokerActs
<1>3. /\ DOMAIN rows' = DOMAIN rows
      /\ rows'[i] = new /\ \A j \in DOMAIN rows : j # i => rows'[j] = rows[j]
      /\ Buy' = IF i = 1 THEN new ELSE Buy
  BY <1>1, <1>2, OneRow
<1>4. \A j \in DOMAIN rows : /\ SameOrder(rows'[j], rows[j]) /\ rows'[j].applied = rows[j].applied
                             /\ rows'[j].filled = rows[j].filled /\ rows'[j].status = rows[j].status
  BY <1>2, <1>3 DEF SameOrder
<1>5. NoneGone' /\ TakeProfits \subseteq DOMAIN rows
  BY <1>2, <1>3 DEF PlanIsExact, NoneGone, TakeProfits
<1>6. OpenTakeProfits' = OpenTakeProfits
  BY <1>3, <1>4 DEF OpenTakeProfits, TakeProfits, OpenRow, SameOrder
<1>7. Buy'.applied = Buy.applied
  BY <1>2, <1>3 DEF Buy
<1>8. \A leg \in Legs : SameLeg(leg)
  BY <1>1 DEF SameLeg
<1>9. m' = m \/ (m'.fills = {} /\ m'.pc = "idle" /\ m.pc = "rows")
  BY <1>2, LeftBehind
<1>10. Live' \subseteq Live
  BY <1>6, <1>9 DEF Live, At
<1>11. /\ Net' = Net /\ (At("bought") => At("bought")') /\ (IsCredited' => IsCredited /\ m'.cur = m.cur)
       /\ (At("sell") => At("sell")' /\ m'.cur = m.cur)
  BY <1>1, <1>9 DEF Net, Pending, At, IsCredited
<1>12. StateFits'
  <2>1. Left("TP1")' = Left("TP1") /\ pos' = pos
    BY <1>1 DEF Left
  <2>2. ASSUME m.cur \in DOMAIN rows PROVE rows'[m.cur].purpose = rows[m.cur].purpose
    BY <1>4, <2>2 DEF SameOrder
  <2>3. At("sold") => m.cur \in DOMAIN rows
    BY DEF Shape, AtSell, At, SellPlaces, TakeProfits
  <2> HIDE DEF Left, Buy
  <2> QED  BY <1>7, <1>9, <2>1, <2>2, <2>3 DEF PlanIsExact, StateFits, At
<1> QED  BY <1>1, <1>3, <1>4, <1>5, <1>8, <1>10, <1>11, <1>12, ExactStays

LEMMA ReconcileExact == ASSUME Shape, PlanIsExact, Reconcile PROVE PlanIsExact'
<1>1. /\ Shape' /\ UNCHANGED <<plan, rows, m>> /\ m.pc = "idle" /\ pos'.qty = pos.qty /\ pos'.state = "SAFE"
  BY ReconcileShape DEF SafeMode
<1>2. /\ DOMAIN rows' = DOMAIN rows /\ NoneGone' /\ StateFits'
      /\ \A j \in TakeProfits : /\ SameOrder(rows'[j], rows[j])
                               /\ rows'[j].filled = rows[j].filled /\ rows'[j].status = rows[j].status
      /\ \A leg \in Legs : SameLeg(leg)
  BY <1>1 DEF PlanIsExact, NoneGone, SameOrder, SameLeg, StateFits
<1>3. Net' = Net /\ ~At("bought") /\ ~At("sell") /\ ~IsCredited'
  BY <1>1 DEF Net, Pending, At, IsCredited
<1>4. Live' \subseteq Live
  BY <1>1 DEF Live, At, OpenTakeProfits, TakeProfits, OpenRow
<1> QED  BY <1>1, <1>2, <1>3, <1>4, ExactStays

\* No row that is open has an order the broker does not know.
LEMMA NoRowIsMissing == ASSUME Shape, PlanIsExact, NEW i \in m.todo PROVE rows[i].bStatus # "GONE" /\ ~MissingRow(i)
<1>1. i \in DOMAIN rows /\ rows[i].status = "OPEN"
  BY DEF Shape, Control, OpenRow
<1>2. rows[i].bStatus # "GONE"
  BY <1>1 DEF PlanIsExact, NoneGone
<1> QED  BY <1>2 DEF MissingRow

-----------------------------------------------------------------------------
(* The plan is exact: the BUY *)

\* There is no order yet while the BUY is handled.
LEMMA BuyExact ==
    ASSUME Shape, Shape', Types, m.pc \in BuyPlaces, TakeProfits' = TakeProfits, m'.pc \notin SellPlaces,
           m'.fills = m.fills \/ m'.fills = {}, NoneGone', StateFits',
           ~At("bought")' => Net' = Left("TP1")' + Left("TP2")'
    PROVE  PlanIsExact'
<1>1. TakeProfits' = {} /\ m'.fills = {}
  BY BuyIsAlone DEF Shape, Control, BuyPlaces, SettlePlaces, SellPlaces
<1>2. Live' = {}
  BY <1>1 DEF Live, OpenTakeProfits, At, SellPlaces
<1>3. ~IsCredited'
  BY DEF IsCredited, SellPlaces
<1> QED  BY <1>2, <1>3 DEF PlanIsExact

LEMMA BuyStepsExact ==
    ASSUME Shape, Safe, PlanIsExact, CancelLateBuy \/ CreatePlan \/ AddShares \/ RestoreUnfilled \/ MarkBuy \/ MarkUnfilled
    PROVE  PlanIsExact'
<1>0. Types /\ Buy.filled \in Nat /\ pos.qty \in Nat /\ 1 \in DOMAIN rows /\ NoneGone /\ StateFits
      /\ Left("TP1") \in Nat /\ Left("TP2") \in Nat
  BY BuyRow, LeftTypes DEF Shape, Types, Rows, RowRecords, PlanIsExact
<1>1. CASE CancelLateBuy
  <2>1. EndsBuy /\ Shape'
    BY <1>1, CancelLateBuyEnds, CancelLateBuyShape
  <2>2. PICK new \in Rows : Writes(1, new) /\ Refreshed(new, Buy)
    BY <2>1 DEF EndsBuy
  <2>3. /\ DOMAIN rows' = DOMAIN rows /\ TakeProfits' = TakeProfits /\ Buy' = new
        /\ rows'[1] = new /\ \A j \in DOMAIN rows : j # 1 => rows'[j] = rows[j]
    BY <1>0, <2>2, OneRow DEF Refreshed, Buy
  <2>4. NoneGone'
    BY <1>0, <2>2, <2>3 DEF NoneGone, Refreshed
  <2>5. /\ m.pc = "buy" /\ m'.pc = "buy" /\ m' = m /\ pos' = pos /\ Buy'.applied = Buy.applied
        /\ Left("TP1")' = Left("TP1") /\ Left("TP2")' = Left("TP2") /\ Net' = Net
    BY <2>1, <2>2, <2>3 DEF EndsBuy, Refreshed, Left, Net, Pending, At
  <2>6. StateFits' /\ Net = Left("TP1") + Left("TP2")
    <3> HIDE DEF Left, Net
    <3> QED  BY <1>0, <2>5 DEF StateFits, PlanIsExact, At
  <2> HIDE DEF Left
  <2> QED  BY <1>0, <2>1, <2>3, <2>4, <2>5, <2>6, BuyExact DEF BuyPlaces, SellPlaces
<1>2. CASE CreatePlan
  <2>1. PlansBuy /\ Shape'
    BY <1>2, CreatePlanShape
  <2>2. /\ m.pc = "buy" /\ UNCHANGED <<pos, rows>> /\ m'.pc \in {"bought", "idle"}
        /\ m'.fills = m.fills \/ m'.fills = {}
    BY <2>1, LeftBehind DEF PlansBuy, Moves
  <2>3. TakeProfits' = TakeProfits /\ NoneGone' /\ ~Buy.applied /\ Net' = Net /\ Buy' = Buy
    BY <1>0, <2>2 DEF TakeProfits, NoneGone, Shape, AtBuy, BuyPlaces, Net, Pending, At, Buy
  <2>4. pos'.state \notin {"HOLDING", "PARTIAL"}
    BY <1>0, <2>2, <2>3 DEF StateFits
  <2>5. StateFits'
    BY <2>4 DEF StateFits
  <2>6. ASSUME ~At("bought")' PROVE Net' = Left("TP1")' + Left("TP2")'
    <3>1. UNCHANGED plan
      BY <2>1, <2>6 DEF PlansBuy, Moves, At
    <3>2. Left("TP1")' = Left("TP1") /\ Left("TP2")' = Left("TP2")
      BY <3>1 DEF Left
    <3>3. Net = Left("TP1") + Left("TP2")
      BY <2>2 DEF PlanIsExact, At
    <3> HIDE DEF Left
    <3> QED  BY <2>3, <3>2, <3>3
  <2> HIDE DEF Left
  <2> QED  BY <1>0, <2>1, <2>2, <2>3, <2>5, <2>6, BuyExact DEF BuyPlaces, SellPlaces
<1>3. CASE AddShares
  <2>1. Adds /\ Shape'
    BY <1>3, AddSharesShape
  <2>2. /\ m.pc = "bought" /\ UNCHANGED <<plan, rows>> /\ m'.pc = "markBuy" /\ m'.fills = m.fills
        /\ pos'.qty = pos.qty + Buy.filled /\ pos'.state = "HOLDING"
        /\ Buy.filled > 0 /\ plan = NewPlan(pos.qty + Buy.filled)
    BY <2>1 DEF Adds, Moves, Shape, AtBuy, At
  <2>3. TakeProfits' = TakeProfits /\ NoneGone' /\ Net' = pos.qty + Buy.filled
    BY <1>0, <2>2 DEF TakeProfits, NoneGone, Net, Pending, At
  <2>4. PICK n \in Nat \ {0} : n = pos.qty + Buy.filled
    BY <1>0, <2>2
  <2>5. /\ plan'.target = Target(n) /\ \A leg \in Legs : plan'.filled[leg] = 0
        /\ Target(n) \in [Legs -> Nat] /\ Target(n)["TP1"] > 0 /\ Target(n)["TP1"] + Target(n)["TP2"] = n
    <3>1. plan' = NewPlan(n)
      BY <2>2, <2>4
    <3> QED  BY <3>1, PlanOfPosition
  <2>6. Left("TP1")' > 0 /\ Left("TP1")' + Left("TP2")' = n
    <3>1. Left("TP1")' = Target(n)["TP1"] /\ Left("TP2")' = Target(n)["TP2"]
      BY <2>5 DEF Left, Legs
    <3> QED  BY <2>5, <3>1
  <2>7. StateFits'
    BY <2>2, <2>6 DEF StateFits
  <2> HIDE DEF Left
  <2> QED  BY <1>0, <2>1, <2>2, <2>3, <2>4, <2>6, <2>7, BuyExact DEF BuyPlaces, SellPlaces
<1>4. CASE RestoreUnfilled
  <2>1. Restores /\ Shape'
    BY <1>4, RestoreUnfilledShape
  <2>2. /\ m.pc = "buy" /\ UNCHANGED <<plan, rows>> /\ m'.pc = "markUnfilled" /\ m'.fills = m.fills
        /\ pos'.qty = pos.qty /\ pos'.state = Buy.base /\ Buy.filled = 0
    BY <2>1 DEF Restores, Moves
  <2>3. TakeProfits' = TakeProfits /\ NoneGone' /\ Net' = Net /\ ~Buy.applied
    BY <1>0, <2>2 DEF TakeProfits, NoneGone, Net, Pending, At, Shape, AtBuy, BuyPlaces
  <2>4. Left("TP1")' = Left("TP1") /\ Left("TP2")' = Left("TP2")
    BY <2>2 DEF Left
  <2>5. Net = Left("TP1") + Left("TP2")
    BY <2>2 DEF PlanIsExact, At
  <2>6. Buy.base = "HOLDING" => Left("TP1") > 0
    <3> HIDE DEF Left
    <3> QED  BY <2>2, <2>3 DEF Safe, BeforeBuy
  <2>7. StateFits'
    <3> HIDE DEF Left
    <3> QED  BY <2>2, <2>4, <2>6 DEF StateFits
  <2> HIDE DEF Left
  <2> QED  BY <1>0, <2>1, <2>2, <2>3, <2>4, <2>5, <2>7, BuyExact DEF BuyPlaces, SellPlaces
<1>5. CASE MarkBuy \/ MarkUnfilled
  <2>1. MarksBuy /\ Shape'
    BY <1>5, MarkBuyMarks, MarkBuyShape
  <2>2. PICK new \in Rows :
          /\ Writes(1, new) /\ SameOrder(new, Buy) /\ new.applied
          /\ new.status = Buy.status /\ new.bStatus = Buy.bStatus
    BY <2>1 DEF MarksBuy
  <2>3. /\ m.pc \in {"markBuy", "markUnfilled"} /\ UNCHANGED <<pos, plan>>
        /\ m'.pc \in {"placeTP1", "rows"} /\ m'.fills = m.fills
    BY <2>1 DEF MarksBuy, Moves
  <2>4. /\ DOMAIN rows' = DOMAIN rows /\ TakeProfits' = TakeProfits /\ Buy' = new
        /\ rows'[1] = new /\ \A j \in DOMAIN rows : j # 1 => rows'[j] = rows[j]
    BY <1>0, <2>2, OneRow DEF Buy
  <2>5. NoneGone'
    BY <1>0, <2>2, <2>4 DEF NoneGone, Buy
  <2>6. Left("TP1")' = Left("TP1") /\ Left("TP2")' = Left("TP2") /\ Net' = Net
    BY <2>3 DEF Left, Net, Pending, At
  <2>7. Net = Left("TP1") + Left("TP2")
    BY <2>3 DEF PlanIsExact, At
  <2>8. StateFits'
    <3> HIDE DEF Left
    <3> QED  BY <1>0, <2>2, <2>3, <2>4, <2>6 DEF StateFits, At
  <2> HIDE DEF Left
  <2> QED  BY <1>0, <2>1, <2>3, <2>4, <2>5, <2>6, <2>7, <2>8, BuyExact DEF BuyPlaces, SellPlaces
<1> QED  BY <1>1, <1>2, <1>3, <1>4, <1>5

-----------------------------------------------------------------------------
(* The plan is exact: refreshes, sales and placements *)

\* One row has sold more, and is not offered for what it has sold: it is at hand, or ended.
LEMMA RefreshedExact ==
    ASSUME Shape, Shape', PlanIsExact, NEW i \in DOMAIN rows, NEW new \in Rows, Writes(i, new),
           SameOrder(new, rows[i]), new.bStatus # "GONE", rows[i].filled <= new.filled, new.applied = rows[i].applied \/ i # 1,
           UNCHANGED <<pos, plan>>, m.pc \in {"rows", "settle"}, m'.pc \in {"rows", "buy", "sell", "settle"},
           Live' \subseteq Live, i = 1 \/ new.status # "OPEN" \/ (At("sell")' /\ m'.cur = i)
    PROVE  PlanIsExact'
<1>1. /\ DOMAIN rows' = DOMAIN rows /\ rows'[i] = new /\ \A j \in DOMAIN rows : j # i => rows'[j] = rows[j]
      /\ Buy' = (IF i = 1 THEN new ELSE Buy)
  BY OneRow DEF Shape
<1>2. NoneGone'
  BY <1>1 DEF PlanIsExact, NoneGone
<1>3. \A leg \in Legs : Left(leg)' = Left(leg) /\ plan'.target[leg] = plan.target[leg]
  BY DEF Left
<1>4. Net' = Net /\ ~At("bought") /\ ~At("bought")' /\ ~IsCredited' /\ ~At("sell") /\ ~At("sold")
  BY DEF Net, Pending, At, IsCredited
<1>5. Left("TP1")' = Left("TP1") /\ Left("TP2")' = Left("TP2")
  BY <1>3 DEF Legs
<1>6. StateFits'
  <2>1. Buy'.applied = Buy.applied
    BY <1>1 DEF Buy
  <2> HIDE DEF Left
  <2> QED  BY <1>4, <1>5, <2>1 DEF PlanIsExact, StateFits
<1>7. ASSUME NEW j \in Live' PROVE Exact(j)'
  <2>1. Exact(j) /\ j \in DOMAIN rows /\ j # 1 /\ Leg(j) \in Legs
    BY <1>7, LiveRows, RowTypes DEF PlanIsExact, Shape, BuyFirst, TakeProfits
  <2>2. SameOrder(rows'[j], rows[j])
    BY <1>1, <2>1 DEF SameOrder
  <2>3. PICK leg \in Legs : leg = Leg(j) /\ Leg(j)' = leg /\ rows'[j].qty = rows[j].qty
    BY <2>1, <2>2 DEF SameOrder, Leg
  <2>4. Left(Leg(j))' = Left(Leg(j)) /\ plan'.target[Leg(j)'] = plan.target[Leg(j)] /\ Left(Leg(j)) \in Nat
    <3>1. Left(Leg(j))' = plan'.target[leg] - plan'.filled[leg]
      BY <2>3 DEF Left
    <3> QED  BY <2>3, <3>1, LeftTypes DEF Left
  <2>5. CASE j = i
    <3>1. rows[i].filled \in Nat /\ new.filled \in Nat /\ rows[i].qty \in Nat
      BY RowTypes DEF Shape, Rows, RowRecords
    <3>2. rows[i].qty - new.filled <= Left(Leg(i))
      <4> HIDE DEF Left
      <4> QED  BY <2>1, <2>4, <2>5, <3>1 DEF Exact
    <3>3. ~(OpenRow(j)' /\ (At("sell")' => j # m'.cur))
      BY <1>1, <2>1, <2>5 DEF OpenRow
    <3> HIDE DEF Left
    <3> QED  BY <1>1, <2>1, <2>3, <2>4, <2>5, <3>2, <3>3 DEF Exact
  <2>6. CASE j # i
    <3>1. rows'[j] = rows[j]
      BY <1>1, <2>1, <2>6
    <3>2. OpenRow(j)' = OpenRow(j)
      BY <3>1 DEF OpenRow
    <3> HIDE DEF Left
    <3> QED  BY <1>4, <2>1, <2>4, <3>1, <3>2 DEF Exact
  <2> QED  BY <2>5, <2>6
<1> HIDE DEF Left
<1> QED  BY <1>2, <1>4, <1>5, <1>6, <1>7 DEF PlanIsExact

\* A refresh leaves the row live, or it is the BUY's.
LEMMA RefreshLive ==
    ASSUME Shape, NEW i \in m.todo, Refreshes(i), i \in DOMAIN rows, rows[i].status = "OPEN"
    PROVE  Live' = Live /\ (i = 1 \/ i \in Live)
<1>1. PICK new \in Rows : Writes(i, new) /\ Refreshed(new, rows[i])
  BY DEF Refreshes
<1>2. /\ DOMAIN rows' = DOMAIN rows /\ TakeProfits' = TakeProfits
      /\ rows'[i] = new /\ \A j \in DOMAIN rows : j # i => rows'[j] = rows[j]
  BY <1>1, OneRow DEF Refreshed, Shape
<1>3. /\ m.pc = "rows" /\ m'.cur = i /\ m'.fills = m.fills
      /\ m'.pc = (IF rows[i].purpose = "BUY" THEN "buy" ELSE "sell")
  BY DEF Refreshes
<1>4. i \in TakeProfits <=> rows[i].purpose # "BUY"
  BY DEF TakeProfits
<1>5. i \in TakeProfits => i \in OpenTakeProfits
  BY DEF OpenTakeProfits, OpenRow
<1>6. \A j \in TakeProfits : j # i => (j \in OpenTakeProfits' <=> j \in OpenTakeProfits)
  BY <1>2 DEF OpenTakeProfits, OpenRow, TakeProfits
<1>7. OpenTakeProfits \subseteq TakeProfits /\ OpenTakeProfits' \subseteq TakeProfits
  BY <1>2 DEF OpenTakeProfits
<1>8. i = 1 \/ i \in TakeProfits
  BY <1>4 DEF Shape, BuyFirst
<1>9. Live = OpenTakeProfits \cup m.fills
  BY <1>3 DEF Live, At
<1>10. Live' = OpenTakeProfits' \cup m.fills \cup (IF i \in TakeProfits THEN {i} ELSE {})
  BY <1>3, <1>4 DEF Live, At
<1>11. ~(i \in TakeProfits) => i \notin OpenTakeProfits /\ i \notin OpenTakeProfits'
  BY <1>7
<1> QED  BY <1>5, <1>6, <1>7, <1>8, <1>9, <1>10, <1>11

LEMMA RefreshRowExact == ASSUME Shape, PlanIsExact, NEW i \in m.todo, RefreshRow(i) PROVE PlanIsExact'
<1>1. Refreshes(i) /\ i \in DOMAIN rows /\ rows[i].status = "OPEN" /\ Types /\ Shape'
  BY RefreshRowRefreshes, RefreshRowShape DEF Shape
<1>2. PICK new \in Rows : Writes(i, new) /\ Refreshed(new, rows[i])
  BY <1>1 DEF Refreshes
<1>3. Live' \subseteq Live
  BY <1>1, RefreshLive
<1>4. /\ m.pc = "rows" /\ m'.pc \in {"buy", "sell"} /\ m'.cur = i /\ UNCHANGED <<pos, plan>>
      /\ i = 1 \/ m'.pc = "sell"
  BY <1>1 DEF Refreshes, Shape, BuyFirst
<1>5. rows[i].filled <= new.filled
  BY <1>1, <1>2, RowTypes DEF Refreshed, RowOK
<1> QED  BY <1>1, <1>2, <1>3, <1>4, <1>5, RefreshedExact DEF Refreshed, At

\* The settlement keeps the fill of an order, or there was none.
LEMMA SettleLive ==
    ASSUME Shape, NEW i \in OpenTakeProfits, NEW new \in Rows, Writes(i, new), SameOrder(new, rows[i]), Ended(new),
           m.pc = "settle", EndsOrder(i)
    PROVE  Live' = IF rows[i].bFilled > 0 THEN Live ELSE Live \ {i}
<1>1. /\ DOMAIN rows' = DOMAIN rows /\ TakeProfits' = TakeProfits
      /\ rows'[i] = new /\ \A j \in DOMAIN rows : j # i => rows'[j] = rows[j]
  BY LiveRows, OneRow DEF Shape
<1>2. /\ m'.pc = "settle"
      /\ m'.fills = (IF rows[i].bFilled > 0 THEN m.fills \cup {i} ELSE m.fills)
  BY DEF EndsOrder
<1>3. OpenTakeProfits' = OpenTakeProfits \ {i}
  <2>1. i \notin OpenTakeProfits'
    BY <1>1, LiveRows DEF OpenTakeProfits, OpenRow, Ended
  <2>2. \A j \in TakeProfits : j # i => (j \in OpenTakeProfits' <=> j \in OpenTakeProfits)
    BY <1>1 DEF OpenTakeProfits, OpenRow, TakeProfits
  <2>3. OpenTakeProfits \subseteq TakeProfits /\ OpenTakeProfits' \subseteq TakeProfits
    BY <1>1 DEF OpenTakeProfits
  <2> QED  BY <2>1, <2>2, <2>3
<1>4. Live = OpenTakeProfits \cup m.fills /\ Live' = OpenTakeProfits' \cup m'.fills
  BY <1>2 DEF Live, At
<1>5. i \notin m.fills
  BY DEF Shape, Control, OpenTakeProfits, OpenRow, Ended
<1> QED  BY <1>2, <1>3, <1>4, <1>5

LEMMA SettleRowExact == ASSUME Shape, PlanIsExact, NEW i \in m.todo, SettleRow(i) PROVE PlanIsExact'
<1>1. Settles(i) /\ i \in OpenTakeProfits /\ i \in DOMAIN rows /\ Types /\ Shape'
  BY SettleRowSettles, SettleRowShape DEF Shape
<1>2. EndsOrder(i)
  BY <1>1, NoRowIsMissing DEF Settles
<1>3. PICK new \in Rows :
        /\ Writes(i, new) /\ SameOrder(new, rows[i]) /\ Ended(new)
        /\ new.filled = rows[i].bFilled
  BY <1>2 DEF EndsOrder
<1>4. Live' \subseteq Live
  BY <1>1, <1>2, <1>3, SettleLive DEF Settles
<1>5. m.pc = "settle" /\ m'.pc = "settle" /\ UNCHANGED <<pos, plan>> /\ i # 1
  BY <1>1, <1>2 DEF Settles, EndsOrder, OpenTakeProfits, TakeProfits, Shape, BuyFirst
<1>6. new.bStatus # "GONE" /\ new.status # "OPEN" /\ rows[i].filled <= new.filled
  BY <1>1, <1>3, RowTypes DEF Ended, RowOK, Rows
<1> QED  BY <1>1, <1>3, <1>4, <1>5, <1>6, RefreshedExact

\* A live order was placed for all that its leg had left: the whole fill is credited, and
\* the leg has left what the order still offers.
LEMMA FillCredited ==
    ASSUME Shape, Safe, PlanIsExact, FillPlan, NEW c, c = m.cur
    PROVE  /\ c \in Live /\ c \in DOMAIN rows /\ Leg(c) \in Legs /\ m.pc = "sell" /\ UNCHANGED <<pos, rows, hold>>
           /\ Delta(c) \in Nat /\ Delta(c) = Left(Leg(c)) - (rows[c].qty - rows[c].filled)
           /\ plan'.target = plan.target /\ m'.pc = "sold" /\ m'.delta = Delta(c) /\ m'.cur = c /\ m'.fills = m.fills
           /\ Left(Leg(c))' = rows[c].qty - rows[c].filled
           /\ \A leg \in Legs : leg # Leg(c) => Left(leg)' = Left(leg)
           /\ Net = pos.qty /\ Net' = pos.qty - Delta(c)
           /\ rows[c].qty <= plan.target[Leg(c)]
<1>1. Types /\ Credits
  BY FillPlanCredits DEF Shape
<1>2. /\ m.pc = "sell" /\ UNCHANGED <<pos, rows, hold>> /\ c \in DOMAIN rows /\ c \in Live /\ rows[c].filled > 0
  BY <1>1 DEF Credits, Shape, AtSell, SellPlaces, TakeProfits, Live, At
<1>3. PICK leg \in Legs : leg = Leg(c)
  BY <1>1, <1>2, RowTypes
<1>4. PICK q \in Nat, s \in Nat : q = rows[c].qty /\ s = rows[c].filled
  BY <1>1, <1>2, RowTypes
<1>5. PICK t \in Nat, p \in Nat : t = plan.target[leg] /\ p = plan.filled[leg] /\ Left(leg) = t - p
  BY LeftTypes
<1>6. s <= q
  BY <1>1, <1>2, <1>4, RowTypes DEF RowOK
<1>7. q <= t /\ q - s <= t - p /\ 0 < t - p /\ t - p <= q
  <2>1. Exact(c)
    BY <1>2 DEF PlanIsExact
  <2>2. Left(Leg(c)) = t - p
    BY <1>3, <1>5
  <2>3. t - p <= q
    BY <1>2, <1>4, <2>1, <2>2, LeftWithinOrder
  <2> HIDE DEF Left
  <2> QED  BY <1>3, <1>4, <1>5, <2>1, <2>2, <2>3 DEF Exact
<1>8. LegFilled(c) = t - q + s
  BY <1>3, <1>4, <1>5, <1>6, <1>7 DEF LegFilled, Least, Greatest
<1>9. Delta(c) = t - q + s - p
  BY <1>3, <1>5, <1>8 DEF Delta
<1>10. PICK n \in Nat : n = pos.qty
  BY <1>1 DEF Types
<1>11. Net = n
  BY <1>2, <1>10 DEF Net, Pending, At
<1>12. t - p <= n
  <2>1. PICK a \in Nat, b \in Nat : a = Left("TP1") /\ b = Left("TP2") /\ Left(leg) <= a + b
    BY LeftTypes
  <2>2. Net = Left("TP1") + Left("TP2")
    BY <1>2 DEF PlanIsExact, At
  <2>3. n = a + b
    BY <1>11, <2>1, <2>2
  <2>4. Left(leg) <= a + b
    BY <2>1
  <2>5. Left(leg) <= n
    BY <2>3, <2>4
  <2> HIDE DEF Left
  <2> QED  BY <1>5, <2>5
<1>13. plan.active
  <2>1. ~plan.active => pos.qty = 0
    BY StateSays DEF Safe, PlanIsBacked
  <2> QED  BY <1>7, <1>10, <1>12, <2>1
<1>14. Delta(c) \in Nat /\ Delta(c) <= n
  BY <1>6, <1>7, <1>9, <1>12
<1>15. /\ plan'.target = plan.target /\ plan'.filled[leg] = LegFilled(c)
       /\ \A l \in Legs : l # leg => plan'.filled[l] = plan.filled[l]
       /\ m'.pc = "sold" /\ m'.delta = Delta(c) /\ m'.cur = c /\ m'.fills = m.fills
  BY <1>1, <1>3, <1>10, <1>13, <1>14 DEF Credits
<1>16. Left(leg)' = q - s
  <2>1. Left(leg)' = t - (t - q + s)
    BY <1>5, <1>8, <1>15 DEF Left
  <2> QED  BY <2>1
<1>17. \A l \in Legs : l # leg => Left(l)' = Left(l)
  BY <1>15 DEF Left
<1>18. Net' = n - Delta(c)
  BY <1>2, <1>10, <1>15 DEF Net, Pending, At
<1>19. Left(Leg(c))' = Left(leg)'
  <2>1. Leg(c)' = leg
    BY <1>2, <1>3 DEF Leg
  <2> QED  BY <2>1 DEF Left
<1>20. Delta(c) = Left(Leg(c)) - (rows[c].qty - rows[c].filled)
  <2>1. Left(Leg(c)) = t - p
    BY <1>3, <1>5
  <2> HIDE DEF Left, Delta
  <2> QED  BY <1>4, <1>9, <2>1
<1> HIDE DEF Left, Delta, Net
<1> QED  BY <1>2, <1>3, <1>4, <1>5, <1>7, <1>10, <1>11, <1>14, <1>15, <1>16, <1>17, <1>18, <1>19, <1>20

LEMMA FillPlanExact == ASSUME Shape, Safe, PlanIsExact, FillPlan PROVE PlanIsExact'
<1>0. PICK c : c = m.cur
  OBVIOUS
<1>1. /\ c \in Live /\ c \in DOMAIN rows /\ Leg(c) \in Legs /\ m.pc = "sell" /\ UNCHANGED <<pos, rows, hold>>
      /\ Delta(c) \in Nat /\ Delta(c) = Left(Leg(c)) - (rows[c].qty - rows[c].filled)
      /\ plan'.target = plan.target /\ m'.pc = "sold" /\ m'.delta = Delta(c) /\ m'.cur = c /\ m'.fills = m.fills
      /\ Left(Leg(c))' = rows[c].qty - rows[c].filled
      /\ \A leg \in Legs : leg # Leg(c) => Left(leg)' = Left(leg)
      /\ Net = pos.qty /\ Net' = pos.qty - Delta(c)
      /\ rows[c].qty <= plan.target[Leg(c)]
  BY <1>0, FillCredited
<1>2. PICK leg \in Legs, q \in Nat, s \in Nat, d \in Nat, n \in Nat, a \in Nat, b \in Nat, z \in Nat :
        /\ leg = Leg(c) /\ q = rows[c].qty /\ s = rows[c].filled /\ d = Delta(c) /\ n = pos.qty
        /\ a = Left("TP1") /\ b = Left("TP2") /\ z = Left(leg)
  <2>1. pos.qty \in Nat /\ rows[c].qty \in Nat /\ rows[c].filled \in Nat
    BY <1>1, RowTypes DEF Shape, Types
  <2> HIDE DEF Left, Delta, Leg
  <2> QED  BY <1>1, <2>1, LeftTypes
<1>3. d = z - (q - s) /\ Left(leg)' = q - s /\ Net' = n - d /\ n = a + b
  <2>1. Net = Left("TP1") + Left("TP2")
    BY <1>1 DEF PlanIsExact, At
  <2>2. Leg(c)' = leg
    BY <1>1, <1>2 DEF Leg
  <2>3. Left(leg)' = Left(Leg(c))'
    BY <2>2 DEF Left
  <2> HIDE DEF Left, Delta, Leg, Net
  <2> QED  BY <1>1, <1>2, <2>1, <2>3
<1>4. \A j \in DOMAIN rows : Leg(j)' = Leg(j) /\ OpenRow(j)' = OpenRow(j)
  BY <1>1 DEF Leg, OpenRow
<1>5. Net' = Left("TP1")' + Left("TP2")'
  <2>1. CASE leg = "TP1"
    <3>1. Left("TP2")' = b /\ Left("TP1")' = q - s /\ z = a
      <4> HIDE DEF Left, Leg
      <4> QED  BY <1>1, <1>2, <1>3, <2>1 DEF Legs
    <3> HIDE DEF Left, Net
    <3> QED  BY <1>3, <3>1
  <2>2. CASE leg = "TP2"
    <3>1. Left("TP1")' = a /\ Left("TP2")' = q - s /\ z = b
      <4> HIDE DEF Left, Leg
      <4> QED  BY <1>1, <1>2, <1>3, <2>2 DEF Legs
    <3> HIDE DEF Left, Net
    <3> QED  BY <1>3, <3>1
  <2> QED  BY <1>2, <2>1, <2>2 DEF Legs
<1>6. Live' \subseteq Live /\ (c \in Live' => OpenRow(c))
  BY <1>0, <1>1 DEF Live, At, OpenTakeProfits, TakeProfits, OpenRow, Shape, AtSell, SellPlaces
<1>7. NoneGone'
  BY <1>1 DEF PlanIsExact, NoneGone
<1>8. StateFits'
  <2>1. Buy.applied /\ Buy' = Buy
    BY <1>1 DEF Shape, BuyFirst, Buy, SellPlaces
  <2>2. pos.state = "HOLDING" => Left("TP1") > 0
    BY <1>1 DEF PlanIsExact, StateFits, At
  <2>3. rows[c].purpose = "TP1" \/ Left("TP1")' = Left("TP1")
    BY <1>1 DEF Leg, Legs
  <2> HIDE DEF Left
  <2> QED  BY <1>1, <2>1, <2>2, <2>3 DEF StateFits, At
<1>9. ASSUME NEW i \in Live' PROVE Exact(i)'
  <2>1. i \in Live /\ i \in DOMAIN rows /\ Exact(i)
    BY <1>6, <1>9, LiveRows DEF PlanIsExact
  <2>2. rows'[i] = rows[i] /\ Leg(i)' = Leg(i) /\ plan'.target[Leg(i)'] = plan.target[Leg(i)] /\ ~At("sell")'
    BY <1>1, <1>4, <2>1 DEF At
  <2>3. CASE i = c
    <3>1. Left(Leg(i))' = q - s /\ q <= plan.target[leg] /\ rows[i].status = "OPEN"
      BY <1>1, <1>2, <1>6, <1>9, <2>3 DEF OpenRow
    <3>2. s < q
      BY <1>2, <2>1, <2>3, <3>1, RowTypes DEF RowOK, Shape
    <3> HIDE DEF Left, Leg
    <3> QED  BY <1>2, <2>2, <2>3, <3>1, <3>2 DEF Exact
  <2>4. CASE i # c
    <3>1. Leg(i) # leg /\ Leg(i) \in Legs
      BY <1>1, <1>2, <2>1, <2>4, RowTypes DEF Safe, OneLivePerLeg, Shape
    <3>2. Left(Leg(i))' = Left(Leg(i))
      <4>1. PICK k \in Legs : k = Leg(i) /\ k # leg
        BY <3>1
      <4>2. Leg(i)' = k
        BY <2>2, <4>1
      <4>3. Left(Leg(i))' = Left(k)'
        BY <4>2 DEF Left
      <4> HIDE DEF Left, Leg
      <4> QED  BY <1>1, <1>2, <4>1, <4>3
    <3>3. OpenRow(i)' = OpenRow(i)
      BY <1>4, <2>1
    <3> HIDE DEF Left, Leg
    <3> QED  BY <1>0, <2>1, <2>2, <2>4, <3>2, <3>3 DEF Exact
  <2> QED  BY <2>3, <2>4
<1>10. SaleFits'
  <2>1. Leg(m.cur)' = leg /\ Left(Leg(m.cur))' = Left(leg)'
    <3>1. Leg(m.cur)' = leg
      BY <1>0, <1>1, <1>2 DEF Leg
    <3> QED  BY <3>1 DEF Left
  <2> HIDE DEF Left, Leg
  <2> QED  BY <1>1, <1>2, <1>3, <2>1 DEF SaleFits
<1> QED  BY <1>5, <1>7, <1>8, <1>9, <1>10 DEF PlanIsExact

-----------------------------------------------------------------------------
(* The plan is exact: orders are placed *)

\* A new order is for what its leg has left, and the exit's for the whole position.
LEMMA PlacedForLeft ==
    ASSUME Shape, Safe, PlanIsExact, PlaceTP1 \/ PlaceTP2 \/ PlaceExit
    PROVE  \/ m.pc \in SubmitPlaces /\ \E next \in {"placeTP2", "rows", "jobs"} : PassesOver(next)
           \/ \E next \in {"placeTP2", "rows", "jobs"}, purpose \in {"TP1", "TP2", "EXIT"}, n \in Nat \ {0} :
                 /\ m.pc \in SubmitPlaces /\ Submits(purpose, n, next)
                 /\ n = Left(IF purpose = "TP1" THEN "TP1" ELSE "TP2")
                 /\ m.pc # "placeTP2" => OpenTakeProfits = {}
                 /\ m.pc = "placeTP2" => purpose = "TP2"
<1>1. Left("TP1") \in Nat /\ Left("TP2") \in Nat /\ pos.qty \in Nat
  BY LeftTypes DEF Shape, Types
<1>2. Placed \in {"rows", "jobs"}
  BY DEF Placed
<1>3. m.pc = "placeExit" => pos.qty = Left("TP2")
  <2>1. m.pc = "placeExit" => pos.state = "PARTIAL" /\ Net = pos.qty /\ Net = Left("TP1") + Left("TP2")
    BY <1>1 DEF Shape, Control, At, Net, Pending, PlanIsExact
  <2>2. pos.state = "PARTIAL" => Left("TP1") = 0
    BY StateSays
  <2> HIDE DEF Left, Net
  <2> QED  BY <1>1, <2>1, <2>2
<1>4. m.pc \in {"placeTP1", "placeExit"} => OpenTakeProfits = {}
  BY DEF Shape, Control
<1> HIDE DEF Left, Placed
<1> QED  BY <1>1, <1>2, <1>3, <1>4, Placement DEF SubmitPlaces

\* What placing an order leaves.
LEMMA SubmitsLive ==
    ASSUME Shape, NEW next \in {"placeTP2", "rows", "jobs"}, NEW purpose \in {"TP1", "TP2", "EXIT"}, NEW n \in Nat \ {0},
           m.pc \in SubmitPlaces, NEW new \in Rows, rows' = Append(rows, new), new.purpose = purpose,
           Moves(next) \/ Leave, NEW k, k = Len(rows) + 1
    PROVE  /\ DOMAIN rows' = DOMAIN rows \cup {k} /\ k \notin DOMAIN rows /\ k \in TakeProfits'
           /\ rows'[k] = new /\ \A j \in DOMAIN rows : rows'[j] = rows[j] /\ Leg(j)' = Leg(j) /\ OpenRow(j)' = OpenRow(j)
           /\ TakeProfits' = TakeProfits \cup {k} /\ Buy' = Buy /\ Buy.applied
           /\ Live = OpenTakeProfits /\ Live' = IF new.status = "OPEN" THEN Live \cup {k} ELSE Live
           /\ m'.pc \in {"placeTP2", "rows", "jobs", "idle"}
<1>1. /\ DOMAIN rows' = DOMAIN rows \cup {k} /\ k \notin DOMAIN rows
      /\ rows'[k] = new /\ \A j \in DOMAIN rows : rows'[j] = rows[j]
  BY RowAppended DEF Shape
<1>2. Buy.applied /\ Buy' = Buy /\ m.fills = {}
  BY <1>1, BuyRow DEF Shape, BuyFirst, Buy, Control, SubmitPlaces, SettlePlaces, SellPlaces
<1>3. m'.fills = {} /\ m'.pc \in {"placeTP2", "rows", "jobs", "idle"}
  BY <1>2, LeftBehind DEF Moves, Idle
<1>4. \A j \in DOMAIN rows : Leg(j)' = Leg(j) /\ OpenRow(j)' = OpenRow(j)
  BY <1>1 DEF Leg, OpenRow
<1>5. TakeProfits' = TakeProfits \cup {k}
  BY <1>1 DEF TakeProfits
<1>6. Live = OpenTakeProfits /\ Live' = OpenTakeProfits'
  BY <1>2, <1>3 DEF Live, At, SubmitPlaces
<1>7. OpenRow(k)' <=> new.status = "OPEN"
  BY <1>1 DEF OpenRow
<1>8. OpenTakeProfits' = IF new.status = "OPEN" THEN OpenTakeProfits \cup {k} ELSE OpenTakeProfits
  <2>1. TakeProfits \subseteq DOMAIN rows
    BY DEF TakeProfits
  <2> QED  BY <1>1, <1>4, <1>5, <1>7, <2>1 DEF OpenTakeProfits
<1> QED  BY <1>1, <1>2, <1>3, <1>4, <1>5, <1>6, <1>8

LEMMA PlacementExact == ASSUME Shape, Safe, PlanIsExact, PlaceTP1 \/ PlaceTP2 \/ PlaceExit PROVE PlanIsExact'
<1>1. Shape'
  BY PlacementShape
<1>2. CASE m.pc \in SubmitPlaces /\ \E next \in {"placeTP2", "rows", "jobs"} : PassesOver(next)
  BY <1>1, <1>2, PassesOverPasses, PassingExact
<1>3. CASE \E next \in {"placeTP2", "rows", "jobs"}, purpose \in {"TP1", "TP2", "EXIT"}, n \in Nat \ {0} :
              /\ m.pc \in SubmitPlaces /\ Submits(purpose, n, next)
              /\ n = Left(IF purpose = "TP1" THEN "TP1" ELSE "TP2")
              /\ m.pc # "placeTP2" => OpenTakeProfits = {}
              /\ m.pc = "placeTP2" => purpose = "TP2"
  <2>1. PICK next \in {"placeTP2", "rows", "jobs"}, purpose \in {"TP1", "TP2", "EXIT"}, n \in Nat \ {0} :
              /\ m.pc \in SubmitPlaces /\ Submits(purpose, n, next)
              /\ n = Left(IF purpose = "TP1" THEN "TP1" ELSE "TP2")
    BY <1>3
  <2>2. PICK leg \in Legs : leg = IF purpose = "TP1" THEN "TP1" ELSE "TP2"
    BY DEF Legs
  <2>3. PICK new \in Rows :
          /\ rows' = Append(rows, new) /\ new.purpose = purpose /\ new.qty = n
          /\ (new.status = "OPEN" => new.filled = 0)
          /\ (new.bStatus = "GONE" => new.status = "UNKNOWN")
          /\ Moves(next) \/ Leave
    BY <2>1 DEF Submits
  <2>4. PICK k : k = Len(rows) + 1
    OBVIOUS
  <2>5. /\ DOMAIN rows' = DOMAIN rows \cup {k} /\ k \notin DOMAIN rows
        /\ rows'[k] = new /\ \A j \in DOMAIN rows : rows'[j] = rows[j] /\ Leg(j)' = Leg(j) /\ OpenRow(j)' = OpenRow(j)
        /\ Buy' = Buy /\ Buy.applied
        /\ Live' = IF new.status = "OPEN" THEN Live \cup {k} ELSE Live
        /\ m'.pc \in {"placeTP2", "rows", "jobs", "idle"}
    BY <2>1, <2>3, <2>4, SubmitsLive
  <2>6. UNCHANGED <<pos, plan>> /\ ~At("sell") /\ ~At("sell")' /\ ~IsCredited' /\ ~At("bought") /\ ~At("sold") /\ ~At("sold")'
    BY <2>1, <2>5 DEF Submits, At, SubmitPlaces, IsCredited
  <2>7. \A l \in Legs : Left(l)' = Left(l) /\ plan'.target[l] = plan.target[l]
    BY <2>6 DEF Left
  <2>8. Left("TP1")' = Left("TP1") /\ Left("TP2")' = Left("TP2") /\ Net' = Net
    BY <2>6, <2>7 DEF Legs, Net, Pending
  <2>9. NoneGone'
    BY <2>3, <2>5 DEF PlanIsExact, NoneGone
  <2>10. StateFits'
    <3> HIDE DEF Left, Buy
    <3> QED  BY <2>5, <2>6, <2>8 DEF PlanIsExact, StateFits
  <2>11. Net' = Left("TP1")' + Left("TP2")'
    <3>1. Net = Left("TP1") + Left("TP2")
      BY <2>6 DEF PlanIsExact
    <3> HIDE DEF Left, Net
    <3> QED  BY <2>8, <3>1
  <2>12. ASSUME NEW i \in Live' PROVE Exact(i)'
    <3>1. CASE i = k /\ new.status = "OPEN"
      <4>1. Leg(i)' = leg /\ rows'[i].qty = n /\ rows'[i].filled = 0
        BY <2>2, <2>3, <2>5, <3>1 DEF Leg
      <4>2. Left(Leg(i))' = Left(leg)
        <5>1. Left(Leg(i))' = Left(leg)'
          BY <4>1 DEF Left
        <5> HIDE DEF Left, Leg
        <5> QED  BY <2>7, <5>1
      <4>3. n = Left(leg) /\ n <= plan.target[leg]
        <5>1. n = Left(leg)
          BY <2>1, <2>2
        <5>2. PICK t \in Nat, p \in Nat : t = plan.target[leg] /\ p = plan.filled[leg] /\ Left(leg) = t - p
          BY LeftTypes
        <5> QED  BY <5>1, <5>2
      <4>4. n - 0 <= n /\ 0 < n /\ n = n - 0
        OBVIOUS
      <4> HIDE DEF Left, Leg
      <4> QED  BY <2>7, <4>1, <4>2, <4>3, <4>4 DEF Exact
    <3>2. CASE i \in Live
      <4>1. i \in DOMAIN rows /\ Exact(i)
        BY <3>2, LiveRows DEF PlanIsExact
      <4>2. PICK l \in Legs : l = Leg(i) /\ Leg(i)' = l
        BY <2>5, <4>1, RowTypes DEF Shape
      <4>3. Left(Leg(i))' = Left(Leg(i)) /\ plan'.target[Leg(i)'] = plan.target[Leg(i)]
        <5>1. Left(Leg(i))' = Left(l)'
          BY <4>2 DEF Left
        <5> HIDE DEF Left, Leg
        <5> QED  BY <2>7, <4>2, <5>1
      <4> HIDE DEF Left, Leg
      <4> QED  BY <2>5, <2>6, <4>1, <4>3 DEF Exact
    <3> QED  BY <2>5, <3>1, <3>2
  <2> HIDE DEF Left, Net
  <2> QED  BY <2>6, <2>9, <2>10, <2>11, <2>12 DEF PlanIsExact
<1> QED  BY <1>2, <1>3, PlacedForLeft

-----------------------------------------------------------------------------
(* The plan is exact: inductive without a crash *)

LEMMA InitExact == ASSUME Init PROVE PlanIsExact
<1>1. Begins /\ Shape
  BY InitBegins, InitShape
<1>2. Live = {} /\ ~IsCredited /\ Net = pos.qty /\ pos.qty \in Nat
  BY <1>1, LiveRows DEF Begins, Live, Idle, At, OpenTakeProfits, TakeProfits, Shape, BuyFirst, Types, IsCredited, Net, Pending
<1>3. NoneGone
  <2>1. DOMAIN rows = {1} /\ rows[1].bStatus = "OPEN"
    BY <1>1 DEF Begins, Buy
  <2> QED  BY <2>1 DEF NoneGone
<1>4. StateFits /\ Net = Left("TP1") + Left("TP2")
  <2> HIDE DEF Left, Net
  <2> QED  BY <1>1, <1>2 DEF Begins, StateFits
<1> HIDE DEF Left, Net
<1> QED  BY <1>2, <1>3, <1>4 DEF PlanIsExact

\* A crash is counted, and nothing uncounts it.
LEMMA CrashIsCounted == ASSUME Shape, Crash PROVE crashes' # 0
BY DEF Crash, Shape, Types

LEMMA CrashesStay == ASSUME Shape, Next, crashes' = 0 PROVE crashes = 0 /\ ~Crash
<1>1. crashes' = crashes \/ Crash
  BY DEF Next, Step, Begin, RefreshRow, MissingRow, SettleRow, BuyGoesOn, CancelLateBuy, CreatePlan, AddShares, MarkBuy,
     RestoreUnfilled, MarkUnfilled, NothingSold, FillPlan, RemoveShares, MarkSell, PassDone, RefreshAfterTP1,
     RecoverTakeProfits, RecoverExit, SwitchToExit, Done, Settled, CreditFill, Replace, PlaceTP1, PlaceTP2, PlaceExit,
     RefreshFails, Overfills, BrokerCancels, BrokerFills, Reconcile
<1> QED  BY <1>1, CrashIsCounted

LEMMA NextExact == ASSUME Shape, Safe, PlanIsExact, Next, crashes' = 0 PROVE PlanIsExact'
<1>1. Kinds /\ ~Crash
  BY NextKinds, CrashesStay
<1>2. ~(\E i \in m.todo : MissingRow(i))
  BY NoRowIsMissing
<1>3. ASSUME Begin \/ BuyGoesOn \/ PassDone \/ Done \/ Settled \/ Replace \/ RefreshFails PROVE PlanIsExact'
  BY <1>3, ControlPasses, PassingExact
<1>4. ASSUME \/ RefreshAfterTP1 \/ RecoverTakeProfits \/ RecoverExit \/ SwitchToExit
             \/ \E i \in m.fills : CreditFill(i)
      PROVE  PlanIsExact'
  BY <1>4, SaysPasses, PassingExact
<1> QED
  BY <1>1, <1>2, <1>3, <1>4, RefreshRowExact, SettleRowExact, BuyStepsExact, NothingSoldExact, FillPlanExact,
     RemoveSharesExact, MarkSellExact, PlacementExact, BrokerActsExact, ReconcileExact
  DEF Kinds

LEMMA StutterExact == ASSUME Shape, PlanIsExact, UNCHANGED vars PROVE PlanIsExact'
BY DEF vars, PlanIsExact, NoneGone, StateFits, Exact, SaleFits, IsCredited, Live, Leg, Left, Net, Pending, Buy,
   At, OpenTakeProfits, TakeProfits, OpenRow

-----------------------------------------------------------------------------
(* The balance: how the sum changes *)

\* What the terms of the balance are, ...
Amounts ==
    /\ \A i \in TakeProfits : Uncredited(i) \in Int /\ i \in DOMAIN rows
    /\ UncreditedShares \in Int

LEMMA ShapeAmounts == Shape => Amounts
<1> SUFFICES ASSUME Shape PROVE Amounts
  OBVIOUS
<1>1. ASSUME NEW i \in TakeProfits PROVE Uncredited(i) \in Int /\ i \in DOMAIN rows
  <2>1. i \in DOMAIN rows /\ rows[i].bFilled \in Nat /\ rows[i].qty \in Nat /\ Leg(i) \in Legs
    BY LiveRows, RowTypes DEF Shape
  <2>2. Left(Leg(i)) \in Nat
    BY <2>1, LeftTypes
  <2> HIDE DEF Left, Leg
  <2> QED  BY <2>1, <2>2 DEF Uncredited
<1>2. UncreditedShares \in Int
  <2> DEFINE f == [i \in TakeProfits |-> Uncredited(i)]
  <2>1. f \in [TakeProfits -> Int] /\ IsFiniteSet(TakeProfits)
    BY <1>1, ShapeNumbers DEF Numbers
  <2>2. SumFunction(f) \in Int
    <3> HIDE DEF f
    <3> QED  BY <2>1, SumType
  <2> QED  BY <2>2 DEF UncreditedShares
<1> QED  BY <1>1, <1>2 DEF Amounts

\* ... and are after a step.
LEMMA ShapeAmountsNext == Shape' => Amounts'
BY ShapeAmounts, PTL

\* What the broker holds more, or still has uncredited, the position or the BUY has more.
LEMMA BalanceWeighs ==
    ASSUME Shape, Shape', Balanced, overfilled => overfilled', NEW d \in Int, NEW e \in Int,
           overfilled' \/ (hold' = hold + d /\ UncreditedShares' = UncreditedShares + e
                           /\ Net' + BuyDue' = Net + BuyDue + d + e)
    PROVE  Balanced'
<1>1. CASE overfilled'
  BY <1>1 DEF Balanced
<1>2. CASE ~overfilled'
  <2>1. PICK n \in Int, k \in Int, h \in Int, x \in Int, n1 \in Int, k1 \in Int, h1 \in Int, x1 \in Int :
          /\ n = Net /\ k = BuyDue /\ h = hold /\ x = UncreditedShares
          /\ n1 = Net' /\ k1 = BuyDue' /\ h1 = hold' /\ x1 = UncreditedShares'
    <3>1. /\ Net \in Int /\ BuyDue \in Int /\ hold \in Int /\ UncreditedShares \in Int
          /\ Net' \in Int /\ BuyDue' \in Int /\ hold' \in Int /\ UncreditedShares' \in Int
      BY ShapeNumbers, ShapeNumbersNext, ShapeAmounts, ShapeAmountsNext DEF Numbers, Amounts
    <3> QED  BY <3>1
  <2>2. h1 = h + d /\ x1 = x + e /\ n1 + k1 = n + k + d + e /\ n + k = h + x
    BY <1>2, <2>1 DEF Balanced
  <2>3. n1 + k1 = h1 + x1
    BY <2>2
  <2> QED  BY <2>1, <2>3 DEF Balanced
<1> QED  BY <1>1, <1>2

\* No row has more or less uncredited.
LEMMA BalanceStays ==
    ASSUME Shape, Shape', Balanced, TakeProfits' = TakeProfits,
           \A j \in TakeProfits : Uncredited(j)' = Uncredited(j),
           overfilled => overfilled', NEW d \in Int,
           overfilled' \/ (hold' = hold + d /\ Net' + BuyDue' = Net + BuyDue + d)
    PROVE  Balanced'
<1>1. UncreditedShares' = UncreditedShares
  <2>1. [i \in TakeProfits |-> Uncredited(i)'] = [i \in TakeProfits |-> Uncredited(i)]
    OBVIOUS
  <2>2. UncreditedShares' = SumFunction([i \in TakeProfits |-> Uncredited(i)'])
    BY DEF UncreditedShares
  <2> QED  BY <2>1, <2>2 DEF UncreditedShares
<1>2. Net \in Int /\ BuyDue \in Int /\ UncreditedShares \in Int
  BY ShapeNumbers, ShapeAmounts DEF Numbers, Amounts
<1>3. 0 \in Int /\ UncreditedShares' = UncreditedShares + 0 /\ Net + BuyDue + d + 0 = Net + BuyDue + d
  BY <1>1, <1>2
<1> QED  BY <1>3, BalanceWeighs

\* One row has.
LEMMA BalanceRow ==
    ASSUME Shape, Shape', Balanced, TakeProfits' = TakeProfits, NEW i \in TakeProfits,
           \A j \in TakeProfits \ {i} : Uncredited(j)' = Uncredited(j),
           overfilled => overfilled', NEW d \in Int, NEW e \in Int, Uncredited(i)' = Uncredited(i) + e,
           overfilled' \/ (hold' = hold + d /\ Net' + BuyDue' = Net + BuyDue + d + e)
    PROVE  Balanced'
<1>1. UncreditedShares' = UncreditedShares + e
  <2> DEFINE f == [j \in TakeProfits |-> Uncredited(j)]
  <2> DEFINE g == [j \in TakeProfits |-> Uncredited(j)']
  <2>1. /\ f \in [TakeProfits -> Int] /\ g \in [TakeProfits -> Int] /\ IsFiniteSet(TakeProfits)
        /\ \A j \in TakeProfits \ {i} : g[j] = f[j]
    BY ShapeNumbers, ShapeAmounts, ShapeAmountsNext DEF Numbers, Amounts
  <2>2. SumFunction(g) = SumFunction(f) + (g[i] - f[i])
    <3> HIDE DEF f, g
    <3> QED  BY <2>1, SumChange
  <2>3. UncreditedShares = SumFunction(f) /\ UncreditedShares' = SumFunction(g)
    BY DEF UncreditedShares
  <2>4. f[i] \in Int /\ g[i] = f[i] + e
    BY ShapeAmounts DEF Amounts
  <2>5. g[i] - f[i] = e
    <3> HIDE DEF f, g
    <3> QED  BY <2>4
  <2> HIDE DEF f, g
  <2> QED  BY <2>2, <2>3, <2>5
<1> QED  BY <1>1, BalanceWeighs

\* A row is new.
LEMMA BalanceAppended ==
    ASSUME Shape, Shape', Balanced, NEW k, k \notin TakeProfits, TakeProfits' = TakeProfits \cup {k},
           \A j \in TakeProfits : Uncredited(j)' = Uncredited(j),
           overfilled => overfilled', NEW d \in Int, NEW e \in Int, Uncredited(k)' = e,
           overfilled' \/ (hold' = hold + d /\ Net' + BuyDue' = Net + BuyDue + d + e)
    PROVE  Balanced'
<1>1. UncreditedShares' = UncreditedShares + e
  <2> DEFINE f == [j \in TakeProfits |-> Uncredited(j)]
  <2> DEFINE h == [j \in TakeProfits \cup {k} |-> Uncredited(j)']
  <2>1. /\ f \in [TakeProfits -> Int] /\ h \in [TakeProfits \cup {k} -> Int] /\ IsFiniteSet(TakeProfits)
        /\ h[k] = e /\ \A j \in TakeProfits : h[j] = f[j]
    BY ShapeNumbers, ShapeAmounts, ShapeAmountsNext DEF Numbers, Amounts
  <2>2. SumFunction(h) = SumFunction(f) + e
    <3> HIDE DEF f, h
    <3> QED  BY <2>1, SumAdds
  <2>3. UncreditedShares = SumFunction(f) /\ UncreditedShares' = SumFunction(h)
    BY DEF UncreditedShares
  <2> HIDE DEF f, h
  <2> QED  BY <2>2, <2>3
<1> QED  BY <1>1, BalanceWeighs

\* A fill of the row is where it was, in a leg that has left what it had.
LEMMA UncreditedStays ==
    ASSUME NEW j, Leg(j)' = Leg(j), Left(Leg(j))' = Left(Leg(j)),
           rows'[j].qty = rows[j].qty, rows'[j].bFilled = rows[j].bFilled, rows'[j].applied = rows[j].applied,
           j \in Live' <=> j \in Live,
           (IsCredited' /\ j = m'.cur) <=> (IsCredited /\ j = m.cur)
    PROVE  Uncredited(j)' = Uncredited(j)
<1> HIDE DEF Left, Leg, Live, IsCredited
<1> QED  BY DEF Uncredited

\* The same for all rows, when the plan has left what it had.
LEMMA AllUncreditedStay ==
    ASSUME Shape, NEW J, J \subseteq TakeProfits, \A leg \in Legs : Left(leg)' = Left(leg),
           \A j \in J : /\ SameOrder(rows'[j], rows[j])
                        /\ rows'[j].bFilled = rows[j].bFilled /\ rows'[j].applied = rows[j].applied
                        /\ j \in Live' <=> j \in Live
                        /\ (IsCredited' /\ j = m'.cur) <=> (IsCredited /\ j = m.cur)
    PROVE  \A j \in J : Uncredited(j)' = Uncredited(j)
<1> TAKE j \in J
<1>1. PICK leg \in Legs : leg = Leg(j)
  BY LiveRows, RowTypes DEF Shape
<1>2. Leg(j)' = leg /\ rows'[j].qty = rows[j].qty
  BY <1>1 DEF Leg, SameOrder
<1>3. Left(Leg(j))' = Left(Leg(j))
  <2>1. Left(Leg(j))' = Left(leg)'
    BY <1>2 DEF Left
  <2> HIDE DEF Left, Leg
  <2> QED  BY <1>1, <2>1
<1> HIDE DEF Left, Leg, Live, IsCredited
<1> QED  BY <1>1, <1>2, <1>3, UncreditedStays

\* Nothing changes for a step that leaves the sides alone.
LEMMA SidesEqual ==
    ASSUME Shape, UNCHANGED hold, Net' = Net, BuyDue' = BuyDue
    PROVE  0 \in Int /\ hold' = hold + 0 /\ Net' + BuyDue' = Net + BuyDue + 0
BY ShapeNumbers DEF Numbers

-----------------------------------------------------------------------------
(* The balance: step by step *)

LEMMA PassingBalanced == ASSUME Shape, Shape', Balanced, Passing PROVE Balanced'
<1>1. UNCHANGED <<pos, plan, rows, hold, overfilled>> /\ ~IsCredited /\ ~IsCredited' /\ Live' = Live
      /\ TakeProfits' = TakeProfits
  BY DEF Passing, IsCredited, Halfway, TakeProfits
<1>2. \A leg \in Legs : Left(leg)' = Left(leg)
  BY <1>1 DEF Left
<1>3. \A j \in TakeProfits : Uncredited(j)' = Uncredited(j)
  BY <1>1, <1>2, AllUncreditedStay DEF SameOrder
<1>4. Net' = Net /\ BuyDue' = BuyDue
  BY <1>1 DEF Passing, Halfway, Net, Pending, BuyDue, At, Buy
<1> QED  BY <1>1, <1>3, <1>4, SidesEqual, BalanceStays

\* An order that has ended without a fill has nothing uncredited.
LEMMA NothingSoldBalanced == ASSUME Shape, Safe, PlanIsExact, Balanced, NothingSold PROVE Balanced'
<1>0. PICK c : c = m.cur
  OBVIOUS
<1>1. /\ Shape' /\ UNCHANGED <<pos, plan, rows, hold, overfilled>> /\ m.pc = "sell" /\ GoesOn /\ rows[c].filled = 0
  BY <1>0, NothingSoldShape DEF SameBooks, SameCounts
<1>2. c \in TakeProfits /\ c \in DOMAIN rows /\ c \in Live /\ Exact(c) /\ ~rows[c].applied /\ rows[c].status # "UNKNOWN"
      /\ c \notin m.fills /\ Leg(c) \in Legs
  BY <1>0, <1>1, RowTypes DEF Shape, AtSell, SellPlaces, TakeProfits, Live, At, PlanIsExact
<1>3. m'.pc \in {"rows", "credit"} /\ m'.fills = m.fills /\ TakeProfits' = TakeProfits /\ OpenTakeProfits' = OpenTakeProfits
  BY <1>1 DEF GoesOn, TakeProfits, OpenTakeProfits, OpenRow
<1>4. Live = OpenTakeProfits \cup m.fills \cup {c} /\ Live' = OpenTakeProfits \cup m.fills
  BY <1>0, <1>1, <1>3 DEF Live, At
<1>5. ~IsCredited /\ ~IsCredited'
  BY <1>1, <1>3 DEF IsCredited
<1>6. \A leg \in Legs : Left(leg)' = Left(leg)
  BY <1>1 DEF Left
<1>7. \A j \in TakeProfits \ {c} : Uncredited(j)' = Uncredited(j)
  <2>1. \A j \in TakeProfits \ {c} : j \in Live' <=> j \in Live
    BY <1>4
  <2>2. TakeProfits \ {c} \subseteq TakeProfits
    OBVIOUS
  <2> QED  BY <1>1, <1>5, <1>6, <2>1, <2>2, AllUncreditedStay DEF SameOrder
<1>8. Uncredited(c)' = Uncredited(c)
  <2>1. CASE OpenRow(c)
    <3>1. c \in Live'
      BY <1>2, <1>4, <2>1 DEF OpenTakeProfits
    <3>2. {c} \subseteq TakeProfits
      BY <1>2
    <3>3. \A j \in {c} : /\ SameOrder(rows'[j], rows[j])
                         /\ rows'[j].bFilled = rows[j].bFilled /\ rows'[j].applied = rows[j].applied
                         /\ j \in Live' <=> j \in Live
                         /\ (IsCredited' /\ j = m'.cur) <=> (IsCredited /\ j = m.cur)
      BY <1>1, <1>2, <1>5, <3>1 DEF SameOrder
    <3> QED  BY <1>6, <3>2, <3>3, AllUncreditedStay
  <2>2. CASE ~OpenRow(c)
    <3>1. rows[c].bFilled = 0
      BY <1>1, <1>2, <2>2, RowTypes DEF RowOK, Ended, OpenRow, Shape
    <3>2. rows[c].qty \in Nat /\ Left(Leg(c)) \in Nat
      BY <1>2, RowTypes, LeftTypes DEF Shape
    <3>3. Left(Leg(c)) = rows[c].qty
      <4>1. Left(Leg(c)) <= rows[c].qty /\ rows[c].qty - 0 <= Left(Leg(c))
        BY <1>1, <1>2, LeftWithinOrder DEF Exact
      <4> HIDE DEF Left, Leg
      <4> QED  BY <3>2, <4>1
    <3>4. Uncredited(c) = 0
      <4> HIDE DEF Left, Leg, Live
      <4> QED  BY <1>2, <3>1, <3>2, <3>3 DEF Uncredited
    <3>5. c \notin Live'
      BY <1>2, <1>4, <2>2 DEF OpenTakeProfits
    <3>6. Uncredited(c)' = 0
      <4> HIDE DEF Left, Leg, Live, IsCredited
      <4> QED  BY <1>1, <1>5, <3>1, <3>5 DEF Uncredited
    <3> QED  BY <3>4, <3>6
  <2> QED  BY <2>1, <2>2
<1>9. \A j \in TakeProfits : Uncredited(j)' = Uncredited(j)
  BY <1>7, <1>8
<1>10. Net' = Net /\ BuyDue' = BuyDue
  BY <1>1, <1>3 DEF Net, Pending, BuyDue, At, Buy
<1> QED  BY <1>1, <1>3, <1>9, <1>10, SidesEqual, BalanceStays

\* A refresh reads what the broker has filled: the row had it uncredited before.
LEMMA RefreshRowBalanced == ASSUME Shape, Balanced, NEW i \in m.todo, RefreshRow(i) PROVE Balanced'
<1>1. Refreshes(i) /\ i \in DOMAIN rows /\ rows[i].status = "OPEN" /\ Types /\ Shape'
  BY RefreshRowRefreshes, RefreshRowShape DEF Shape
<1>2. PICK new \in Rows : Writes(i, new) /\ Refreshed(new, rows[i])
  BY <1>1 DEF Refreshes
<1>3. /\ TakeProfits' = TakeProfits /\ rows'[i] = new /\ \A j \in DOMAIN rows : j # i => rows'[j] = rows[j]
      /\ Buy' = (IF i = 1 THEN new ELSE Buy)
  BY <1>1, <1>2, OneRow DEF Refreshed
<1>4. Live' = Live
  BY <1>1, RefreshLive
<1>5. UNCHANGED <<pos, plan, hold, overfilled>> /\ m.pc = "rows" /\ m'.pc \in {"buy", "sell"}
  BY <1>1 DEF Refreshes, SameCounts
<1>6. ~IsCredited /\ ~IsCredited' /\ \A leg \in Legs : Left(leg)' = Left(leg)
  BY <1>5 DEF IsCredited, Left
<1>7. \A j \in TakeProfits : SameOrder(rows'[j], rows[j]) /\ rows'[j].bFilled = rows[j].bFilled /\ rows'[j].applied = rows[j].applied
  BY <1>2, <1>3, LiveRows DEF Refreshed, SameOrder
<1>8. \A j \in TakeProfits : Uncredited(j)' = Uncredited(j)
  BY <1>4, <1>6, <1>7, AllUncreditedStay
<1>9. Net' = Net /\ BuyDue' = BuyDue
  <2>1. Buy'.applied = Buy.applied /\ Buy'.bFilled = Buy.bFilled
    BY <1>1, <1>2, <1>3 DEF Refreshed, Buy
  <2> QED  BY <1>5, <2>1 DEF Net, Pending, BuyDue, At
<1> QED  BY <1>1, <1>3, <1>5, <1>8, <1>9, SidesEqual, BalanceStays

\* The settlement keeps a fill; where there is none, the leg has left the whole order.
LEMMA SettleRowBalanced == ASSUME Shape, PlanIsExact, Balanced, NEW i \in m.todo, SettleRow(i) PROVE Balanced'
<1>1. Settles(i) /\ i \in OpenTakeProfits /\ i \in DOMAIN rows /\ Types /\ Shape'
  BY SettleRowSettles, SettleRowShape DEF Shape
<1>2. EndsOrder(i)
  BY <1>1, NoRowIsMissing DEF Settles
<1>3. PICK new \in Rows :
        /\ Writes(i, new) /\ SameOrder(new, rows[i]) /\ Ended(new) /\ new.bFilled = rows[i].bFilled
        /\ new.applied = (rows[i].bFilled = 0)
  BY <1>2 DEF EndsOrder
<1>4. /\ TakeProfits' = TakeProfits /\ rows'[i] = new /\ \A j \in DOMAIN rows : j # i => rows'[j] = rows[j]
      /\ Buy' = (IF i = 1 THEN new ELSE Buy)
  BY <1>1, <1>3, OneRow
<1>5. Live' = (IF rows[i].bFilled > 0 THEN Live ELSE Live \ {i}) /\ i \in Live
  BY <1>1, <1>2, <1>3, SettleLive DEF Settles, Live
<1>6. m.pc = "settle" /\ m'.pc = "settle" /\ UNCHANGED <<pos, plan, hold, overfilled>> /\ i # 1 /\ i \in TakeProfits
      /\ rows[i].status = "OPEN"
  BY <1>1, <1>2 DEF Settles, EndsOrder, OpenTakeProfits, OpenRow, TakeProfits, Shape, BuyFirst, SameCounts
<1>7. ~IsCredited /\ ~IsCredited' /\ \A leg \in Legs : Left(leg)' = Left(leg)
  BY <1>6 DEF IsCredited, Left
<1>8. rows[i].bFilled \in Nat /\ rows[i].qty \in Nat /\ rows[i].filled \in Nat /\ rows[i].filled <= rows[i].bFilled
      /\ rows[i].applied = FALSE /\ Leg(i) \in Legs
  BY <1>1, <1>6, RowTypes DEF RowOK
<1>9. \A j \in TakeProfits \ {i} : Uncredited(j)' = Uncredited(j)
  <2>1. \A j \in TakeProfits \ {i} : rows'[j] = rows[j] /\ (j \in Live' <=> j \in Live)
    BY <1>4, <1>5, LiveRows
  <2>2. TakeProfits \ {i} \subseteq TakeProfits
    OBVIOUS
  <2> QED  BY <1>7, <2>1, <2>2, AllUncreditedStay DEF SameOrder
<1>10. Uncredited(i)' = Uncredited(i)
  <2>1. CASE rows[i].bFilled > 0
    <3>1. {i} \subseteq TakeProfits
      BY <1>6
    <3>2. \A j \in {i} : /\ SameOrder(rows'[j], rows[j])
                         /\ rows'[j].bFilled = rows[j].bFilled /\ rows'[j].applied = rows[j].applied
                         /\ j \in Live' <=> j \in Live
                         /\ (IsCredited' /\ j = m'.cur) <=> (IsCredited /\ j = m.cur)
      <4>1. Live' = Live /\ rows[i].bFilled # 0
        BY <1>5, <1>8, <2>1
      <4>2. new.applied = rows[i].applied
        BY <1>3, <1>8, <4>1, Zenon
      <4> QED  BY <1>3, <1>4, <1>7, <4>1, <4>2
    <3> QED  BY <1>7, <3>1, <3>2, AllUncreditedStay
  <2>2. CASE ~(rows[i].bFilled > 0)
    <3>1. rows[i].bFilled = 0 /\ rows[i].filled = 0
      BY <1>8, <2>2
    <3>2. Left(Leg(i)) = rows[i].qty
      <4>1. Exact(i) /\ OpenRow(i) /\ ~At("sell")
        BY <1>5, <1>6 DEF PlanIsExact, OpenRow, At
      <4>2. Left(Leg(i)) = rows[i].qty - rows[i].filled
        BY <4>1 DEF Exact
      <4> HIDE DEF Left, Leg
      <4> QED  BY <1>8, <3>1, <4>2
    <3>3. Uncredited(i) = 0
      <4> HIDE DEF Left, Leg, Live
      <4> QED  BY <1>5, <1>8, <3>1, <3>2 DEF Uncredited
    <3>4. Uncredited(i)' = 0
      <4>1. i \notin Live' /\ rows'[i].applied
        <5>1. ~(rows[i].bFilled > 0)
          BY <2>2
        <5>2. i \notin Live'
          BY <1>5, <5>1
        <5>3. new.applied
          BY <1>3, <3>1, Zenon
        <5> QED  BY <1>4, <5>2, <5>3
      <4> HIDE DEF Left, Leg, Live, IsCredited
      <4> QED  BY <4>1 DEF Uncredited
    <3> QED  BY <3>3, <3>4
  <2> QED  BY <2>1, <2>2
<1>11. \A j \in TakeProfits : Uncredited(j)' = Uncredited(j)
  BY <1>9, <1>10
<1>12. Net' = Net /\ BuyDue' = BuyDue
  BY <1>4, <1>6 DEF Net, Pending, BuyDue, At, Buy
<1> QED  BY <1>1, <1>4, <1>6, <1>11, <1>12, SidesEqual, BalanceStays

\* While the BUY is handled there is no other order, and what it has brought moves into
\* the position.
LEMMA BuyStepsBalanced ==
    ASSUME Shape, Balanced, CancelLateBuy \/ CreatePlan \/ AddShares \/ RestoreUnfilled \/ MarkBuy \/ MarkUnfilled
    PROVE  Balanced'
<1>0. Types /\ Buy.filled \in Nat /\ Buy.bFilled \in Nat /\ pos.qty \in Nat
  BY BuyRow DEF Shape, Types, Rows, RowRecords
<1>1. ASSUME m.pc \in BuyPlaces, Shape', TakeProfits' = TakeProfits,
             UNCHANGED <<hold, overfilled>>, Net + BuyDue = Net' + BuyDue'
      PROVE  Balanced'
  <2>1. TakeProfits = {} /\ 0 \in Int
    BY <1>1, BuyIsAlone
  <2>2. hold' = hold + 0 /\ Net' + BuyDue' = Net + BuyDue + 0
    BY <1>1, ShapeNumbers DEF Numbers
  <2> QED  BY <1>1, <2>1, <2>2, BalanceStays
<1>2. CASE CancelLateBuy
  <2>1. EndsBuy /\ Shape'
    BY <1>2, CancelLateBuyEnds, CancelLateBuyShape
  <2>2. PICK new \in Rows : Writes(1, new) /\ Refreshed(new, Buy)
    BY <2>1 DEF EndsBuy
  <2>3. TakeProfits' = TakeProfits /\ Buy' = new
    BY <1>0, <2>2, BuyRow, OneRow DEF Refreshed, Buy
  <2>4. Net' = Net /\ BuyDue' = BuyDue
    BY <2>1, <2>2, <2>3 DEF EndsBuy, Net, Pending, At, BuyDue, Refreshed
  <2> QED  BY <1>1, <2>1, <2>3, <2>4 DEF EndsBuy, SameCounts, BuyPlaces
<1>3. CASE CreatePlan
  <2>1. PlansBuy /\ Shape'
    BY <1>3, CreatePlanShape
  <2>2. /\ m.pc = "buy" /\ UNCHANGED <<pos, rows, hold, overfilled>> /\ m'.pc \in {"bought", "idle"}
    BY <2>1, LeftBehind DEF PlansBuy, Moves, SameCounts
  <2>3. Net' = Net /\ BuyDue' = BuyDue /\ TakeProfits' = TakeProfits
    BY <2>2 DEF Net, Pending, At, BuyDue, Buy, TakeProfits
  <2> QED  BY <1>1, <2>1, <2>2, <2>3 DEF BuyPlaces
<1>4. CASE AddShares
  <2>1. Adds /\ Shape'
    BY <1>4, AddSharesShape
  <2>2. /\ m.pc = "bought" /\ UNCHANGED <<rows, hold, overfilled>> /\ m'.pc = "markBuy" /\ Ended(Buy)
        /\ pos'.qty = pos.qty + Buy.filled
    BY <2>1 DEF Adds, Moves, SameCounts, Shape, AtBuy, At
  <2>3. TakeProfits' = TakeProfits /\ Buy.bFilled = Buy.filled /\ ~Buy.applied
    BY <1>0, <2>2, BuyRow, BuyIsAlone DEF TakeProfits, RowOK, BuyPlaces
  <2>4. Net = pos.qty /\ Net' = pos.qty + Buy.filled /\ BuyDue = Buy.filled /\ BuyDue' = 0
    BY <1>0, <2>2, <2>3 DEF Net, Pending, At, BuyDue
  <2>5. Net + BuyDue = Net' + BuyDue'
    BY <1>0, <2>4
  <2> QED  BY <1>1, <2>1, <2>2, <2>3, <2>5 DEF BuyPlaces
<1>5. CASE RestoreUnfilled
  <2>1. Restores /\ Shape'
    BY <1>5, RestoreUnfilledShape
  <2>2. /\ m.pc = "buy" /\ UNCHANGED <<rows, hold, overfilled>> /\ m'.pc = "markUnfilled" /\ pos'.qty = pos.qty
    BY <2>1 DEF Restores, Moves, SameCounts
  <2>3. Net' = Net /\ BuyDue' = BuyDue /\ TakeProfits' = TakeProfits
    BY <2>2 DEF Net, Pending, At, BuyDue, Buy, TakeProfits
  <2> QED  BY <1>1, <2>1, <2>2, <2>3 DEF BuyPlaces
<1>6. CASE MarkBuy \/ MarkUnfilled
  <2>1. MarksBuy /\ Shape'
    BY <1>6, MarkBuyMarks, MarkBuyShape
  <2>2. PICK new \in Rows :
          /\ Writes(1, new) /\ SameOrder(new, Buy) /\ new.applied
    BY <2>1 DEF MarksBuy
  <2>3. /\ m.pc \in {"markBuy", "markUnfilled"} /\ UNCHANGED <<pos, hold, overfilled>>
        /\ m'.pc \in {"placeTP1", "rows"}
    BY <2>1 DEF MarksBuy, Moves, SameCounts
  <2>4. TakeProfits' = TakeProfits /\ Buy' = new
    BY <1>0, <2>2, BuyRow, OneRow DEF Buy
  <2>5. Net' = Net /\ BuyDue' = 0
    BY <2>2, <2>3, <2>4 DEF Net, Pending, At, BuyDue
  <2>6. BuyDue = 0
    <3>1. m.pc = "markUnfilled" => Buy.bFilled = 0
      BY <1>0, <2>3, BuyRow DEF Shape, AtBuy, At, RowOK
    <3> QED  BY <2>3, <3>1 DEF BuyDue, At
  <2> QED  BY <1>1, <2>1, <2>3, <2>4, <2>5, <2>6 DEF BuyPlaces
<1> QED  BY <1>2, <1>3, <1>4, <1>5, <1>6

\* What the plan is credited with is no longer uncredited, and leaves the position next.
LEMMA FillPlanBalanced == ASSUME Shape, Safe, PlanIsExact, Balanced, FillPlan PROVE Balanced'
<1>0. PICK c, d : c = m.cur /\ d = Delta(c)
  OBVIOUS
<1>1. /\ c \in Live /\ c \in DOMAIN rows /\ Leg(c) \in Legs /\ m.pc = "sell" /\ UNCHANGED <<pos, rows, hold>>
      /\ d \in Nat /\ d = Left(Leg(c)) - (rows[c].qty - rows[c].filled)
      /\ m'.pc = "sold" /\ m'.cur = c /\ m'.fills = m.fills
      /\ Left(Leg(c))' = rows[c].qty - rows[c].filled
      /\ \A leg \in Legs : leg # Leg(c) => Left(leg)' = Left(leg)
      /\ Net = pos.qty /\ Net' = pos.qty - d
  BY <1>0, FillCredited
<1>2. Shape' /\ UNCHANGED overfilled /\ Buy.applied /\ c \in TakeProfits /\ c \notin m.fills /\ rows[c].status # "UNKNOWN"
      /\ rows[c].qty \in Nat /\ rows[c].filled \in Nat /\ rows[c].bFilled \in Nat
  BY <1>0, <1>1, FillPlanShape, RowTypes DEF FillPlan, Shape, AtSell, BuyFirst, SellPlaces
<1>3. /\ TakeProfits' = TakeProfits /\ OpenTakeProfits' = OpenTakeProfits /\ Buy' = Buy
      /\ \A j \in DOMAIN rows : Leg(j)' = Leg(j) /\ OpenRow(j)' = OpenRow(j)
  BY <1>1 DEF TakeProfits, OpenTakeProfits, OpenRow, Buy, Leg
<1>4. Live = OpenTakeProfits \cup m.fills \cup {c} /\ Live' = OpenTakeProfits \cup m.fills
  BY <1>0, <1>1, <1>3 DEF Live, At
<1>5. ~IsCredited /\ IsCredited'
  BY <1>1 DEF IsCredited
<1>6. \A j \in TakeProfits \ {c} : Uncredited(j)' = Uncredited(j)
  <2> TAKE j \in TakeProfits \ {c}
  <2>1. j \in DOMAIN rows /\ (j \in Live' <=> j \in Live) /\ rows'[j] = rows[j] /\ j # m'.cur
    BY <1>1, <1>4, LiveRows
  <2>2. CASE j \in Live
    <3>1. PICK k \in Legs : k = Leg(j) /\ k # Leg(c) /\ Leg(j)' = k
      BY <1>1, <1>3, <2>1, <2>2, RowTypes DEF Safe, OneLivePerLeg, Shape
    <3>2. Left(Leg(j))' = Left(k)'
      BY <3>1 DEF Left
    <3> HIDE DEF Left, Leg, Live, IsCredited
    <3> QED  BY <1>1, <2>1, <2>2, <3>1, <3>2 DEF Uncredited
  <2>3. CASE j \notin Live
    <3> HIDE DEF Left, Leg, Live, IsCredited
    <3> QED  BY <1>5, <2>1, <2>3 DEF Uncredited
  <2> QED  BY <2>2, <2>3
<1>7. Uncredited(c)' = Uncredited(c) + (-d)
  <2>1. Left(Leg(c)) \in Nat
    BY <1>1, LeftTypes
  <2>2. PICK l \in Nat, q \in Nat, s \in Nat, b \in Nat :
          l = Left(Leg(c)) /\ q = rows[c].qty /\ s = rows[c].filled /\ b = rows[c].bFilled
    BY <1>2, <2>1
  <2>3. Uncredited(c) = b - (q - l)
    <3> HIDE DEF Left, Leg, Live
    <3> QED  BY <1>1, <2>2 DEF Uncredited
  <2>4. d = l - (q - s)
    <3> HIDE DEF Left, Leg
    <3> QED  BY <1>1, <2>2
  <2>5. CASE OpenRow(c)
    <3>1. c \in Live'
      BY <1>2, <1>4, <2>5 DEF OpenTakeProfits
    <3>2. Uncredited(c)' = b - (q - (q - s))
      <4> HIDE DEF Left, Leg, Live, IsCredited
      <4> QED  BY <1>1, <2>2, <3>1 DEF Uncredited
    <3> QED  BY <1>1, <2>2, <2>3, <2>4, <3>2
  <2>6. CASE ~OpenRow(c)
    <3>1. c \notin Live'
      BY <1>2, <1>4, <2>6 DEF OpenTakeProfits
    <3>2. Uncredited(c)' = 0
      <4> HIDE DEF Left, Leg, Live, IsCredited
      <4> QED  BY <1>1, <1>5, <3>1 DEF Uncredited
    <3>3. b = s
      BY <1>1, <1>2, <2>2, <2>6, RowTypes DEF RowOK, Ended, OpenRow, Shape
    <3> QED  BY <1>1, <2>2, <2>3, <2>4, <3>2, <3>3
  <2> QED  BY <2>5, <2>6
<1>8. 0 \in Int /\ -d \in Int /\ hold' = hold + 0 /\ Net' + BuyDue' = Net + BuyDue + 0 + (-d)
  <2>1. BuyDue = 0 /\ BuyDue' = 0 /\ pos.qty \in Nat /\ hold \in Nat
    BY <1>2, <1>3, ShapeNumbers DEF BuyDue, Numbers
  <2> QED  BY <1>1, <2>1
<1> QED  BY <1>2, <1>3, <1>6, <1>7, <1>8, BalanceRow

LEMMA RemoveSharesBalanced == ASSUME Shape, Balanced, RemoveShares PROVE Balanced'
<1>1. Shape' /\ Removes
  BY RemoveSharesRemoves, RemoveSharesShape
<1>2. /\ m.pc = "sold" /\ UNCHANGED <<plan, rows, hold, overfilled>> /\ m'.pc = "markSell" /\ m'.cur = m.cur
      /\ m'.fills = m.fills /\ pos'.qty = pos.qty - m.delta
  BY <1>1 DEF Removes, Moves, SameCounts
<1>3. IsCredited /\ IsCredited' /\ Live' = Live /\ TakeProfits' = TakeProfits /\ Buy' = Buy
      /\ \A leg \in Legs : Left(leg)' = Left(leg)
  BY <1>2 DEF IsCredited, Live, At, OpenTakeProfits, TakeProfits, OpenRow, Buy, Left
<1>4. \A j \in TakeProfits : Uncredited(j)' = Uncredited(j)
  BY <1>2, <1>3, AllUncreditedStay DEF SameOrder
<1>5. Net' = Net /\ BuyDue' = BuyDue
  <2>1. pos.qty \in Nat /\ m.delta \in Nat /\ Buy.applied
    BY <1>2, RunTypes DEF Shape, Types, BuyFirst, SellPlaces
  <2> QED  BY <1>2, <1>3, <2>1 DEF Net, Pending, At, BuyDue
<1> QED  BY <1>1, <1>2, <1>3, <1>4, <1>5, SidesEqual, BalanceStays

\* The mark says of the row at hand what the pass has known.
LEMMA MarkSellBalanced == ASSUME Shape, Balanced, MarkSell PROVE Balanced'
<1>0. PICK c : c = m.cur
  OBVIOUS
<1>1. Types /\ Shape' /\ Closes
  BY MarkSellCloses, MarkSellShape DEF Shape
<1>2. PICK new \in Rows :
          /\ Writes(c, new) /\ SameOrder(new, rows[c])
          /\ new.status = rows[c].status /\ new.bFilled = rows[c].bFilled
          /\ new.applied = (rows[c].status # "OPEN")
  BY <1>0, <1>1 DEF Closes
<1>3. /\ m.pc = "markSell" /\ UNCHANGED <<pos, hold, overfilled>> /\ GoesOn
      /\ plan'.target = plan.target /\ plan'.filled = plan.filled
  BY <1>1 DEF Closes, SameCounts
<1>4. c \in DOMAIN rows /\ c \in TakeProfits /\ c \notin m.fills /\ c # 1 /\ Buy.applied /\ ~rows[c].applied
  BY <1>0, <1>3 DEF Shape, AtSell, BuyFirst, SellPlaces, TakeProfits
<1>5. /\ TakeProfits' = TakeProfits /\ Buy' = Buy
      /\ rows'[c] = new /\ \A j \in DOMAIN rows : j # c => rows'[j] = rows[j]
  BY <1>1, <1>2, <1>4, OneRow
<1>6. m'.pc \in {"rows", "credit"} /\ m'.fills = m.fills /\ m'.cur = c /\ IsCredited /\ ~IsCredited'
  BY <1>0, <1>3 DEF GoesOn, IsCredited
<1>7. OpenTakeProfits' = OpenTakeProfits
  <2>1. \A j \in TakeProfits : OpenRow(j)' = OpenRow(j)
    BY <1>2, <1>5, LiveRows DEF OpenRow
  <2> QED  BY <1>5, <2>1 DEF OpenTakeProfits
<1>8. Live' = Live /\ Live = OpenTakeProfits \cup m.fills
  BY <1>3, <1>6, <1>7 DEF Live, At
<1>9. \A leg \in Legs : Left(leg)' = Left(leg)
  BY <1>3 DEF Left
<1>10. \A j \in TakeProfits \ {c} : Uncredited(j)' = Uncredited(j)
  <2>1. \A j \in TakeProfits \ {c} : rows'[j] = rows[j] /\ j # m.cur
    BY <1>0, <1>5, LiveRows
  <2>2. TakeProfits \ {c} \subseteq TakeProfits
    OBVIOUS
  <2> QED  BY <1>6, <1>8, <1>9, <2>1, <2>2, AllUncreditedStay DEF SameOrder
<1>11. Uncredited(c)' = Uncredited(c)
  <2>1. CASE OpenRow(c)
    <3>1. c \in Live
      BY <1>4, <1>8, <2>1 DEF OpenTakeProfits
    <3>2. PICK leg \in Legs : leg = Leg(c) /\ Leg(c)' = leg
      BY <1>1, <1>2, <1>4, <1>5, RowTypes DEF Leg, SameOrder
    <3>3. Left(Leg(c))' = Left(leg)'
      BY <3>2 DEF Left
    <3>4. Left(Leg(c))' = Left(Leg(c))
      <4> HIDE DEF Left, Leg
      <4> QED  BY <1>9, <3>2, <3>3
    <3> HIDE DEF Left, Leg, Live, IsCredited
    <3> QED  BY <1>2, <1>5, <1>8, <3>1, <3>4 DEF Uncredited, SameOrder
  <2>2. CASE ~OpenRow(c)
    <3>1. c \notin Live
      BY <1>4, <1>8, <2>2 DEF OpenTakeProfits
    <3>2. rows'[c].applied
      BY <1>2, <1>5, <2>2 DEF OpenRow
    <3> HIDE DEF Left, Leg, Live, IsCredited
    <3> QED  BY <1>0, <1>6, <1>8, <3>1, <3>2 DEF Uncredited
  <2> QED  BY <2>1, <2>2
<1>12. \A j \in TakeProfits : Uncredited(j)' = Uncredited(j)
  BY <1>10, <1>11
<1>13. Net' = Net /\ BuyDue' = BuyDue
  BY <1>3, <1>4, <1>5, <1>6 DEF Net, Pending, At, BuyDue
<1> QED  BY <1>1, <1>3, <1>5, <1>12, <1>13, SidesEqual, BalanceStays

\* What the broker fills is uncredited, or due to the BUY.
LEMMA BrokerActsBalanced == ASSUME Shape, Balanced, NEW i \in DOMAIN rows, BrokerActs(i) PROVE Balanced'
<1>1. Types /\ Shape' /\ UNCHANGED <<pos, plan>> /\ rows[i].status = "OPEN" /\ rows[i].bStatus = "OPEN"
  BY BrokerActsShape DEF Shape, BrokerActs
<1>2. PICK new \in Rows :
          /\ Writes(i, new) /\ SameOrder(new, rows[i]) /\ new.applied = rows[i].applied
          /\ new.status = rows[i].status
          /\ \/ /\ new.bFilled = rows[i].bFilled /\ UNCHANGED <<hold, m, overfilled>>
             \/ /\ new.bFilled > rows[i].bFilled /\ UNCHANGED <<m, overfilled>>
                /\ IF rows[i].purpose = "BUY" THEN hold' = hold + (new.bFilled - rows[i].bFilled)
                   ELSE hold' = hold - (new.bFilled - rows[i].bFilled)
             \/ overfilled' = TRUE
  BY DEF BrokerActs
<1>3. /\ TakeProfits' = TakeProfits
      /\ rows'[i] = new /\ \A j \in DOMAIN rows : j # i => rows'[j] = rows[j]
      /\ Buy' = (IF i = 1 THEN new ELSE Buy)
  BY <1>1, <1>2, OneRow
<1>4. CASE overfilled' = TRUE
  BY <1>4 DEF Balanced
<1>5. CASE UNCHANGED <<m, overfilled>>
  <2>1. OpenTakeProfits' = OpenTakeProfits
    <3>1. \A j \in TakeProfits : OpenRow(j)' = OpenRow(j)
      BY <1>2, <1>3, LiveRows DEF OpenRow
    <3> QED  BY <1>3, <3>1 DEF OpenTakeProfits
  <2>2. Live' = Live /\ Net' = Net /\ IsCredited' = IsCredited /\ m'.cur = m.cur
    BY <1>1, <1>5, <2>1 DEF Live, At, Net, Pending, IsCredited
  <2>3. \A leg \in Legs : Left(leg)' = Left(leg)
    BY <1>1 DEF Left
  <2>4. i = 1 <=> rows[i].purpose = "BUY"
    BY DEF Shape, BuyFirst
  <2>5. Buy'.applied = Buy.applied /\ At("markBuy")' = At("markBuy")
    BY <1>2, <1>3, <1>5 DEF Buy, At
  <2>6. rows[i].bFilled \in Nat /\ new.bFilled \in Nat /\ hold \in Nat
    BY <1>1, <1>2, RowTypes DEF Types, Rows, RowRecords
  <2>7. \A j \in TakeProfits \ {i} : Uncredited(j)' = Uncredited(j)
    <3>1. \A j \in TakeProfits \ {i} : rows'[j] = rows[j]
      BY <1>3, LiveRows
    <3>2. TakeProfits \ {i} \subseteq TakeProfits
      OBVIOUS
    <3> QED  BY <2>2, <2>3, <3>1, <3>2, AllUncreditedStay DEF SameOrder
  <2>8. CASE new.bFilled = rows[i].bFilled /\ UNCHANGED hold
    <3>1. BuyDue' = BuyDue
      BY <1>3, <2>5, <2>8 DEF BuyDue, Buy
    <3>2. \A j \in TakeProfits : SameOrder(rows'[j], rows[j]) /\ rows'[j].bFilled = rows[j].bFilled /\ rows'[j].applied = rows[j].applied
      BY <1>2, <1>3, <2>8, LiveRows DEF SameOrder
    <3>3. \A j \in TakeProfits : Uncredited(j)' = Uncredited(j)
      BY <2>2, <2>3, <3>2, AllUncreditedStay
    <3> QED  BY <1>1, <1>3, <1>5, <2>2, <2>8, <3>1, <3>3, SidesEqual, BalanceStays
  <2>9. CASE i = 1 /\ new.bFilled > rows[i].bFilled /\ hold' = hold + (new.bFilled - rows[i].bFilled)
    <3>1. ~Buy.applied /\ ~At("markBuy") /\ Buy = rows[i] /\ Buy' = new
      BY <1>1, <1>3, <2>9, RowTypes DEF Buy, RowOK, Shape, AtBuy, At, Ended
    <3>2. PICK d \in Int : d = new.bFilled - rows[i].bFilled
      BY <2>6
    <3>3. BuyDue = rows[i].bFilled /\ BuyDue' = new.bFilled
      BY <2>5, <3>1 DEF BuyDue
    <3>4. hold' = hold + d /\ Net' + BuyDue' = Net + BuyDue + d
      <4>1. Net \in Nat
        BY ShapeNumbers DEF Numbers
      <4> QED  BY <2>2, <2>6, <2>9, <3>2, <3>3, <4>1
    <3>5. \A j \in TakeProfits : Uncredited(j)' = Uncredited(j)
      <4>1. i \notin TakeProfits
        BY <2>4, <2>9 DEF TakeProfits
      <4> QED  BY <2>7, <4>1
    <3> QED  BY <1>1, <1>3, <1>5, <3>4, <3>5, BalanceStays
  <2>10. CASE i # 1 /\ new.bFilled > rows[i].bFilled /\ hold' = hold - (new.bFilled - rows[i].bFilled)
    <3>1. BuyDue' = BuyDue /\ i \in TakeProfits
      BY <1>3, <2>4, <2>5, <2>10 DEF BuyDue, Buy, TakeProfits
    <3>2. PICK e \in Int, d \in Int : e = new.bFilled - rows[i].bFilled /\ d = -e
      BY <2>6
    <3>3. Uncredited(i)' = Uncredited(i) + e
      <4>1. i \in Live
        BY <1>1, <3>1 DEF Live, OpenTakeProfits, OpenRow
      <4>2. PICK leg \in Legs : leg = Leg(i) /\ Leg(i)' = leg
        BY <1>1, <1>2, <1>3, RowTypes DEF Leg, SameOrder
      <4>3. Left(Leg(i))' = Left(leg)'
        BY <4>2 DEF Left
      <4>4. PICK l \in Nat, q \in Nat : l = Left(leg) /\ q = rows[i].qty
        BY <1>1, LeftTypes, RowTypes
      <4>5. Uncredited(i) = rows[i].bFilled - (q - l)
        <5> HIDE DEF Left, Leg, Live
        <5> QED  BY <4>1, <4>2, <4>4 DEF Uncredited
      <4>6. Uncredited(i)' = new.bFilled - (q - l)
        <5> HIDE DEF Left, Leg, Live
        <5> QED  BY <1>2, <1>3, <2>2, <2>3, <4>1, <4>2, <4>3, <4>4 DEF Uncredited, SameOrder
      <4>7. PICK b \in Nat, b1 \in Nat : b = rows[i].bFilled /\ b1 = new.bFilled
        BY <2>6
      <4>8. e = b1 - b /\ Uncredited(i) = b - (q - l) /\ Uncredited(i)' = b1 - (q - l)
        BY <3>2, <4>5, <4>6, <4>7
      <4>9. b1 - (q - l) = (b - (q - l)) + e
        <5>1. l \in Nat /\ q \in Nat /\ b \in Nat /\ b1 \in Nat /\ e = b1 - b
          BY <4>4, <4>7, <4>8
        <5>2. \A v, x, y \in Int : y - v = (x - v) + (y - x)
          OBVIOUS
        <5> HIDE DEF Left, Leg, Uncredited
        <5> QED  BY <5>1, <5>2
      <4> HIDE DEF Uncredited
      <4> QED  BY <4>8, <4>9
    <3>4. hold' = hold + d /\ Net' + BuyDue' = Net + BuyDue + d + e
      <4>1. Net \in Nat /\ BuyDue \in Nat
        BY ShapeNumbers DEF Numbers
      <4> QED  BY <2>2, <2>6, <2>10, <3>1, <3>2, <4>1
    <3> QED  BY <1>1, <1>3, <1>5, <2>7, <3>1, <3>3, <3>4, BalanceRow
  <2> QED  BY <1>2, <1>4, <2>4, <2>8, <2>9, <2>10
<1> QED  BY <1>2, <1>4, <1>5

\* An order that has been placed has nothing uncredited, or what it was filled with at once.
LEMMA PlacementBalanced ==
    ASSUME Shape, Safe, PlanIsExact, Balanced, PlaceTP1 \/ PlaceTP2 \/ PlaceExit
    PROVE  Balanced'
<1>1. Shape'
  BY PlacementShape
<1>2. CASE m.pc \in SubmitPlaces /\ \E next \in {"placeTP2", "rows", "jobs"} : PassesOver(next)
  BY <1>1, <1>2, PassesOverPasses, PassingBalanced
<1>3. CASE \E next \in {"placeTP2", "rows", "jobs"}, purpose \in {"TP1", "TP2", "EXIT"}, n \in Nat \ {0} :
              /\ m.pc \in SubmitPlaces /\ Submits(purpose, n, next)
              /\ n = Left(IF purpose = "TP1" THEN "TP1" ELSE "TP2")
              /\ m.pc # "placeTP2" => OpenTakeProfits = {}
              /\ m.pc = "placeTP2" => purpose = "TP2"
  <2>1. PICK next \in {"placeTP2", "rows", "jobs"}, purpose \in {"TP1", "TP2", "EXIT"}, n \in Nat \ {0} :
              /\ m.pc \in SubmitPlaces /\ Submits(purpose, n, next)
              /\ n = Left(IF purpose = "TP1" THEN "TP1" ELSE "TP2")
    BY <1>3
  <2>2. PICK leg \in Legs : leg = IF purpose = "TP1" THEN "TP1" ELSE "TP2"
    BY DEF Legs
  <2>3. PICK new \in Rows :
          /\ rows' = Append(rows, new) /\ new.purpose = purpose /\ new.qty = n /\ ~new.applied
          /\ \/ new.status = "OPEN" /\ new.bFilled = 0 /\ UNCHANGED <<hold, overfilled>>
             \/ new.status = "FILLED" /\ new.bFilled = n /\ hold' = hold - n /\ UNCHANGED overfilled
             \/ /\ new.status = "UNKNOWN" /\ new.bFilled = 0 /\ UNCHANGED hold
                /\ overfilled' = TRUE \/ overfilled' = overfilled
          /\ Moves(next) \/ Leave
    BY <2>1 DEF Submits
  <2>4. PICK k : k = Len(rows) + 1
    OBVIOUS
  <2>5. /\ k \notin DOMAIN rows /\ k \in TakeProfits'
        /\ rows'[k] = new /\ \A j \in DOMAIN rows : rows'[j] = rows[j]
        /\ TakeProfits' = TakeProfits \cup {k} /\ Buy' = Buy /\ Buy.applied
        /\ Live' = IF new.status = "OPEN" THEN Live \cup {k} ELSE Live
        /\ m'.pc \in {"placeTP2", "rows", "jobs", "idle"}
    <3>1. rows' = Append(rows, new) /\ new.purpose = purpose /\ (Moves(next) \/ Leave)
      BY <2>3
    <3>2. m.pc \in SubmitPlaces
      BY <2>1
    <3> QED  BY <2>4, <3>1, <3>2, SubmitsLive
  <2>6. UNCHANGED <<pos, plan>> /\ ~IsCredited /\ ~IsCredited' /\ ~At("sold") /\ ~At("sold")'
    BY <2>1, <2>5 DEF Submits, At, SubmitPlaces, IsCredited
  <2>7. \A l \in Legs : Left(l)' = Left(l)
    BY <2>6 DEF Left
  <2>8. Net' = Net /\ BuyDue = 0 /\ BuyDue' = 0 /\ Net \in Nat /\ hold \in Nat
    BY <2>5, <2>6, ShapeNumbers DEF Net, Pending, BuyDue, Numbers
  <2>9. k \notin TakeProfits /\ Live \subseteq TakeProfits /\ TakeProfits \subseteq DOMAIN rows
    BY <2>5, LiveRows
  <2>10. \A j \in TakeProfits : Uncredited(j)' = Uncredited(j)
    <3>1. \A j \in TakeProfits : rows'[j] = rows[j] /\ (j \in Live' <=> j \in Live)
      BY <2>5, <2>9
    <3> QED  BY <2>6, <2>7, <3>1, AllUncreditedStay DEF SameOrder
  <2>11. CASE new.status = "OPEN"
    <3>1. Leg(k)' = leg
      BY <2>2, <2>3, <2>5 DEF Leg
    <3>2. Left(Leg(k))' = n
      <4>1. Left(Leg(k))' = Left(leg)'
        BY <3>1 DEF Left
      <4> HIDE DEF Left, Leg
      <4> QED  BY <2>1, <2>2, <2>7, <4>1
    <3>3. Uncredited(k)' = 0
      <4>1. k \in Live' /\ rows'[k].bFilled = 0 /\ rows'[k].qty = n
        BY <2>3, <2>5, <2>11
      <4> HIDE DEF Left, Leg, Live, IsCredited
      <4> QED  BY <3>2, <4>1 DEF Uncredited
    <3>4. 0 \in Int /\ (overfilled' \/ (hold' = hold + 0 /\ Net' + BuyDue' = Net + BuyDue + 0 + 0))
          /\ (overfilled => overfilled')
      BY <2>3, <2>8, <2>11
    <3> QED  BY <1>1, <2>5, <2>9, <2>10, <3>3, <3>4, BalanceAppended
  <2>12. CASE new.status # "OPEN"
    <3>1. Uncredited(k)' = new.bFilled
      <4>1. k \notin Live' /\ rows'[k] = new /\ ~new.applied
        BY <2>3, <2>5, <2>9, <2>12
      <4> HIDE DEF Left, Leg, Live, IsCredited
      <4> QED  BY <2>6, <4>1 DEF Uncredited
    <3>2. overfilled => overfilled'
      BY <2>3
    <3>3. CASE new.status = "FILLED"
      <4>1. PICK d \in Int : d = -n
        OBVIOUS
      <4>2. n \in Int /\ new.bFilled = n /\ hold' = hold + d /\ Net' + BuyDue' = Net + BuyDue + d + n
        BY <2>3, <2>8, <3>3, <4>1
      <4> QED  BY <1>1, <2>5, <2>9, <2>10, <3>1, <3>2, <4>1, <4>2, BalanceAppended
    <3>4. CASE new.status = "UNKNOWN"
      <4>1. 0 \in Int /\ new.bFilled = 0 /\ hold' = hold + 0 /\ Net' + BuyDue' = Net + BuyDue + 0 + 0
        BY <2>3, <2>8, <3>4
      <4> QED  BY <1>1, <2>5, <2>9, <2>10, <3>1, <3>2, <4>1, BalanceAppended
    <3> QED  BY <2>3, <2>12, <3>3, <3>4
  <2> QED  BY <2>11, <2>12
<1> QED  BY <1>2, <1>3, PlacedForLeft

LEMMA ReconcileBalanced == ASSUME Shape, Balanced, Reconcile PROVE Balanced'
<1>1. /\ Shape' /\ UNCHANGED <<plan, rows, hold, m, overfilled>> /\ m.pc = "idle" /\ pos'.qty = pos.qty
  BY ReconcileShape DEF SafeMode, Reconcile
<1>2. /\ TakeProfits' = TakeProfits /\ Live' = Live /\ ~IsCredited /\ ~IsCredited' /\ Net' = Net /\ BuyDue' = BuyDue
      /\ \A leg \in Legs : Left(leg)' = Left(leg)
  BY <1>1 DEF Live, At, OpenTakeProfits, TakeProfits, OpenRow, IsCredited, Net, Pending, BuyDue, Buy, Left
<1>3. \A j \in TakeProfits : Uncredited(j)' = Uncredited(j)
  BY <1>1, <1>2, AllUncreditedStay DEF SameOrder
<1> QED  BY <1>1, <1>2, <1>3, SidesEqual, BalanceStays

-----------------------------------------------------------------------------
(* The balance: inductive without a crash *)

LEMMA InitBalanced == ASSUME Init PROVE Balanced
<1>1. Begins /\ Shape
  BY InitBegins, InitShape
<1>2. TakeProfits = {}
  BY <1>1 DEF Begins, TakeProfits, Shape, BuyFirst
<1>3. UncreditedShares = 0
  <2> DEFINE f == [i \in TakeProfits |-> Uncredited(i)]
  <2>1. f \in [TakeProfits -> Int]
    BY <1>2
  <2>2. SumFunction(f) = 0
    <3> HIDE DEF f
    <3> QED  BY <1>2, <2>1, SumOfFew
  <2> QED  BY <2>2 DEF UncreditedShares
<1>4. hold = pos.qty /\ Net = pos.qty /\ pos.qty \in Nat /\ BuyDue = 0
  BY <1>1 DEF Begins, Net, Pending, BuyDue, Idle, At
<1> QED  BY <1>3, <1>4 DEF Balanced

LEMMA NextBalanced == ASSUME Shape, Safe, PlanIsExact, Balanced, Next, crashes' = 0 PROVE Balanced'
<1>1. Kinds /\ ~Crash
  BY NextKinds, CrashesStay
<1>2. ~(\E i \in m.todo : MissingRow(i))
  BY NoRowIsMissing
<1>3. ASSUME Begin \/ BuyGoesOn \/ PassDone \/ Done \/ Settled \/ Replace \/ RefreshFails PROVE Balanced'
  BY <1>3, ControlPasses, PassingBalanced
<1>4. ASSUME \/ RefreshAfterTP1 \/ RecoverTakeProfits \/ RecoverExit \/ SwitchToExit
             \/ \E i \in m.fills : CreditFill(i)
      PROVE  Balanced'
  BY <1>4, SaysPasses, PassingBalanced
<1> QED
  BY <1>1, <1>2, <1>3, <1>4, RefreshRowBalanced, SettleRowBalanced, BuyStepsBalanced, NothingSoldBalanced, FillPlanBalanced,
     RemoveSharesBalanced, MarkSellBalanced, PlacementBalanced, BrokerActsBalanced, ReconcileBalanced
  DEF Kinds

LEMMA StutterBalanced == ASSUME Shape, Balanced, UNCHANGED vars PROVE Balanced'
<1>1. /\ Shape' /\ UNCHANGED <<pos, plan, rows, hold, m, overfilled>>
  BY StutterShape DEF vars
<1>2. /\ TakeProfits' = TakeProfits /\ Live' = Live /\ IsCredited' = IsCredited /\ Net' = Net /\ BuyDue' = BuyDue
      /\ \A leg \in Legs : Left(leg)' = Left(leg)
  BY <1>1 DEF Live, At, OpenTakeProfits, TakeProfits, OpenRow, IsCredited, Net, Pending, BuyDue, Buy, Left
<1>3. \A j \in TakeProfits : Uncredited(j)' = Uncredited(j)
  BY <1>1, <1>2, AllUncreditedStay DEF SameOrder
<1> QED  BY <1>1, <1>2, <1>3, SidesEqual, BalanceStays

-----------------------------------------------------------------------------
(* Position, plan and broker agree between two passes *)

\* The inductive invariant of a process that no crash has interrupted.
Agrees == Shape /\ Safe /\ (Undisturbed => PlanIsExact /\ Balanced)

LEMMA SpecAgrees == Spec => []Agrees
<1>1. Init => Agrees
  BY InitShape, InitSafe, InitExact, InitBalanced DEF Agrees
<1>2. Agrees /\ [Next]_vars => Agrees'
  <2>1. ASSUME Agrees, Next PROVE Agrees'
    <3>1. Shape' /\ Safe'
      BY <2>1, NextShape, NextSafe DEF Agrees
    <3>2. ASSUME crashes' = 0 PROVE PlanIsExact' /\ Balanced'
      <4>1. PlanIsExact /\ Balanced
        BY <2>1, <3>2, CrashesStay DEF Agrees, Undisturbed
      <4> QED  BY <2>1, <3>2, <4>1, NextExact, NextBalanced DEF Agrees
    <3> QED  BY <3>1, <3>2 DEF Agrees, Undisturbed
  <2>2. ASSUME Agrees, UNCHANGED vars PROVE Agrees'
    <3>1. Shape' /\ Safe' /\ crashes' = crashes
      BY <2>2, StutterShape, StutterSafe DEF Agrees, vars
    <3> QED  BY <2>2, <3>1, StutterExact, StutterBalanced DEF Agrees, Undisturbed
  <2> QED  BY <2>1, <2>2
<1> QED  BY <1>1, <1>2, PTL DEF Spec

\* Between two passes no fill is half applied.
LEMMA NothingPending ==
    ASSUME Shape, At("idle")
    PROVE  /\ Net = pos.qty /\ pos.qty \in Nat /\ ~At("bought") /\ ~At("markBuy") /\ ~IsCredited
           /\ Live = OpenTakeProfits
<1>1. m = Idle
  BY DEF Shape, Control
<1>2. m.pc = "idle" /\ pos.qty \in Nat
  BY DEF At, Shape, Types
<1>3. Live = OpenTakeProfits
  BY <1>2, LiveIsOpen DEF SettlePlaces, SellPlaces
<1> QED  BY <1>2, <1>3 DEF Net, Pending, At, IsCredited

LEMMA PlanAgrees == ASSUME Agrees PROVE PositionIsWhatThePlanHasLeft
<1> SUFFICES ASSUME At("idle"), crashes = 0
             PROVE  pos.qty = IF plan.active THEN Left("TP1") + Left("TP2") ELSE 0
  BY DEF PositionIsWhatThePlanHasLeft
<1>1. Shape /\ Safe /\ PlanIsExact
  BY DEF Agrees, Undisturbed
<1>2. Net = pos.qty /\ ~At("bought")
  BY <1>1, NothingPending
<1>3. pos.qty = Left("TP1") + Left("TP2")
  BY <1>1, <1>2 DEF PlanIsExact
<1>4. ~plan.active => pos.qty = 0
  BY <1>1 DEF Safe, PlanIsBacked
<1> QED  BY <1>3, <1>4

\* Position and plan, stored in two transactions, agree between any two passes of a
\* process that has not been interrupted: PositionIsWhatThePlanHasLeft.
THEOREM PositionAgreesWithPlan == Spec => []PositionIsWhatThePlanHasLeft
BY SpecAgrees, PlanAgrees, PTL

\* What a row has uncredited between two passes is its fill, or what of it was not refreshed.
LEMMA UncreditedIdle ==
    ASSUME Shape, PlanIsExact, At("idle"), NEW i \in TakeProfits
    PROVE  Uncredited(i) = IF rows[i].applied THEN 0
                           ELSE IF OpenRow(i) THEN rows[i].bFilled - rows[i].filled ELSE rows[i].bFilled
<1>1. /\ i \in DOMAIN rows /\ rows[i].bFilled \in Nat /\ rows[i].qty \in Nat /\ rows[i].filled \in Nat
      /\ Leg(i) \in Legs /\ RowOK(rows[i])
  BY LiveRows, RowTypes DEF Shape
<1>2. /\ Live = OpenTakeProfits /\ ~IsCredited /\ (i \in Live <=> OpenRow(i))
      /\ ~At("sell")
  BY NothingPending DEF OpenTakeProfits, At
<1>3. CASE OpenRow(i)
  <2>1. Left(Leg(i)) = rows[i].qty - rows[i].filled /\ ~rows[i].applied
    BY <1>1, <1>2, <1>3 DEF PlanIsExact, Exact, RowOK, OpenRow
  <2>2. Uncredited(i) = rows[i].bFilled - (rows[i].qty - Left(Leg(i)))
    BY <1>2, <1>3 DEF Uncredited
  <2>3. PICK n \in Int : n = Left(Leg(i)) /\ n = rows[i].qty - rows[i].filled
    BY <1>1, <2>1
  <2>4. rows[i].bFilled - (rows[i].qty - n) = rows[i].bFilled - rows[i].filled
    BY <1>1, <2>3
  <2> QED  BY <1>3, <2>1, <2>2, <2>3, <2>4, Zenon
<1>4. CASE ~OpenRow(i)
  BY <1>2, <1>4 DEF Uncredited
<1> QED  BY <1>3, <1>4

LEMMA BrokerAgrees == ASSUME Agrees PROVE PositionDiffersByFillsInFlight
<1> DEFINE due == SumFunction([i \in UnappliedBuys |-> rows[i].bFilled])
           U == TakeProfits
           S == {j \in TakeProfits : ~rows[j].applied}
           f == [i \in S |-> IF OpenRow(i) THEN rows[i].bFilled - rows[i].filled ELSE rows[i].bFilled]
           g == [i \in U |-> Uncredited(i)]
<1> SUFFICES ASSUME At("idle"), crashes = 0, ~overfilled
             PROVE  pos.qty + due = hold + SumFunction(f)
  BY DEF PositionDiffersByFillsInFlight
<1>1. Shape /\ PlanIsExact /\ Balanced
  BY DEF Agrees, Undisturbed
<1>2. Net = pos.qty /\ due = BuyDue
  BY <1>1, NothingPending, BuyBrings
<1>3. SumFunction(f) = SumFunction(g)
  <2>1. IsFiniteSet(U) /\ S \in SUBSET U /\ g \in [U -> Int]
    BY <1>1, ShapeNumbers, ShapeAmounts DEF Numbers, Amounts
  <2>2. /\ \A x \in S : Uncredited(x) = f[x]
        /\ \A x \in U \ S : Uncredited(x) = 0
    BY <1>1, UncreditedIdle, Zenon
  <2>3. /\ \A x \in S : g[x] = f[x] /\ f[x] \in Int
        /\ \A x \in U \ S : g[x] = 0
    BY <2>1, <2>2
  <2>4. f \in [S -> Int]
    BY <2>3
  <2> HIDE DEF U, S, f, g
  <2> QED  BY <2>1, <2>3, <2>4, SumOfSupport
<1>4. SumFunction(g) = UncreditedShares
  BY DEF UncreditedShares
<1> HIDE DEF f, g, due
<1> QED  BY <1>1, <1>2, <1>3, <1>4 DEF Balanced

\* Between two passes of a process that has not been interrupted, the position is what
\* the broker holds, but for the fills in flight: PositionDiffersByFillsInFlight.
THEOREM PositionAgreesWithBroker == Spec => []PositionDiffersByFillsInFlight
BY SpecAgrees, BrokerAgrees, PTL

-----------------------------------------------------------------------------
(* What is offered: the steps that touch no book *)

\* The offer of a leg stays while its rows do.
LEMMA OfferedStays ==
    ASSUME NEW leg \in Legs, Offered(leg), Left(leg)' = Left(leg),
           \A j \in TakeProfits : Leg(j) = leg =>
              /\ j \in TakeProfits' /\ Leg(j)' = leg /\ (OpenRow(j) => OpenRow(j)')
              /\ FilledAtOnce(j) => FilledAtOnce(j)' /\ rows'[j].bFilled = rows[j].bFilled
    PROVE  Offered(leg)'
<1> HIDE DEF Left, Leg
<1>1. CASE Left(leg) = 0
  BY <1>1 DEF Offered
<1>2. CASE \E i \in OpenTakeProfits : Leg(i) = leg
  <2>1. PICK i \in OpenTakeProfits : Leg(i) = leg
    BY <1>2
  <2>2. i \in OpenTakeProfits' /\ Leg(i)' = leg
    BY <2>1 DEF OpenTakeProfits
  <2> QED  BY <2>2 DEF Offered
<1>3. CASE \E i \in TakeProfits : Leg(i) = leg /\ FilledAtOnce(i) /\ Left(leg) <= rows[i].bFilled
  <2>1. PICK i \in TakeProfits : Leg(i) = leg /\ FilledAtOnce(i) /\ Left(leg) <= rows[i].bFilled
    BY <1>3
  <2>2. i \in TakeProfits' /\ Leg(i)' = leg /\ FilledAtOnce(i)' /\ Left(leg)' <= rows'[i].bFilled
    BY <2>1
  <2> HIDE DEF FilledAtOnce
  <2> QED  BY <2>2 DEF Offered
<1> QED  BY <1>1, <1>2, <1>3 DEF Offered

\* No step takes the rows of a leg away that are not touched.
LEMMA OfferedPasses ==
    ASSUME Shape, UNCHANGED <<plan, rows>>, m'.fills \subseteq m.fills,
           m'.pc \in SellPlaces => m.pc \in SellPlaces /\ m'.cur = m.cur
    PROVE  \A leg \in Legs : Offered(leg) => Offered(leg)'
<1> SUFFICES ASSUME NEW leg \in Legs, Offered(leg) PROVE Offered(leg)'
  OBVIOUS
<1>1. Left(leg)' = Left(leg)
  BY DEF Left
<1>2. ASSUME NEW j \in TakeProfits, Leg(j) = leg
      PROVE  /\ j \in TakeProfits' /\ Leg(j)' = leg /\ (OpenRow(j) => OpenRow(j)')
             /\ FilledAtOnce(j) => FilledAtOnce(j)' /\ rows'[j].bFilled = rows[j].bFilled
  BY <1>2 DEF TakeProfits, Leg, OpenRow, FilledAtOnce
<1> QED  BY <1>1, <1>2, OfferedStays

\* A plan that has nothing left has nothing to offer.
Exhausted == PlanIsExact /\ ~At("bought") /\ Net = 0
NothingDue == \A leg \in Legs : Left(leg) = 0 /\ Offered(leg)

LEMMA NothingLeft == Shape /\ Exhausted => NothingDue
<1> SUFFICES ASSUME Shape, Exhausted, NEW leg \in Legs PROVE Left(leg) = 0 /\ Offered(leg)
  BY DEF NothingDue
<1>1. Left("TP1") + Left("TP2") = 0 /\ Left(leg) \in Nat /\ Left(leg) <= Left("TP1") + Left("TP2")
  BY LeftTypes DEF PlanIsExact, Exhausted
<1> HIDE DEF Left
<1>2. Left(leg) = 0
  BY <1>1, LeftTypes
<1> QED  BY <1>2 DEF Offered

LEMMA NothingLeftNext == Shape' /\ Exhausted' => NothingDue'
BY NothingLeft, PTL

\* The pass moves where no leg is at hand.
LEMMA PassesOffered ==
    ASSUME Shape, AllOffered, UNCHANGED <<pos, plan, rows>>, SameCounts, m'.fills \subseteq m.fills,
           m.pc \notin SellPlaces \cup {"placeTP2"}, m'.pc \notin SellPlaces, ReplacesAll => ReplacesAll'
    PROVE  AllOffered'
<1>1. \A leg \in Legs : Offered(leg) => Offered(leg)'
  BY OfferedPasses
<1>2. Smooth' = Smooth /\ Buy' = Buy /\ \A leg \in Legs : ~ReplacesLeg(leg)
  BY DEF Smooth, SameCounts, Buy, ReplacesLeg, At
<1>3. Abandoned' = Abandoned
  <2>1. Left("TP1")' = Left("TP1") /\ ~At("sold") /\ ~At("sold")'
    BY DEF Left, At, SellPlaces
  <2> HIDE DEF Left
  <2> QED  BY <2>1 DEF Abandoned
<1> HIDE DEF Smooth, Abandoned, Offered, ReplacesAll, ReplacesLeg, Buy
<1> QED  BY <1>1, <1>2, <1>3 DEF AllOffered, Covered

LEMMA ControlOffered ==
    ASSUME Shape, AllOffered, Begin \/ PassDone \/ Done \/ Settled PROVE AllOffered'
<1>0. UNCHANGED <<pos, plan, rows>> /\ SameCounts /\ Types
  BY DEF Begin, PassDone, Done, Settled, SameCounts, Shape
<1>1. CASE Begin
  <2>1. m = Idle /\ m.pc = "idle" /\ m'.pc = "rows" /\ m'.fills = {}
    BY <1>1 DEF Begin, At, Idle, Shape, Control
  <2>2. ~ReplacesAll
    BY <2>1 DEF ReplacesAll, Idle, SettlePlaces, SellPlaces
  <2> QED  BY <1>0, <2>1, <2>2, PassesOffered DEF SellPlaces
<1>2. CASE PassDone
  <2>1. m.pc = "rows" /\ Moves("jobs")
    BY <1>0, <1>2, GotoMoves DEF PassDone, At, Places
  <2>2. ReplacesAll => ReplacesAll'
    BY <2>1 DEF ReplacesAll, Moves, SettlePlaces, SellPlaces
  <2> QED  BY <1>0, <2>1, <2>2, PassesOffered DEF Moves, SellPlaces
<1>3. CASE Done
  <2>1. m.pc = "jobs" /\ NoJob /\ Leave
    BY <1>3 DEF Done, At
  <2>2. ~ReplacesAll /\ m'.fills = {} /\ m'.pc = "idle"
    BY <2>1, LeftBehind DEF ReplacesAll, NoJob, SettlePlaces, SellPlaces
  <2> QED  BY <1>0, <2>1, <2>2, PassesOffered DEF SellPlaces
<1>4. CASE Settled
  <2>1. m.pc = "settle" /\ Moves("credit")
    BY <1>0, <1>4, GotoMoves DEF Settled, At, Places, SettlePlaces
  <2>2. ReplacesAll'
    BY <2>1 DEF ReplacesAll, Moves, SettlePlaces
  <2> QED  BY <1>0, <2>1, <2>2, PassesOffered DEF Moves, SellPlaces
<1> QED  BY <1>1, <1>2, <1>3, <1>4

\* A step after which everything is placed again.
LEMMA ReplacesOffered == ASSUME ReplacesAll' PROVE AllOffered'
BY DEF AllOffered, Covered

\* The BUY is not applied: the position is not offered yet.
LEMMA BuyOffered == ASSUME ~Buy'.applied PROVE AllOffered'
BY DEF AllOffered

LEMMA JobsOffered ==
    ASSUME Shape, \/ RefreshAfterTP1 \/ RecoverTakeProfits \/ RecoverExit \/ SwitchToExit
                  \/ \E i \in m.fills : CreditFill(i)
    PROVE  AllOffered'
<1>1. CASE RefreshAfterTP1 \/ RecoverTakeProfits \/ RecoverExit \/ SwitchToExit
  <2>1. m'.pc = "settle"
    BY <1>1, JobsBegin, JobShape DEF Jobs
  <2> QED  BY <2>1, ReplacesOffered DEF ReplacesAll, SettlePlaces
<1>2. CASE \E i \in m.fills : CreditFill(i)
  <2>1. m'.pc = "sell" /\ m'.job = m.job /\ m.pc = "credit"
    BY <1>2, CreditFillShape
  <2>2. m.job # "pass"
    BY <2>1 DEF Shape, Control, SettlePlaces
  <2> QED  BY <2>1, <2>2, ReplacesOffered DEF ReplacesAll, SellPlaces
<1> QED  BY <1>1, <1>2

\* A settlement that places nothing has nothing to place, or the position is in SAFE_MODE.
LEMMA ReplaceOffered == ASSUME Shape, Safe, PlanIsExact, AllOffered, Replace PROVE AllOffered'
<1>1. /\ UNCHANGED <<pos, plan, rows>> /\ SameCounts /\ Types /\ m.pc = "credit" /\ m.job # "pass"
      /\ \E pc \in {"placeTP1", "placeExit", "jobs"} : Goto(pc) /\ (pc = "jobs" =>
            ~(m.job = "recover" /\ pos.qty > 0 /\ plan.active) /\ ~(m.job # "recover" /\ Remainder))
  BY DEF Replace, SameCounts, At, Shape, Control, SettlePlaces, Types, Runs, Jobs
<1>2. PICK pc \in {"placeTP1", "placeExit", "jobs"} : Moves(pc) /\ (pc = "jobs" =>
            ~(m.job = "recover" /\ pos.qty > 0 /\ plan.active) /\ ~(m.job # "recover" /\ Remainder))
  BY <1>1, GotoMoves DEF Places, SubmitPlaces
<1>3. CASE pc # "jobs"
  BY <1>2, <1>3, ReplacesOffered DEF ReplacesAll, Moves
<1>4. CASE pc = "jobs" /\ (pos.qty = 0 \/ ~plan.active)
  <2>1. pos.qty = 0
    BY <1>4, StateSays
  <2>2. Exhausted
    BY <1>1, <2>1 DEF Exhausted, Net, Pending, At
  <2>3. \A leg \in Legs : Offered(leg)
    BY <2>2, NothingLeft DEF NothingDue
  <2>4. \A leg \in Legs : Offered(leg)'
    BY <1>1, <1>2, <1>4, <2>3, OfferedPasses DEF Moves, SellPlaces
  <2> QED  BY <2>4 DEF AllOffered, Covered
<1>5. CASE pc = "jobs" /\ pos.qty # 0 /\ plan.active
  <2>1. pos.qty > 0 /\ m.job # "recover" /\ pos.state # "PARTIAL" /\ pos.state \in States /\ m.job \in Jobs
    BY <1>1, <1>2, <1>5, PlanTypes, RunTypes DEF Remainder, Types
  <2>2. FirstLegIsSold /\ Left("TP1") = 0 /\ Buy.applied
    BY <1>1, <2>1, StateSays DEF FirstLegIsSold, Jobs, Shape, BuyFirst, SettlePlaces
  <2>3. pos.state = "SAFE"
    <3>1. pos.state \notin {"EMPTY", "WAITING"}
      BY <1>5, <2>2, StateSays
    <3>2. pos.state # "HOLDING"
      BY <1>1, <2>2 DEF PlanIsExact, StateFits, At
    <3> QED  BY <2>1, <3>1, <3>2 DEF States
  <2>4. Abandoned'
    <3>1. pos'.state = "SAFE" /\ Left("TP1")' = 0 /\ ~At("sold")'
      BY <1>1, <1>2, <1>5, <2>2, <2>3 DEF Left, At, Moves
    <3> HIDE DEF Left
    <3> QED  BY <3>1 DEF Abandoned
  <2> QED  BY <2>4 DEF AllOffered
<1> QED  BY <1>3, <1>4, <1>5

-----------------------------------------------------------------------------
(* What is offered: rows and fills *)

\* The row at hand concerns its leg alone.
LEMMA RefreshRowOffered == ASSUME Shape, AllOffered, NEW i \in m.todo, RefreshRow(i) PROVE AllOffered'
<1>1. Refreshes(i) /\ i \in DOMAIN rows /\ rows[i].status = "OPEN" /\ Types
  BY RefreshRowRefreshes DEF Shape
<1>2. PICK new \in Rows : Writes(i, new) /\ Refreshed(new, rows[i])
  BY <1>1 DEF Refreshes
<1>3. /\ TakeProfits' = TakeProfits /\ rows'[i] = new /\ \A j \in DOMAIN rows : j # i => rows'[j] = rows[j]
      /\ Buy' = (IF i = 1 THEN new ELSE Buy)
  BY <1>1, <1>2, OneRow DEF Refreshed
<1>4. /\ UNCHANGED <<pos, plan>> /\ SameCounts /\ m.pc = "rows" /\ m'.cur = i /\ m'.fills = m.fills
      /\ m'.pc = (IF rows[i].purpose = "BUY" THEN "buy" ELSE "sell") /\ m.job = "pass" /\ m'.job = "pass"
      /\ m'.tp1 = m.tp1 /\ m'.recover = m.recover /\ m'.exit = m.exit
  BY <1>1 DEF Refreshes
<1>5. CASE i = 1
  <2>1. ~Buy'.applied
    BY <1>1, <1>2, <1>3, <1>5, RowTypes DEF Refreshed, RowOK
  <2> QED  BY <2>1, BuyOffered
<1>6. CASE i # 1
  <2>1. m'.pc = "sell" /\ Buy' = Buy /\ i \in TakeProfits
    BY <1>1, <1>3, <1>4, <1>6 DEF Shape, BuyFirst, TakeProfits
  <2>2. PICK leg \in Legs : leg = Leg(i) /\ Leg(i)' = leg
    BY <1>1, <1>2, <1>3, RowTypes DEF Leg, Refreshed, SameOrder
  <2>3. ReplacesLeg(leg)'
    <3>1. Leg(m.cur)' = Leg(i)'
      BY <1>4 DEF Leg
    <3> HIDE DEF Leg
    <3> QED  BY <2>1, <2>2, <3>1 DEF ReplacesLeg, SellPlaces
  <2>4. ASSUME NEW l \in Legs, l # leg, Offered(l) PROVE Offered(l)'
    <3>1. Left(l)' = Left(l)
      BY <1>4 DEF Left
    <3>2. ASSUME NEW j \in TakeProfits, Leg(j) = l
          PROVE  /\ j \in TakeProfits' /\ Leg(j)' = l /\ (OpenRow(j) => OpenRow(j)')
                 /\ FilledAtOnce(j) => FilledAtOnce(j)' /\ rows'[j].bFilled = rows[j].bFilled
      <4>1. j # i /\ rows'[j] = rows[j]
        BY <1>3, <2>2, <2>4, <3>2 DEF TakeProfits
      <4> QED  BY <1>3, <1>4, <3>2, <4>1 DEF Leg, OpenRow, FilledAtOnce, SellPlaces
    <3> QED  BY <2>4, <3>1, <3>2, OfferedStays
  <2>5. Smooth' = Smooth /\ (ReplacesAll => ReplacesAll') /\ \A l \in Legs : ~ReplacesLeg(l)
    BY <1>4 DEF Smooth, SameCounts, ReplacesAll, ReplacesLeg, At, SettlePlaces, SellPlaces
  <2>6. Abandoned' = Abandoned
    <3>1. Left("TP1")' = Left("TP1") /\ ~At("sold") /\ ~At("sold")'
      BY <1>4, <2>1 DEF Left, At
    <3> HIDE DEF Left
    <3> QED  BY <1>4, <3>1 DEF Abandoned
  <2> HIDE DEF Smooth, Abandoned, Offered, ReplacesAll, ReplacesLeg, Buy
  <2> QED  BY <2>1, <2>3, <2>4, <2>5, <2>6 DEF AllOffered, Covered
<1> QED  BY <1>5, <1>6

LEMMA SettleRowOffered == ASSUME Shape, PlanIsExact, NEW i \in m.todo, SettleRow(i) PROVE AllOffered'
<1>1. Settles(i) /\ rows[i].bStatus # "GONE"
  BY SettleRowSettles, NoRowIsMissing
<1>2. m'.pc = "settle"
  BY <1>1 DEF Settles, EndsOrder
<1> QED  BY <1>2, ReplacesOffered DEF ReplacesAll, SettlePlaces

\* A BUY that bought nothing for an empty position leaves nothing to offer.
LEMMA BuyStepsOffered ==
    ASSUME Shape, Safe, PlanIsExact,
           BuyGoesOn \/ CancelLateBuy \/ CreatePlan \/ AddShares \/ MarkBuy \/ MarkUnfilled \/ RestoreUnfilled
    PROVE  AllOffered'
<1>1. CASE BuyGoesOn \/ CancelLateBuy \/ CreatePlan \/ AddShares \/ RestoreUnfilled
  <2>1. m.pc \in {"buy", "bought"} /\ ~Buy.applied
    BY <1>1 DEF BuyGoesOn, CancelLateBuy, CreatePlan, AddShares, RestoreUnfilled, At, Shape, AtBuy, BuyPlaces
  <2>2. ~Buy'.applied
    <3>1. CASE ~CancelLateBuy
      BY <1>1, <2>1, <3>1 DEF BuyGoesOn, CreatePlan, AddShares, RestoreUnfilled, Buy
    <3>2. CASE CancelLateBuy
      <4>1. EndsBuy /\ Types
        BY <3>2, CancelLateBuyEnds DEF Shape
      <4>2. PICK new \in Rows : Writes(1, new) /\ Refreshed(new, Buy)
        BY <4>1 DEF EndsBuy
      <4>3. Buy' = new
        BY <4>1, <4>2, BuyRow, OneRow DEF Refreshed, Buy
      <4> QED  BY <2>1, <4>2, <4>3 DEF Refreshed
    <3> QED  BY <3>1, <3>2
  <2> QED  BY <2>2, BuyOffered
<1>2. CASE MarkBuy \/ MarkUnfilled
  <2>1. MarksBuy
    BY <1>2, MarkBuyMarks
  <2>2. CASE Moves("placeTP1")
    BY <2>2, ReplacesOffered DEF ReplacesAll, Moves
  <2>3. CASE m.pc = "markUnfilled" /\ ~(Buy.base # "EMPTY" /\ plan.active)
    <3>1. Buy.filled = 0 /\ ~Buy.applied /\ UNCHANGED plan
      BY <2>1, <2>3 DEF MarksBuy, Shape, AtBuy, At, BuyPlaces
    <3>2. Left("TP1") = 0 /\ Left("TP2") = 0
      BY <2>3, <3>1 DEF Safe, BeforeBuy
    <3>3. Left("TP1")' = 0 /\ Left("TP2")' = 0
      BY <3>1, <3>2 DEF Left
    <3>4. \A leg \in Legs : Left(leg)' = 0
      <4> HIDE DEF Left
      <4> QED  BY <3>3 DEF Legs
    <3>5. \A leg \in Legs : Offered(leg)'
      BY <3>4 DEF Offered
    <3> QED  BY <3>5 DEF AllOffered, Covered
  <2> QED  BY <2>1, <2>2, <2>3 DEF MarksBuy
<1> QED  BY <1>1, <1>2

\* The row at hand has been dealt with in a pass: what it leaves of its leg is offered by
\* it, or will be placed again.
LEMMA GoesOnOffered ==
    ASSUME Shape, AllOffered, SameCounts, Buy'.applied = Buy.applied, GoesOn, m.pc \in SellPlaces,
           Abandoned' = Abandoned, NEW c, c = m.cur, NEW leg \in Legs, leg = Leg(c),
           \A l \in Legs : l # leg /\ Offered(l) => Offered(l)',
           m.job = "pass" => Offered(leg)' \/ m'.recover \/ m'.exit
    PROVE  AllOffered'
<1>1. CASE m.job # "pass"
  <2>1. m'.pc = "credit"
    BY <1>1 DEF GoesOn
  <2> QED  BY <2>1, ReplacesOffered DEF ReplacesAll, SettlePlaces
<1>2. CASE m.job = "pass"
  <2>1. Smooth' = Smooth
    BY DEF Smooth, SameCounts
  <2>2. ReplacesAll => ReplacesAll'
    BY <1>2 DEF ReplacesAll, GoesOn, SettlePlaces, SellPlaces
  <2>3. m'.recover \/ m'.exit => ReplacesAll'
    BY DEF ReplacesAll
  <2>4. \A l \in Legs : l # leg => ~ReplacesLeg(l)
    BY DEF ReplacesLeg, SellPlaces, At
  <2> HIDE DEF Smooth, Abandoned, Offered, ReplacesAll, ReplacesLeg, Buy
  <2> QED  BY <1>2, <2>1, <2>2, <2>3, <2>4 DEF AllOffered, Covered
<1> QED  BY <1>1, <1>2

\* An order that has ended has not sold its leg, or there is nothing left of it.
LEMMA FinishedLeg ==
    ASSUME Shape', PlanIsExact', NEW c, c \in DOMAIN rows, UNCHANGED pos, ~At("bought")', ~At("sold")',
           NEW leg \in Legs, Left(leg)' = rows[c].qty - rows[c].filled, rows[c].qty <= plan.target[leg],
           ~(plan'.active /\ rows[c].filled < plan.target[leg]), ~plan'.active => pos.qty = 0,
           rows[c].qty \in Nat, rows[c].filled \in Nat, plan.target[leg] \in Nat, Left(leg)' \in Nat
    PROVE  Offered(leg)'
<1>1. CASE ~plan'.active
  <2>1. Exhausted'
    BY <1>1 DEF Exhausted, Net, Pending
  <2> QED  BY <2>1, NothingLeftNext DEF NothingDue
<1>2. CASE ~(rows[c].filled < plan.target[leg])
  <2> HIDE DEF Left
  <2>1. Left(leg)' = 0
    BY <1>2
  <2> QED  BY <2>1 DEF Offered
<1> QED  BY <1>1, <1>2

LEMMA DoneWithRow ==
    ASSUME Shape, Shape', PlanIsExact', GoesOn, m.pc \in {"sell", "markSell"}, m.job = "pass",
           NEW c, c = m.cur, NEW leg \in Legs, leg = Leg(c),
           UNCHANGED pos, plan'.target = plan.target, plan'.filled = plan.filled, ~plan'.active => pos.qty = 0,
           Left(leg) = rows[c].qty - rows[c].filled, rows[c].qty <= plan.target[leg],
           OpenRow(c) => OpenRow(c)', c \in TakeProfits', Leg(c)' = leg
    PROVE  Offered(leg)' \/ m'.recover \/ m'.exit
<1>1. c \in TakeProfits /\ c \in DOMAIN rows /\ rows[c].status # "UNKNOWN"
  BY DEF Shape, AtSell, SellPlaces, TakeProfits
<1>2. /\ rows[c].qty \in Nat /\ rows[c].filled \in Nat /\ RowOK(rows[c])
      /\ rows[c].status \in {"OPEN", "FILLED", "CANCELED"} /\ plan.target[leg] \in Nat /\ Left(leg) \in Nat
  BY <1>1, RowTypes, LeftTypes DEF Shape
<1>3. Left(leg)' = Left(leg)
  BY DEF Left
<1>4. CASE rows[c].status = "OPEN"
  <2>1. c \in OpenTakeProfits'
    BY <1>4 DEF OpenTakeProfits, OpenRow
  <2> HIDE DEF Leg
  <2> QED  BY <2>1 DEF Offered
<1>5. CASE rows[c].status = "FILLED"
  <2>1. rows[c].filled = rows[c].qty
    BY <1>2, <1>5 DEF RowOK, Ended
  <2>2. Left(leg)' = 0
    <3> HIDE DEF Left
    <3> QED  BY <1>2, <1>3, <2>1
  <2> QED  BY <2>2 DEF Offered
<1>6. CASE rows[c].status = "CANCELED"
  <2>1. m'.exit \/ m'.recover \/ ~(plan'.active /\ rows[c].filled < plan.target[leg])
    BY <1>6 DEF GoesOn, Unfinished
  <2>2. ~At("bought")' /\ ~At("sold")'
    BY DEF GoesOn, At
  <2>3. ASSUME ~(plan'.active /\ rows[c].filled < plan.target[leg]) PROVE Offered(leg)'
    <3> HIDE DEF Left
    <3> QED  BY <1>1, <1>2, <1>3, <2>2, <2>3, FinishedLeg
  <2> QED  BY <2>1, <2>3
<1> QED  BY <1>2, <1>4, <1>5, <1>6

LEMMA NothingSoldOffered == ASSUME Shape, Safe, PlanIsExact, AllOffered, NothingSold PROVE AllOffered'
<1>0. PICK c : c = m.cur
  OBVIOUS
<1>1. /\ Shape' /\ PlanIsExact' /\ UNCHANGED <<pos, plan, rows>> /\ SameCounts /\ m.pc = "sell" /\ GoesOn
      /\ rows[c].filled = 0
  BY <1>0, NothingSoldShape, NothingSoldExact DEF SameBooks
<1>2. c \in TakeProfits /\ c \in DOMAIN rows /\ c \in Live /\ Exact(c) /\ Leg(c) \in Legs /\ rows[c].qty \in Nat
  BY <1>0, <1>1, RowTypes DEF Shape, AtSell, SellPlaces, TakeProfits, Live, At, PlanIsExact
<1>3. PICK leg \in Legs : leg = Leg(c)
  BY <1>2
<1>4. Left(leg) = rows[c].qty - rows[c].filled
  <2>1. Left(leg) <= rows[c].qty /\ rows[c].qty - 0 <= Left(leg)
    BY <1>1, <1>2, <1>3, LeftWithinOrder DEF Exact
  <2>2. Left(leg) \in Nat
    BY LeftTypes
  <2> HIDE DEF Left
  <2> QED  BY <1>1, <1>2, <2>1, <2>2
<1>5. /\ c \in TakeProfits' /\ (OpenRow(c) => OpenRow(c)') /\ Leg(c)' = leg /\ rows[c].qty <= plan.target[leg]
      /\ ~plan'.active => pos.qty = 0
  BY <1>1, <1>2, <1>3, StateSays DEF TakeProfits, OpenRow, Leg, Exact
<1>6. Abandoned' = Abandoned /\ Buy' = Buy
  <2>1. Left("TP1")' = Left("TP1") /\ ~At("sold") /\ ~At("sold")'
    BY <1>1 DEF Left, At, GoesOn
  <2> HIDE DEF Left
  <2> QED  BY <1>1, <2>1 DEF Abandoned, Buy
<1>7. \A l \in Legs : Offered(l) => Offered(l)'
  BY <1>1, OfferedPasses DEF GoesOn, SellPlaces
<1>8. m.job = "pass" => Offered(leg)' \/ m'.recover \/ m'.exit
  <2> HIDE DEF Left, Leg, Offered, Buy
  <2> QED  BY <1>0, <1>1, <1>3, <1>4, <1>5, DoneWithRow
<1> HIDE DEF Left, Leg, Offered, Buy, Abandoned
<1> QED  BY <1>0, <1>1, <1>3, <1>6, <1>7, <1>8, GoesOnOffered DEF SellPlaces

\* The plan has taken the fill: the position is abandoned if it was.
LEMMA FillPlanOffered == ASSUME Shape, Safe, PlanIsExact, AllOffered, FillPlan PROVE AllOffered'
<1>0. PICK c : c = m.cur
  OBVIOUS
<1>1. /\ Leg(c) \in Legs /\ m.pc = "sell" /\ UNCHANGED <<pos, rows, hold>> /\ c \in Live /\ c \in DOMAIN rows
      /\ m'.pc = "sold" /\ m'.cur = c /\ m'.fills = m.fills
      /\ \A leg \in Legs : leg # Leg(c) => Left(leg)' = Left(leg)
  BY <1>0, FillCredited
<1>2. SameCounts /\ m'.job = m.job /\ m'.tp1 = m.tp1 /\ m'.recover = m.recover /\ m'.exit = m.exit
  BY <1>1, FillPlanCredits, LeftBehind DEF Credits
<1>3. PICK leg \in Legs : leg = Leg(c) /\ Leg(c)' = leg /\ Leg(m.cur) = leg /\ Leg(m.cur)' = leg
  BY <1>0, <1>1 DEF Leg
<1>4. ReplacesLeg(leg)'
  <2> HIDE DEF Leg
  <2> QED  BY <1>1, <1>3 DEF ReplacesLeg, SellPlaces
<1>5. ASSUME NEW l \in Legs, l # leg, Offered(l) PROVE Offered(l)'
  <2>1. Left(l)' = Left(l)
    BY <1>1, <1>3, <1>5
  <2>2. ASSUME NEW j \in TakeProfits, Leg(j) = l
        PROVE  /\ j \in TakeProfits' /\ Leg(j)' = l /\ (OpenRow(j) => OpenRow(j)')
               /\ FilledAtOnce(j) => FilledAtOnce(j)' /\ rows'[j].bFilled = rows[j].bFilled
    BY <1>0, <1>1, <2>2 DEF TakeProfits, Leg, OpenRow, FilledAtOnce, SellPlaces
  <2> QED  BY <1>5, <2>1, <2>2, OfferedStays
<1>6. Smooth' = Smooth /\ Buy' = Buy /\ (ReplacesAll => ReplacesAll') /\ \A l \in Legs : l # leg => ~ReplacesLeg(l)
  <2>1. Smooth' = Smooth /\ Buy' = Buy
    BY <1>1, <1>2 DEF Smooth, SameCounts, Buy
  <2>2. ReplacesAll => ReplacesAll'
    BY <1>1, <1>2 DEF ReplacesAll, SettlePlaces, SellPlaces
  <2>3. \A l \in Legs : l # leg => ~ReplacesLeg(l)
    <3> HIDE DEF Leg
    <3> QED  BY <1>1, <1>3 DEF ReplacesLeg, At
  <2> QED  BY <2>1, <2>2, <2>3
<1>7. Abandoned => Abandoned'
  <2> SUFFICES ASSUME Abandoned PROVE Abandoned'
    OBVIOUS
  <2>1. Exact(c) /\ 0 < Left(leg) /\ Left("TP1") = 0
    BY <1>1, <1>3 DEF PlanIsExact, Exact, Abandoned, At
  <2>2. leg # "TP1" /\ rows[c].purpose # "TP1"
    <3>1. leg # "TP1"
      BY <2>1
    <3> QED  BY <1>3, <3>1 DEF Leg
  <2>3. Left("TP1")' = Left("TP1")
    BY <1>1, <1>3, <2>2 DEF Legs
  <2>4. rows'[m'.cur].purpose # "TP1" /\ pos'.state = "SAFE"
    BY <1>1, <2>2 DEF Abandoned
  <2> HIDE DEF Left
  <2> QED  BY <2>1, <2>3, <2>4 DEF Abandoned
<1> HIDE DEF Left, Leg, Offered, Buy, Abandoned, Smooth, ReplacesAll, ReplacesLeg
<1> QED  BY <1>4, <1>5, <1>6, <1>7 DEF AllOffered, Covered

\* The shares leave the position, and nothing else changes.
LEMMA RemoveSharesOffered == ASSUME Shape, PlanIsExact, AllOffered, RemoveShares PROVE AllOffered'
<1>1. Removes /\ Shape' /\ PlanIsExact'
  BY RemoveSharesRemoves, RemoveSharesShape, RemoveSharesExact
<1>2. /\ m.pc = "sold" /\ UNCHANGED <<plan, rows>> /\ SameCounts /\ m'.pc = "markSell" /\ m'.cur = m.cur
      /\ m'.fills = m.fills /\ m'.job = m.job
      /\ m'.tp1 = m.tp1 /\ m'.recover = m.recover /\ m'.exit = m.exit
  BY <1>1 DEF Removes, Moves
<1>3. \A l \in Legs : Offered(l) => Offered(l)'
  BY <1>2, OfferedPasses DEF SellPlaces
<1>4. Smooth' = Smooth /\ Buy' = Buy
  BY <1>2 DEF Smooth, SameCounts, Buy
<1>5. ReplacesAll => ReplacesAll'
  BY <1>2 DEF ReplacesAll, SettlePlaces, SellPlaces
<1>6. \A l \in Legs : ReplacesLeg(l) => ReplacesLeg(l)'
  <2>1. Leg(m.cur)' = Leg(m.cur)
    BY <1>2 DEF Leg
  <2> HIDE DEF Leg
  <2> QED  BY <1>2, <2>1 DEF ReplacesLeg, SellPlaces, At
<1>7. ASSUME Abandoned, ~Abandoned' PROVE \A l \in Legs : Offered(l)'
  <2>1. /\ pos.state = "SAFE" /\ Left("TP1") = 0 /\ rows[m.cur].purpose # "TP1"
        /\ Left("TP1")' = Left("TP1") /\ ~At("sold")' /\ ~At("bought")'
    BY <1>2, <1>7 DEF Abandoned, At, Left
  <2>2. pos'.state # "SAFE"
    <3> HIDE DEF Left
    <3> QED  BY <1>7, <2>1 DEF Abandoned
  <2>3. pos'.qty = 0
    BY <1>1, <2>1, <2>2 DEF Removes
  <2>4. Exhausted'
    BY <1>1, <2>1, <2>3 DEF Exhausted, Net, Pending
  <2> QED  BY <1>1, <2>4, NothingLeftNext DEF NothingDue
<1> HIDE DEF Left, Leg, Offered, Buy, Abandoned, Smooth, ReplacesAll, ReplacesLeg
<1> QED  BY <1>3, <1>4, <1>5, <1>6, <1>7 DEF AllOffered, Covered

LEMMA MarkSellOffered == ASSUME Shape, Safe, PlanIsExact, AllOffered, MarkSell PROVE AllOffered'
<1>0. PICK c : c = m.cur
  OBVIOUS
<1>1. Types /\ Shape' /\ PlanIsExact' /\ Closes
  BY MarkSellCloses, MarkSellShape, MarkSellExact DEF Shape
<1>2. PICK new \in Rows :
          /\ Writes(c, new) /\ SameOrder(new, rows[c])
          /\ new.status = rows[c].status /\ new.filled = rows[c].filled
          /\ new.bStatus = rows[c].bStatus /\ new.bFilled = rows[c].bFilled
  BY <1>0, <1>1 DEF Closes
<1>3. /\ m.pc = "markSell" /\ UNCHANGED pos /\ GoesOn /\ SameCounts
      /\ plan'.target = plan.target /\ plan'.filled = plan.filled
      /\ plan'.active = (pos.state # "EMPTY" /\ plan.active)
  BY <1>1 DEF Closes
<1>4. c \in TakeProfits /\ c \in DOMAIN rows /\ c # 1 /\ Leg(c) \in Legs
  BY <1>0, <1>1, <1>3, RowTypes DEF Shape, AtSell, BuyFirst, SellPlaces, TakeProfits
<1>5. /\ TakeProfits' = TakeProfits /\ Buy' = Buy
      /\ rows'[c] = new /\ \A j \in DOMAIN rows : j # c => rows'[j] = rows[j]
  BY <1>1, <1>2, <1>4, OneRow
<1>6. PICK leg \in Legs : leg = Leg(c) /\ Leg(c)' = leg
  BY <1>2, <1>4, <1>5 DEF Leg, SameOrder
<1>7. /\ Left(leg) = rows[c].qty - rows[c].filled /\ rows[c].qty <= plan.target[leg]
      /\ (OpenRow(c) => OpenRow(c)') /\ c \in TakeProfits'
  <2>1. SaleFits
    BY <1>3 DEF PlanIsExact, IsCredited
  <2> QED  BY <1>0, <1>2, <1>4, <1>5, <1>6, <2>1 DEF SaleFits, OpenRow
<1>8. ~plan'.active => pos.qty = 0
  BY <1>3, StateSays
<1>9. Abandoned' = Abandoned
  <2>1. Left("TP1")' = Left("TP1") /\ ~At("sold") /\ ~At("sold")'
    BY <1>3 DEF Left, At, GoesOn
  <2> HIDE DEF Left
  <2> QED  BY <1>3, <2>1 DEF Abandoned
<1>10. ASSUME NEW l \in Legs, l # leg, Offered(l) PROVE Offered(l)'
  <2>1. Left(l)' = Left(l)
    BY <1>3 DEF Left
  <2>2. ASSUME NEW j \in TakeProfits, Leg(j) = l
        PROVE  /\ j \in TakeProfits' /\ Leg(j)' = l /\ (OpenRow(j) => OpenRow(j)')
               /\ FilledAtOnce(j) => FilledAtOnce(j)' /\ rows'[j].bFilled = rows[j].bFilled
    <3>1. j # c /\ rows'[j] = rows[j]
      BY <1>5, <1>6, <1>10, <2>2 DEF TakeProfits
    <3> QED  BY <1>3, <1>5, <2>2, <3>1 DEF Leg, OpenRow, FilledAtOnce, GoesOn, SellPlaces
  <2> QED  BY <1>10, <2>1, <2>2, OfferedStays
<1>11. m.job = "pass" => Offered(leg)' \/ m'.recover \/ m'.exit
  <2> HIDE DEF Left, Leg, Offered, Buy
  <2> QED  BY <1>0, <1>1, <1>3, <1>6, <1>7, <1>8, DoneWithRow
<1> HIDE DEF Left, Leg, Offered, Buy, Abandoned
<1> QED  BY <1>0, <1>3, <1>5, <1>6, <1>9, <1>10, <1>11, GoesOnOffered DEF SellPlaces

-----------------------------------------------------------------------------
(* What is offered: orders are placed, and the broker acts *)

\* An order that is placed offers what its leg has left, open or filled at once.
LEMMA SubmitsOffered ==
    ASSUME Shape, Safe, PlanIsExact, AllOffered, NEW next \in {"placeTP2", "rows", "jobs"},
           NEW purpose \in {"TP1", "TP2", "EXIT"}, NEW n \in Nat \ {0}, m.pc \in SubmitPlaces,
           Submits(purpose, n, next), NEW leg \in Legs, leg = (IF purpose = "TP1" THEN "TP1" ELSE "TP2"),
           n = Left(leg),
           Left("TP1") = 0 \/ purpose = "TP1" \/ m.pc = "placeTP2", purpose = "TP1" => next = "placeTP2"
    PROVE  AllOffered'
<1>1. PICK new \in Rows :
          /\ rows' = Append(rows, new) /\ new.purpose = purpose /\ new.qty = n /\ ~new.applied
          /\ \/ new.status = "OPEN" /\ Moves(next) /\ UNCHANGED <<overfilled, failures>>
             \/ new.status = "FILLED" /\ new.bFilled = n /\ Moves(next) /\ UNCHANGED <<overfilled, failures>>
             \/ Leave /\ (overfilled' = TRUE \/ failures' = failures + 1)
  BY DEF Submits
<1>2. PICK k : k = Len(rows) + 1
  OBVIOUS
<1>3. /\ k \in TakeProfits' /\ rows'[k] = new
      /\ \A j \in DOMAIN rows : rows'[j] = rows[j] /\ Leg(j)' = Leg(j) /\ OpenRow(j)' = OpenRow(j)
      /\ TakeProfits' = TakeProfits \cup {k} /\ Buy' = Buy
  BY <1>1, <1>2, SubmitsLive
<1>4. UNCHANGED <<pos, plan, crashes>> /\ crashes \in Nat /\ failures \in Nat
  BY DEF Submits, Shape, Types
<1>5. CASE Leave /\ (overfilled' = TRUE \/ failures' = failures + 1)
  <2>1. ~Smooth'
    BY <1>4, <1>5 DEF Smooth
  <2> QED  BY <2>1 DEF AllOffered
<1>6. CASE Moves(next) /\ UNCHANGED <<overfilled, failures>> /\ (new.status = "OPEN" \/ (new.status = "FILLED" /\ new.bFilled = n))
  <2>1. m'.fills = {} /\ m.fills = {} /\ m'.pc = next /\ m'.pc \notin SellPlaces /\ m.pc \notin SellPlaces
    BY <1>6 DEF Shape, Control, Moves, SubmitPlaces, SettlePlaces, SellPlaces
  <2>2. \A l \in Legs : Left(l)' = Left(l)
    BY <1>4 DEF Left
  <2>3. Leg(k)' = leg
    BY <1>1, <1>3 DEF Leg
  <2>4. Offered(leg)'
    <3>1. CASE new.status = "OPEN"
      <4>1. k \in OpenTakeProfits'
        BY <1>3, <3>1 DEF OpenTakeProfits, OpenRow
      <4> HIDE DEF Leg, Left
      <4> QED  BY <2>3, <4>1 DEF Offered
    <3>2. CASE new.status = "FILLED" /\ new.bFilled = n
      <4>1. FilledAtOnce(k)' /\ Left(leg)' <= rows'[k].bFilled
        <5>1. FilledAtOnce(k)'
          BY <1>1, <1>3, <2>1, <3>2 DEF FilledAtOnce
        <5> HIDE DEF Left
        <5> QED  BY <1>3, <2>2, <3>2, <5>1
      <4> HIDE DEF Leg, Left, FilledAtOnce
      <4> QED  BY <1>3, <2>3, <4>1 DEF Offered
    <3> QED  BY <1>6, <3>1, <3>2
  <2>5. ASSUME NEW l \in Legs, Offered(l) PROVE Offered(l)'
    <3>1. ASSUME NEW j \in TakeProfits, Leg(j) = l
          PROVE  /\ j \in TakeProfits' /\ Leg(j)' = l /\ (OpenRow(j) => OpenRow(j)')
                 /\ FilledAtOnce(j) => FilledAtOnce(j)' /\ rows'[j].bFilled = rows[j].bFilled
      <4>1. j \in DOMAIN rows /\ rows'[j] = rows[j]
        BY <1>3, <3>1 DEF TakeProfits
      <4> QED  BY <1>3, <2>1, <3>1, <4>1 DEF FilledAtOnce
    <3> QED  BY <2>2, <2>5, <3>1, OfferedStays
  <2>6. Smooth' = Smooth
    BY <1>4, <1>6 DEF Smooth
  <2>7. Abandoned' = Abandoned
    <3>1. Left("TP1")' = Left("TP1") /\ ~At("sold") /\ ~At("sold")'
      BY <2>1, <2>2 DEF At, Legs, SellPlaces
    <3> HIDE DEF Left
    <3> QED  BY <1>4, <3>1 DEF Abandoned
  <2>8. CASE purpose = "TP1"
    <3>1. leg = "TP1" /\ m'.pc = "placeTP2"
      BY <2>1, <2>8
    <3>2. \A l \in Legs : l = leg \/ ReplacesLeg(l)'
      <4> HIDE DEF Leg
      <4> QED  BY <3>1 DEF Legs, ReplacesLeg, At
    <3> HIDE DEF Offered, ReplacesLeg
    <3> QED  BY <2>4, <3>2 DEF AllOffered, Covered
  <2>9. CASE Left("TP1") = 0 /\ purpose # "TP1"
    <3>1. leg = "TP2" /\ Left("TP1")' = 0
      BY <2>2, <2>9 DEF Legs
    <3>2. Offered("TP1")'
      BY <3>1 DEF Offered
    <3> HIDE DEF Offered
    <3> QED  BY <2>4, <3>1, <3>2 DEF AllOffered, Covered, Legs
  <2>10. CASE m.pc = "placeTP2" /\ purpose # "TP1"
    <3>1. leg = "TP2" /\ ~ReplacesLeg("TP1") /\ (ReplacesAll => ReplacesAll')
      BY <1>6, <2>10 DEF ReplacesLeg, ReplacesAll, Moves, At, SellPlaces, SettlePlaces
    <3> HIDE DEF Left, Leg, Offered, Buy, Abandoned, Smooth, ReplacesAll, ReplacesLeg
    <3> QED  BY <1>3, <2>4, <2>5, <2>6, <2>7, <3>1 DEF AllOffered, Covered, Legs
  <2> QED  BY <2>8, <2>9, <2>10
<1> QED  BY <1>1, <1>5, <1>6

\* A leg that has nothing left is passed over.
LEMMA PassesOverOffered ==
    ASSUME Shape, AllOffered, NEW next \in {"placeTP2", "rows", "jobs"}, PassesOver(next),
           \/ m.pc = "placeTP1" /\ Left("TP1") = 0 /\ next = "placeTP2"
           \/ m.pc = "placeTP2" /\ Left("TP2") = 0
    PROVE  AllOffered'
<1>1. UNCHANGED <<pos, plan, rows>> /\ SameCounts /\ Moves(next)
  BY DEF PassesOver, SameBooks
<1>2. \A l \in Legs : Offered(l) => Offered(l)'
  BY <1>1, OfferedPasses DEF Moves, SellPlaces
<1>3. CASE m.pc = "placeTP1" /\ Left("TP1") = 0 /\ next = "placeTP2"
  <2>1. Offered("TP1")' /\ ReplacesLeg("TP2")'
    <3>1. Left("TP1")' = 0
      BY <1>1, <1>3 DEF Left
    <3>2. m'.pc = "placeTP2"
      BY <1>1, <1>3 DEF Moves
    <3> HIDE DEF Left, Leg
    <3> QED  BY <3>1, <3>2 DEF Offered, ReplacesLeg, At
  <2> HIDE DEF Offered, ReplacesLeg
  <2> QED  BY <2>1 DEF AllOffered, Covered, Legs
<1>4. CASE m.pc = "placeTP2" /\ Left("TP2") = 0
  <2>1. Offered("TP2")'
    <3>1. Left("TP2")' = 0
      BY <1>1, <1>4 DEF Left
    <3> HIDE DEF Left, Leg
    <3> QED  BY <3>1 DEF Offered
  <2>2. ~ReplacesLeg("TP1") /\ (ReplacesAll => ReplacesAll')
    BY <1>1, <1>4 DEF ReplacesLeg, ReplacesAll, Moves, At, SellPlaces, SettlePlaces
  <2>3. Smooth' = Smooth /\ Buy' = Buy
    BY <1>1 DEF Smooth, SameCounts, Buy
  <2>4. Abandoned' = Abandoned
    <3>1. Left("TP1")' = Left("TP1") /\ ~At("sold") /\ ~At("sold")'
      BY <1>1, <1>4 DEF Left, At, Moves
    <3> HIDE DEF Left
    <3> QED  BY <1>1, <3>1 DEF Abandoned
  <2> HIDE DEF Left, Leg, Offered, Buy, Abandoned, Smooth, ReplacesAll, ReplacesLeg
  <2> QED  BY <1>2, <2>1, <2>2, <2>3, <2>4 DEF AllOffered, Covered, Legs
<1> QED  BY <1>3, <1>4

LEMMA PlacementOffered ==
    ASSUME Shape, Safe, PlanIsExact, AllOffered, PlaceTP1 \/ PlaceTP2 \/ PlaceExit PROVE AllOffered'
<1>1. Placed \in {"rows", "jobs"} /\ pos.qty \in Nat /\ Left("TP1") \in Nat /\ Left("TP2") \in Nat
  BY LeftTypes DEF Placed, Shape, Types
<1>2. m.pc = "placeExit" => pos.qty = Left("TP2") /\ Left("TP1") = 0
  <2>1. m.pc = "placeExit" => pos.state = "PARTIAL" /\ Net = pos.qty /\ Net = Left("TP1") + Left("TP2")
    BY <1>1 DEF Shape, Control, At, Net, Pending, PlanIsExact
  <2>2. pos.state = "PARTIAL" => Left("TP1") = 0
    BY StateSays
  <2> HIDE DEF Left, Net
  <2> QED  BY <1>1, <2>1, <2>2
<1>3. CASE m.pc = "placeTP1" /\ Left("TP1") > 0 /\ Submits("TP1", Left("TP1"), "placeTP2")
  <2>1. Left("TP1") \in Nat \ {0} /\ "TP1" \in Legs
    BY <1>1, <1>3 DEF Legs
  <2> HIDE DEF Left
  <2> QED  BY <1>3, <2>1, SubmitsOffered DEF SubmitPlaces
<1>4. CASE m.pc = "placeTP2" /\ Left("TP2") > 0 /\ Submits("TP2", Left("TP2"), Placed)
  <2>1. Left("TP2") \in Nat \ {0} /\ "TP2" \in Legs
    BY <1>1, <1>4 DEF Legs
  <2> HIDE DEF Left, Placed
  <2> QED  BY <1>1, <1>4, <2>1, SubmitsOffered DEF SubmitPlaces
<1>5. CASE m.pc = "placeExit" /\ pos.qty > 0 /\ Submits("EXIT", pos.qty, "jobs")
  <2>1. pos.qty \in Nat \ {0} /\ "TP2" \in Legs
    BY <1>1, <1>5 DEF Legs
  <2> HIDE DEF Left
  <2> QED  BY <1>2, <1>5, <2>1, SubmitsOffered DEF SubmitPlaces
<1>6. CASE \/ m.pc = "placeTP1" /\ Left("TP1") = 0 /\ PassesOver("placeTP2")
           \/ m.pc = "placeTP2" /\ Left("TP2") = 0 /\ PassesOver(Placed)
  <2> HIDE DEF Left, Placed
  <2> QED  BY <1>1, <1>6, PassesOverOffered
<1> HIDE DEF Left, Placed
<1> QED  BY <1>3, <1>4, <1>5, <1>6, Placement

\* The broker changes no row that has ended, and ends none in the books.
LEMMA BrokerActsOffered == ASSUME Shape, AllOffered, NEW i \in DOMAIN rows, BrokerActs(i) PROVE AllOffered'
<1>1. Types /\ UNCHANGED <<pos, plan, crashes, failures>> /\ rows[i].status = "OPEN"
  BY DEF Shape, BrokerActs
<1>2. PICK new \in Rows :
          /\ Writes(i, new) /\ SameOrder(new, rows[i]) /\ new.applied = rows[i].applied
          /\ new.status = rows[i].status
          /\ (m' = m /\ overfilled' = overfilled) \/ overfilled' = TRUE
  BY DEF BrokerActs
<1>3. /\ TakeProfits' = TakeProfits
      /\ rows'[i] = new /\ \A j \in DOMAIN rows : j # i => rows'[j] = rows[j]
      /\ Buy' = IF i = 1 THEN new ELSE Buy
  BY <1>1, <1>2, OneRow
<1>4. CASE overfilled' = TRUE
  <2>1. ~Smooth'
    BY <1>4 DEF Smooth
  <2> QED  BY <2>1 DEF AllOffered
<1>5. CASE m' = m /\ overfilled' = overfilled
  <2>1. \A j \in DOMAIN rows : /\ SameOrder(rows'[j], rows[j]) /\ rows'[j].applied = rows[j].applied
                               /\ rows'[j].status = rows[j].status
                               /\ rows[j].status # "OPEN" => rows'[j] = rows[j]
    BY <1>1, <1>2, <1>3 DEF SameOrder
  <2>2. Buy'.applied = Buy.applied
    BY <1>2, <1>3 DEF Buy
  <2>3. ASSUME NEW l \in Legs, Offered(l) PROVE Offered(l)'
    <3>1. Left(l)' = Left(l)
      BY <1>1 DEF Left
    <3>2. ASSUME NEW j \in TakeProfits, Leg(j) = l
          PROVE  /\ j \in TakeProfits' /\ Leg(j)' = l /\ (OpenRow(j) => OpenRow(j)')
                 /\ FilledAtOnce(j) => FilledAtOnce(j)' /\ rows'[j].bFilled = rows[j].bFilled
      <4>1. j \in DOMAIN rows
        BY <3>2 DEF TakeProfits
      <4> QED  BY <1>3, <1>5, <2>1, <3>2, <4>1 DEF Leg, OpenRow, FilledAtOnce, SameOrder
    <3> QED  BY <2>3, <3>1, <3>2, OfferedStays
  <2>4. Smooth' = Smooth /\ ReplacesAll' = ReplacesAll
    BY <1>1, <1>5 DEF Smooth, ReplacesAll
  <2>5. m.pc \in SellPlaces => m.cur \in DOMAIN rows
    BY DEF Shape, AtSell, TakeProfits
  <2>6. \A l \in Legs : ReplacesLeg(l) => ReplacesLeg(l)'
    <3>1. m.pc \in SellPlaces => Leg(m.cur)' = Leg(m.cur)
      BY <1>5, <2>1, <2>5 DEF Leg, SameOrder
    <3> HIDE DEF Leg
    <3> QED  BY <1>5, <3>1 DEF ReplacesLeg, At
  <2>7. Abandoned => Abandoned'
    <3>1. Left("TP1")' = Left("TP1") /\ pos' = pos
      BY <1>1 DEF Left
    <3>2. At("sold") => rows'[m.cur].purpose = rows[m.cur].purpose
      BY <2>1, <2>5 DEF At, SellPlaces, SameOrder
    <3> HIDE DEF Left
    <3> QED  BY <1>5, <3>1, <3>2 DEF Abandoned, At
  <2> HIDE DEF Left, Leg, Offered, Buy, Abandoned, Smooth, ReplacesAll, ReplacesLeg
  <2> QED  BY <2>2, <2>3, <2>4, <2>6, <2>7 DEF AllOffered, Covered
<1> QED  BY <1>2, <1>4, <1>5

LEMMA ReconcileOffered == ASSUME Shape, AllOffered, Reconcile PROVE AllOffered'
<1>1. /\ UNCHANGED <<plan, rows, m>> /\ SameCounts /\ m.pc = "idle" /\ pos'.state = "SAFE"
  BY ReconcileShape DEF SafeMode
<1>2. \A l \in Legs : Offered(l) => Offered(l)'
  BY <1>1, OfferedPasses DEF SellPlaces
<1>3. Smooth' = Smooth /\ Buy' = Buy /\ ReplacesAll' = ReplacesAll /\ \A l \in Legs : ~ReplacesLeg(l)
  BY <1>1 DEF Smooth, SameCounts, Buy, ReplacesAll, ReplacesLeg, At, SellPlaces
<1>4. Abandoned => Abandoned'
  <2>1. Left("TP1")' = Left("TP1") /\ ~At("sold")'
    BY <1>1 DEF Left, At
  <2> HIDE DEF Left
  <2> QED  BY <1>1, <2>1 DEF Abandoned
<1> HIDE DEF Left, Leg, Offered, Buy, Abandoned, Smooth, ReplacesAll, ReplacesLeg
<1> QED  BY <1>2, <1>3, <1>4 DEF AllOffered, Covered

-----------------------------------------------------------------------------
(* What is offered: inductive without a crash *)

LEMMA NextOffered == ASSUME Shape, Safe, PlanIsExact, AllOffered, Next, crashes' = 0 PROVE AllOffered'
<1>1. Kinds /\ ~Crash
  BY NextKinds, CrashesStay
<1>2. ~(\E i \in m.todo : MissingRow(i))
  BY NoRowIsMissing
<1>3. ASSUME RefreshFails PROVE AllOffered'
  <2>1. failures' = failures + 1 /\ failures \in Nat
    BY <1>3, RefreshFailsShape DEF Shape, Types
  <2>2. ~Smooth'
    BY <2>1 DEF Smooth
  <2> QED  BY <2>2 DEF AllOffered
<1> QED
  BY <1>1, <1>2, <1>3, ControlOffered, JobsOffered, ReplaceOffered, RefreshRowOffered, SettleRowOffered, BuyStepsOffered,
     NothingSoldOffered, FillPlanOffered, RemoveSharesOffered, MarkSellOffered, PlacementOffered, BrokerActsOffered,
     ReconcileOffered
  DEF Kinds

LEMMA StutterOffered == ASSUME Shape, AllOffered, UNCHANGED vars PROVE AllOffered'
<1>1. UNCHANGED <<pos, plan, rows, m, overfilled, crashes, failures>>
  BY DEF vars
<1>2. \A l \in Legs : Offered(l) => Offered(l)'
  BY <1>1, OfferedPasses
<1>3. Smooth' = Smooth /\ Buy' = Buy /\ ReplacesAll' = ReplacesAll
  BY <1>1 DEF Smooth, Buy, ReplacesAll
<1>4. \A l \in Legs : ReplacesLeg(l) => ReplacesLeg(l)'
  <2>1. Leg(m.cur)' = Leg(m.cur)
    BY <1>1 DEF Leg
  <2> HIDE DEF Leg
  <2> QED  BY <1>1, <2>1 DEF ReplacesLeg, At
<1>5. Abandoned => Abandoned'
  <2>1. Left("TP1")' = Left("TP1")
    BY <1>1 DEF Left
  <2> HIDE DEF Left
  <2> QED  BY <1>1, <2>1 DEF Abandoned, At
<1> HIDE DEF Left, Leg, Offered, Buy, Abandoned, Smooth, ReplacesAll, ReplacesLeg
<1> QED  BY <1>2, <1>3, <1>4, <1>5 DEF AllOffered, Covered

LEMMA SpecOffered == Spec => [](Agrees /\ AllOffered)
<1>1. Init => AllOffered
  <2> SUFFICES ASSUME Init PROVE AllOffered
    OBVIOUS
  <2>1. ~Buy.applied
    BY InitBegins DEF Begins
  <2> QED  BY <2>1 DEF AllOffered
<1>2. Agrees /\ Agrees' /\ AllOffered /\ [Next]_vars => AllOffered'
  <2>1. ASSUME Agrees, Agrees', AllOffered, Next PROVE AllOffered'
    <3> SUFFICES ASSUME Smooth' PROVE AllOffered'
      BY DEF AllOffered
    <3>1. crashes' = 0
      <4>1. crashes' \in Nat /\ failures' \in Nat
        BY <2>1 DEF Agrees, Shape, Types
      <4>2. crashes' + failures' = 0
        BY DEF Smooth
      <4>3. \A a, b \in Nat : a + b = 0 => a = 0
        OBVIOUS
      <4> QED  BY <4>1, <4>2, <4>3, Zenon
    <3>2. Shape /\ Safe /\ PlanIsExact
      BY <2>1, <3>1, CrashesStay DEF Agrees, Undisturbed
    <3> QED  BY <2>1, <3>1, <3>2, NextOffered
  <2>2. ASSUME Agrees, AllOffered, UNCHANGED vars PROVE AllOffered'
    BY <2>2, StutterOffered DEF Agrees
  <2> QED  BY <2>1, <2>2
<1> QED  BY <1>1, <1>2, SpecAgrees, PTL DEF Spec

\* Between two passes every leg has an order for what it has left, open or filled at once.
LEMMA LegHasOrder ==
    ASSUME Agrees, AllOffered, At("idle"), crashes + failures = 0, ~overfilled,
           pos.state \in {"HOLDING", "PARTIAL"}
    PROVE  /\ \A leg \in Legs : Offered(leg)
           /\ PlanIsExact /\ Balanced /\ Buy.applied
<1>1. crashes = 0 /\ Shape /\ m = Idle
  BY DEF Agrees, Shape, Types, Control
<1>2. PlanIsExact /\ Balanced
  BY <1>1 DEF Agrees, Undisturbed
<1>3. Buy.applied
  BY <1>2 DEF PlanIsExact, StateFits, At
<1>4. Smooth /\ ~Abandoned
  BY DEF Smooth, Abandoned
<1>5. ~ReplacesAll /\ \A leg \in Legs : ~ReplacesLeg(leg)
  BY <1>1 DEF ReplacesAll, ReplacesLeg, Idle, At, SettlePlaces, SellPlaces
<1> QED  BY <1>2, <1>3, <1>4, <1>5 DEF AllOffered, Covered

\* What a row offers, or has sold and nobody credits.
LEMMA SharesAreOffered == ASSUME Agrees, AllOffered PROVE EveryShareIsOffered
<1> DEFINE U == TakeProfits
           S == OpenTakeProfits
           f == [i \in S |-> rows[i].qty - rows[i].bFilled]
           e == [i \in U |-> IF i \in S THEN rows[i].qty - rows[i].bFilled ELSE 0]
           g == [i \in U |-> Uncredited(i)]
           w == [i \in U |-> e[i] + g[i]]
<1> SUFFICES ASSUME At("idle"), crashes + failures = 0, ~overfilled, pos.state \in {"HOLDING", "PARTIAL"}
             PROVE  hold <= SumFunction(f)
  BY DEF EveryShareIsOffered
<1>1. Shape /\ PlanIsExact /\ Balanced /\ Buy.applied /\ \A leg \in Legs : Offered(leg)
  BY LegHasOrder DEF Agrees
<1>2. Net = hold + SumFunction(g)
  <2>1. BuyDue = 0 /\ UncreditedShares = SumFunction(g)
    BY <1>1 DEF BuyDue, UncreditedShares
  <2>2. Net \in Int /\ hold \in Int /\ UncreditedShares \in Int
    BY <1>1, ShapeNumbers, ShapeAmounts DEF Numbers, Amounts
  <2>3. Net + BuyDue = hold + UncreditedShares
    BY <1>1 DEF Balanced
  <2> HIDE DEF g
  <2> QED  BY <2>1, <2>2, <2>3
<1>3. /\ IsFiniteSet(U) /\ S \in SUBSET U
      /\ \A i \in U : /\ rows[i].qty \in Nat /\ rows[i].bFilled \in Nat /\ rows[i].filled \in Nat
                      /\ Uncredited(i) \in Int /\ Leg(i) \in Legs /\ i \in DOMAIN rows
  BY <1>1, ShapeNumbers, ShapeAmounts, LiveRows, RowTypes DEF Numbers, Amounts, Shape
<1>4. /\ f \in [S -> Int] /\ e \in [U -> Int] /\ g \in [U -> Int]
      /\ (\A i \in S : e[i] = f[i]) /\ \A i \in U \ S : e[i] = 0
  BY <1>3
<1>5. w \in [U -> Int] /\ \A i \in U : w[i] = e[i] + g[i]
  <2> HIDE DEF e, g
  <2> QED  BY <1>4
<1>6. SumFunction(w) = SumFunction(f) + SumFunction(g) /\ SumFunction(f) \in Int /\ SumFunction(g) \in Int
  <2> HIDE DEF U, S, f, e, g, w
  <2>1. SumFunction(w) = SumFunction(e) + SumFunction(g)
    BY <1>3, <1>4, <1>5, SumsAddUp
  <2>2. SumFunction(e) = SumFunction(f)
    <3>1. /\ IsFiniteSet(U) /\ S \in SUBSET U /\ f \in [S -> Int] /\ e \in [U -> Int]
          /\ (\A x \in S : e[x] = f[x]) /\ (\A x \in U \ S : e[x] = 0)
      BY <1>3, <1>4
    <3> QED  BY <3>1, SumOfSupport
  <2>3. SumFunction(e) \in Int /\ SumFunction(g) \in Int
    BY <1>3, <1>4, SumType
  <2> QED  BY <2>1, <2>2, <2>3
<1>7. ASSUME NEW i \in U
      PROVE  /\ w[i] >= 0
             /\ i \in S => w[i] = Left(Leg(i))
             /\ i \notin S /\ ~rows[i].applied => w[i] = rows[i].bFilled
  <2>1. Uncredited(i) = IF rows[i].applied THEN 0
                        ELSE IF OpenRow(i) THEN rows[i].bFilled - rows[i].filled ELSE rows[i].bFilled
    BY <1>1, <1>7, UncreditedIdle
  <2>2. w[i] = (IF i \in S THEN rows[i].qty - rows[i].bFilled ELSE 0) + Uncredited(i)
    BY <1>7
  <2>3. i \in S <=> OpenRow(i)
    BY <1>7 DEF OpenTakeProfits
  <2>4. i \in S => ~rows[i].applied /\ Left(Leg(i)) = rows[i].qty - rows[i].filled /\ Left(Leg(i)) \in Nat
    <3> SUFFICES ASSUME i \in S PROVE ~rows[i].applied /\ Left(Leg(i)) = rows[i].qty - rows[i].filled /\ Left(Leg(i)) \in Nat
      OBVIOUS
    <3>1. i \in Live /\ ~At("sell")
      BY <1>1, NothingPending DEF At
    <3>2. Left(Leg(i)) = rows[i].qty - rows[i].filled
      BY <1>1, <2>3, <3>1 DEF PlanIsExact, Exact
    <3>3. ~rows[i].applied
      BY <1>1, <1>3, <2>3, RowTypes DEF RowOK, OpenRow, Shape
    <3>4. Left(Leg(i)) \in Nat
      BY <1>1, <1>3, <1>7, LeftTypes
    <3> QED  BY <3>2, <3>3, <3>4
  <2>5. CASE i \in S
    <3>1. w[i] = rows[i].qty - rows[i].bFilled + (rows[i].bFilled - rows[i].filled)
      BY <2>1, <2>2, <2>3, <2>4, <2>5
    <3> HIDE DEF w, S, U, Left, Leg
    <3>2. rows[i].qty - rows[i].bFilled + (rows[i].bFilled - rows[i].filled) = rows[i].qty - rows[i].filled
      BY <1>3, <1>7
    <3> QED  BY <2>4, <2>5, <3>1, <3>2
  <2>6. CASE i \notin S
    <3> HIDE DEF S, Left, Leg
    <3> QED  BY <1>3, <1>7, <2>1, <2>2, <2>3, <2>6
  <2> QED  BY <2>5, <2>6
<1>8. /\ \A x \in U : w[x] <= SumFunction(w)
      /\ \A x, y \in U : x # y => w[x] + w[y] <= SumFunction(w)
      /\ SumFunction(w) \in Nat
  <2> HIDE DEF U, w
  <2> QED  BY <1>3, <1>5, <1>7, SumHolds, SumNat
<1>9. ASSUME NEW leg \in Legs, Left(leg) # 0 PROVE \E i \in U : Leg(i) = leg /\ Left(leg) <= w[i]
  <2>1. \/ \E i \in OpenTakeProfits : Leg(i) = leg
        \/ \E i \in TakeProfits : Leg(i) = leg /\ FilledAtOnce(i) /\ Left(leg) <= rows[i].bFilled
    BY <1>1, <1>9 DEF Offered
  <2>2. ASSUME NEW i \in S, Leg(i) = leg PROVE i \in U /\ Left(leg) <= w[i]
    <3>1. i \in U /\ w[i] = Left(leg) /\ Left(leg) \in Nat
      BY <1>1, <1>3, <1>7, <2>2, LeftTypes
    <3> HIDE DEF Left, w
    <3> QED  BY <3>1
  <2>3. ASSUME NEW i \in U, FilledAtOnce(i), Left(leg) <= rows[i].bFilled PROVE Left(leg) <= w[i]
    <3>1. i \notin S /\ ~rows[i].applied
      BY <2>3 DEF FilledAtOnce, OpenTakeProfits, OpenRow
    <3>2. w[i] = rows[i].bFilled
      BY <1>7, <3>1
    <3> QED  BY <2>3, <3>2
  <2> HIDE DEF w, Left, Leg, FilledAtOnce
  <2> QED  BY <2>1, <2>2, <2>3
<1>10. Left("TP1") + Left("TP2") <= SumFunction(w)
  <2> HIDE DEF U, w
  <2>1. Left("TP1") \in Nat /\ Left("TP2") \in Nat /\ SumFunction(w) \in Nat /\ \A i \in U : w[i] \in Int
    BY <1>1, <1>5, <1>8, LeftTypes
  <2>2. CASE Left("TP1") # 0 /\ Left("TP2") # 0
    <3>1. PICK x \in U : Leg(x) = "TP1" /\ Left("TP1") <= w[x]
      BY <1>9, <2>2 DEF Legs
    <3>2. PICK y \in U : Leg(y) = "TP2" /\ Left("TP2") <= w[y]
      BY <1>9, <2>2 DEF Legs
    <3>3. w[x] + w[y] <= SumFunction(w) /\ w[x] \in Int /\ w[y] \in Int
      BY <1>8, <2>1, <3>1, <3>2
    <3> HIDE DEF Left
    <3> QED  BY <2>1, <3>1, <3>2, <3>3
  <2>3. ASSUME NEW leg \in Legs, Left(leg) # 0 PROVE Left(leg) <= SumFunction(w)
    <3>1. PICK x \in U : Left(leg) <= w[x] /\ w[x] <= SumFunction(w)
      BY <1>8, <1>9, <2>3
    <3>2. Left(leg) \in Nat
      BY <1>1, LeftTypes
    <3> HIDE DEF Left
    <3> QED  BY <2>1, <3>1, <3>2
  <2>4. CASE Left("TP1") = 0 \/ Left("TP2") = 0
    <3>1. (Left("TP1") # 0 => Left("TP1") <= SumFunction(w)) /\ (Left("TP2") # 0 => Left("TP2") <= SumFunction(w))
      BY <2>3 DEF Legs
    <3> HIDE DEF Left
    <3> QED  BY <2>1, <2>4, <3>1
  <2> QED  BY <2>2, <2>4
<1>11. Net = Left("TP1") + Left("TP2") /\ hold \in Nat /\ Net \in Nat
  BY <1>1, NothingPending, ShapeNumbers DEF PlanIsExact, Numbers
<1> HIDE DEF f, g, w, Left, Net
<1> QED  BY <1>2, <1>6, <1>10, <1>11

\* After a pass every share the broker holds for a position is under a take-profit order,
\* as long as no pass has failed and the position is not in SAFE_MODE: EveryShareIsOffered.
THEOREM SharesStayOffered == Spec => []EveryShareIsOffered
BY SpecOffered, SharesAreOffered, PTL

=============================================================================
