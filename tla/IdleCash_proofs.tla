--------------------------- MODULE IdleCash_proofs ---------------------------
(***************************************************************************)
(* Proofs about IdleCash for any signals, needs, capital and handlers.     *)
(*                                                                         *)
(* Rows is the set of rows there can be: what the broker knows beyond a    *)
(* row is the end of an order that is still open, and a fill it has made   *)
(* up is one of a SELL. Three sums go over the rows: what their stored     *)
(* fills have brought, what their open BUYs reserve, and the fills nobody  *)
(* has applied. A step writes one row or appends one, and moves the shares *)
(* held, the shares managed and the cash by what the sums change.          *)
(***************************************************************************)
EXTENDS IdleCash, Sums, TLAPS

RowRecords ==
    [side : {"BUY", "SELL"}, signal : Signals \cup {NoSignal}, qty : Nat,
     status : {"OPEN", "FILLED", "CANCELED", "UNKNOWN"}, filled : Nat, applied : Nat,
     broker : {"OPEN", "FILLED", "CANCELED", "GONE"}]

RowOK(row) ==
    /\ row.filled = IF row.status = "FILLED" THEN row.qty ELSE 0
    /\ row.applied <= row.filled
    /\ row.status = "OPEN" => row.broker = "OPEN" \/ (row.broker = "FILLED" /\ row.side = "SELL")
    /\ row.status # "OPEN" => row.broker = IF row.status = "UNKNOWN" THEN "GONE" ELSE row.status

Rows == {row \in RowRecords : RowOK(row)}

\* Rows a refresh or a cancellation may go through.
Reachable(table) == {i \in DOMAIN table : table[i].status # "UNKNOWN"}

\* Where a thread may be without a signal.
Anonymous == {"idle", "bound", "refresh", "pending", "list", "free", "surplus", "buy", "bought"}

Jobs == {"none", "monitor", "resume", "reconcile", "sweep", "review", "execute", "cancel"}
Places ==
    Anonymous \cup
    {"sweeps", "cash", "lack", "quote", "issue", "bind", "open", "sell", "sold", "release", "cancel",
     "compare", "submit", "processed"}

ThreadRecords ==
    [job : Jobs, at : Places, s : Signals \cup {NoSignal}, todo : SUBSET Nat, cur : Nat,
     list : SUBSET Signals, n : Nat]

ThreadOK(r, table, offered) ==
    /\ r \in ThreadRecords
    /\ r.todo \subseteq Reachable(table)
    /\ r.cur \in DOMAIN table \cup {0}
    /\ r.at \notin Anonymous => r.s # NoSignal
    /\ r.at = "bind" => r.n \in 1..Len(offered)

Intents == [status : {"NONE", "WAITING", "AWAITING", "COMPLETED", "CANCELED", "EXPIRED"}, own : Nat]
IntentOK(intent, offered) ==
    /\ intent \in Intents
    /\ intent.own \in 0..Len(offered)
    /\ intent.status = "AWAITING" => intent.own # 0

Approvals == [signal : Signals, status : {"ACTIVE", "USED", "ENDED"}]

RowTypes == rows \in Seq(Rows) /\ Len(rows) <= MaxOrders
OfferTypes ==
    /\ approvals \in Seq(Approvals)
    /\ intents = [s \in Signals |-> intents[s]]
    /\ \A s \in Signals : IntentOK(intents[s], approvals)
ThreadTypes ==
    /\ th = [t \in Threads |-> th[t]]
    /\ \A t \in Threads : ThreadOK(th[t], rows, approvals)
AmountTypes == managed \in Nat /\ hold \in Nat /\ overfilled \in Nat
OtherTypes ==
    /\ entry \in [Signals -> {"none", "open", "filled"}]
    /\ turn \in {"monitor", "resume", "reconcile", "sweep"}
    /\ faults \in 0..MaxFaults

IInv ==
    /\ RowTypes /\ OfferTypes /\ ThreadTypes /\ AmountTypes /\ OtherTypes
    /\ ManagedDiffersByUnappliedFills /\ CashCoversOrders

-----------------------------------------------------------------------------
(* Sums over the rows *)

\* The three sums over the rows of a table.
Brought(table) == SumFunction([i \in DOMAIN table |-> Proceeds(table[i], table[i].filled)])
Kept(table) == SumFunction([i \in DOMAIN table |-> Rest(table[i])])
Due(table) == SumFunction([i \in DOMAIN table |-> Proceeds(table[i], table[i].filled - table[i].applied)])

\* What one row adds to them.
Brings(row) == Proceeds(row, row.filled)
Owes(row) == Proceeds(row, row.filled - row.applied)

\* What a row adds to a sum is a whole number.
LEMMA RowValues ==
    \A row \in Rows : /\ Brings(row) \in Int /\ Rest(row) \in Nat /\ Owes(row) \in Int
BY DEF Rows, RowRecords, RowOK, Brings, Rest, Owes, Proceeds

\* The sum of the values v of the rows of a table is a whole number, ...
LEMMA TableSum ==
    ASSUME NEW v \in [Rows -> Int], NEW table \in Seq(Rows)
    PROVE  SumFunction([i \in DOMAIN table |-> v[table[i]]]) \in Int
<1> DEFINE f == [i \in DOMAIN table |-> v[table[i]]]
<1>1. f \in [1..Len(table) -> Int]
  OBVIOUS
<1>2. IsFiniteSet(1..Len(table))
  BY FS_Interval
<1> HIDE DEF f
<1>3. SumFunction(f) \in Int
  BY <1>1, <1>2, SumType
<1> QED  BY <1>3 DEF f

Writes(new, table, i, row) == new = [table EXCEPT ![i] = row]
Appends(new, table, row) == new = Append(table, row)

\* ... changes with the one row that is written, ...
LEMMA TableWrite ==
    ASSUME NEW v \in [Rows -> Int], NEW table \in Seq(Rows), NEW i \in DOMAIN table, NEW row \in Rows,
           NEW new, Writes(new, table, i, row)
    PROVE  SumFunction([k \in DOMAIN new |-> v[new[k]]])
             = SumFunction([k \in DOMAIN table |-> v[table[k]]]) + (v[row] - v[table[i]])
<1> DEFINE f == [k \in DOMAIN table |-> v[table[k]]]
           g == [k \in DOMAIN new |-> v[new[k]]]
           D == 1..Len(table)
<1>1. f \in [D -> Int] /\ g \in [D -> Int] /\ i \in D
  BY DEF Writes
<1>2. IsFiniteSet(D)
  BY FS_Interval
<1>3. (\A k \in D \ {i} : g[k] = f[k]) /\ g[i] = v[row] /\ f[i] = v[table[i]]
  BY DEF Writes
<1>4. SumFunction(g) = SumFunction(f) + (g[i] - f[i])
  <2> HIDE DEF f, g, D
  <2> QED  BY <1>1, <1>2, <1>3, SumChange, SMTT(20)
<1> QED  BY <1>3, <1>4

\* ... and grows with a row that is appended.
LEMMA TableAppend ==
    ASSUME NEW v \in [Rows -> Int], NEW table \in Seq(Rows), NEW row \in Rows,
           NEW new, Appends(new, table, row)
    PROVE  SumFunction([k \in DOMAIN new |-> v[new[k]]])
             = SumFunction([k \in DOMAIN table |-> v[table[k]]]) + v[row]
<1> DEFINE f == [k \in DOMAIN table |-> v[table[k]]]
           g == [k \in DOMAIN new |-> v[new[k]]]
           D == 1..Len(table)
           U == 1..Len(new)
           x == Len(table) + 1
<1>1. f \in [D -> Int] /\ g \in [U -> Int] /\ x \notin D /\ U = D \cup {x}
  BY DEF Appends
<1>2. IsFiniteSet(D) /\ IsFiniteSet(U) /\ D \subseteq U /\ U \ {x} = D /\ x \in U
  BY FS_Interval, SMTT(20) DEF Appends
<1>3. (\A k \in D : g[k] = f[k]) /\ g[x] = v[row]
  BY DEF Appends
<1>4. SumFunction(g) = g[x] + SumFunctionOnSet(g, D)
  <2> HIDE DEF f, g, D, U, x
  <2>1. SumFunctionOnSet(g, U) = g[x] + SumFunctionOnSet(g, U \ {x})
    BY <1>1, <1>2, SumTakesOut
  <2> QED  BY <1>1, <1>2, <2>1, SumIsOverDomain
<1>5. SumFunction(f) = SumFunctionOnSet(g, D)
  <2> HIDE DEF f, g, D, U, x
  <2>1. SumFunctionOnSet(f, D) = SumFunctionOnSet(g, D)
    BY <1>1, <1>2, <1>3, SumsAgree
  <2> QED  BY <1>1, <1>2, <2>1, SumIsOverDomain
<1>6. SumFunction(f) \in Int /\ g[x] \in Int
  <2> HIDE DEF f, g, D, U, x
  <2> QED  BY <1>1, <1>2, SumType
<1>7. SumFunction(g) = SumFunction(f) + g[x]
  <2> HIDE DEF f, g, D, U, x
  <2> QED  BY <1>4, <1>5, <1>6
<1>8. g[x] = v[row]
  BY <1>3
<1> HIDE DEF x
<1> QED  BY <1>7, <1>8

\* b, k and d are the values of rows that the three sums over a table add.
SumsAre(table, b, k, d) ==
    /\ Brought(table) = SumFunction([i \in DOMAIN table |-> b[table[i]]])
    /\ Kept(table) = SumFunction([i \in DOMAIN table |-> k[table[i]]])
    /\ Due(table) = SumFunction([i \in DOMAIN table |-> d[table[i]]])

LEMMA SumsOfValues ==
    ASSUME NEW table \in Seq(Rows)
    PROVE  SumsAre(table, [r \in Rows |-> Brings(r)], [r \in Rows |-> Rest(r)], [r \in Rows |-> Owes(r)])
<1> DEFINE b == [r \in Rows |-> Brings(r)]
           k == [r \in Rows |-> Rest(r)]
           d == [r \in Rows |-> Owes(r)]
<1>1. \A i \in DOMAIN table : /\ b[table[i]] = Brings(table[i])
                              /\ k[table[i]] = Rest(table[i]) /\ d[table[i]] = Owes(table[i])
  OBVIOUS
<1> HIDE DEF b, k, d
<1>2. [i \in DOMAIN table |-> Brings(table[i])] = [i \in DOMAIN table |-> b[table[i]]]
  BY <1>1
<1>3. [i \in DOMAIN table |-> Rest(table[i])] = [i \in DOMAIN table |-> k[table[i]]]
  BY <1>1
<1>4. [i \in DOMAIN table |-> Owes(table[i])] = [i \in DOMAIN table |-> d[table[i]]]
  BY <1>1
<1>5. SumsAre(table, b, k, d)
  BY <1>2, <1>3, <1>4 DEF SumsAre, Brought, Kept, Due, Brings, Owes
<1> QED  BY <1>5 DEF b, k, d

\* The three sums are whole numbers, ...
LEMMA SumTypes ==
    ASSUME NEW table \in Seq(Rows)
    PROVE  Brought(table) \in Int /\ Kept(table) \in Int /\ Due(table) \in Int
<1> DEFINE b == [row \in Rows |-> Brings(row)]
           k == [row \in Rows |-> Rest(row)]
           d == [row \in Rows |-> Owes(row)]
<1>1. b \in [Rows -> Int] /\ k \in [Rows -> Int] /\ d \in [Rows -> Int]
  BY RowValues
<1>2. SumsAre(table, b, k, d)
  BY SumsOfValues
<1> HIDE DEF b, k, d
<1> QED  BY <1>1, <1>2, TableSum DEF SumsAre

\* ... they change with the one row that is written, ...
LEMMA WriteSums ==
    ASSUME NEW table \in Seq(Rows), NEW i \in DOMAIN table, NEW row \in Rows,
           NEW new, Writes(new, table, i, row)
    PROVE  /\ new \in Seq(Rows) /\ DOMAIN new = DOMAIN table
           /\ Brought(new) = Brought(table) + (Brings(row) - Brings(table[i]))
           /\ Kept(new) = Kept(table) + (Rest(row) - Rest(table[i]))
           /\ Due(new) = Due(table) + (Owes(row) - Owes(table[i]))
<1> DEFINE b == [r \in Rows |-> Brings(r)]
           k == [r \in Rows |-> Rest(r)]
           d == [r \in Rows |-> Owes(r)]
<1>1. b \in [Rows -> Int] /\ k \in [Rows -> Int] /\ d \in [Rows -> Int]
  BY RowValues
<1>2. new \in Seq(Rows) /\ DOMAIN new = DOMAIN table
  BY DEF Writes
<1>3. SumsAre(table, b, k, d) /\ SumsAre(new, b, k, d)
  BY <1>2, SumsOfValues
<1>4. table[i] \in Rows
  OBVIOUS
<1>5. /\ b[row] = Brings(row) /\ k[row] = Rest(row) /\ d[row] = Owes(row)
      /\ b[table[i]] = Brings(table[i]) /\ k[table[i]] = Rest(table[i]) /\ d[table[i]] = Owes(table[i])
  BY <1>4
<1> HIDE DEF b, k, d
<1>6. Brought(new) = Brought(table) + (b[row] - b[table[i]])
  <2>1. SumFunction([x \in DOMAIN new |-> b[new[x]]])
          = SumFunction([x \in DOMAIN table |-> b[table[x]]]) + (b[row] - b[table[i]])
    BY <1>1, TableWrite, ZenonT(40)
  <2> QED  BY <1>3, <2>1 DEF SumsAre
<1>7. Kept(new) = Kept(table) + (k[row] - k[table[i]])
  <2>1. SumFunction([x \in DOMAIN new |-> k[new[x]]])
          = SumFunction([x \in DOMAIN table |-> k[table[x]]]) + (k[row] - k[table[i]])
    BY <1>1, TableWrite, ZenonT(40)
  <2> QED  BY <1>3, <2>1 DEF SumsAre
<1>8. Due(new) = Due(table) + (d[row] - d[table[i]])
  <2>1. SumFunction([x \in DOMAIN new |-> d[new[x]]])
          = SumFunction([x \in DOMAIN table |-> d[table[x]]]) + (d[row] - d[table[i]])
    BY <1>1, TableWrite, ZenonT(40)
  <2> QED  BY <1>3, <2>1 DEF SumsAre
<1> QED  BY <1>2, <1>5, <1>6, <1>7, <1>8

\* ... and grow with a row that is appended.
LEMMA AppendSums ==
    ASSUME NEW table \in Seq(Rows), NEW row \in Rows, NEW new, Appends(new, table, row)
    PROVE  /\ new \in Seq(Rows) /\ DOMAIN new = DOMAIN table \cup {Len(table) + 1}
           /\ Brought(new) = Brought(table) + Brings(row)
           /\ Kept(new) = Kept(table) + Rest(row)
           /\ Due(new) = Due(table) + Owes(row)
<1> DEFINE b == [r \in Rows |-> Brings(r)]
           k == [r \in Rows |-> Rest(r)]
           d == [r \in Rows |-> Owes(r)]
<1>1. b \in [Rows -> Int] /\ k \in [Rows -> Int] /\ d \in [Rows -> Int]
  BY RowValues
<1>2. new \in Seq(Rows) /\ DOMAIN new = DOMAIN table \cup {Len(table) + 1}
  BY DEF Appends
<1>3. SumsAre(table, b, k, d) /\ SumsAre(new, b, k, d)
  BY <1>2, SumsOfValues
<1>5. b[row] = Brings(row) /\ k[row] = Rest(row) /\ d[row] = Owes(row)
  OBVIOUS
<1> HIDE DEF b, k, d
<1>6. Brought(new) = Brought(table) + b[row]
  BY <1>1, <1>3, TableAppend, ZenonT(40) DEF SumsAre
<1>7. Kept(new) = Kept(table) + k[row]
  BY <1>1, <1>3, TableAppend, ZenonT(40) DEF SumsAre
<1>8. Due(new) = Due(table) + d[row]
  BY <1>1, <1>3, TableAppend, ZenonT(40) DEF SumsAre
<1> QED  BY <1>2, <1>5, <1>6, <1>7, <1>8

\* The cash of the strategy's BUYs is a whole number, and changes with one of them.
LEMMA BoughtType ==
    ASSUME NEW status
    PROVE  Bought(status) \in Int
<1> DEFINE f == [s \in Signals |-> IF entry[s] = status THEN Need[s] ELSE 0]
<1>1. f \in [Signals -> Int]
  BY CashAssumption
<1>2. SumFunction(f) \in Int
  <2> HIDE DEF f
  <2> QED  BY <1>1, CashAssumption, SumType
<1> QED  BY <1>2 DEF Bought

Share(s, is, status) == IF is = status THEN Need[s] ELSE 0

LEMMA BoughtChange ==
    ASSUME OtherTypes, NEW s \in Signals, NEW new, NEW status, entry' = [entry EXCEPT ![s] = new]
    PROVE  /\ Bought(status)' = Bought(status) + (Share(s, new, status) - Share(s, entry[s], status))
           /\ Share(s, new, status) \in Int /\ Share(s, entry[s], status) \in Int
<1> DEFINE f == [x \in Signals |-> IF entry[x] = status THEN Need[x] ELSE 0]
           g == [x \in Signals |-> IF entry'[x] = status THEN Need[x] ELSE 0]
<1>1. f \in [Signals -> Int] /\ g \in [Signals -> Int]
  BY CashAssumption
<1>2. /\ \A y \in Signals \ {s} : g[y] = f[y]
      /\ g[s] = Share(s, new, status) /\ f[s] = Share(s, entry[s], status)
  BY DEF OtherTypes, Share
<1>3. SumFunction(g) = SumFunction(f) + (g[s] - f[s])
  <2> HIDE DEF f, g
  <2> QED  BY <1>1, <1>2, CashAssumption, SumChange
<1>4. g[s] \in Int /\ f[s] \in Int
  BY <1>1
<1> QED  BY <1>2, <1>3, <1>4 DEF Bought

-----------------------------------------------------------------------------
(* What the steps write *)

\* The two equations of the invariant, over the sums.
Purse == managed + overfilled - Due(rows)
LEMMA MoneyFormulas ==
    /\ RawCash = Capital + Brought(rows) - Bought("filled")
    /\ Reserved = Kept(rows) + Bought("open")
    /\ ManagedDiffersByUnappliedFills <=> (crashed \/ hold = Purse)
BY DEF RawCash, Reserved, ManagedDiffersByUnappliedFills, Purse, Brought, Kept, Due

LEMMA MoneyFormulasNext ==
    /\ RawCash' = Capital + Brought(rows') - Bought("filled")'
    /\ Reserved' = Kept(rows') + Bought("open")'
    /\ ManagedDiffersByUnappliedFills' <=> (crashed' \/ hold' = Purse')
BY DEF RawCash, Reserved, ManagedDiffersByUnappliedFills, Purse, Brought, Kept, Due

\* No row becomes one that a thread may not go through, and no index or id ends.
Grows ==
    /\ Reachable(rows) \subseteq Reachable(rows') /\ DOMAIN rows \subseteq DOMAIN rows'
    /\ Len(approvals) \in Nat /\ Len(approvals') \in Nat /\ Len(approvals) <= Len(approvals')

\* Rows, shares and cash after a step, without the threads and the offers.
Money == RowTypes /\ AmountTypes /\ ManagedDiffersByUnappliedFills /\ CashCoversOrders

\* A row pays for what it reserves beyond the row it replaces, and one that is appended
\* can be paid; the broker's shares and the ledger's move by the same.
Pays(row, old) == Brings(row) - Brings(old) >= Rest(row) - Rest(old)
Affordable(row) == RawCash + Brings(row) >= Reserved + Rest(row)
MovesAlike(owed) == hold' - managed' - overfilled' = hold - managed - overfilled - owed
HasRoom == Len(rows) < MaxOrders
SameCrashed == UNCHANGED crashed
SameProcess == UNCHANGED <<entry, crashed>>

\* A step that writes a row keeps Money if the cash it brings covers what it reserves,
\* and if it moves the shares of the broker and of the ledger alike.
LEMMA RowWritten ==
    ASSUME Money, NEW i \in DOMAIN rows, NEW row \in Rows,
           Writes(rows', rows, i, row), SameProcess,
           AmountTypes',
           Pays(row, rows[i]),
           MovesAlike(Owes(row) - Owes(rows[i])),
           rows[i].status # "UNKNOWN" => row.status # "UNKNOWN"
    PROVE  Money' /\ DOMAIN rows' = DOMAIN rows /\ Reachable(rows) \subseteq Reachable(rows')
<1>1. rows \in Seq(Rows) /\ rows[i] \in Rows
  BY DEF Money, RowTypes
<1>2. /\ rows' \in Seq(Rows) /\ DOMAIN rows' = DOMAIN rows
      /\ Brought(rows') = Brought(rows) + (Brings(row) - Brings(rows[i]))
      /\ Kept(rows') = Kept(rows) + (Rest(row) - Rest(rows[i]))
      /\ Due(rows') = Due(rows) + (Owes(row) - Owes(rows[i]))
  BY <1>1, WriteSums
<1>3. /\ Brought(rows) \in Int /\ Kept(rows) \in Int /\ Due(rows) \in Int
      /\ Bought("filled") \in Int /\ Bought("open") \in Int
      /\ Brings(row) \in Int /\ Rest(row) \in Int /\ Owes(row) \in Int
      /\ Brings(rows[i]) \in Int /\ Rest(rows[i]) \in Int /\ Owes(rows[i]) \in Int
  BY <1>1, SumTypes, BoughtType, RowValues, SMTT(20)
<1>4. Bought("filled")' = Bought("filled") /\ Bought("open")' = Bought("open")
  BY DEF Bought, SameProcess
<1>5. CashCoversOrders'
  <2>1. Kept(rows) + Bought("open") <= Capital + Brought(rows) - Bought("filled")
    BY MoneyFormulas DEF Money, CashCoversOrders
  <2>2. Kept(rows') + Bought("open") <= Capital + Brought(rows') - Bought("filled")
    <3>1. /\ Kept(rows') = Kept(rows) + (Rest(row) - Rest(rows[i]))
          /\ Brought(rows') = Brought(rows) + (Brings(row) - Brings(rows[i]))
      BY <1>2
    <3> QED  BY <3>1, <2>1, <1>3, CashAssumption DEF Pays
  <2> QED  BY <2>2, <1>4, MoneyFormulasNext DEF CashCoversOrders
<1>6. ManagedDiffersByUnappliedFills'
  <2>1. crashed \/ hold = managed + overfilled - Due(rows)
    BY MoneyFormulas DEF Money, Purse
  <2>2. hold = managed + overfilled - Due(rows) => hold' = managed' + overfilled' - Due(rows')
    <3>1. /\ managed \in Int /\ hold \in Int /\ overfilled \in Int
          /\ managed' \in Int /\ hold' \in Int /\ overfilled' \in Int
      BY DEF Money, AmountTypes
    <3>2. Due(rows') = Due(rows) + (Owes(row) - Owes(rows[i]))
      BY <1>2
    <3>3. Due(rows) \in Int /\ Owes(row) \in Int /\ Owes(rows[i]) \in Int
      BY <1>3
    <3> QED  BY <3>1, <3>2, <3>3 DEF MovesAlike
  <2> QED  BY <2>1, <2>2, MoneyFormulasNext DEF Purse, SameProcess
<1>7. Len(rows') = Len(rows)
  BY <1>1 DEF Writes
<1>8. Reachable(rows) \subseteq Reachable(rows')
  BY <1>1, <1>2 DEF Reachable, Writes
<1> QED  BY <1>2, <1>5, <1>6, <1>7, <1>8 DEF Money, RowTypes

\* The same for a step that appends one.
LEMMA RowAppended ==
    ASSUME Money, NEW row \in Rows, Appends(rows', rows, row), HasRoom,
           SameProcess, AmountTypes',
           Affordable(row),
           MovesAlike(Owes(row))
    PROVE  /\ Money' /\ DOMAIN rows' = DOMAIN rows \cup {Len(rows) + 1}
           /\ Reachable(rows) \subseteq Reachable(rows')
<1>1. rows \in Seq(Rows)
  BY DEF Money, RowTypes
<1>2. /\ rows' \in Seq(Rows) /\ DOMAIN rows' = DOMAIN rows \cup {Len(rows) + 1}
      /\ Brought(rows') = Brought(rows) + Brings(row)
      /\ Kept(rows') = Kept(rows) + Rest(row)
      /\ Due(rows') = Due(rows) + Owes(row)
  BY <1>1, AppendSums
<1>3. /\ Brought(rows) \in Int /\ Kept(rows) \in Int /\ Due(rows) \in Int
      /\ Bought("filled") \in Int /\ Bought("open") \in Int
      /\ Brings(row) \in Int /\ Rest(row) \in Int /\ Owes(row) \in Int
  BY <1>1, SumTypes, BoughtType, RowValues
<1>4. Bought("filled")' = Bought("filled") /\ Bought("open")' = Bought("open")
  BY DEF Bought, SameProcess
<1>5. CashCoversOrders'
  <2>1. Kept(rows) + Bought("open") + Rest(row) <= Capital + Brought(rows) - Bought("filled") + Brings(row)
    BY <1>3, MoneyFormulas, CashAssumption DEF Affordable
  <2>2. Kept(rows') + Bought("open") <= Capital + Brought(rows') - Bought("filled")
    <3>1. Kept(rows') = Kept(rows) + Rest(row) /\ Brought(rows') = Brought(rows) + Brings(row)
      BY <1>2
    <3> QED  BY <3>1, <2>1, <1>3, CashAssumption
  <2> QED  BY <2>2, <1>4, MoneyFormulasNext DEF CashCoversOrders
<1>6. ManagedDiffersByUnappliedFills'
  <2>1. crashed \/ hold = managed + overfilled - Due(rows)
    BY MoneyFormulas DEF Money, Purse
  <2>2. hold = managed + overfilled - Due(rows) => hold' = managed' + overfilled' - Due(rows')
    <3>1. /\ managed \in Int /\ hold \in Int /\ overfilled \in Int
          /\ managed' \in Int /\ hold' \in Int /\ overfilled' \in Int
      BY DEF Money, AmountTypes
    <3>2. Due(rows') = Due(rows) + Owes(row)
      BY <1>2
    <3>3. Due(rows) \in Int /\ Owes(row) \in Int
      BY <1>3
    <3> QED  BY <3>1, <3>2, <3>3 DEF MovesAlike
  <2> QED  BY <2>1, <2>2, MoneyFormulasNext DEF Purse, SameProcess
<1>7. Len(rows') <= MaxOrders
  BY <1>1, CashAssumption DEF Appends, HasRoom
<1>8. Reachable(rows) \subseteq Reachable(rows')
  BY <1>1, <1>2 DEF Reachable, Appends
<1> QED  BY <1>2, <1>5, <1>6, <1>7, <1>8 DEF Money, RowTypes

\* Nothing about SGOV changes.
LEMMA MoneyKept ==
    ASSUME Money, UNCHANGED <<sgov, entry, crashed>>
    PROVE  Money' /\ rows' = rows
<1>1. UNCHANGED <<rows, managed, hold, overfilled, entry, crashed>>
  BY DEF sgov
<1> QED
  BY <1>1 DEF Money, RowTypes, AmountTypes, ManagedDiffersByUnappliedFills, CashCoversOrders,
     Reserved, RawCash, Bought

\* A strategy BUY changes: it has been reserved, or there is cash for it.
PaidOrPayable(s) == entry[s] = "open" \/ (entry[s] = "none" /\ RawCash - Reserved >= Need[s])
LEMMA EntryWritten ==
    ASSUME Money, OtherTypes, NEW s \in Signals, NEW new \in {"none", "open", "filled"},
           entry' = [entry EXCEPT ![s] = new], UNCHANGED sgov, SameCrashed,
           PaidOrPayable(s)
    PROVE  Money' /\ entry' \in [Signals -> {"none", "open", "filled"}]
<1> DEFINE f == Bought("filled") o == Bought("open")
<1>1. /\ Bought("filled")' = f + (Share(s, new, "filled") - Share(s, entry[s], "filled"))
      /\ Bought("open")' = o + (Share(s, new, "open") - Share(s, entry[s], "open"))
  BY BoughtChange
<1>2. rows' = rows /\ Need[s] \in Nat
  BY CashAssumption DEF sgov
<1>3. rows \in Seq(Rows) /\ Brought(rows) \in Int /\ Kept(rows) \in Int /\ f \in Int /\ o \in Int
  BY SumTypes, BoughtType DEF Money, RowTypes
<1>4. Kept(rows) + o <= Capital + Brought(rows) - f
  BY MoneyFormulas DEF Money, CashCoversOrders
<1>5. \/ entry[s] = "open"
      \/ Kept(rows) + o + Need[s] <= Capital + Brought(rows) - f /\ entry[s] = "none"
  <2>1. RawCash = Capital + Brought(rows) - f /\ Reserved = Kept(rows) + o
    BY MoneyFormulas
  <2>2. entry[s] = "open" \/ (entry[s] = "none" /\ RawCash - Reserved >= Need[s])
    BY DEF PaidOrPayable
  <2> HIDE DEF f, o
  <2>3. RawCash - Reserved >= Need[s] => Kept(rows) + o + Need[s] <= Capital + Brought(rows) - f
    <3>1. Need[s] \in Int /\ Capital \in Int
      BY <1>2, CashAssumption
    <3> QED  BY <3>1, <1>3, <2>1
  <2> QED  BY <2>2, <2>3, Zenon
<1>6. Kept(rows) + Bought("open")' <= Capital + Brought(rows) - Bought("filled")'
  <2>1. /\ Share(s, new, "filled") + Share(s, new, "open") <= Need[s]
        /\ Share(s, new, "filled") \in Nat /\ Share(s, new, "open") \in Nat
    BY <1>2 DEF Share
  <2>2. CASE entry[s] = "open"
    <3>1. Share(s, entry[s], "open") = Need[s] /\ Share(s, entry[s], "filled") = 0
      BY <2>2 DEF Share
    <3> HIDE DEF f, o
    <3> QED  BY <3>1, <2>1, <1>1, <1>2, <1>3, <1>4, CashAssumption, SMTT(20)
  <2>3. CASE Kept(rows) + o + Need[s] <= Capital + Brought(rows) - f /\ entry[s] = "none"
    <3>1. Share(s, entry[s], "open") = 0 /\ Share(s, entry[s], "filled") = 0
      BY <2>3 DEF Share
    <3> HIDE DEF f, o
    <3> QED  BY <3>1, <2>1, <2>3, <1>1, <1>2, <1>3, <1>4, CashAssumption, SMTT(20)
  <2> QED  BY <1>5, <2>2, <2>3
<1>7. CashCoversOrders'
  BY <1>2, <1>6, MoneyFormulasNext DEF CashCoversOrders
<1>8. RowTypes' /\ AmountTypes' /\ ManagedDiffersByUnappliedFills'
  BY DEF Money, sgov, SameCrashed, RowTypes, AmountTypes, ManagedDiffersByUnappliedFills
<1> QED  BY <1>7, <1>8 DEF Money, OtherTypes

-----------------------------------------------------------------------------
(* What happens to a row *)

\* Row new in the place of old is a row, pays for itself, and owes that much more.
Becomes(old, new, owed) ==
    /\ new \in Rows /\ Pays(new, old) /\ Owes(new) - Owes(old) = owed
    /\ old.status # "UNKNOWN" => new.status # "UNKNOWN"

LEMMA RowShape ==
    ASSUME NEW row \in Rows
    PROVE  /\ row \in RowRecords /\ RowOK(row)
           /\ row.qty \in Nat /\ row.filled \in Nat /\ row.applied \in Nat
           /\ row.side \in {"BUY", "SELL"}
           /\ row.status \in {"OPEN", "FILLED", "CANCELED", "UNKNOWN"}
           /\ row.broker \in {"OPEN", "FILLED", "CANCELED", "GONE"}
BY DEF Rows, RowRecords

\* The ways a row whose order the broker has ended is written: it stays as it is, it is
\* filled, or it is canceled without a fill.
LEMMA RowEnds ==
    ASSUME NEW row \in Rows, NEW status \in {"OPEN", "FILLED", "CANCELED"}, NEW filled \in Nat,
           NEW new, new = [row EXCEPT !.broker = status, !.status = status, !.filled = filled],
           \/ row.status = status /\ filled = row.filled
           \/ row.status = "OPEN" /\ filled = IF status = "FILLED" THEN row.qty ELSE 0
    PROVE  Becomes(row, new, IF row.status = "OPEN" /\ status = "FILLED" THEN Proceeds(row, row.qty) ELSE 0)
<1>1. /\ new \in RowRecords
      /\ new.side = row.side /\ new.qty = row.qty /\ new.applied = row.applied
      /\ new.broker = status /\ new.status = status /\ new.filled = filled
  BY DEF Rows, RowRecords
<1>2. new \in Rows
  <2>1. RowOK(new)
    BY <1>1, RowShape DEF RowOK
  <2> QED  BY <1>1, <2>1 DEF Rows
<1>3. Pays(new, row)
  BY <1>1, RowShape DEF RowOK, Pays, Brings, Rest, Proceeds
<1>4. Owes(new) - Owes(row) = IF row.status = "OPEN" /\ status = "FILLED" THEN Proceeds(row, row.qty) ELSE 0
  BY <1>1, RowShape DEF RowOK, Owes, Proceeds
<1> QED  BY <1>1, <1>2, <1>3, <1>4 DEF Becomes

LEMMA RowStored ==
    ASSUME NEW row \in Rows, row.status # "UNKNOWN"
    PROVE  Becomes(row, Stored(row), MadeUp(row)) /\ MadeUp(row) \in Nat
<1> DEFINE filled == IF row.broker = "FILLED" THEN row.qty ELSE row.filled
<1>1. Stored(row) = [row EXCEPT !.broker = row.broker, !.status = row.broker, !.filled = filled]
  BY DEF Rows, RowRecords, Stored
<1>2. /\ row.broker \in {"OPEN", "FILLED", "CANCELED"} /\ filled \in Nat
      /\ \/ row.status = row.broker /\ filled = row.filled
         \/ row.status = "OPEN" /\ filled = IF row.broker = "FILLED" THEN row.qty ELSE 0
  BY RowShape DEF RowOK
<1>3. /\ MadeUp(row) = IF row.status = "OPEN" /\ row.broker = "FILLED" THEN Proceeds(row, row.qty) ELSE 0
      /\ MadeUp(row) \in Nat
  BY RowShape DEF RowOK, MadeUp, Proceeds
<1>4. Becomes(row, Stored(row), IF row.status = "OPEN" /\ row.broker = "FILLED" THEN Proceeds(row, row.qty) ELSE 0)
  <2> HIDE DEF filled
  <2> QED  BY <1>1, <1>2, RowEnds
<1> QED  BY <1>3, <1>4

LEMMA RowFilled ==
    ASSUME NEW row \in Rows, row.broker = "OPEN"
    PROVE  Becomes(row, Filled(row), Proceeds(row, row.qty))
<1>1. Filled(row) = [row EXCEPT !.broker = "FILLED", !.status = "FILLED", !.filled = row.qty]
  BY DEF Rows, RowRecords, Filled, Stored
<1>2. row.status = "OPEN" /\ row.qty \in Nat
  BY RowShape DEF RowOK
<1>3. Becomes(row, Filled(row), IF row.status = "OPEN" /\ "FILLED" = "FILLED" THEN Proceeds(row, row.qty) ELSE 0)
  BY <1>1, <1>2, RowEnds
<1> QED  BY <1>2, <1>3

LEMMA RowCanceled ==
    ASSUME NEW row \in Rows, row.status # "UNKNOWN"
    PROVE  Becomes(row, Canceled(row), MadeUp(row)) /\ MadeUp(row) \in Nat
<1> DEFINE status == IF row.broker = "OPEN" THEN "CANCELED" ELSE row.broker
           filled == IF row.broker = "FILLED" THEN row.qty ELSE row.filled
<1>1. Canceled(row) = [row EXCEPT !.broker = status, !.status = status, !.filled = filled]
  BY DEF Rows, RowRecords, Canceled, Stored
<1>2. /\ status \in {"OPEN", "FILLED", "CANCELED"} /\ filled \in Nat
      /\ \/ row.status = status /\ filled = row.filled
         \/ row.status = "OPEN" /\ filled = IF status = "FILLED" THEN row.qty ELSE 0
  BY RowShape DEF RowOK
<1>3. /\ MadeUp(row) = IF row.status = "OPEN" /\ status = "FILLED" THEN Proceeds(row, row.qty) ELSE 0
      /\ MadeUp(row) \in Nat
  BY RowShape DEF RowOK, MadeUp, Proceeds
<1>4. Becomes(row, Canceled(row), IF row.status = "OPEN" /\ status = "FILLED" THEN Proceeds(row, row.qty) ELSE 0)
  <2> HIDE DEF status, filled
  <2> QED  BY <1>1, <1>2, RowEnds
<1> QED  BY <1>3, <1>4

LEMMA RowOverfilled ==
    ASSUME NEW row \in Rows, row.broker = "OPEN", row.side = "SELL"
    PROVE  Becomes(row, [row EXCEPT !.broker = "FILLED"], 0)
BY DEF Becomes, Pays, Rows, RowRecords, RowOK, Brings, Rest, Owes, Proceeds

LEMMA RowApplied ==
    ASSUME NEW row \in Rows
    PROVE  Becomes(row, [row EXCEPT !.applied = row.filled], 0 - Owes(row))
BY DEF Becomes, Pays, Rows, RowRecords, RowOK, Brings, Rest, Owes, Proceeds

\* A row that is appended is open, filled at once or of an order that was not placed.
PlacedFacts(row, lost, side, n) ==
    /\ row \in Rows /\ Owes(row) = 0 /\ Brings(row) = 0
    /\ Rest(row) = IF side = "BUY" THEN n ELSE 0
    /\ Filled(row) \in Rows /\ Owes(Filled(row)) = Proceeds(row, n)
    /\ Brings(Filled(row)) = Proceeds(row, n) /\ Rest(Filled(row)) = 0
    /\ lost \in Rows /\ Owes(lost) = 0 /\ Brings(lost) = 0
    /\ Rest(lost) = IF side = "BUY" THEN n ELSE 0

LEMMA RowPlaced ==
    ASSUME NEW side \in {"BUY", "SELL"}, NEW s \in Signals \cup {NoSignal}, NEW n \in Nat,
           NEW row, row = Row(side, s, n),
           NEW lost, lost = [row EXCEPT !.status = "UNKNOWN", !.broker = "GONE"]
    PROVE  PlacedFacts(row, lost, side, n)
<1>1. /\ row \in RowRecords /\ row.side = side /\ row.qty = n /\ row.filled = 0 /\ row.applied = 0
      /\ row.status = "OPEN" /\ row.broker = "OPEN"
  BY DEF Row, RowRecords
<1>2. row \in Rows /\ Owes(row) = 0 /\ Brings(row) = 0 /\ Rest(row) = IF side = "BUY" THEN n ELSE 0
  <2>1. RowOK(row)
    BY <1>1 DEF RowOK
  <2>2. Owes(row) = 0 /\ Brings(row) = 0
    <3>1. Proceeds(row, 0) = 0
      BY DEF Proceeds
    <3>2. row.filled = 0 /\ row.filled - row.applied = 0
      BY <1>1
    <3> QED  BY <3>1, <3>2 DEF Owes, Brings
  <2>3. Rest(row) = IF side = "BUY" THEN n ELSE 0
    BY <1>1 DEF Rest
  <2> QED  BY <1>1, <2>1, <2>2, <2>3 DEF Rows
<1>3. /\ Filled(row) \in RowRecords /\ Filled(row).side = side /\ Filled(row).qty = n
      /\ Filled(row).filled = n /\ Filled(row).applied = 0
      /\ Filled(row).status = "FILLED" /\ Filled(row).broker = "FILLED"
  BY <1>1 DEF RowRecords, Filled, Stored
<1>4. /\ Filled(row) \in Rows /\ Owes(Filled(row)) = Proceeds(row, n)
      /\ Brings(Filled(row)) = Proceeds(row, n) /\ Rest(Filled(row)) = 0
  BY <1>1, <1>3 DEF Rows, RowOK, Owes, Brings, Rest, Proceeds
<1>5. /\ lost \in RowRecords /\ lost.side = side /\ lost.qty = n /\ lost.filled = 0
      /\ lost.applied = 0 /\ lost.status = "UNKNOWN" /\ lost.broker = "GONE"
  BY <1>1 DEF RowRecords
<1>6. lost \in Rows /\ Owes(lost) = 0 /\ Brings(lost) = 0 /\ Rest(lost) = IF side = "BUY" THEN n ELSE 0
  <2>1. RowOK(lost)
    BY <1>5 DEF RowOK
  <2>2. Owes(lost) = 0 /\ Brings(lost) = 0
    <3>1. Proceeds(lost, 0) = 0
      BY DEF Proceeds
    <3>2. lost.filled = 0 /\ lost.filled - lost.applied = 0
      BY <1>5
    <3> QED  BY <3>1, <3>2 DEF Owes, Brings
  <2>3. Rest(lost) = IF side = "BUY" THEN n ELSE 0
    BY <1>5 DEF Rest
  <2> QED  BY <1>5, <2>1, <2>2, <2>3 DEF Rows
<1> QED  BY <1>2, <1>4, <1>6 DEF PlacedFacts

\* A restart changes what the broker knows of open rows, and neither sum.
LEMMA RowRestored ==
    ASSUME NEW row \in Rows
    PROVE  /\ Restored(row) \in Rows /\ Brings(Restored(row)) = Brings(row)
           /\ Rest(Restored(row)) = Rest(row)
BY DEF Rows, RowRecords, RowOK, Restored, Brings, Rest, Proceeds

-----------------------------------------------------------------------------
(* Threads and offers *)

LEMMA IdleOK == \A table, offered : ThreadOK(Idle, table, offered)
BY DEF ThreadOK, ThreadRecords, Jobs, Places, Idle, Anonymous

\* A thread goes through the rows of a table, and on from there.
LEMMA AfterRowsOK ==
    ASSUME NEW table, NEW offered, NEW r, ThreadOK(r, table, offered), DOMAIN table \subseteq Nat
    PROVE  ThreadOK(AfterRows(r, table), table, offered)
<1> DEFINE refreshed == r.at = "refresh" /\ r.todo = {} /\ r.cur = 0
           swept == [r EXCEPT !.at = "sweeps", !.todo = {i \in Known(table) : table[i].side = "BUY"}]
           sweeps == IF refreshed /\ r.s # NoSignal THEN swept ELSE r
<1>1. ThreadOK(sweeps, table, offered) /\ (sweeps.at = "sweeps" => sweeps.s # NoSignal)
  <2>1. Known(table) \subseteq Reachable(table) /\ Known(table) \subseteq DOMAIN table
    BY DEF Known, Reachable
  <2> QED  BY <2>1 DEF ThreadOK, ThreadRecords, Places, Anonymous
<1>2. PICK q : q = sweeps
  OBVIOUS
<1>3. ThreadOK(q, table, offered) /\ (q.at = "sweeps" => q.s # NoSignal)
  BY <1>1, <1>2
<1>4. AfterRows(r, table) \in {q, [q EXCEPT !.at = "pending"], [q EXCEPT !.at = "free"], Idle}
      \/ (q.at = "sweeps" /\ AfterRows(r, table) = [q EXCEPT !.at = "cash"])
      \/ (q.at = "release" /\ AfterRows(r, table) = [q EXCEPT !.at = "cancel"])
  <2> HIDE DEF refreshed, swept
  <2> QED  BY <1>2, Zenon DEF AfterRows, refreshed, swept
<1>5. /\ ThreadOK([q EXCEPT !.at = "pending"], table, offered)
      /\ ThreadOK([q EXCEPT !.at = "free"], table, offered)
      /\ q.at \in {"sweeps", "release"} => /\ ThreadOK([q EXCEPT !.at = "cash"], table, offered)
                                           /\ ThreadOK([q EXCEPT !.at = "cancel"], table, offered)
  BY <1>3 DEF ThreadOK, ThreadRecords, Places, Anonymous
<1> QED  BY <1>3, <1>4, <1>5, IdleOK

\* One thread moves, and no row or approval goes away.
LEMMA ThreadMoves ==
    ASSUME ThreadTypes, NEW t \in Threads, NEW r, ThreadOK(r, rows', approvals'), Grows,
           th' = [th EXCEPT ![t] = r]
    PROVE  ThreadTypes'
<1>1. \A u \in Threads : th'[u] = IF u = t THEN r ELSE th[u]
  BY DEF ThreadTypes
<1>2. th' = [u \in Threads |-> th'[u]]
  BY DEF ThreadTypes
<1>3. ASSUME NEW u \in Threads
      PROVE  ThreadOK(th[u], rows', approvals')
  BY DEF ThreadTypes, ThreadOK, Grows
<1> QED  BY <1>1, <1>2, <1>3 DEF ThreadTypes

LEMMA ThreadsKept ==
    ASSUME ThreadTypes, Grows, th' = th
    PROVE  ThreadTypes'
<1>1. ASSUME NEW u \in Threads
      PROVE  ThreadOK(th[u], rows', approvals')
  BY DEF ThreadTypes, ThreadOK, Grows
<1> QED  BY <1>1 DEF ThreadTypes

\* The intent of a signal is written, or the intents are left alone.
LEMMA IntentWritten ==
    ASSUME OfferTypes, approvals' = approvals, NEW s \in Signals,
           NEW status \in {"NONE", "WAITING", "AWAITING", "COMPLETED", "CANCELED", "EXPIRED"},
           NEW id \in 0..Len(approvals), status = "AWAITING" => id # 0,
           SetIntent(s, status, id)
    PROVE  OfferTypes'
BY DEF OfferTypes, IntentOK, Intents, SetIntent

LEMMA OffersKept ==
    ASSUME OfferTypes, UNCHANGED offers
    PROVE  OfferTypes' /\ approvals' = approvals
BY DEF OfferTypes, offers, IntentOK, Intents

-----------------------------------------------------------------------------
(* Records of threads *)

LEMMA ThreadStays ==
    ASSUME ThreadTypes, Grows, NEW t \in Threads
    PROVE  ThreadOK(th[t], rows', approvals')
BY DEF ThreadTypes, ThreadOK, Grows

\* A thread takes a row off its list, and has one to apply or none.
LEMMA ThreadTakes ==
    ASSUME NEW table, NEW offered, NEW r, ThreadOK(r, table, offered), NEW i,
           NEW k \in DOMAIN table \cup {0}, DOMAIN table \subseteq Nat
    PROVE  /\ ThreadOK([r EXCEPT !.todo = @ \ {i}, !.cur = k], table, offered)
           /\ ThreadOK([r EXCEPT !.cur = k], table, offered)
<1>1. r \in ThreadRecords /\ k \in Nat /\ r.todo \ {i} \in SUBSET Nat
  BY DEF ThreadOK, ThreadRecords
<1>2. ASSUME NEW todo \in SUBSET Nat, todo \subseteq r.todo
      PROVE  ThreadOK([r EXCEPT !.todo = todo, !.cur = k], table, offered)
  <2>1. PICK q : q = [r EXCEPT !.todo = todo, !.cur = k]
    OBVIOUS
  <2>2. q \in ThreadRecords
    BY <1>1, <2>1 DEF ThreadRecords
  <2>3. q.at = r.at /\ q.s = r.s /\ q.n = r.n /\ q.todo = todo /\ q.cur = k
    BY <1>1, <2>1 DEF ThreadRecords
  <2>4. ThreadOK(q, table, offered)
    BY <1>2, <2>2, <2>3 DEF ThreadOK
  <2> QED  BY <2>1, <2>3, <2>4
<1>3. ThreadOK([r EXCEPT !.todo = r.todo \ {i}, !.cur = k], table, offered)
  BY <1>1, <1>2
<1>4. ThreadOK([r EXCEPT !.todo = r.todo, !.cur = k], table, offered)
  <2>1. r.todo \in SUBSET Nat
    BY <1>1 DEF ThreadRecords
  <2> QED  BY <2>1, <1>2
<1>5. [r EXCEPT !.cur = k] = [r EXCEPT !.todo = r.todo, !.cur = k]
  BY <1>1 DEF ThreadRecords
<1> QED  BY <1>3, <1>4, <1>5

\* It goes to another place, with a number and perhaps a row to apply.
LEMMA ThreadGoes ==
    ASSUME NEW table, NEW offered, NEW r, ThreadOK(r, table, offered), NEW at \in Places,
           at \notin Anonymous => r.s # NoSignal, NEW n \in Nat, at = "bind" => n \in 1..Len(offered),
           NEW k \in DOMAIN table \cup {0}, DOMAIN table \subseteq Nat
    PROVE  /\ ThreadOK([r EXCEPT !.at = at, !.n = n], table, offered)
           /\ ThreadOK([r EXCEPT !.at = at, !.n = n, !.cur = k], table, offered)
           /\ at # "bind" => ThreadOK([r EXCEPT !.at = at], table, offered)
<1>0. r \in ThreadRecords /\ k \in Nat
  BY DEF ThreadOK
<1>1. /\ [r EXCEPT !.at = at, !.n = n] \in ThreadRecords
      /\ [r EXCEPT !.at = at] \in ThreadRecords
  BY <1>0 DEF ThreadRecords
<1>2. [r EXCEPT !.at = at, !.n = n, !.cur = k] \in ThreadRecords
  BY <1>0 DEF ThreadRecords
<1> QED  BY <1>1, <1>2 DEF ThreadOK, ThreadRecords

LEMMA IdleShape ==
    /\ Idle \in ThreadRecords
    /\ Idle.job = "none" /\ Idle.at = "idle" /\ Idle.s = NoSignal /\ Idle.todo = {} /\ Idle.cur = 0
    /\ Idle.list = {} /\ Idle.n = 0
BY DEF Idle, ThreadRecords, Jobs, Places, Anonymous

\* A job begins, with a signal or without.
LEMMA ThreadStarts ==
    ASSUME NEW table, NEW offered, NEW job \in Jobs, NEW at \in Places, at # "bind",
           NEW s \in Signals \cup {NoSignal}, at \notin Anonymous => s # NoSignal,
           NEW todo, todo \subseteq Reachable(table), DOMAIN table \subseteq Nat, NEW list \in SUBSET Signals
    PROVE  /\ ThreadOK([Idle EXCEPT !.job = job, !.at = at, !.s = s], table, offered)
           /\ at \in Anonymous => ThreadOK([Idle EXCEPT !.job = job, !.at = at, !.todo = todo], table, offered)
           /\ ThreadOK([Idle EXCEPT !.job = job, !.at = at, !.s = s, !.todo = todo], table, offered)
           /\ ThreadOK([Idle EXCEPT !.job = job, !.at = at, !.s = s, !.todo = todo, !.list = list],
                       table, offered)
<1>1. todo \in SUBSET Nat
  BY DEF Reachable
<1>2. ThreadOK([Idle EXCEPT !.job = job, !.at = at, !.s = s], table, offered)
  <2>1. PICK q : q = [Idle EXCEPT !.job = job, !.at = at, !.s = s]
    OBVIOUS
  <2>2. q \in ThreadRecords /\ q.todo = {} /\ q.cur = 0 /\ q.at = at /\ q.s = s
    BY <2>1, IdleShape DEF ThreadRecords
  <2> QED  BY <2>1, <2>2 DEF ThreadOK
<1>3. at \in Anonymous => ThreadOK([Idle EXCEPT !.job = job, !.at = at, !.todo = todo], table, offered)
  <2>1. PICK q : q = [Idle EXCEPT !.job = job, !.at = at, !.todo = todo]
    OBVIOUS
  <2>2. q \in ThreadRecords /\ q.todo = todo /\ q.cur = 0 /\ q.at = at
    BY <1>1, <2>1, IdleShape DEF ThreadRecords
  <2> QED  BY <2>1, <2>2 DEF ThreadOK
<1>4. ThreadOK([Idle EXCEPT !.job = job, !.at = at, !.s = s, !.todo = todo], table, offered)
  <2>1. PICK q : q = [Idle EXCEPT !.job = job, !.at = at, !.s = s, !.todo = todo]
    OBVIOUS
  <2>2. q \in ThreadRecords /\ q.todo = todo /\ q.cur = 0 /\ q.at = at /\ q.s = s
    BY <1>1, <2>1, IdleShape DEF ThreadRecords
  <2> QED  BY <2>1, <2>2 DEF ThreadOK
<1>5. ThreadOK([Idle EXCEPT !.job = job, !.at = at, !.s = s, !.todo = todo, !.list = list], table, offered)
  <2>1. PICK q : q = [Idle EXCEPT !.job = job, !.at = at, !.s = s, !.todo = todo, !.list = list]
    OBVIOUS
  <2>2. q \in ThreadRecords /\ q.todo = todo /\ q.cur = 0 /\ q.at = at /\ q.s = s
    BY <1>1, <2>1, IdleShape DEF ThreadRecords
  <2> QED  BY <2>1, <2>2 DEF ThreadOK
<1> QED  BY <1>2, <1>3, <1>4, <1>5

LEMMA KnownReachable ==
    \A table : Known(table) \subseteq Reachable(table)
BY DEF Known, Reachable

-----------------------------------------------------------------------------
(* The parts of a step *)

LEMMA IInvParts == IInv <=> Money /\ OfferTypes /\ ThreadTypes /\ OtherTypes
BY DEF IInv, Money

LEMMA IInvPartsNext == IInv' <=> Money' /\ OfferTypes' /\ ThreadTypes' /\ OtherTypes'
BY DEF IInv, Money

LEMMA DomainNat == Money => DOMAIN rows \subseteq Nat /\ Len(rows) \in Nat /\ DOMAIN rows = 1..Len(rows)
BY DEF Money, RowTypes

LEMMA DomainNatNext == Money' => DOMAIN rows' \subseteq Nat
BY DEF Money, RowTypes

LEMMA LengthNat == OfferTypes => Len(approvals) \in Nat
BY DEF OfferTypes

LEMMA OthersKept ==
    ASSUME OtherTypes, UNCHANGED <<entry, turn, faults>>
    PROVE  OtherTypes'
BY DEF OtherTypes

\* Nothing that threads refer to changes.
LEMMA GrowsQuiet ==
    ASSUME OfferTypes, rows' = rows, approvals' = approvals
    PROVE  Grows
BY LengthNat DEF Grows

\* One row is written, and nothing is offered.
LEMMA TableStep ==
    ASSUME Money, OfferTypes, NEW i \in DOMAIN rows, NEW new, NEW owed, Becomes(rows[i], new, owed),
           Writes(rows', rows, i, new), MovesAlike(owed), AmountTypes', SameProcess,
           UNCHANGED offers
    PROVE  Money' /\ Grows /\ DOMAIN rows' = DOMAIN rows /\ OfferTypes'
<1>1. /\ new \in Rows /\ Pays(new, rows[i]) /\ Owes(new) - Owes(rows[i]) = owed
      /\ rows[i].status # "UNKNOWN" => new.status # "UNKNOWN"
  BY DEF Becomes
<1>2. MovesAlike(Owes(new) - Owes(rows[i]))
  BY <1>1
<1>3. Money' /\ DOMAIN rows' = DOMAIN rows /\ Reachable(rows) \subseteq Reachable(rows')
  BY <1>1, <1>2, RowWritten
<1>4. OfferTypes' /\ approvals' = approvals
  BY OffersKept
<1> QED  BY <1>3, <1>4, LengthNat DEF Grows

\* A thread that goes on after it has gone through rows.
LEMMA ThreadAdvances ==
    ASSUME ThreadTypes, Money', Grows, NEW t \in Threads, NEW r, ThreadOK(r, rows', approvals'),
           Advance(t, r, rows')
    PROVE  ThreadTypes'
<1>1. DOMAIN rows' \subseteq Nat
  BY DomainNatNext
<1>2. ThreadOK(AfterRows(r, rows'), rows', approvals')
  BY <1>1, AfterRowsOK
<1> QED  BY <1>2, ThreadMoves DEF Advance, Become

LEMMA ThreadLeaves ==
    ASSUME ThreadTypes, Grows, NEW t \in Threads, Leave(t) \/ Stop(t) \/ Return(t)
    PROVE  ThreadTypes'
<1> DEFINE stopped == [Idle EXCEPT !.at = "bound"]
           next == [Idle EXCEPT !.job = "resume", !.at = "list", !.list = th[t].list]
<1>1. th' = [th EXCEPT ![t] = Idle] \/ th' = [th EXCEPT ![t] = stopped] \/ th' = [th EXCEPT ![t] = next]
  BY DEF Leave, Stop, Return, Become
<1>2. ThreadOK(th[t], rows', approvals')
  BY ThreadStays
<1>3. ThreadOK(stopped, rows', approvals') /\ ThreadOK(next, rows', approvals')
  BY <1>2 DEF ThreadOK, ThreadRecords, Idle, Jobs, Places, Anonymous
<1> QED  BY <1>1, <1>3, IdleOK, ThreadMoves

LEMMA ThreadGotoes ==
    ASSUME ThreadTypes, Money, Grows, NEW t \in Threads, NEW at \in Places \ {"bind"},
           at \notin Anonymous => th[t].s # NoSignal, Goto(t, at), rows' = rows
    PROVE  ThreadTypes'
<1>1. ThreadOK(th[t], rows', approvals') /\ DOMAIN rows' \subseteq Nat
  BY ThreadStays, DomainNat
<1>2. ThreadOK([th[t] EXCEPT !.at = at], rows', approvals')
  BY <1>1 DEF ThreadOK, ThreadRecords
<1> QED  BY <1>2, ThreadMoves DEF Goto, Become

-----------------------------------------------------------------------------
(* The steps that write a row *)

\* What a thread may do with a row on its list.
LEMMA RowOnList ==
    ASSUME IInv, NEW t \in Threads, NEW i \in th[t].todo
    PROVE  i \in DOMAIN rows /\ rows[i] \in Rows /\ rows[i].status # "UNKNOWN"
<1>1. ThreadOK(th[t], rows, approvals) /\ rows \in Seq(Rows)
  BY DEF IInv, ThreadTypes, RowTypes
<1> QED  BY <1>1 DEF ThreadOK, Reachable

\* A row that is stored or canceled has not brought more than the broker made up.
LEMMA RowTaken ==
    ASSUME IInv, NEW t \in Threads, NEW i \in th[t].todo, NEW new, NEW owed,
           Becomes(rows[i], new, owed), Writes(rows', rows, i, new), MovesAlike(owed), AmountTypes',
           UNCHANGED <<offers, buys, env>>, NEW k \in {0, i},
           Advance(t, [th[t] EXCEPT !.todo = @ \ {i}, !.cur = k], rows')
    PROVE  IInv'
<1>1. Money /\ OfferTypes /\ ThreadTypes /\ OtherTypes /\ i \in DOMAIN rows
  BY IInvParts, RowOnList
<1>2. SameProcess /\ UNCHANGED <<entry, turn, faults>> /\ UNCHANGED offers
  BY DEF SameProcess, buys, env
<1>3. Money' /\ Grows /\ DOMAIN rows' = DOMAIN rows /\ OfferTypes'
  BY <1>1, <1>2, TableStep
<1>4. ThreadOK([th[t] EXCEPT !.todo = @ \ {i}, !.cur = k], rows', approvals')
  <2>1. ThreadOK(th[t], rows', approvals') /\ DOMAIN rows' \subseteq Nat /\ k \in DOMAIN rows' \cup {0}
    BY <1>1, <1>3, ThreadStays, DomainNatNext
  <2> QED  BY <2>1, ThreadTakes
<1>5. ThreadTypes'
  BY <1>1, <1>3, <1>4, ThreadAdvances
<1> QED  BY <1>1, <1>2, <1>3, <1>5, OthersKept, IInvPartsNext

LEMMA RefreshIInv ==
    ASSUME IInv, NEW t \in Threads, NEW i \in th[t].todo, Refresh(t, i)
    PROVE  IInv'
<1>1. i \in DOMAIN rows /\ rows[i] \in Rows /\ rows[i].status # "UNKNOWN"
  BY RowOnList
<1>2. AmountTypes /\ rows[i].qty \in Nat /\ rows[i].side \in {"BUY", "SELL"}
  BY <1>1, RowShape DEF IInv
<1>3. UNCHANGED <<offers, buys, env>>
  BY DEF Refresh
<1>4. PICK k \in {0, i} : Advance(t, [th[t] EXCEPT !.todo = @ \ {i}, !.cur = k], rows')
  BY DEF Refresh
<1>5. CASE rows' = [rows EXCEPT ![i] = Stored(@)] /\ overfilled' = overfilled + MadeUp(rows[i])
           /\ UNCHANGED hold
  <2>1. Becomes(rows[i], Stored(rows[i]), MadeUp(rows[i])) /\ MadeUp(rows[i]) \in Nat
    BY <1>1, RowStored
  <2>2. Writes(rows', rows, i, Stored(rows[i]))
    BY <1>5 DEF Writes
  <2>3. managed' = managed
    BY DEF Refresh
  <2>4. MovesAlike(MadeUp(rows[i])) /\ AmountTypes'
    BY <1>2, <1>5, <2>1, <2>3 DEF AmountTypes, MovesAlike
  <2> QED  BY <1>3, <1>4, <2>1, <2>2, <2>4, RowTaken
<1>6. CASE /\ rows[i].broker = "OPEN" /\ (rows[i].side = "SELL" => rows[i].qty <= hold)
           /\ rows' = [rows EXCEPT ![i] = Filled(@)]
           /\ hold' = (IF rows[i].side = "BUY" THEN hold + rows[i].qty ELSE hold - rows[i].qty)
           /\ UNCHANGED overfilled
  <2>1. Becomes(rows[i], Filled(rows[i]), Proceeds(rows[i], rows[i].qty))
    BY <1>1, <1>6, RowFilled
  <2>2. Writes(rows', rows, i, Filled(rows[i]))
    BY <1>6 DEF Writes
  <2>3. managed' = managed
    BY DEF Refresh
  <2>4. MovesAlike(Proceeds(rows[i], rows[i].qty)) /\ AmountTypes'
    BY <1>2, <1>6, <2>3 DEF AmountTypes, MovesAlike, Proceeds
  <2> QED  BY <1>3, <1>4, <2>1, <2>2, <2>4, RowTaken
<1> QED  BY <1>5, <1>6 DEF Refresh

LEMMA CancelRowIInv ==
    ASSUME IInv, NEW t \in Threads, NEW i \in th[t].todo, CancelRow(t, i)
    PROVE  IInv'
<1>1. i \in DOMAIN rows /\ rows[i] \in Rows /\ rows[i].status # "UNKNOWN"
  BY RowOnList
<1>2. Becomes(rows[i], Canceled(rows[i]), MadeUp(rows[i])) /\ MadeUp(rows[i]) \in Nat
  BY <1>1, RowCanceled
<1>3. Writes(rows', rows, i, Canceled(rows[i]))
  BY DEF Writes, CancelRow
<1>4. overfilled' = overfilled + MadeUp(rows[i]) /\ managed' = managed /\ hold' = hold
  BY DEF CancelRow
<1>5. MovesAlike(MadeUp(rows[i])) /\ AmountTypes'
  BY <1>2, <1>4 DEF IInv, AmountTypes, MovesAlike
<1>6. UNCHANGED <<offers, buys, env>>
      /\ Advance(t, [th[t] EXCEPT !.todo = @ \ {i}, !.cur = i], rows')
  BY DEF CancelRow
<1> QED  BY <1>2, <1>3, <1>5, <1>6, RowTaken

LEMMA RepriceIInv ==
    ASSUME IInv, NEW t \in Threads, NEW i \in th[t].todo, Reprice(t, i)
    PROVE  IInv'
<1>1. i \in DOMAIN rows /\ rows[i] \in Rows /\ rows[i].status # "UNKNOWN"
  BY RowOnList
<1>2. Becomes(rows[i], Canceled(rows[i]), MadeUp(rows[i])) /\ MadeUp(rows[i]) = 0
  BY <1>1, RowCanceled DEF MadeUp, Reprice
<1>3. Writes(rows', rows, i, Canceled(rows[i]))
  BY DEF Writes, Reprice
<1>4. overfilled' = overfilled /\ managed' = managed /\ hold' = hold
  BY DEF Reprice
<1>5. MovesAlike(MadeUp(rows[i])) /\ AmountTypes'
  BY <1>2, <1>4 DEF IInv, AmountTypes, MovesAlike
<1>6. UNCHANGED <<offers, buys, env>>
      /\ Advance(t, [th[t] EXCEPT !.todo = @ \ {i}, !.cur = i], rows')
  BY DEF Reprice
<1> QED  BY <1>2, <1>3, <1>5, <1>6, RowTaken

LEMMA OverfillsIInv ==
    ASSUME IInv, NEW t \in Threads, NEW i \in th[t].todo, Overfills(t, i)
    PROVE  IInv'
<1>1. i \in DOMAIN rows /\ rows[i] \in Rows /\ Money /\ OfferTypes /\ ThreadTypes /\ OtherTypes
  BY RowOnList, IInvParts
<1>2. Becomes(rows[i], [rows[i] EXCEPT !.broker = "FILLED"], 0)
  BY <1>1, RowOverfilled DEF Overfills
<1>3. Writes(rows', rows, i, [rows[i] EXCEPT !.broker = "FILLED"])
  BY <1>1 DEF Writes, Overfills
<1>4. overfilled' = overfilled /\ managed' = managed /\ hold' = hold
  BY DEF Overfills
<1>5. MovesAlike(0) /\ AmountTypes'
  BY <1>4 DEF IInv, AmountTypes, MovesAlike
<1>6. SameProcess /\ UNCHANGED offers /\ UNCHANGED <<entry, turn, faults>> /\ Leave(t)
  BY DEF Overfills, SameProcess, buys, env
<1>7. Money' /\ Grows /\ OfferTypes'
  BY <1>1, <1>2, <1>3, <1>5, <1>6, TableStep
<1> QED  BY <1>1, <1>6, <1>7, ThreadLeaves, OthersKept, IInvPartsNext

LEMMA ApplyFillIInv ==
    ASSUME IInv, NEW t \in Threads, ApplyFill(t)
    PROVE  IInv'
<1> DEFINE i == th[t].cur
           row == rows[i]
           applied == [row EXCEPT !.applied = row.filled]
<1>1. /\ Money /\ OfferTypes /\ ThreadTypes /\ OtherTypes /\ AmountTypes
      /\ ThreadOK(th[t], rows, approvals) /\ rows \in Seq(Rows)
  BY IInvParts DEF IInv, ThreadTypes, RowTypes
<1>2. i \in DOMAIN rows /\ row \in Rows
  BY <1>1 DEF ApplyFill, ThreadOK
<1>3. SameProcess /\ UNCHANGED offers /\ UNCHANGED <<entry, turn, faults>>
  BY DEF ApplyFill, SameProcess, buys, env
<1>4. CASE Oversold(i)
  <2>1. Leave(t) /\ UNCHANGED <<sgov, entry, crashed>>
    BY <1>4, <1>3 DEF ApplyFill, sgov, SameProcess
  <2>2. Money' /\ rows' = rows /\ OfferTypes' /\ approvals' = approvals
    BY <1>1, <1>3, <2>1, MoneyKept, OffersKept
  <2> QED  BY <1>1, <1>3, <2>1, <2>2, GrowsQuiet, ThreadLeaves, OthersKept, IInvPartsNext
<1>5. CASE ~Oversold(i)
  <2>1. /\ managed' = IF row.side = "BUY" THEN managed + Unapplied(i) ELSE managed - Unapplied(i)
        /\ hold' = hold /\ overfilled' = overfilled
        /\ rows' = [rows EXCEPT ![i].applied = row.filled]
        /\ Advance(t, [th[t] EXCEPT !.cur = 0], rows')
    BY <1>5 DEF ApplyFill
  <2>2. Becomes(row, applied, 0 - Owes(row))
    BY <1>2, RowApplied
  <2>3. Writes(rows', rows, i, applied)
    BY <2>1, <1>1, <1>2 DEF Writes
  <2>4. /\ Unapplied(i) \in Nat /\ row.side \in {"BUY", "SELL"}
        /\ Owes(row) = IF row.side = "SELL" THEN Unapplied(i) ELSE 0 - Unapplied(i)
    BY <1>2, RowShape DEF RowOK, Unapplied, Owes, Proceeds
  <2>5. row.side = "SELL" => Unapplied(i) <= managed
    BY <1>5, <2>4, <1>1 DEF Oversold, AmountTypes
  <2>6. MovesAlike(0 - Owes(row)) /\ AmountTypes'
    <3> HIDE DEF i, row
    <3>1. CASE row.side = "BUY"
      <4>1. managed' = managed + Unapplied(i) /\ Owes(row) = 0 - Unapplied(i)
        BY <2>1, <2>4, <3>1
      <4> QED  BY <4>1, <2>1, <2>4, <1>1 DEF AmountTypes, MovesAlike
    <3>2. CASE row.side = "SELL"
      <4>1. managed' = managed - Unapplied(i) /\ Owes(row) = Unapplied(i)
        BY <2>1, <2>4, <3>2
      <4> QED  BY <3>2, <4>1, <2>1, <2>4, <2>5, <1>1 DEF AmountTypes, MovesAlike
    <3> QED  BY <2>4, <3>1, <3>2
  <2>7. Money' /\ Grows /\ DOMAIN rows' = DOMAIN rows /\ OfferTypes'
    <3> HIDE DEF i, row, applied
    <3>1. Becomes(rows[i], applied, 0 - Owes(row))
      BY <2>2 DEF row
    <3> QED  BY <1>1, <1>2, <1>3, <2>3, <2>6, <3>1, TableStep
  <2>8. ThreadTypes'
    <3>1. ThreadOK(th[t], rows', approvals') /\ DOMAIN rows' \subseteq Nat
      BY <1>1, <2>7, ThreadStays, DomainNatNext
    <3>2. ThreadOK([th[t] EXCEPT !.cur = 0], rows', approvals')
      BY <3>1, ThreadTakes
    <3> QED  BY <1>1, <2>1, <2>7, <3>2, ThreadAdvances
  <2> QED  BY <1>1, <1>3, <2>7, <2>8, OthersKept, IInvPartsNext
<1> QED  BY <1>4, <1>5

-----------------------------------------------------------------------------
(* The steps that write no row *)

\* A step that leaves SGOV, the strategy's BUYs and the process alone.
LEMMA QuietStep ==
    ASSUME IInv, UNCHANGED sgov, SameProcess, OfferTypes', ThreadTypes', UNCHANGED <<turn, faults>>
    PROVE  IInv'
<1>1. Money /\ OtherTypes
  BY IInvParts
<1>2. UNCHANGED <<sgov, entry, crashed>> /\ UNCHANGED <<entry, turn, faults>>
  BY DEF SameProcess
<1>3. Money' /\ OtherTypes'
  BY <1>1, <1>2, MoneyKept, OthersKept
<1> QED  BY <1>3, IInvPartsNext

\* The offers after a step that writes one intent of a thread, or none.
LEMMA OffersAfter ==
    ASSUME IInv, UNCHANGED sgov, approvals' = approvals, NEW s \in Signals,
           NEW status \in {"NONE", "WAITING", "COMPLETED", "CANCELED", "EXPIRED"},
           UNCHANGED intents \/ SetIntent(s, status, 0)
    PROVE  OfferTypes' /\ Grows
<1>1. OfferTypes /\ rows' = rows
  BY DEF IInv, sgov
<1>2. CASE UNCHANGED intents
  <2>1. UNCHANGED offers
    BY <1>2 DEF offers
  <2> QED  BY <1>1, <2>1, OffersKept, GrowsQuiet
<1>3. CASE SetIntent(s, status, 0)
  <2>1. 0 \in 0..Len(approvals)
    BY <1>1, LengthNat
  <2> QED  BY <1>1, <1>3, <2>1, IntentWritten, GrowsQuiet
<1> QED  BY <1>2, <1>3

\* An operation of a thread that has a signal.
LEMMA SignalOfThread ==
    ASSUME IInv, NEW t \in Threads, th[t].at \notin Anonymous
    PROVE  Sig(t) \in Signals /\ th[t].s # NoSignal
BY DEF IInv, ThreadTypes, ThreadOK, ThreadRecords, Sig

\* A step that may end an intent, and after which the thread goes on or leaves.
LEMMA QuietMove ==
    ASSUME IInv, UNCHANGED <<sgov, approvals, buys, env>>, NEW t \in Threads, th[t].at \notin Anonymous,
           NEW status \in {"NONE", "WAITING", "COMPLETED", "CANCELED", "EXPIRED"},
           UNCHANGED intents \/ SetIntent(Sig(t), status, 0),
           \/ Leave(t) \/ Stop(t) \/ Return(t)
           \/ \E at \in Places \ {"bind"} : Goto(t, at)
    PROVE  IInv'
<1>1. UNCHANGED sgov /\ SameProcess /\ approvals' = approvals /\ UNCHANGED <<turn, faults>> /\ rows' = rows
  BY DEF SameProcess, buys, env, sgov
<1>2. OfferTypes' /\ Grows
  BY <1>1, SignalOfThread, OffersAfter
<1>3. ThreadTypes /\ Money
  BY IInvParts
<1>4. ThreadTypes'
  <2>1. CASE Leave(t) \/ Stop(t) \/ Return(t)
    BY <1>2, <1>3, <2>1, ThreadLeaves
  <2>2. CASE \E at \in Places \ {"bind"} : Goto(t, at)
    <3>1. PICK at \in Places \ {"bind"} : Goto(t, at)
      BY <2>2
    <3> QED  BY <1>1, <1>2, <1>3, <3>1, SignalOfThread, ThreadGotoes
  <2> QED  BY <2>1, <2>2
<1> QED  BY <1>1, <1>2, <1>4, QuietStep

LEMMA PlacesOfSignals ==
    /\ \A at \in {"sweeps", "cash", "lack", "quote", "issue", "bind", "open", "sell", "sold", "release",
                  "cancel", "compare", "submit", "processed"} : at \notin Anonymous /\ at \in Places
    /\ Anonymous \subseteq Places
BY DEF Anonymous, Places

LEMMA QuietSteps ==
    ASSUME IInv, NEW t \in Threads,
           \/ EnoughCash(t) \/ NothingToRelease(t) \/ OtherOrders(t) \/ Sold(t) \/ Quote(t)
           \/ Compare(t) \/ CancelIntent(t)
    PROVE  IInv'
<1>1. UNCHANGED <<sgov, approvals, buys, env>>
  BY DEF EnoughCash, NothingToRelease, OtherOrders, Sold, Quote, Compare, CancelIntent, offers
<1>2. th[t].at \in {"cash", "lack", "open", "sold", "quote", "compare", "cancel"}
  BY DEF EnoughCash, NothingToRelease, OtherOrders, Sold, Quote, Compare, CancelIntent, At
<1>3. UNCHANGED intents \/ SetIntent(Sig(t), "CANCELED", 0)
  BY Zenon DEF EnoughCash, NothingToRelease, OtherOrders, Sold, Quote, Compare, CancelIntent, Refused,
     Canceling, offers
<1>4. \/ Leave(t) \/ Stop(t) \/ Return(t)
      \/ Goto(t, "quote") \/ Goto(t, "sell") \/ Goto(t, "issue") \/ Goto(t, "submit")
  BY Zenon DEF EnoughCash, NothingToRelease, OtherOrders, Sold, Quote, Compare, CancelIntent, Refused, Canceling
<1>5. {"quote", "sell", "issue", "submit"} \subseteq Places \ {"bind"}
  BY PlacesOfSignals
<1> QED  BY <1>1, <1>2, <1>3, <1>4, <1>5, PlacesOfSignals, QuietMove

LEMMA ProcessedIInv ==
    ASSUME IInv, NEW t \in Threads, Processed(t)
    PROVE  IInv'
<1>1. UNCHANGED sgov /\ SameProcess /\ approvals' = approvals /\ UNCHANGED <<turn, faults>>
  BY DEF Processed, SameProcess, env
<1>2. th[t].at \notin Anonymous
  BY PlacesOfSignals DEF Processed, At
<1>3. OfferTypes' /\ Grows
  BY <1>1, <1>2, SignalOfThread, OffersAfter DEF Processed
<1>4. ThreadTypes'
  BY <1>3, ThreadLeaves, IInvParts DEF Processed
<1> QED  BY <1>1, <1>3, <1>4, QuietStep

\* What the cash operators return.
LEMMA CashTypes ==
    ASSUME Money, NEW s
    PROVE  /\ RawCash \in Int /\ Reserved \in Int /\ Available(s) \in Nat /\ managed \in Nat
           /\ Surplus \in Int
           /\ \A n \in Nat : n <= Reservable => RawCash - Reserved >= n
<1>1. /\ rows \in Seq(Rows) /\ managed \in Nat /\ hold \in Nat /\ overfilled \in Nat
      /\ Reserved <= RawCash
  BY DEF Money, RowTypes, AmountTypes, CashCoversOrders
<1>2. RawCash \in Int /\ Reserved \in Int /\ Invested \in Int /\ Capital \in Int
  <2>1. /\ Brought(rows) \in Int /\ Kept(rows) \in Int
        /\ Bought("filled") \in Int /\ Bought("open") \in Int
    BY <1>1, SumTypes, BoughtType
  <2> QED  BY <1>1, <2>1, MoneyFormulas, CashAssumption DEF Invested
<1>3. \A x : Promised(x) \in Int
  <2> TAKE x
  <2> DEFINE f == [y \in Signals |-> IF y # x /\ intents[y].status = "AWAITING" /\ y \notin past
                                     THEN Need[y] ELSE 0]
  <2>1. f \in [Signals -> Int]
    BY CashAssumption
  <2>2. SumFunction(f) \in Int
    <3> HIDE DEF f
    <3> QED  BY <2>1, CashAssumption, SumType
  <2> QED  BY <2>2 DEF Promised
<1>4. BrokerCash \in Int
  BY <1>1, <1>2 DEF BrokerCash
<1>5. \A x : Available(x) \in Nat
  BY <1>2, <1>3, <1>4 DEF Available, Least, Greatest
<1>6. Surplus \in Int
  BY <1>1, <1>2, <1>5 DEF Surplus, Least, Greatest
<1>7. \A n \in Nat : n <= Reservable => RawCash - Reserved >= n
  BY <1>1, <1>2, <1>4 DEF Reservable, Least, Greatest
<1> QED  BY <1>1, <1>2, <1>5, <1>6, <1>7

\* A thread moves with a number.
LEMMA ThreadCounts ==
    ASSUME ThreadTypes, Money, rows' = rows, Grows, NEW t \in Threads, NEW at \in Places,
           at \notin Anonymous => th[t].s # NoSignal,
           NEW n \in Nat, at = "bind" => n \in 1..Len(approvals'),
           Become(t, [th[t] EXCEPT !.at = at, !.n = n])
    PROVE  ThreadTypes'
<1>1. ThreadOK(th[t], rows', approvals') /\ DOMAIN rows' \subseteq Nat /\ 0 \in DOMAIN rows' \cup {0}
  BY ThreadStays, DomainNat
<1>2. ThreadOK([th[t] EXCEPT !.at = at, !.n = n], rows', approvals')
  BY <1>1, ThreadGoes
<1> QED  BY <1>2, ThreadMoves DEF Become

LEMMA LackOfCashIInv ==
    ASSUME IInv, NEW t \in Threads, LackOfCash(t)
    PROVE  IInv'
<1> DEFINE s == Sig(t)
           n == Need[s] - Available(s)
<1>1. /\ Money /\ ThreadTypes /\ OfferTypes /\ th[t].at \notin Anonymous
      /\ s \in Signals /\ th[t].s # NoSignal
  BY IInvParts, PlacesOfSignals, SignalOfThread DEF LackOfCash, At
<1>2. /\ UNCHANGED sgov /\ SameProcess /\ UNCHANGED offers /\ UNCHANGED <<turn, faults>>
      /\ rows' = rows
  BY DEF LackOfCash, SameProcess, buys, env, sgov
<1>3. n \in Nat
  <2>1. Available(s) \in Nat /\ Need[s] \in Nat /\ Available(s) < Need[s]
    BY <1>1, CashTypes, CashAssumption DEF LackOfCash
  <2> HIDE DEF s
  <2> QED  BY <2>1
<1>4. OfferTypes' /\ approvals' = approvals /\ Grows
  BY <1>1, <1>2, OffersKept, GrowsQuiet
<1>5. ThreadTypes'
  <2>1. Become(t, [th[t] EXCEPT !.at = "lack", !.n = n])
    BY DEF LackOfCash
  <2> HIDE DEF n
  <2> QED  BY <1>1, <1>2, <1>3, <1>4, <2>1, ThreadCounts, PlacesOfSignals
<1> QED  BY <1>2, <1>4, <1>5, QuietStep

LEMMA StartReleaseIInv ==
    ASSUME IInv, NEW t \in Threads, StartRelease(t)
    PROVE  IInv'
<1> DEFINE s == Sig(t)
           n == Least(th[t].n, managed)
<1>1. /\ Money /\ ThreadTypes /\ OfferTypes /\ th[t].at \notin Anonymous
      /\ s \in Signals /\ th[t].s # NoSignal
  BY IInvParts, PlacesOfSignals, SignalOfThread DEF StartRelease, At
<1>2. /\ UNCHANGED sgov /\ SameProcess /\ approvals' = approvals /\ UNCHANGED <<turn, faults>>
      /\ rows' = rows
  BY DEF StartRelease, SameProcess, buys, env, sgov
<1>3. n \in Nat
  <2>1. managed \in Nat /\ th[t].n \in Nat
    BY <1>1 DEF Money, AmountTypes, ThreadTypes, ThreadOK, ThreadRecords
  <2> QED  BY <2>1 DEF Least
<1>4. OfferTypes' /\ Grows
  <2>1. intents' = [intents EXCEPT ![s] = IF Active(s) THEN @ ELSE [status |-> "WAITING", own |-> 0]]
    BY DEF StartRelease
  <2> HIDE DEF s
  <2> QED  BY <1>1, <1>2, <2>1, LengthNat, GrowsQuiet DEF OfferTypes, IntentOK, Intents
<1>5. ThreadTypes'
  <2>1. Become(t, [th[t] EXCEPT !.at = "open", !.n = n])
    BY DEF StartRelease
  <2> HIDE DEF n
  <2> QED  BY <1>1, <1>2, <1>3, <1>4, <2>1, ThreadCounts, PlacesOfSignals
<1> QED  BY <1>2, <1>4, <1>5, QuietStep

\* Approvals are added, or change their status.
LEMMA ApprovalsWritten ==
    ASSUME OfferTypes, rows' = rows, intents' = intents, approvals' \in Seq(Approvals),
           Len(approvals) <= Len(approvals')
    PROVE  OfferTypes' /\ Grows
BY LengthNat DEF OfferTypes, IntentOK, Intents, Grows

LEMMA IssueIInv ==
    ASSUME IInv, NEW t \in Threads, Issue(t)
    PROVE  IInv'
<1>1. /\ Money /\ ThreadTypes /\ OfferTypes /\ th[t].at \notin Anonymous
      /\ Sig(t) \in Signals /\ th[t].s # NoSignal
  BY IInvParts, PlacesOfSignals, SignalOfThread DEF Issue, At
<1>2. /\ UNCHANGED sgov /\ SameProcess /\ intents' = intents /\ UNCHANGED <<turn, faults>>
      /\ rows' = rows
  BY DEF Issue, SameProcess, buys, env, sgov
<1>3. CASE Stop(t) /\ UNCHANGED approvals
  <2>1. OfferTypes' /\ Grows
    BY <1>1, <1>2, <1>3, ApprovalsWritten, LengthNat DEF OfferTypes
  <2> QED  BY <1>1, <1>2, <1>3, <2>1, ThreadLeaves, QuietStep
<1>4. CASE /\ approvals' = Append(approvals, [signal |-> Sig(t), status |-> "ACTIVE"])
           /\ Become(t, [th[t] EXCEPT !.at = "bind", !.n = Len(approvals) + 1])
  <2> DEFINE n == Len(approvals) + 1
  <2>1. /\ approvals \in Seq(Approvals) /\ [signal |-> Sig(t), status |-> "ACTIVE"] \in Approvals
    BY <1>1 DEF OfferTypes, Approvals
  <2>2. approvals' \in Seq(Approvals) /\ Len(approvals') = n /\ n \in Nat /\ n \in 1..Len(approvals')
    BY <1>4, <2>1
  <2>3. OfferTypes' /\ Grows
    BY <1>1, <1>2, <2>1, <2>2, ApprovalsWritten, LengthNat
  <2>4. ThreadTypes'
    <3>1. Become(t, [th[t] EXCEPT !.at = "bind", !.n = n])
      BY <1>4
    <3> HIDE DEF n
    <3> QED  BY <1>1, <1>2, <2>2, <2>3, <3>1, ThreadCounts, PlacesOfSignals
  <2> QED  BY <1>2, <2>3, <2>4, QuietStep
<1> QED  BY <1>3, <1>4 DEF Issue

LEMMA BindIInv ==
    ASSUME IInv, NEW t \in Threads, Bind(t)
    PROVE  IInv'
<1>1. /\ Money /\ ThreadTypes /\ OfferTypes /\ Sig(t) \in Signals
      /\ th[t].n \in 1..Len(approvals)
  <2>1. ThreadOK(th[t], rows, approvals)
    BY DEF IInv, ThreadTypes
  <2> QED  BY <2>1, IInvParts, PlacesOfSignals, SignalOfThread DEF Bind, At, ThreadOK
<1>2. /\ UNCHANGED sgov /\ SameProcess /\ approvals' = approvals /\ UNCHANGED <<turn, faults>>
      /\ rows' = rows
  BY DEF Bind, SameProcess, buys, env, sgov
<1>3. OfferTypes' /\ Grows
  <2>1. th[t].n \in 0..Len(approvals) /\ th[t].n # 0
    BY <1>1, LengthNat
  <2>2. SetIntent(Sig(t), "AWAITING", th[t].n)
    BY DEF Bind
  <2> QED  BY <1>1, <1>2, <2>1, <2>2, IntentWritten, GrowsQuiet
<1>4. ThreadTypes'
  BY <1>1, <1>3, ThreadLeaves DEF Bind
<1> QED  BY <1>2, <1>3, <1>4, QuietStep

LEMMA ApprovalRecords ==
    /\ \A x \in Approvals : /\ x.signal \in Signals /\ x.status \in {"ACTIVE", "USED", "ENDED"}
                            /\ [x EXCEPT !.status = "USED"] \in Approvals
                            /\ [x EXCEPT !.status = "ENDED"] \in Approvals
                            /\ [x EXCEPT !.status = x.status] \in Approvals
    /\ OfferTypes => \A a \in DOMAIN approvals : approvals[a] \in Approvals
<1>1. ASSUME NEW x \in Approvals
      PROVE  x.signal \in Signals /\ x.status \in {"ACTIVE", "USED", "ENDED"}
  BY DEF Approvals
<1>2. ASSUME NEW x \in Approvals, NEW status \in {"ACTIVE", "USED", "ENDED"}
      PROVE  [x EXCEPT !.status = status] \in Approvals
  BY DEF Approvals
<1>3. ASSUME OfferTypes, NEW a \in DOMAIN approvals
      PROVE  approvals[a] \in Approvals
  BY <1>3 DEF OfferTypes
<1> QED  BY <1>1, <1>2, <1>3

\* The cancel buttons and the end of an approval change no more than a status.
LEMMA StatusWritten ==
    ASSUME OfferTypes, NEW new, new \in [DOMAIN approvals -> Approvals]
    PROVE  new \in Seq(Approvals) /\ Len(new) = Len(approvals)
BY DEF OfferTypes

LEMMA CancelApprovalIInv ==
    ASSUME IInv, NEW t \in Threads, NEW s \in Signals, CancelApproval(t, s)
    PROVE  IInv'
<1>1. Money /\ ThreadTypes /\ OfferTypes
  BY IInvParts
<1>2. /\ UNCHANGED sgov /\ SameProcess /\ intents' = intents /\ UNCHANGED <<turn, faults>>
      /\ rows' = rows
  BY DEF CancelApproval, SameProcess, buys, env, sgov
<1>3. approvals' \in [DOMAIN approvals -> Approvals]
  <2>1. approvals' = [a \in DOMAIN approvals |->
                        [approvals[a] EXCEPT !.status = IF @ = "ACTIVE" /\ approvals[a].signal = s
                                                        THEN "ENDED" ELSE @]]
    BY DEF CancelApproval
  <2>2. ASSUME NEW a \in DOMAIN approvals
        PROVE  [approvals[a] EXCEPT !.status = IF @ = "ACTIVE" /\ approvals[a].signal = s
                                               THEN "ENDED" ELSE @] \in Approvals
    <3>1. approvals[a] \in Approvals
      BY <1>1, ApprovalRecords
    <3>2. CASE approvals[a].status = "ACTIVE" /\ approvals[a].signal = s
      BY <3>1, <3>2, ApprovalRecords
    <3>3. CASE ~(approvals[a].status = "ACTIVE" /\ approvals[a].signal = s)
      BY <3>1, <3>3, ApprovalRecords
    <3> QED  BY <3>2, <3>3
  <2> QED  BY <2>1, <2>2
<1>4. OfferTypes' /\ Grows
  BY <1>1, <1>2, <1>3, StatusWritten, ApprovalsWritten, LengthNat
<1>5. ThreadTypes'
  <2>1. Become(t, [Idle EXCEPT !.job = "cancel", !.at = "cancel", !.s = s])
    BY DEF CancelApproval
  <2>2. DOMAIN rows' \subseteq Nat /\ "cancel" \in Jobs /\ s # NoSignal
    BY <1>1, <1>2, DomainNat, CashAssumption DEF Jobs
  <2>3. {} \subseteq Reachable(rows') /\ {} \in SUBSET Signals /\ "cancel" \in Places
    BY PlacesOfSignals
  <2>4. ThreadOK([Idle EXCEPT !.job = "cancel", !.at = "cancel", !.s = s], rows', approvals')
    BY <2>2, <2>3, ThreadStarts
  <2> QED  BY <1>1, <1>4, <2>1, <2>4, ThreadMoves DEF Become
<1> QED  BY <1>2, <1>4, <1>5, QuietStep

LEMMA ExecuteIInv ==
    ASSUME IInv, NEW t \in Threads, NEW a \in DOMAIN approvals, Execute(t, a)
    PROVE  IInv'
<1> DEFINE s == approvals[a].signal
<1>1. Money /\ ThreadTypes /\ OfferTypes /\ s \in Signals
  BY IInvParts, ApprovalRecords
<1>2. /\ UNCHANGED sgov /\ SameProcess /\ intents' = intents /\ UNCHANGED <<turn, faults>>
      /\ rows' = rows
  BY DEF Execute, SameProcess, buys, env, sgov
<1>3. approvals' \in [DOMAIN approvals -> Approvals]
  BY <1>1, ApprovalRecords DEF Execute
<1>4. OfferTypes' /\ Grows
  BY <1>1, <1>2, <1>3, StatusWritten, ApprovalsWritten, LengthNat
<1>5. ThreadTypes'
  <2>1. Become(t, [Idle EXCEPT !.job = "execute", !.at = "compare", !.s = s])
    BY DEF Execute
  <2> HIDE DEF s
  <2>2. DOMAIN rows' \subseteq Nat /\ "execute" \in Jobs /\ s # NoSignal
    BY <1>1, <1>2, DomainNat, CashAssumption DEF Jobs
  <2>3. {} \subseteq Reachable(rows') /\ {} \in SUBSET Signals /\ "compare" \in Places
    BY PlacesOfSignals
  <2>4. ThreadOK([Idle EXCEPT !.job = "execute", !.at = "compare", !.s = s], rows', approvals')
    BY <1>1, <2>2, <2>3, ThreadStarts
  <2> QED  BY <1>1, <1>4, <2>1, <2>4, ThreadMoves DEF Become
<1> QED  BY <1>2, <1>4, <1>5, QuietStep

LEMMA ApprovalExpiresIInv ==
    ASSUME IInv, NEW a \in DOMAIN approvals, ApprovalExpires(a)
    PROVE  IInv'
<1>1. Money /\ ThreadTypes /\ OfferTypes
  BY IInvParts
<1>2. /\ UNCHANGED sgov /\ SameProcess /\ intents' = intents /\ UNCHANGED <<turn, faults>>
      /\ rows' = rows /\ th' = th
  BY DEF ApprovalExpires, SameProcess, buys, env, sgov
<1>3. approvals' \in [DOMAIN approvals -> Approvals]
  BY <1>1, ApprovalRecords DEF ApprovalExpires
<1>4. OfferTypes' /\ Grows
  BY <1>1, <1>2, <1>3, StatusWritten, ApprovalsWritten, LengthNat
<1> QED  BY <1>1, <1>2, <1>4, ThreadsKept, QuietStep

-----------------------------------------------------------------------------
(* Jobs that begin, and the scheduler's rounds *)

\* A thread that begins a job with a refresh, or goes on with its list.
LEMMA JobBegins ==
    ASSUME IInv, UNCHANGED sgov, SameProcess, UNCHANGED approvals, OfferTypes', UNCHANGED faults,
           turn' \in {"monitor", "resume", "reconcile", "sweep"},
           NEW t \in Threads, NEW r, ThreadOK(r, rows, approvals), Advance(t, r, rows)
    PROVE  IInv'
<1>1. Money /\ OfferTypes /\ ThreadTypes /\ OtherTypes /\ rows' = rows /\ approvals' = approvals
  BY IInvParts DEF sgov
<1>2. Grows /\ Advance(t, r, rows') /\ ThreadOK(r, rows', approvals')
  BY <1>1, GrowsQuiet
<1>3. Money'
  BY <1>1, MoneyKept DEF SameProcess
<1>4. ThreadTypes'
  BY <1>1, <1>2, <1>3, ThreadAdvances
<1>5. OtherTypes'
  BY <1>1 DEF OtherTypes, SameProcess
<1> QED  BY <1>3, <1>4, <1>5, IInvPartsNext

LEMMA SchedulerIsThread == Scheduler \in Threads /\ Handlers \subseteq Threads
BY DEF Threads

LEMMA StartJobIInv ==
    ASSUME IInv, StartJob
    PROVE  IInv'
<1> DEFINE r == [Idle EXCEPT !.job = turn, !.at = "refresh", !.todo = Known(rows)]
<1>1. Money /\ OfferTypes /\ turn \in {"monitor", "resume", "reconcile", "sweep"}
  BY IInvParts DEF OtherTypes
<1>2. turn' \in {"monitor", "resume", "reconcile", "sweep"}
  BY <1>1 DEF StartJob, NextJob
<1>3. UNCHANGED sgov /\ SameProcess /\ UNCHANGED approvals /\ UNCHANGED faults /\ UNCHANGED offers
  BY DEF StartJob, SameProcess, buys, offers
<1>4. OfferTypes'
  BY <1>1, <1>3, OffersKept
<1>5. ThreadOK(r, rows, approvals)
  <2>1. turn \in Jobs /\ "refresh" \in Anonymous /\ "refresh" \in Places
    BY <1>1 DEF Jobs, Anonymous, Places
  <2>2. Known(rows) \subseteq Reachable(rows) /\ DOMAIN rows \subseteq Nat
        /\ NoSignal \in Signals \cup {NoSignal} /\ {} \in SUBSET Signals
    BY <1>1, KnownReachable, DomainNat
  <2> QED  BY <2>1, <2>2, ThreadStarts
<1>6. Advance(Scheduler, r, rows)
  BY DEF StartJob
<1> HIDE DEF r
<1> QED  BY <1>2, <1>3, <1>4, <1>5, <1>6, JobBegins, SchedulerIsThread

LEMMA ReviewIInv ==
    ASSUME IInv, NEW t \in Threads, NEW s \in Signals, Review(t, s)
    PROVE  IInv'
<1> DEFINE r == [Idle EXCEPT !.job = "review", !.at = "refresh", !.s = s, !.todo = Known(rows)]
<1>1. Money /\ OfferTypes /\ turn \in {"monitor", "resume", "reconcile", "sweep"}
  BY IInvParts DEF OtherTypes
<1>2. turn' \in {"monitor", "resume", "reconcile", "sweep"}
  BY <1>1 DEF Review, env
<1>3. UNCHANGED sgov /\ SameProcess /\ UNCHANGED approvals /\ UNCHANGED faults /\ UNCHANGED offers
  BY DEF Review, SameProcess, buys, offers, env
<1>4. OfferTypes'
  BY <1>1, <1>3, OffersKept
<1>5. ThreadOK(r, rows, approvals)
  <2>1. "review" \in Jobs /\ "refresh" \in Anonymous /\ "refresh" \in Places
    BY <1>1 DEF Jobs, Anonymous, Places
  <2>2. Known(rows) \subseteq Reachable(rows) /\ DOMAIN rows \subseteq Nat /\ {} \in SUBSET Signals
    BY <1>1, KnownReachable, DomainNat
  <2> QED  BY <2>1, <2>2, ThreadStarts
<1>6. Advance(t, r, rows)
  BY DEF Review
<1> HIDE DEF r
<1> QED  BY <1>2, <1>3, <1>4, <1>5, <1>6, JobBegins

LEMMA CancelReleaseIInv ==
    ASSUME IInv, NEW t \in Threads, NEW s \in Signals, CancelRelease(t, s)
    PROVE  IInv'
<1> DEFINE todo == {i \in Known(rows) \cap Sides("SELL") : rows[i].signal = s}
           r == [Idle EXCEPT !.job = "cancel", !.at = "release", !.s = s, !.todo = todo]
<1>1. Money /\ OfferTypes /\ turn \in {"monitor", "resume", "reconcile", "sweep"}
  BY IInvParts DEF OtherTypes
<1>2. turn' \in {"monitor", "resume", "reconcile", "sweep"}
  BY <1>1 DEF CancelRelease, env
<1>3. UNCHANGED sgov /\ SameProcess /\ UNCHANGED approvals /\ UNCHANGED faults /\ UNCHANGED offers
  BY DEF CancelRelease, SameProcess, buys, offers, env
<1>4. OfferTypes'
  BY <1>1, <1>3, OffersKept
<1>5. ThreadOK(r, rows, approvals)
  <2>1. "cancel" \in Jobs /\ "release" \in Places /\ "release" # "bind" /\ s # NoSignal
    BY PlacesOfSignals, CashAssumption DEF Jobs
  <2>2. todo \subseteq Reachable(rows) /\ DOMAIN rows \subseteq Nat /\ {} \in SUBSET Signals
    BY <1>1, KnownReachable, DomainNat
  <2> HIDE DEF todo
  <2> QED  BY <2>1, <2>2, ThreadStarts
<1>6. Advance(t, r, rows)
  BY DEF CancelRelease
<1> HIDE DEF r
<1> QED  BY <1>2, <1>3, <1>4, <1>5, <1>6, JobBegins

LEMMA ResumeIInv ==
    ASSUME IInv, NEW s \in Signals, Resume(s)
    PROVE  IInv'
<1> DEFINE rest == th[Scheduler].list \ {s}
           r == [Idle EXCEPT !.job = "resume", !.at = "refresh", !.s = s, !.todo = Known(rows), !.list = rest]
           q == [th[Scheduler] EXCEPT !.list = rest]
<1>1. /\ Money /\ OfferTypes /\ turn \in {"monitor", "resume", "reconcile", "sweep"}
      /\ ThreadOK(th[Scheduler], rows, approvals) /\ th[Scheduler].at = "list"
  BY IInvParts, SchedulerIsThread DEF OtherTypes, ThreadTypes, Resume, At
<1>2. turn' \in {"monitor", "resume", "reconcile", "sweep"}
  BY <1>1 DEF Resume, env
<1>3. UNCHANGED sgov /\ SameProcess /\ UNCHANGED approvals /\ UNCHANGED faults
  BY DEF Resume, SameProcess, buys, env
<1>4. OfferTypes'
  <2>1. UNCHANGED intents \/ SetIntent(s, "CANCELED", 0)
    BY DEF Resume
  <2> QED  BY <1>3, <2>1, OffersAfter
<1>5. rest \in SUBSET Signals
  BY <1>1 DEF ThreadOK, ThreadRecords
<1>6. ThreadOK(r, rows, approvals)
  <2>1. "resume" \in Jobs /\ "refresh" \in Anonymous /\ "refresh" \in Places
    BY DEF Jobs, Anonymous, Places
  <2>2. Known(rows) \subseteq Reachable(rows) /\ DOMAIN rows \subseteq Nat
    BY <1>1, KnownReachable, DomainNat
  <2> HIDE DEF rest
  <2> QED  BY <1>5, <2>1, <2>2, ThreadStarts
<1>7. ThreadOK(q, rows, approvals)
  <2> HIDE DEF rest
  <2> QED  BY <1>1, <1>5 DEF ThreadOK, ThreadRecords
<1>8. Advance(Scheduler, r, rows) \/ Advance(Scheduler, q, rows)
  BY DEF Resume
<1> HIDE DEF r, q
<1> QED  BY <1>2, <1>3, <1>4, <1>6, <1>7, <1>8, JobBegins, SchedulerIsThread

LEMMA ReconcileIInv ==
    ASSUME IInv, Reconcile
    PROVE  IInv'
<1>1. Money /\ OfferTypes /\ ThreadTypes /\ OtherTypes
  BY IInvParts
<1>2. UNCHANGED <<sgov, entry, crashed>> /\ UNCHANGED offers /\ th' = th /\ UNCHANGED <<entry, faults>>
  BY DEF Reconcile, buys
<1>3. turn' \in {"monitor", "resume", "reconcile", "sweep"}
  BY <1>1 DEF Reconcile, NextJob, OtherTypes
<1>4. Money' /\ rows' = rows /\ OfferTypes' /\ approvals' = approvals
  BY <1>1, <1>2, MoneyKept, OffersKept
<1>5. ThreadTypes'
  BY <1>1, <1>2, <1>4, GrowsQuiet, ThreadsKept
<1>6. OtherTypes'
  BY <1>1, <1>2, <1>3 DEF OtherTypes
<1> QED  BY <1>4, <1>5, <1>6, IInvPartsNext

LEMMA PendingIntentsIInv ==
    ASSUME IInv, PendingIntents
    PROVE  IInv'
<1> DEFINE list == {s \in Signals \ past : intents[s].status = "WAITING"}
           r == [th[Scheduler] EXCEPT !.at = "list", !.list = list]
<1>1. Money /\ OfferTypes /\ ThreadTypes
  BY IInvParts
<1>2. /\ UNCHANGED sgov /\ SameProcess /\ approvals' = approvals /\ UNCHANGED <<turn, faults>>
      /\ rows' = rows
  BY DEF PendingIntents, SameProcess, buys, env, sgov
<1>3. OfferTypes'
  <2>1. intents' = [s \in Signals |-> intents'[s]]
    BY DEF PendingIntents
  <2>2. ASSUME NEW s \in Signals
        PROVE  IntentOK(intents'[s], approvals')
    <3>1. PICK status \in {"CANCELED", "EXPIRED", intents[s].status} :
             intents'[s] = [intents[s] EXCEPT !.status = status]
      BY Zenon DEF PendingIntents
    <3>2. IntentOK(intents[s], approvals)
      BY <1>1 DEF OfferTypes
    <3>3. /\ intents'[s] \in Intents /\ intents'[s].own = intents[s].own
          /\ intents'[s].status = status
      BY <3>1, <3>2 DEF IntentOK, Intents
    <3> QED  BY <1>2, <3>1, <3>2, <3>3 DEF IntentOK
  <2> QED  BY <1>1, <1>2, <2>1, <2>2 DEF OfferTypes
<1>4. Grows
  BY <1>1, <1>2, GrowsQuiet
<1>5. ThreadTypes'
  <2>1. ThreadOK(th[Scheduler], rows', approvals') /\ list \in SUBSET Signals
    BY <1>1, <1>4, ThreadStays, SchedulerIsThread
  <2>2. Become(Scheduler, r)
    BY DEF PendingIntents
  <2> HIDE DEF list
  <2>3. ThreadOK(r, rows', approvals')
    BY <2>1 DEF ThreadOK, ThreadRecords, Places, Anonymous
  <2> HIDE DEF r
  <2> QED  BY <1>1, <1>4, <2>2, <2>3, ThreadMoves, SchedulerIsThread DEF Become
<1> QED  BY <1>2, <1>3, <1>5, QuietStep

LEMMA ResumedIInv ==
    ASSUME IInv, Resumed
    PROVE  IInv'
<1>1. Money /\ OfferTypes /\ ThreadTypes
  BY IInvParts
<1>2. /\ UNCHANGED sgov /\ SameProcess /\ UNCHANGED offers /\ UNCHANGED <<turn, faults>>
      /\ rows' = rows /\ Leave(Scheduler)
  BY DEF Resumed, SameProcess, buys, env, sgov
<1>3. OfferTypes' /\ approvals' = approvals
  BY <1>1, <1>2, OffersKept
<1> QED  BY <1>1, <1>2, <1>3, GrowsQuiet, ThreadLeaves, SchedulerIsThread, QuietStep

LEMMA SweepBeginsIInv ==
    ASSUME IInv, SweepBegins
    PROVE  IInv'
<1>1. Money /\ OfferTypes /\ ThreadTypes
  BY IInvParts
<1>2. /\ UNCHANGED sgov /\ SameProcess /\ UNCHANGED offers /\ UNCHANGED <<turn, faults>>
      /\ rows' = rows
  BY DEF SweepBegins, SameProcess, buys, env, sgov
<1>3. OfferTypes' /\ approvals' = approvals /\ Grows
  BY <1>1, <1>2, OffersKept, GrowsQuiet
<1>4. ThreadTypes'
  <2>1. CASE Leave(Scheduler)
    BY <1>1, <1>3, <2>1, ThreadLeaves, SchedulerIsThread
  <2>2. CASE Goto(Scheduler, "surplus")
    <3>1. th[Scheduler] \in ThreadRecords
      BY <1>1, SchedulerIsThread DEF ThreadTypes, ThreadOK
    <3>2. "surplus" \in Places /\ "surplus" \in Anonymous /\ th[Scheduler].n \in Nat
      BY <3>1 DEF Places, Anonymous, ThreadRecords
    <3>3. Become(Scheduler, [th[Scheduler] EXCEPT !.at = "surplus", !.n = th[Scheduler].n])
      BY <2>2, <3>1 DEF Goto, Become, ThreadRecords
    <3> QED  BY <1>1, <1>2, <1>3, <3>2, <3>3, ThreadCounts, SchedulerIsThread
  <2> QED  BY <2>1, <2>2 DEF SweepBegins
<1> QED  BY <1>2, <1>3, <1>4, QuietStep

LEMMA SweepDecidesIInv ==
    ASSUME IInv, SweepDecides
    PROVE  IInv'
<1>1. Money /\ OfferTypes /\ ThreadTypes
  BY IInvParts
<1>2. /\ UNCHANGED sgov /\ SameProcess /\ UNCHANGED offers /\ UNCHANGED <<turn, faults>>
      /\ rows' = rows
  BY DEF SweepDecides, SameProcess, buys, env, sgov
<1>3. OfferTypes' /\ approvals' = approvals /\ Grows
  BY <1>1, <1>2, OffersKept, GrowsQuiet
<1>4. ThreadTypes'
  <2>1. CASE Leave(Scheduler)
    BY <1>1, <1>3, <2>1, ThreadLeaves, SchedulerIsThread
  <2>2. CASE Surplus > 0 /\ Become(Scheduler, [th[Scheduler] EXCEPT !.at = "buy", !.n = Surplus])
    <3>1. Surplus \in Nat
      BY <1>1, <2>2, CashTypes
    <3>2. "buy" \in Places /\ "buy" \in Anonymous
      BY DEF Places, Anonymous
    <3>3. Become(Scheduler, [th[Scheduler] EXCEPT !.at = "buy", !.n = Surplus])
      BY <2>2
    <3> QED  BY <1>1, <1>2, <1>3, <3>1, <3>2, <3>3, ThreadCounts, SchedulerIsThread
  <2> QED  BY <2>1, <2>2 DEF SweepDecides
<1> QED  BY <1>2, <1>3, <1>4, QuietStep

-----------------------------------------------------------------------------
(* The steps that place an order or a BUY *)

\* A row is appended, and a thread goes on or leaves.
LEMMA RowSubmitted ==
    ASSUME IInv, NEW t \in Threads, NEW row \in Rows, Appends(rows', rows, row), HasRoom,
           Affordable(row), MovesAlike(Owes(row)), AmountTypes', SameProcess, UNCHANGED offers,
           OtherTypes', NEW next \in {"sold", "bought"}, next = "sold" => th[t].s # NoSignal,
           \/ Leave(t)
           \/ Advance(t, [th[t] EXCEPT !.at = next, !.n = 0], rows')
           \/ Advance(t, [th[t] EXCEPT !.at = next, !.n = 0, !.cur = Len(rows) + 1], rows')
    PROVE  IInv'
<1>1. Money /\ OfferTypes /\ ThreadTypes
  BY IInvParts
<1>2. /\ Money' /\ DOMAIN rows' = DOMAIN rows \cup {Len(rows) + 1}
      /\ Reachable(rows) \subseteq Reachable(rows')
  BY <1>1, RowAppended
<1>3. OfferTypes' /\ approvals' = approvals
  BY <1>1, OffersKept
<1>4. Grows
  BY <1>1, <1>2, <1>3, LengthNat DEF Grows
<1>5. ThreadTypes'
  <2>1. CASE Leave(t)
    BY <1>1, <1>4, <2>1, ThreadLeaves
  <2>2. CASE \/ Advance(t, [th[t] EXCEPT !.at = next, !.n = 0], rows')
             \/ Advance(t, [th[t] EXCEPT !.at = next, !.n = 0, !.cur = Len(rows) + 1], rows')
    <3>1. ThreadOK(th[t], rows', approvals') /\ DOMAIN rows' \subseteq Nat
      BY <1>1, <1>2, <1>4, ThreadStays, DomainNatNext
    <3>2. next \in Places /\ (next \notin Anonymous => th[t].s # NoSignal) /\ next # "bind"
      BY DEF Places, Anonymous
    <3>3. Len(rows) + 1 \in DOMAIN rows' \cup {0}
      BY <1>2
    <3>4. /\ ThreadOK([th[t] EXCEPT !.at = next, !.n = 0], rows', approvals')
          /\ ThreadOK([th[t] EXCEPT !.at = next, !.n = 0, !.cur = Len(rows) + 1], rows', approvals')
      BY <3>1, <3>2, <3>3, ThreadGoes
    <3> QED  BY <1>1, <1>2, <1>4, <2>2, <3>4, ThreadAdvances
  <2> QED  BY <2>1, <2>2
<1> QED  BY <1>2, <1>3, <1>5, IInvPartsNext

LEMMA SubmitIInv ==
    ASSUME IInv, NEW t \in Threads, NEW side \in {"BUY", "SELL"}, NEW n \in Nat,
           side = "BUY" => n <= Reservable,
           NEW next \in {"sold", "bought"}, next = "sold" => th[t].s # NoSignal,
           Submit(t, side, n, next)
    PROVE  IInv'
<1>1. /\ Money /\ OfferTypes /\ ThreadTypes /\ OtherTypes /\ AmountTypes
      /\ Sig(t) \in Signals \cup {NoSignal} /\ Reserved <= RawCash
  BY IInvParts DEF IInv, ThreadTypes, ThreadOK, ThreadRecords, Sig, CashCoversOrders
<1>2. /\ UNCHANGED <<managed, overfilled>> /\ UNCHANGED offers /\ SameProcess /\ turn' = turn
      /\ entry' = entry
  BY DEF Submit, SameProcess, buys
<1>3. CASE Stop(t) /\ UNCHANGED <<rows, hold, faults>>
  <2>1. UNCHANGED sgov /\ UNCHANGED <<turn, faults>> /\ rows' = rows
    BY <1>2, <1>3 DEF sgov
  <2>2. OfferTypes' /\ approvals' = approvals
    BY <1>1, <1>2, OffersKept
  <2> QED  BY <1>1, <1>2, <1>3, <2>1, <2>2, GrowsQuiet, ThreadLeaves, QuietStep
<1>4. CASE HasRoom /\ Place(t, Row(side, Sig(t), n), next)
  <2>1. PICK row : row = Row(side, Sig(t), n)
    OBVIOUS
  <2>2. PICK lost : lost = [row EXCEPT !.status = "UNKNOWN", !.broker = "GONE"]
    OBVIOUS
  <2>3. /\ row \in Rows /\ Owes(row) = 0 /\ Brings(row) = 0 /\ Rest(row) = IF side = "BUY" THEN n ELSE 0
        /\ Filled(row) \in Rows /\ Owes(Filled(row)) = Proceeds(row, n)
        /\ Brings(Filled(row)) = Proceeds(row, n) /\ Rest(Filled(row)) = 0
        /\ lost \in Rows /\ Owes(lost) = 0 /\ Brings(lost) = 0
        /\ Rest(lost) = IF side = "BUY" THEN n ELSE 0
    <3>1. PlacedFacts(row, lost, side, n)
      BY <1>1, <2>1, <2>2, RowPlaced
    <3> QED  BY <3>1 DEF PlacedFacts
  <2>4. row.side = side /\ row.qty = n
    BY <2>1 DEF Row
  <2>5. RawCash \in Int /\ Reserved \in Int /\ (side = "BUY" => RawCash - Reserved >= n)
    BY <1>1, CashTypes
  <2>6. faults \in 0..MaxFaults /\ MaxFaults \in Nat
    BY <1>1, CashAssumption DEF OtherTypes
  <2>7. CASE /\ rows' = Append(rows, row) /\ UNCHANGED <<hold, faults>>
             /\ Advance(t, [th[t] EXCEPT !.at = next, !.n = 0], rows')
    <3>1. Appends(rows', rows, row) /\ OtherTypes'
      BY <1>1, <1>2, <2>7, OthersKept DEF Appends
    <3>2. Affordable(row)
      BY <1>1, <2>3, <2>5 DEF Affordable
    <3>3. MovesAlike(Owes(row)) /\ AmountTypes'
      BY <1>1, <1>2, <2>3, <2>7 DEF MovesAlike, AmountTypes
    <3> QED  BY <1>2, <1>4, <2>3, <2>7, <3>1, <3>2, <3>3, RowSubmitted
  <2>8. CASE /\ row.side = "SELL" => row.qty <= hold
             /\ rows' = Append(rows, Filled(row))
             /\ hold' = IF row.side = "BUY" THEN hold + row.qty ELSE hold - row.qty
             /\ Advance(t, [th[t] EXCEPT !.at = next, !.n = 0, !.cur = Len(rows) + 1], rows')
             /\ UNCHANGED faults
    <3>1. Appends(rows', rows, Filled(row)) /\ OtherTypes'
      BY <1>1, <1>2, <2>8, OthersKept DEF Appends
    <3>2. Affordable(Filled(row))
      BY <1>1, <2>3, <2>4, <2>5 DEF Affordable, Proceeds
    <3>3. MovesAlike(Owes(Filled(row))) /\ AmountTypes'
      BY <1>1, <1>2, <2>3, <2>4, <2>8 DEF MovesAlike, AmountTypes, Proceeds
    <3> QED  BY <1>2, <1>4, <2>3, <2>8, <3>1, <3>2, <3>3, RowSubmitted
  <2>9. CASE /\ IF row.side = "SELL" /\ row.qty > hold THEN UNCHANGED faults
                ELSE faults < MaxFaults /\ faults' = faults + 1
             /\ rows' = Append(rows, lost) /\ Leave(t) /\ UNCHANGED hold
    <3>1. faults' \in 0..MaxFaults
      BY <2>6, <2>9
    <3>2. Appends(rows', rows, lost) /\ OtherTypes'
      BY <1>1, <1>2, <2>9, <3>1 DEF Appends, OtherTypes
    <3>3. Affordable(lost)
      BY <1>1, <2>3, <2>5 DEF Affordable
    <3>4. MovesAlike(Owes(lost)) /\ AmountTypes'
      BY <1>1, <1>2, <2>3, <2>9 DEF MovesAlike, AmountTypes
    <3> QED  BY <1>2, <1>4, <2>3, <2>9, <3>2, <3>3, <3>4, RowSubmitted
  <2> QED
    <3>1. Place(t, row, next)
      BY <1>4, <2>1
    <3> QED  BY <2>2, <2>7, <2>8, <2>9, <3>1 DEF Place
<1> QED
  BY <1>3, <1>4 DEF Submit, HasRoom

LEMMA SellIInv ==
    ASSUME IInv, NEW t \in Threads, Sell(t)
    PROVE  IInv'
<1>1. th[t].s # NoSignal /\ th[t].n \in Nat
  BY PlacesOfSignals, SignalOfThread DEF Sell, At, IInv, ThreadTypes, ThreadOK, ThreadRecords
<1>2. Submit(t, "SELL", th[t].n, "sold")
  BY DEF Sell
<1> QED  BY <1>1, <1>2, SubmitIInv

LEMMA SweepBuyIInv ==
    ASSUME IInv, SweepBuy
    PROVE  IInv'
<1>1. Money /\ OfferTypes /\ ThreadTypes /\ th[Scheduler].n \in Nat
  BY IInvParts, SchedulerIsThread DEF IInv, ThreadTypes, ThreadOK, ThreadRecords
<1>2. CASE th[Scheduler].n <= Reservable /\ Submit(Scheduler, "BUY", th[Scheduler].n, "bought")
  BY <1>1, <1>2, SubmitIInv, SchedulerIsThread
<1>3. CASE Leave(Scheduler) /\ UNCHANGED <<sgov, offers, buys, safe, env>>
  <2>1. /\ UNCHANGED sgov /\ SameProcess /\ UNCHANGED offers /\ UNCHANGED <<turn, faults>>
        /\ rows' = rows
    BY <1>3 DEF SameProcess, buys, env, sgov
  <2>2. OfferTypes' /\ approvals' = approvals
    BY <1>1, <2>1, OffersKept
  <2> QED  BY <1>1, <1>3, <2>1, <2>2, GrowsQuiet, ThreadLeaves, SchedulerIsThread, QuietStep
<1> QED  BY <1>2, <1>3 DEF SweepBuy

LEMMA BuyEntryIInv ==
    ASSUME IInv, NEW t \in Threads, BuyEntry(t)
    PROVE  IInv'
<1>1. /\ Money /\ ThreadTypes /\ OfferTypes /\ OtherTypes /\ th[t].at \notin Anonymous
      /\ Sig(t) \in Signals /\ th[t].s # NoSignal
  BY IInvParts, PlacesOfSignals, SignalOfThread DEF BuyEntry, At
<1>2. /\ UNCHANGED sgov /\ SameCrashed /\ approvals' = approvals /\ UNCHANGED <<turn, faults>>
      /\ rows' = rows
  BY DEF BuyEntry, SameCrashed, env, sgov
<1>3. CASE /\ entry[Sig(t)] = "none" /\ Need[Sig(t)] <= Reservable
           /\ \E status \in {"open", "filled"} : entry' = [entry EXCEPT ![Sig(t)] = status]
           /\ Goto(t, "processed") /\ UNCHANGED intents
  <2>1. PICK new \in {"open", "filled"} : entry' = [entry EXCEPT ![Sig(t)] = new]
    BY <1>3
  <2>2. PaidOrPayable(Sig(t))
    <3>1. Need[Sig(t)] \in Nat
      BY <1>1, CashAssumption
    <3>2. RawCash - Reserved >= Need[Sig(t)]
      BY <1>1, <1>3, <3>1, CashTypes
    <3> QED  BY <1>3, <3>2 DEF PaidOrPayable
  <2>3. Money' /\ entry' \in [Signals -> {"none", "open", "filled"}]
    BY <1>1, <1>2, <2>1, <2>2, EntryWritten
  <2>4. OfferTypes' /\ Grows
    <3>1. UNCHANGED offers
      BY <1>2, <1>3 DEF offers
    <3> QED  BY <1>1, <1>2, <3>1, OffersKept, GrowsQuiet
  <2>5. ThreadTypes'
    <3>1. "processed" \in Places \ {"bind"}
      BY PlacesOfSignals
    <3> QED  BY <1>1, <1>2, <1>3, <2>4, <3>1, ThreadGotoes
  <2>6. OtherTypes'
    BY <1>1, <1>2, <2>3 DEF OtherTypes
  <2> QED  BY <2>3, <2>4, <2>5, <2>6, IInvPartsNext
<1>4. CASE Canceling(t) /\ UNCHANGED entry
  <2>1. SameProcess /\ SetIntent(Sig(t), "CANCELED", 0) /\ Leave(t)
    BY <1>2, <1>4 DEF SameProcess, SameCrashed, Canceling
  <2>2. OfferTypes' /\ Grows
    BY <1>1, <1>2, <2>1, OffersAfter
  <2> QED  BY <1>1, <1>2, <2>1, <2>2, ThreadLeaves, QuietStep
<1> QED  BY <1>3, <1>4 DEF BuyEntry

LEMMA EntryEndsIInv ==
    ASSUME IInv, NEW s \in Signals, EntryEnds(s)
    PROVE  IInv'
<1>1. Money /\ ThreadTypes /\ OfferTypes /\ OtherTypes
  BY IInvParts
<1>2. /\ UNCHANGED sgov /\ SameCrashed /\ UNCHANGED offers /\ UNCHANGED <<turn, faults>>
      /\ rows' = rows /\ th' = th
  BY DEF EntryEnds, SameCrashed, env, sgov
<1>3. PICK new \in {"filled", "none"} : entry' = [entry EXCEPT ![s] = new]
  BY DEF EntryEnds
<1>4. PaidOrPayable(s)
  BY DEF EntryEnds, PaidOrPayable
<1>5. Money' /\ entry' \in [Signals -> {"none", "open", "filled"}]
  BY <1>1, <1>2, <1>3, <1>4, EntryWritten
<1>6. OfferTypes' /\ ThreadTypes'
  BY <1>1, <1>2, OffersKept, GrowsQuiet, ThreadsKept
<1>7. OtherTypes'
  BY <1>1, <1>2, <1>5 DEF OtherTypes
<1> QED  BY <1>5, <1>6, <1>7, IInvPartsNext

\* A fault that changes no amount: a price is not available, or a signal expires.
LEMMA FaultIInv ==
    ASSUME IInv, NEW t \in Threads, UNCHANGED <<sgov, offers, entry, turn, crashed>>,
           faults < MaxFaults, faults' = faults + 1, Leave(t) \/ th' = th
    PROVE  IInv'
<1>1. Money /\ ThreadTypes /\ OfferTypes /\ OtherTypes
  BY IInvParts
<1>2. Money' /\ rows' = rows /\ OfferTypes' /\ approvals' = approvals
  BY <1>1, MoneyKept, OffersKept
<1>3. ThreadTypes'
  BY <1>1, <1>2, GrowsQuiet, ThreadsKept, ThreadLeaves
<1>4. OtherTypes'
  BY <1>1, CashAssumption DEF OtherTypes
<1> QED  BY <1>2, <1>3, <1>4, IInvPartsNext

\* A restart: the broker has the open orders again, and the SGOV of the ledger.
LEMMA CrashIInv ==
    ASSUME IInv, Crash
    PROVE  IInv'
<1>1. /\ Money /\ ThreadTypes /\ OfferTypes /\ OtherTypes /\ rows \in Seq(Rows)
      /\ managed \in Nat /\ Len(rows) <= MaxOrders /\ CashCoversOrders
  BY IInvParts DEF Money, RowTypes, AmountTypes
<1>2. /\ rows' = [i \in DOMAIN rows |-> Restored(rows[i])] /\ hold' = managed /\ overfilled' = 0
      /\ managed' = managed /\ crashed' = TRUE /\ th' = [t \in Threads |-> Idle]
      /\ entry' = entry /\ UNCHANGED offers /\ turn' = "monitor"
      /\ faults < MaxFaults /\ faults' = faults + 1
  BY DEF Crash, buys
<1>3. \A i \in DOMAIN rows : /\ rows[i] \in Rows /\ Restored(rows[i]) \in Rows
                             /\ Brings(Restored(rows[i])) = Brings(rows[i])
                             /\ Rest(Restored(rows[i])) = Rest(rows[i])
  BY <1>1, RowRestored
<1>4. rows' \in Seq(Rows) /\ DOMAIN rows' = DOMAIN rows /\ Len(rows') = Len(rows)
  BY <1>1, <1>2, <1>3
<1>5. Brought(rows') = Brought(rows) /\ Kept(rows') = Kept(rows)
  <2>1. [i \in DOMAIN rows' |-> Brings(rows'[i])] = [i \in DOMAIN rows |-> Brings(rows[i])]
    BY <1>2, <1>3, <1>4
  <2>2. [i \in DOMAIN rows' |-> Rest(rows'[i])] = [i \in DOMAIN rows |-> Rest(rows[i])]
    BY <1>2, <1>3, <1>4
  <2> QED  BY <2>1, <2>2 DEF Brought, Kept, Brings
<1>6. CashCoversOrders'
  <2>1. Bought("filled")' = Bought("filled") /\ Bought("open")' = Bought("open")
    BY <1>2 DEF Bought
  <2>2. RawCash' = RawCash /\ Reserved' = Reserved
    BY <1>5, <2>1, MoneyFormulas, MoneyFormulasNext
  <2> QED  BY <1>1, <2>2 DEF CashCoversOrders
<1>7. Money'
  BY <1>1, <1>2, <1>4, <1>6 DEF Money, RowTypes, AmountTypes, ManagedDiffersByUnappliedFills
<1>8. OfferTypes'
  BY <1>1, <1>2, OffersKept
<1>9. ThreadTypes'
  <2>1. \A t \in Threads : th'[t] = Idle
    BY <1>2
  <2> QED  BY <1>2, <2>1, IdleOK DEF ThreadTypes
<1>10. OtherTypes'
  BY <1>1, <1>2, CashAssumption DEF OtherTypes
<1> QED  BY <1>7, <1>8, <1>9, <1>10, IInvPartsNext

-----------------------------------------------------------------------------
(* The invariant *)

\* An earlier sweep has brought what it has applied, and reserves nothing.
LEMMA SweptRow ==
    ASSUME NEW n \in Nat, NEW row, row = Swept(n)
    PROVE  row \in Rows /\ Brings(row) = 0 - n /\ Rest(row) = 0 /\ Owes(row) = 0
<1>1. /\ row \in RowRecords /\ row.side = "BUY" /\ row.qty = n /\ row.filled = n /\ row.applied = n
      /\ row.status = "FILLED" /\ row.broker = "FILLED"
  BY DEF Swept, Row, RowRecords
<1>2. RowOK(row)
  BY <1>1 DEF RowOK
<1>3. Brings(row) = 0 - n /\ Rest(row) = 0
  BY <1>1 DEF Brings, Rest, Proceeds
<1>4. Owes(row) = 0
  <2>1. row.filled - row.applied = 0 /\ row.side # "SELL" /\ 0 - 0 = 0
    BY <1>1
  <2> QED  BY <2>1 DEF Owes, Proceeds
<1> QED  BY <1>1, <1>2, <1>3, <1>4 DEF Rows

LEMMA EmptyTable ==
    << >> \in Seq(Rows) /\ Len(<< >>) = 0
    /\ Brought(<< >>) = 0 /\ Kept(<< >>) = 0 /\ Due(<< >>) = 0
<1>1. << >> \in Seq(Rows) /\ Len(<< >>) = 0 /\ DOMAIN << >> = {}
  OBVIOUS
<1>2. IsFiniteSet({})
  BY FS_EmptySet
<1>3. ASSUME NEW f \in [{} -> Int]
      PROVE  SumFunction(f) = 0
  BY <1>2, SumOfZeros
<1>4. /\ [i \in DOMAIN << >> |-> Proceeds(<< >>[i], << >>[i].filled)] \in [{} -> Int]
      /\ [i \in DOMAIN << >> |-> Rest(<< >>[i])] \in [{} -> Int]
      /\ [i \in DOMAIN << >> |-> Proceeds(<< >>[i], << >>[i].filled - << >>[i].applied)] \in [{} -> Int]
  BY <1>1
<1> QED  BY <1>1, <1>3, <1>4 DEF Brought, Kept, Due

\* The strategy has bought nothing when the program starts.
LEMMA InitBought ==
    ASSUME Init, NEW status \in {"open", "filled"}
    PROVE  Bought(status) = 0
<1> DEFINE f == [s \in Signals |-> IF entry[s] = status THEN Need[s] ELSE 0]
<1>1. f \in [Signals -> Int] /\ \A s \in Signals : f[s] = 0
  BY CashAssumption DEF Init
<1>2. SumFunction(f) = 0
  <2> HIDE DEF f
  <2> QED  BY <1>1, CashAssumption, SumOfZeros
<1> QED  BY <1>2 DEF Bought

LEMMA InitIInv == Init => IInv
<1> SUFFICES ASSUME Init PROVE IInv
  OBVIOUS
<1>1. PICK n \in {0, Capital} : /\ rows = IF n = 0 THEN << >> ELSE <<Swept(n)>>
                                /\ managed = n /\ hold = n
  BY DEF Init
<1>2. n \in Nat /\ n <= Capital /\ Capital \in Nat
  BY CashAssumption
<1>3. /\ rows \in Seq(Rows) /\ Len(rows) <= 1 /\ Brought(rows) = 0 - n /\ Kept(rows) = 0 /\ Due(rows) = 0
  <2>1. CASE n = 0
    <3>1. rows = << >> /\ 0 - n = 0
      BY <1>1, <2>1
    <3> QED  BY <3>1, EmptyTable
  <2>2. CASE n # 0
    <3>1. PICK row : row = Swept(n)
      OBVIOUS
    <3>2. rows = Append(<< >>, row)
      BY <1>1, <2>2, <3>1
    <3>3. Appends(rows, << >>, row)
      BY <3>2 DEF Appends
    <3>4. row \in Rows /\ Brings(row) = 0 - n /\ Rest(row) = 0 /\ Owes(row) = 0
      BY <1>2, <3>1, SweptRow
    <3>5. /\ rows \in Seq(Rows) /\ Brought(rows) = Brought(<< >>) + Brings(row)
          /\ Kept(rows) = Kept(<< >>) + Rest(row) /\ Due(rows) = Due(<< >>) + Owes(row)
      BY <3>3, <3>4, EmptyTable, AppendSums
    <3>6. Len(rows) = 1
      BY <3>2
    <3>7. Brought(rows) = 0 + (0 - n) /\ Kept(rows) = 0 + 0 /\ Due(rows) = 0 + 0
      BY <3>4, <3>5, EmptyTable
    <3> QED  BY <1>2, <3>5, <3>6, <3>7
  <2> QED  BY <2>1, <2>2
<1>4. RowTypes
  <2>1. Len(rows) \in Nat
    BY <1>3
  <2> QED  BY <1>3, <2>1, CashAssumption DEF RowTypes
<1>5. AmountTypes /\ overfilled = 0
  BY <1>1, <1>2 DEF Init, AmountTypes
<1>6. ManagedDiffersByUnappliedFills
  <2>1. hold = managed + overfilled - Due(rows)
    BY <1>1, <1>2, <1>3, <1>5
  <2> QED  BY <2>1, MoneyFormulas DEF Purse
<1>7. CashCoversOrders
  <2>1. RawCash = Capital + (0 - n) - 0 /\ Reserved = 0 + 0
    BY <1>3, InitBought, MoneyFormulas
  <2> QED  BY <1>2, <2>1 DEF CashCoversOrders
<1>8. OfferTypes
  <2>1. approvals = << >> /\ intents = [s \in Signals |-> [status |-> "NONE", own |-> 0]]
    BY DEF Init
  <2>2. approvals \in Seq(Approvals) /\ Len(approvals) = 0
    BY <2>1
  <2> QED  BY <2>1, <2>2 DEF OfferTypes, IntentOK, Intents
<1>9. ThreadTypes
  <2>1. th = [t \in Threads |-> Idle]
    BY DEF Init
  <2> QED  BY <2>1, IdleOK DEF ThreadTypes
<1>10. OtherTypes
  BY CashAssumption DEF Init, OtherTypes
<1> QED  BY <1>4, <1>5, <1>6, <1>7, <1>8, <1>9, <1>10 DEF IInv

LEMMA NextIInv == IInv /\ [Next]_vars => IInv'
<1> SUFFICES ASSUME IInv, [Next]_vars PROVE IInv'
  OBVIOUS
<1>1. CASE UNCHANGED vars
  <2>1. UNCHANGED sgov /\ SameProcess /\ UNCHANGED offers /\ UNCHANGED <<turn, faults>> /\ th' = th
        /\ rows' = rows
    BY <1>1 DEF vars, SameProcess, buys, env, sgov
  <2>2. OfferTypes' /\ approvals' = approvals
    BY <2>1, IInvParts, OffersKept
  <2> QED  BY <2>1, <2>2, IInvParts, GrowsQuiet, ThreadsKept, QuietStep
<1>2. CASE Round
  <2>1. CASE StartJob \/ Reconcile
    BY <2>1, StartJobIInv, ReconcileIInv
  <2>2. CASE PendingIntents \/ Resumed
    BY <2>2, PendingIntentsIInv, ResumedIInv
  <2>3. CASE \E s \in Signals : Resume(s)
    BY <2>3, ResumeIInv
  <2>4. CASE SweepBegins \/ SweepDecides \/ SweepBuy
    BY <2>4, SweepBeginsIInv, SweepDecidesIInv, SweepBuyIInv
  <2> QED  BY <1>2, <2>1, <2>2, <2>3, <2>4 DEF Round
<1>3. ASSUME NEW t \in Threads, Step(t)
      PROVE  IInv'
  <2>1. CASE \E i \in th[t].todo : Refresh(t, i) \/ CancelRow(t, i) \/ Overfills(t, i)
    BY <2>1, RefreshIInv, CancelRowIInv, OverfillsIInv
  <2>2. CASE \/ EnoughCash(t) \/ NothingToRelease(t) \/ OtherOrders(t) \/ Sold(t) \/ Quote(t)
             \/ Compare(t) \/ CancelIntent(t)
    BY <2>2, QuietSteps
  <2>3. CASE ApplyFill(t) \/ LackOfCash(t) \/ StartRelease(t) \/ Sell(t)
    BY <2>3, ApplyFillIInv, LackOfCashIInv, StartReleaseIInv, SellIInv
  <2>4. CASE Issue(t) \/ Bind(t) \/ BuyEntry(t) \/ Processed(t)
    BY <2>4, IssueIInv, BindIInv, BuyEntryIInv, ProcessedIInv
  <2> QED  BY <1>3, <2>1, <2>2, <2>3, <2>4 DEF Step
<1>4. ASSUME NEW t \in Threads, PriceFails(t)
      PROVE  IInv'
  <2>1. /\ UNCHANGED <<sgov, offers, entry, turn, crashed>> /\ faults < MaxFaults /\ faults' = faults + 1
        /\ Leave(t)
    BY <1>4 DEF PriceFails, buys
  <2> QED  BY <2>1, FaultIInv
<1>5. ASSUME NEW t \in Threads, NEW i \in th[t].todo, Reprice(t, i)
      PROVE  IInv'
  BY <1>5, RepriceIInv
<1>6. ASSUME NEW t \in Handlers, Presses(t)
      PROVE  IInv'
  <2>1. t \in Threads
    BY SchedulerIsThread
  <2>2. CASE \E s \in Signals : Review(t, s) \/ CancelApproval(t, s) \/ CancelRelease(t, s)
    BY <2>1, <2>2, ReviewIInv, CancelApprovalIInv, CancelReleaseIInv
  <2>3. CASE \E a \in DOMAIN approvals : Execute(t, a)
    BY <2>1, <2>3, ExecuteIInv
  <2> QED  BY <1>6, <2>2, <2>3 DEF Presses
<1>7. ASSUME NEW s \in Signals, SignalExpires(s)
      PROVE  IInv'
  <2>1. /\ UNCHANGED <<sgov, offers, entry, turn, crashed>> /\ faults < MaxFaults /\ faults' = faults + 1
        /\ th' = th
    BY <1>7 DEF SignalExpires
  <2> QED  BY <2>1, FaultIInv, SchedulerIsThread
<1> QED
  BY <1>1, <1>2, <1>3, <1>4, <1>5, <1>6, <1>7, EntryEndsIInv, ApprovalExpiresIInv, CrashIInv DEF Next

\* The invariant holds in every state: rows, threads and offers are what they must be,
\* managed SGOV and the broker's differ by fills in flight, and cash covers the orders.
THEOREM Invariance == Spec => []IInv
<1>1. Init => IInv
  BY InitIInv
<1>2. IInv /\ [Next]_vars => IInv'
  BY NextIInv
<1> QED  BY <1>1, <1>2, PTL DEF Spec

\* Managed SGOV never becomes negative and rows and offers keep their types, however many
\* threads refresh, sell, apply and crash (refresh_orders, apply_idle_cash_fill).
THEOREM TypeCorrectness == Spec => []TypeOK
<1>1. IInv => TypeOK
  <2> SUFFICES ASSUME IInv PROVE TypeOK
    OBVIOUS
  <2>1. managed \in Nat /\ hold \in Nat /\ overfilled \in Nat /\ Len(rows) <= MaxOrders /\ faults \in 0..MaxFaults
    BY DEF IInv, AmountTypes, RowTypes, OtherTypes
  <2>2. ASSUME NEW i \in DOMAIN rows
        PROVE  /\ rows[i].status \in {"OPEN", "FILLED", "CANCELED", "UNKNOWN"}
               /\ rows[i].applied \in 0..rows[i].filled
               /\ rows[i].filled \in {0, rows[i].qty}
    <3>1. rows[i] \in Rows
      BY DEF IInv, RowTypes
    <3> QED  BY <3>1, RowShape DEF RowOK
  <2>3. ASSUME NEW s \in Signals
        PROVE  /\ intents[s].status \in {"NONE", "WAITING", "AWAITING", "COMPLETED", "CANCELED", "EXPIRED"}
               /\ intents[s].own \in 0..Len(approvals)
               /\ intents[s].status = "AWAITING" => intents[s].own # 0
               /\ entry[s] \in {"none", "open", "filled"}
    BY DEF IInv, OfferTypes, IntentOK, Intents, OtherTypes
  <2>4. ASSUME NEW a \in DOMAIN approvals
        PROVE  approvals[a].status \in {"ACTIVE", "USED", "ENDED"}
    BY IInvParts, ApprovalRecords
  <2> QED  BY <2>1, <2>2, <2>3, <2>4 DEF TypeOK
<1> QED  BY <1>1, Invariance, PTL

\* Every stored fill of an SGOV order moves managed_qty at most once, whichever of the
\* monitor, the scheduler and the handlers sees it first (apply_idle_cash_fill).
THEOREM FillsAreAppliedOnce == Spec => []ManagedDiffersByUnappliedFills
<1>1. IInv => ManagedDiffersByUnappliedFills
  BY DEF IInv
<1> QED  BY <1>1, Invariance, PTL

\* Sweeps and strategy BUYs that are open together never reserve more than the cash that
\* stored fills have left (reserve_buy_order_with_managed_cash).
THEOREM OrdersAreCovered == Spec => []CashCoversOrders
<1>1. IInv => CashCoversOrders
  BY DEF IInv
<1> QED  BY <1>1, Invariance, PTL
=============================================================================
