------------------------- MODULE CoreBuying_proofs --------------------------
(***************************************************************************)
(* Proofs about CoreBuying, for any handlers, approvals, generations,      *)
(* targets and crashes: whatever the handlers interleave, every BUY was    *)
(* confirmed twice, and for its own quantity (the first part), and the     *)
(* shares held and ordered stay within the frozen target (the second,      *)
(* where the shares of the open rows are a sum over the approvals).        *)
(***************************************************************************)
EXTENDS CoreBuying, Sums, FiniteSetTheorems, TLAPS

\* Records and functions have the fields and the domains of their initial values; what
\* some fields hold (a quantity computed from sums) does not matter here.
IsFun(f, S) == f = [x \in S |-> f[x]]
IsHandler(r) ==
    r = [pc |-> r.pc, op |-> r.op, approval |-> r.approval, signal |-> r.signal,
         plan |-> r.plan, want |-> r.want, quantity |-> r.quantity, outcome |-> r.outcome]
IsApproval(r) ==
    r = [status |-> r.status, stage |-> r.stage, signal |-> r.signal, quantity |-> r.quantity]
IsRow(r) ==
    r = [status |-> r.status, signal |-> r.signal, qty |-> r.qty, filled |-> r.filled,
         applied |-> r.applied]

HandlerShapes == IsFun(h, Handlers) /\ \A t \in Handlers : IsHandler(h[t])
ApprovalShapes == IsFun(approval, Approvals) /\ \A a \in Approvals : IsApproval(approval[a])
RowShapes == IsFun(order, Approvals) /\ \A a \in Approvals : IsRow(order[a])

Busy(t) == h[t].pc # "idle"

\* A handler at work has consumed the approval it works on, at the stage of its
\* operation; past the quote it is an execution of the quantity approved.
HandlerOK(t) ==
    Busy(t) =>
        /\ h[t].approval \in Approvals /\ h[t].op \in {"review", "execute"}
        /\ approval[h[t].approval].status = "USED"
        /\ approval[h[t].approval].signal = h[t].signal
        /\ approval[h[t].approval].stage = IF h[t].op = "review" THEN "REVIEW" ELSE "EXECUTION"
        /\ h[t].pc \in {"recheck", "reserve", "place", "mark"} => h[t].op = "execute"
        /\ h[t].pc \in {"recheck", "reserve", "place"} =>
              h[t].quantity = approval[h[t].approval].quantity
        /\ h[t].pc = "place" => order[h[t].approval].status # "NONE"

\* No two handlers work on one approval.
OneHandler ==
    \A t, u \in Handlers : Busy(t) /\ Busy(u) /\ h[t].approval = h[u].approval => t = u

\* An id that was never issued is not an EXECUTION approval.
Issued == \A a \in Approvals : approval[a].status = "NONE" => approval[a].stage = "REVIEW"

\* The first half of BuysAreApprovedTwice, and what a missing row looks like.
RowsMatchApprovals ==
    \A a \in Approvals :
        /\ order[a].status = "NONE" => order[a].signal = 0
        /\ order[a].status # "NONE" =>
             /\ approval[a].status = "USED" /\ approval[a].stage = "EXECUTION"
             /\ approval[a].signal = order[a].signal /\ approval[a].quantity = order[a].qty

\* Every EXECUTION approval was issued at the end of a review of its own: the reviews that
\* are consumed and that no handler is still working on are at least as many.
Executions(g) ==
    {a \in Approvals : approval[a].stage = "EXECUTION" /\ approval[a].signal = g}
Reviewing(a) == \E t \in Handlers : Busy(t) /\ h[t].op = "review" /\ h[t].approval = a
Reviewed(g) ==
    {a \in Approvals : /\ approval[a].stage = "REVIEW" /\ approval[a].signal = g
                       /\ approval[a].status = "USED" /\ ~Reviewing(a)}
Counted == \A g \in Generations : Cardinality(Executions(g)) <= Cardinality(Reviewed(g))

IInv ==
    /\ HandlerShapes /\ ApprovalShapes /\ RowShapes
    /\ \A t \in Handlers : HandlerOK(t)
    /\ OneHandler /\ Issued /\ RowsMatchApprovals /\ Counted

-----------------------------------------------------------------------------
(* What most steps have in common *)

\* The handler returns, or goes on with the approval it has.
GoesOn(t) ==
    \/ ~Busy(t)'
    \/ /\ Busy(t) /\ h'[t].approval = h[t].approval /\ h'[t].op = h[t].op
       /\ h'[t].signal = h[t].signal
       /\ h'[t].pc \in {"recheck", "reserve", "place", "mark"} => h[t].op = "execute"
       /\ h'[t].pc \in {"recheck", "reserve", "place"} =>
             h'[t].quantity = approval[h[t].approval].quantity
       /\ h'[t].pc = "place" => order'[h[t].approval].status # "NONE"

\* What is used stays, and no EXECUTION approval is issued.
ApprovalsKept ==
    \A a \in Approvals :
        /\ approval[a].status = "USED" =>
             /\ approval'[a].status = "USED" /\ approval'[a].stage = approval[a].stage
             /\ approval'[a].signal = approval[a].signal
             /\ approval'[a].quantity = approval[a].quantity
        /\ approval'[a].stage = "EXECUTION" =>
             approval[a].stage = "EXECUTION" /\ approval'[a].signal = approval[a].signal
        /\ approval'[a].status = "NONE" => approval'[a].stage = "REVIEW"

\* A row keeps what was approved, or is written as it was approved.
RowsKept ==
    \A a \in Approvals :
        /\ order'[a].status = "NONE" => order'[a].signal = 0
        /\ order'[a].status # "NONE" =>
             \/ /\ order[a].status # "NONE"
                /\ order'[a].signal = order[a].signal /\ order'[a].qty = order[a].qty
             \/ /\ approval[a].status = "USED" /\ approval[a].stage = "EXECUTION"
                /\ approval[a].signal = order'[a].signal /\ approval[a].quantity = order'[a].qty

LEMMA FiniteSelections ==
    \A g \in Generations :
        /\ IsFiniteSet(Executions(g)) /\ IsFiniteSet(Reviewed(g))
        /\ Cardinality(Executions(g)) \in Nat /\ Cardinality(Reviewed(g)) \in Nat
<1> SUFFICES ASSUME NEW g \in Generations
             PROVE  /\ IsFiniteSet(Executions(g)) /\ IsFiniteSet(Reviewed(g))
                    /\ Cardinality(Executions(g)) \in Nat /\ Cardinality(Reviewed(g)) \in Nat
  OBVIOUS
<1>1. Executions(g) \subseteq Approvals /\ Reviewed(g) \subseteq Approvals
  BY DEF Executions, Reviewed
<1>2. IsFiniteSet(Executions(g)) /\ IsFiniteSet(Reviewed(g))
  BY <1>1, FS_Subset, BuyingAssumption
<1> QED  BY <1>2, FS_CardinalityType

\* The count holds on while EXECUTION approvals are not issued and reviews are not lost.
LEMMA CountKept ==
    ASSUME Counted,
           \A g \in Generations :
               Executions(g)' \subseteq Executions(g) /\ Reviewed(g) \subseteq Reviewed(g)'
    PROVE  Counted'
<1> SUFFICES ASSUME NEW g \in Generations
             PROVE  Cardinality(Executions(g)') <= Cardinality(Reviewed(g)')
  BY DEF Counted
<1>1. Reviewed(g)' \subseteq Approvals
  BY DEF Reviewed
<1>2. IsFiniteSet(Reviewed(g)')
  BY <1>1, FS_Subset, BuyingAssumption
<1>3. Cardinality(Executions(g)') <= Cardinality(Executions(g)) /\ Cardinality(Executions(g)') \in Nat
  BY FiniteSelections, FS_Subset, FS_CardinalityType
<1>4. Cardinality(Reviewed(g)) <= Cardinality(Reviewed(g)') /\ Cardinality(Reviewed(g)') \in Nat
  BY <1>2, FS_Subset, FS_CardinalityType
<1>5. Cardinality(Executions(g)) <= Cardinality(Reviewed(g))
  BY DEF Counted
<1> QED  BY <1>3, <1>4, <1>5, FiniteSelections

LEMMA KeptStep ==
    ASSUME IInv, HandlerShapes', ApprovalShapes', RowShapes',
           \A t \in Handlers : GoesOn(t), ApprovalsKept, RowsKept
    PROVE  IInv'
<1>1. ASSUME NEW t \in Handlers PROVE HandlerOK(t)'
  BY DEF IInv, GoesOn, HandlerOK, Busy, ApprovalsKept
<1>2. OneHandler'
  BY DEF IInv, OneHandler, GoesOn
<1>3. Issued'
  BY DEF Issued, ApprovalsKept
<1>4. RowsMatchApprovals'
  BY DEF IInv, RowsMatchApprovals, RowsKept, ApprovalsKept
<1>5. Counted'
  <2>1. ASSUME NEW a \in Approvals, Reviewing(a)' PROVE Reviewing(a)
    BY <2>1 DEF Reviewing, GoesOn
  <2>2. ASSUME NEW g \in Generations PROVE Executions(g)' \subseteq Executions(g)
    BY DEF Executions, ApprovalsKept
  <2>3. ASSUME NEW g \in Generations PROVE Reviewed(g) \subseteq Reviewed(g)'
    BY <2>1 DEF Reviewed, ApprovalsKept
  <2> QED  BY <2>2, <2>3, CountKept DEF IInv
<1> QED  BY <1>1, <1>2, <1>3, <1>4, <1>5 DEF IInv

\* Steps that leave approvals, rows or handlers alone.
LEMMA SameApprovals == ASSUME IInv, approval' = approval PROVE ApprovalsKept /\ ApprovalShapes'
BY DEF IInv, ApprovalsKept, ApprovalShapes, Issued
LEMMA SameRows == ASSUME IInv, order' = order PROVE RowsKept /\ RowShapes'
BY DEF IInv, RowsKept, RowShapes, RowsMatchApprovals
LEMMA SameHandlers ==
    ASSUME IInv, h' = h, \A a \in Approvals : order[a].status # "NONE" => order'[a].status # "NONE"
    PROVE  HandlerShapes' /\ \A t \in Handlers : GoesOn(t)
BY DEF IInv, HandlerShapes, GoesOn, HandlerOK, Busy

\* One handler moves on.
LEMMA OneMoves ==
    ASSUME IInv, NEW t \in Handlers, NEW r, IsHandler(r), h' = [h EXCEPT ![t] = r],
           \A a \in Approvals : order[a].status # "NONE" => order'[a].status # "NONE"
    PROVE  /\ HandlerShapes' /\ h'[t] = r
           /\ \A u \in Handlers \ {t} : h'[u] = h[u] /\ GoesOn(u)
<1>1. h'[t] = r /\ \A u \in Handlers \ {t} : h'[u] = h[u]
  BY DEF IInv, HandlerShapes, IsFun
<1>2. HandlerShapes'
  BY <1>1 DEF IInv, HandlerShapes, IsFun
<1>3. \A u \in Handlers \ {t} : GoesOn(u)
  BY <1>1 DEF IInv, GoesOn, HandlerOK, Busy
<1> QED  BY <1>1, <1>2, <1>3

\* A handler that goes on keeps its job.
SameJob(q, r) ==
    q.approval = r.approval /\ q.op = r.op /\ q.signal = r.signal /\ q.quantity = r.quantity

-----------------------------------------------------------------------------
(* Steps *)

LEMMA Initially == Init => IInv
<1> SUFFICES ASSUME Init PROVE IInv
  OBVIOUS
<1>1. HandlerShapes /\ ApprovalShapes /\ RowShapes
  BY DEF Init, HandlerShapes, ApprovalShapes, RowShapes, IsFun, IsHandler, IsApproval, IsRow,
         Idle, Unused, NoRow
<1>2. /\ \A t \in Handlers : ~Busy(t)
      /\ \A a \in Approvals : /\ approval[a].status = "NONE" /\ approval[a].stage = "REVIEW"
                              /\ order[a].status = "NONE" /\ order[a].signal = 0
  BY DEF Init, Busy, Idle, Unused, NoRow
<1>3. Counted
  <2> SUFFICES ASSUME NEW g \in Generations
               PROVE  Cardinality(Executions(g)) <= Cardinality(Reviewed(g))
    BY DEF Counted
  <2>1. Executions(g) = {}
    BY <1>2 DEF Executions
  <2> QED  BY <2>1, FS_EmptySet, FiniteSelections
<1> QED  BY <1>1, <1>2, <1>3 DEF IInv, HandlerOK, OneHandler, Issued, RowsMatchApprovals

\* A quote, the signal's last check and the end of an execution write no approval and no row.
LEMMA HandlerMoves ==
    ASSUME IInv, NEW t \in Handlers,
           \/ QuoteSignal(t) \/ QuoteTarget(t) \/ QuoteFails(t) \/ Recheck(t)
           \/ ReserveFails(t) \/ MarkExecuted(t)
    PROVE  IInv'
<1>1. approval' = approval /\ order' = order
  BY DEF QuoteSignal, QuoteTarget, QuoteFails, Recheck, ReserveFails, MarkExecuted
<1>2. Busy(t) /\ IsHandler(h[t]) /\ HandlerOK(t)
  BY DEF IInv, HandlerShapes, Busy, QuoteSignal, QuoteTarget, QuoteFails, Recheck, ReserveFails,
         MarkExecuted
<1>3. ASSUME NEW r, h' = [h EXCEPT ![t] = r], IsHandler(r),
             \/ r.pc = "idle"
             \/ /\ SameJob(r, h[t])
                /\ \/ r.pc \in {"target", "committed"}
                   \/ h[t].op = "execute" /\ r.pc = "mark"
                   \/ h[t].pc = "recheck" /\ r.pc = "reserve"
      PROVE  IInv'
  <2>1. /\ HandlerShapes' /\ h'[t] = r
        /\ \A u \in Handlers \ {t} : GoesOn(u)
    BY <1>1, <1>3, OneMoves
  <2>2. GoesOn(t)
    BY <1>2, <1>3, <2>1 DEF GoesOn, HandlerOK, Busy, SameJob
  <2> QED  BY <1>1, <2>1, <2>2, KeptStep, SameApprovals, SameRows
<1>4. CASE h' = [h EXCEPT ![t] = Idle]
  <2>1. IsHandler(Idle) /\ Idle.pc = "idle"
    BY DEF IsHandler, Idle
  <2> QED  BY <1>3, <1>4, <2>1
<1>5. CASE QuoteSignal(t) /\ h' # [h EXCEPT ![t] = Idle]
  <2> DEFINE v == planned[h[t].signal]
  <2>1. PICK old, r : old = h[t] /\ r = [old EXCEPT !.pc = "target", !.plan = v]
    OBVIOUS
  <2>2. IsHandler(r) /\ SameJob(r, old) /\ r.pc = "target"
    BY <1>2, <2>1 DEF IsHandler, SameJob
  <2>3. h' = [h EXCEPT ![t] = r]
    BY <1>5, <2>1 DEF QuoteSignal, Return
  <2> QED  BY <1>3, <2>1, <2>2, <2>3
<1>6. CASE QuoteTarget(t)
  <2> DEFINE w == (IF target <= 0 THEN h[t].plan ELSE target) - core
  <2>1. PICK old, r : old = h[t] /\ r = [old EXCEPT !.pc = "committed", !.want = w]
    OBVIOUS
  <2>2. h' = [h EXCEPT ![t] = r]
    BY <1>6, <2>1 DEF QuoteTarget
  <2> HIDE DEF w
  <2>3. IsHandler(r) /\ SameJob(r, old) /\ r.pc = "committed"
    BY <1>2, <2>1 DEF IsHandler, SameJob
  <2> QED  BY <1>3, <2>1, <2>2, <2>3
<1>7. CASE Recheck(t) /\ h' # [h EXCEPT ![t] = Idle]
  <2>1. PICK old, r : old = h[t] /\ r = [old EXCEPT !.pc = "reserve"]
    OBVIOUS
  <2>2. IsHandler(r) /\ SameJob(r, old) /\ r.pc = "reserve"
    BY <1>2, <2>1 DEF IsHandler, SameJob
  <2>3. h' = [h EXCEPT ![t] = r] /\ h[t].pc = "recheck"
    BY <1>7, <2>1 DEF Recheck, Return, Continue
  <2> QED  BY <1>3, <2>1, <2>2, <2>3
<1>8. CASE ReserveFails(t)
  <2>1. PICK old, r : old = h[t] /\ r = [old EXCEPT !.pc = "mark", !.outcome = "ACTIVE"]
    OBVIOUS
  <2>2. IsHandler(r) /\ SameJob(r, old) /\ r.pc = "mark"
    BY <1>2, <2>1 DEF IsHandler, SameJob
  <2>3. h' = [h EXCEPT ![t] = r] /\ h[t].op = "execute"
    BY <1>2, <1>8, <2>1 DEF ReserveFails, HandlerOK, Busy
  <2> QED  BY <1>3, <2>1, <2>2, <2>3
<1> QED  BY <1>4, <1>5, <1>6, <1>7, <1>8 DEF QuoteFails, MarkExecuted, Return

\* One row changes.
LEMMA OneRow ==
    ASSUME IInv, NEW a \in Approvals, NEW r, IsRow(r), order' = [order EXCEPT ![a] = r],
           r.status # "NONE",
           \/ order[a].status # "NONE" /\ r.signal = order[a].signal /\ r.qty = order[a].qty
           \/ /\ approval[a].status = "USED" /\ approval[a].stage = "EXECUTION"
              /\ approval[a].signal = r.signal /\ approval[a].quantity = r.qty
    PROVE  /\ RowShapes' /\ RowsKept /\ order'[a] = r
           /\ \A b \in Approvals : order[b].status # "NONE" => order'[b].status # "NONE"
<1>1. order'[a] = r /\ \A b \in Approvals \ {a} : order'[b] = order[b]
  BY DEF IInv, RowShapes, IsFun
<1>2. RowShapes'
  BY <1>1 DEF IInv, RowShapes, IsFun
<1>3. RowsKept
  BY <1>1 DEF IInv, RowsMatchApprovals, RowsKept
<1> QED  BY <1>1, <1>2, <1>3

\* The reservation and the placement write the row of the approval that is executed.
LEMMA ExecutionSteps ==
    ASSUME IInv, NEW t \in Handlers, Reserve(t) \/ Place(t) \/ PlaceFails(t)
    PROVE  IInv'
<1> DEFINE a == h[t].approval
<1>1. approval' = approval
  BY DEF Reserve, Place, PlaceFails
<1>2. Busy(t) /\ IsHandler(h[t]) /\ HandlerOK(t) /\ a \in Approvals /\ h[t].op = "execute"
      /\ IsRow(order[a])
  BY DEF IInv, HandlerShapes, RowShapes, HandlerOK, Busy, Reserve, Place, PlaceFails
<1>3. ASSUME NEW r, IsHandler(r), NEW q, IsRow(q),
             h' = [h EXCEPT ![t] = r], order' = [order EXCEPT ![a] = q],
             \/ r.pc = "idle" \/ (r.pc \in {"place", "mark"} /\ SameJob(r, h[t])),
             q.status # "NONE",
             \/ order[a].status # "NONE" /\ q.signal = order[a].signal /\ q.qty = order[a].qty
             \/ /\ approval[a].status = "USED" /\ approval[a].stage = "EXECUTION"
                /\ approval[a].signal = q.signal /\ approval[a].quantity = q.qty,
             h[t].quantity = approval[a].quantity
      PROVE  IInv'
  <2>1. /\ RowShapes' /\ RowsKept /\ order'[a] = q
        /\ \A b \in Approvals : order[b].status # "NONE" => order'[b].status # "NONE"
    BY <1>2, <1>3, OneRow
  <2>2. /\ HandlerShapes' /\ h'[t] = r
        /\ \A u \in Handlers \ {t} : GoesOn(u)
    BY <1>3, <2>1, OneMoves
  <2>3. GoesOn(t)
    BY <1>2, <1>3, <2>1, <2>2 DEF GoesOn, HandlerOK, Busy, SameJob
  <2> QED  BY <1>1, <2>1, <2>2, <2>3, KeptStep, SameApprovals
<1>4. CASE Reserve(t)
  <2>1. PICK old, r : old = h[t] /\ r = [old EXCEPT !.pc = "place"]
    OBVIOUS
  <2>2. PICK q : q = [status |-> "CREATED", signal |-> h[t].signal, qty |-> h[t].quantity,
                      filled |-> 0, applied |-> 0]
    OBVIOUS
  <2>3. IsHandler(r) /\ SameJob(r, old) /\ r.pc = "place"
    BY <1>2, <2>1 DEF IsHandler, SameJob
  <2>4. /\ IsRow(q) /\ q.status # "NONE"
        /\ q.signal = h[t].signal /\ q.qty = h[t].quantity
    BY <2>2 DEF IsRow
  <2>5. h' = [h EXCEPT ![t] = r] /\ order' = [order EXCEPT ![a] = q]
    BY <1>4, <2>1, <2>2 DEF Reserve, Continue
  <2>6. /\ approval[a].status = "USED" /\ approval[a].stage = "EXECUTION"
        /\ approval[a].signal = h[t].signal /\ approval[a].quantity = h[t].quantity
    BY <1>2, <1>4 DEF HandlerOK, Reserve
  <2> QED  BY <1>3, <2>1, <2>3, <2>4, <2>5, <2>6
<1>5. CASE Place(t)
  <2>1. PICK n \in 0..order[a].qty, done \in BOOLEAN :
              /\ order' = [order EXCEPT ![a].filled = n,
                                        ![a].status = IF done THEN "DONE" ELSE "PENDING"]
              /\ h' = [h EXCEPT ![t].pc = "mark",
                                ![t].outcome = IF done /\ n < order[a].qty THEN "ACTIVE"
                                                                           ELSE "PROCESSED"]
    BY <1>5 DEF Place
  <2> DEFINE st == IF done THEN "DONE" ELSE "PENDING"
             oc == IF done /\ n < order[a].qty THEN "ACTIVE" ELSE "PROCESSED"
  <2>2. PICK old, r : old = h[t] /\ r = [old EXCEPT !.pc = "mark", !.outcome = oc]
    OBVIOUS
  <2>3. PICK row, q : row = order[a] /\ q = [row EXCEPT !.filled = n, !.status = st]
    OBVIOUS
  <2>4. h' = [h EXCEPT ![t] = r] /\ order' = [order EXCEPT ![a] = q]
    BY <2>1, <2>2, <2>3
  <2>5. st # "NONE"
    OBVIOUS
  <2> HIDE DEF st, oc
  <2>6. IsHandler(r) /\ SameJob(r, old) /\ r.pc = "mark"
    BY <1>2, <2>2 DEF IsHandler, SameJob
  <2>7. IsRow(q) /\ q.status = st /\ q.signal = row.signal /\ q.qty = row.qty
    BY <1>2, <2>3 DEF IsRow
  <2>8. order[a].status # "NONE" /\ h[t].quantity = approval[a].quantity
    BY <1>2, <1>5 DEF HandlerOK, Place
  <2> QED  BY <1>3, <2>2, <2>3, <2>4, <2>5, <2>6, <2>7, <2>8
<1>6. CASE PlaceFails(t)
  <2>1. PICK row, q : row = order[a] /\ q = [row EXCEPT !.status = "UNKNOWN"]
    OBVIOUS
  <2>2. h' = [h EXCEPT ![t] = Idle] /\ order' = [order EXCEPT ![a] = q]
    BY <1>6, <2>1 DEF PlaceFails, Return
  <2>3. IsHandler(Idle) /\ Idle.pc = "idle"
    BY DEF Idle, IsHandler
  <2>4. IsRow(q) /\ q.status = "UNKNOWN" /\ q.signal = row.signal /\ q.qty = row.qty
    BY <1>2, <2>1 DEF IsRow
  <2>5. order[a].status # "NONE" /\ h[t].quantity = approval[a].quantity
    BY <1>2, <1>6 DEF HandlerOK, PlaceFails
  <2> QED  BY <1>3, <2>1, <2>2, <2>3, <2>4, <2>5
<1> QED  BY <1>4, <1>5, <1>6

\* Fills, and the settlement of open orders, change how far a row is and nothing else.
LEMMA RowSteps ==
    ASSUME IInv, (\E a \in Approvals : ApplyFill(a) \/ MonitorRefresh(a)) \/ AllocSettle
    PROVE  IInv'
<1>1. approval' = approval /\ h' = h
  BY DEF ApplyFill, MonitorRefresh, AllocSettle
<1>2. SUFFICES /\ RowShapes' /\ RowsKept
               /\ \A a \in Approvals : order[a].status # "NONE" => order'[a].status # "NONE"
  BY <1>1, <1>2, KeptStep, SameApprovals, SameHandlers
<1>3. ASSUME NEW a \in Approvals, NEW q, IsRow(q), order' = [order EXCEPT ![a] = q],
             (q.status = "NONE") <=> (order[a].status = "NONE"),
             q.signal = order[a].signal, q.qty = order[a].qty
      PROVE  /\ RowShapes' /\ RowsKept
             /\ \A b \in Approvals : order[b].status # "NONE" => order'[b].status # "NONE"
  <2>1. order'[a] = q /\ \A b \in Approvals \ {a} : order'[b] = order[b]
    BY <1>3 DEF IInv, RowShapes, IsFun
  <2>2. RowShapes'
    BY <1>3, <2>1 DEF IInv, RowShapes, IsFun
  <2> QED  BY <1>3, <2>1, <2>2 DEF IInv, RowsKept, RowsMatchApprovals
<1>4. ASSUME NEW a \in Approvals, ApplyFill(a)
      PROVE  /\ RowShapes' /\ RowsKept
             /\ \A b \in Approvals : order[b].status # "NONE" => order'[b].status # "NONE"
  <2> DEFINE n == order[a].filled
  <2>1. PICK row, q : row = order[a] /\ q = [row EXCEPT !.applied = n]
    OBVIOUS
  <2>2. order' = [order EXCEPT ![a] = q]
    BY <1>4, <2>1 DEF ApplyFill
  <2> HIDE DEF n
  <2>3. IsRow(q) /\ q.status = row.status /\ q.signal = row.signal /\ q.qty = row.qty
    <3>1. IsRow(row)
      BY <2>1 DEF IInv, RowShapes
    <3> QED  BY <2>1, <3>1 DEF IsRow
  <2> QED  BY <1>3, <1>4, <2>1, <2>2, <2>3
<1>5. ASSUME NEW a \in Approvals, MonitorRefresh(a)
      PROVE  /\ RowShapes' /\ RowsKept
             /\ \A b \in Approvals : order[b].status # "NONE" => order'[b].status # "NONE"
  <2>1. PICK n \in order[a].filled..order[a].qty, done \in BOOLEAN :
              order' = [order EXCEPT ![a].filled = n,
                                     ![a].status = IF done THEN "DONE" ELSE "PENDING"]
    BY <1>5 DEF MonitorRefresh
  <2> DEFINE st == IF done THEN "DONE" ELSE "PENDING"
  <2>2. PICK row, q : row = order[a] /\ q = [row EXCEPT !.filled = n, !.status = st]
    OBVIOUS
  <2>3. order' = [order EXCEPT ![a] = q] /\ st # "NONE"
    BY <2>1, <2>2
  <2> HIDE DEF st
  <2>4. IsRow(q) /\ q.status = st /\ q.signal = row.signal /\ q.qty = row.qty
    <3>1. IsRow(row)
      BY <2>2 DEF IInv, RowShapes
    <3> QED  BY <2>2, <3>1 DEF IsRow
  <2>5. order[a].status # "NONE"
    BY <1>5 DEF MonitorRefresh
  <2> QED  BY <1>3, <2>2, <2>3, <2>4, <2>5
<1>6. CASE AllocSettle
  <2>1. CASE order' = order
    BY <2>1, SameRows
  <2>2. CASE order' = [a \in Approvals |->
                  IF RowOpen(a) THEN [order[a] EXCEPT !.status = "DONE", !.applied = order[a].filled]
                                ELSE order[a]]
    <3>1. ASSUME NEW a \in Approvals
          PROVE  /\ IsRow(order'[a]) /\ order'[a].signal = order[a].signal
                 /\ order'[a].qty = order[a].qty
                 /\ (order'[a].status = "NONE") <=> (order[a].status = "NONE")
      <4>1. CASE RowOpen(a)
        <5> DEFINE n == order[a].filled
        <5>1. PICK row, q : row = order[a] /\ q = [row EXCEPT !.status = "DONE", !.applied = n]
          OBVIOUS
        <5>2. order'[a] = q
          BY <2>2, <4>1, <5>1
        <5> HIDE DEF n
        <5>3. IsRow(q) /\ q.status = "DONE" /\ q.signal = row.signal /\ q.qty = row.qty
          <6>1. IsRow(row)
            BY <5>1 DEF IInv, RowShapes
          <6> QED  BY <5>1, <6>1 DEF IsRow
        <5> QED  BY <4>1, <5>1, <5>2, <5>3 DEF RowOpen
      <4>2. CASE ~RowOpen(a)
        BY <2>2, <4>2 DEF IInv, RowShapes
      <4> QED  BY <4>1, <4>2
    <3>2. IsFun(order', Approvals)
      BY <2>2 DEF IsFun
    <3>3. RowShapes'
      BY <3>1, <3>2 DEF RowShapes
    <3> QED  BY <3>1, <3>3 DEF IInv, RowsKept, RowsMatchApprovals
  <2> QED  BY <1>6, <2>1, <2>2 DEF AllocSettle
<1> QED  BY <1>4, <1>5, <1>6

\* A button under a signal issues a review, and withdrawing cancels live approvals only.
LEMMA ApprovalSteps ==
    ASSUME IInv, \/ \E g \in Generations : CreateReview(g)
                 \/ \E a \in Approvals : CancelApproval(a)
                 \/ AllocOffer
    PROVE  IInv'
<1>1. order' = order /\ h' = h
  BY DEF CreateReview, CancelApproval, AllocOffer
<1>2. SUFFICES ApprovalShapes' /\ ApprovalsKept
  BY <1>1, <1>2, KeptStep, SameRows, SameHandlers
<1>3. CASE approval' = approval
  BY <1>3, SameApprovals
<1>4. ASSUME NEW g \in Generations, NEW a \in Approvals, approval[a].status = "NONE",
             approval' = [approval EXCEPT ![a] =
                 [status |-> "ACTIVE", stage |-> "REVIEW", signal |-> g, quantity |-> 0]]
      PROVE  ApprovalShapes' /\ ApprovalsKept
  <2>1. PICK q : q = [status |-> "ACTIVE", stage |-> "REVIEW", signal |-> g, quantity |-> 0]
    OBVIOUS
  <2>2. IsApproval(q) /\ q.status = "ACTIVE" /\ q.stage = "REVIEW"
    BY <2>1 DEF IsApproval
  <2>3. approval' = [approval EXCEPT ![a] = q]
    BY <1>4, <2>1
  <2>4. /\ IsFun(approval', Approvals) /\ approval'[a] = q
        /\ \A b \in Approvals \ {a} : approval'[b] = approval[b]
    BY <2>3 DEF IInv, ApprovalShapes, IsFun
  <2> QED  BY <1>4, <2>2, <2>4 DEF IInv, ApprovalShapes, ApprovalsKept, Issued
<1>5. ASSUME NEW g,
             approval' = [b \in Approvals |->
                 IF approval[b].status = "ACTIVE" /\ approval[b].signal = g
                 THEN [approval[b] EXCEPT !.status = "CANCELED"] ELSE approval[b]]
      PROVE  ApprovalShapes' /\ ApprovalsKept
  <2>1. ASSUME NEW b \in Approvals, approval'[b] # approval[b]
        PROVE  /\ IsApproval(approval'[b]) /\ approval'[b].status = "CANCELED"
               /\ approval'[b].stage = approval[b].stage
               /\ approval'[b].signal = approval[b].signal
               /\ approval[b].status = "ACTIVE"
    <3>1. PICK old, q : old = approval[b] /\ q = [old EXCEPT !.status = "CANCELED"]
      OBVIOUS
    <3>2. approval'[b] = q /\ approval[b].status = "ACTIVE"
      BY <1>5, <2>1, <3>1
    <3>3. IsApproval(q) /\ q.status = "CANCELED" /\ q.stage = old.stage /\ q.signal = old.signal
      <4>1. IsApproval(old)
        BY <3>1 DEF IInv, ApprovalShapes
      <4> QED  BY <3>1, <4>1 DEF IsApproval
    <3> QED  BY <3>1, <3>2, <3>3
  <2>2. IsFun(approval', Approvals)
    BY <1>5 DEF IsFun
  <2>3. ASSUME NEW b \in Approvals PROVE IsApproval(approval'[b])
    BY <2>1 DEF IInv, ApprovalShapes
  <2> QED  BY <2>1, <2>2, <2>3 DEF IInv, ApprovalShapes, ApprovalsKept, Issued
<1>6. ASSUME NEW g \in Generations, CreateReview(g) PROVE ApprovalShapes' /\ ApprovalsKept
  BY <1>3, <1>4, <1>6 DEF CreateReview
<1>7. ASSUME NEW a \in Approvals, CancelApproval(a) PROVE ApprovalShapes' /\ ApprovalsKept
  <2>1. PICK g : g = approval[a].signal
    OBVIOUS
  <2> QED  BY <1>5, <1>7, <2>1 DEF CancelApproval
<1>8. CASE AllocOffer
  BY <1>5, <1>8 DEF AllocOffer
<1> QED  BY <1>6, <1>7, <1>8

\* A token is used once: the handler that consumes it is the only one to work on it.
LEMMA ConsumeStep ==
    ASSUME IInv, NEW t \in Handlers, NEW a \in Approvals,
           ConsumeReview(t, a) \/ ConsumeExecution(t, a)
    PROVE  IInv'
<1> DEFINE op == IF ConsumeReview(t, a) THEN "review" ELSE "execute"
<1>1. /\ ~Busy(t) /\ approval[a].status = "ACTIVE" /\ order' = order
      /\ approval' = [approval EXCEPT ![a].status = "USED"]
  BY DEF ConsumeReview, ConsumeExecution, Consume, Consumable, Busy
<1>2. approval[a].stage = IF op = "review" THEN "REVIEW" ELSE "EXECUTION"
  BY DEF ConsumeReview, ConsumeExecution, Consume, Consumable
<1>3. h' = [h EXCEPT ![t] = [Idle EXCEPT !.pc = "quote", !.op = op, !.approval = a,
                                         !.signal = approval[a].signal]]
  BY DEF ConsumeReview, ConsumeExecution, Consume
<1>4. op \in {"review", "execute"}
  OBVIOUS
<1> HIDE DEF op
<1>5. PICK r : r = [Idle EXCEPT !.pc = "quote", !.op = op, !.approval = a,
                                !.signal = approval[a].signal]
  OBVIOUS
<1>6. /\ IsHandler(r) /\ r.pc = "quote" /\ r.op = op /\ r.approval = a
      /\ r.signal = approval[a].signal
  BY <1>5 DEF Idle, IsHandler
<1>7. /\ HandlerShapes' /\ h'[t] = r
      /\ \A u \in Handlers \ {t} : h'[u] = h[u]
  BY <1>1, <1>3, <1>5, <1>6, OneMoves
<1>8. PICK old, q : old = approval[a] /\ q = [old EXCEPT !.status = "USED"]
  OBVIOUS
<1>9. /\ IsApproval(q) /\ q.status = "USED" /\ q.stage = old.stage /\ q.signal = old.signal
      /\ q.quantity = old.quantity
  <2>1. IsApproval(old)
    BY <1>8 DEF IInv, ApprovalShapes
  <2> QED  BY <1>8, <2>1 DEF IsApproval
<1>10. /\ approval'[a] = q /\ \A b \in Approvals \ {a} : approval'[b] = approval[b]
       /\ IsFun(approval', Approvals)
  <2>1. approval' = [approval EXCEPT ![a] = q]
    BY <1>1, <1>8
  <2> QED  BY <2>1 DEF IInv, ApprovalShapes, IsFun
<1>11. ApprovalShapes'
  BY <1>9, <1>10 DEF IInv, ApprovalShapes
<1>12. \A u \in Handlers : Busy(u) => h[u].approval # a
  BY <1>1 DEF IInv, HandlerOK
<1>13. ASSUME NEW u \in Handlers PROVE HandlerOK(u)'
  <2>1. CASE u = t
    BY <1>2, <1>4, <1>6, <1>7, <1>8, <1>9, <1>10, <2>1 DEF HandlerOK
  <2>2. CASE u # t
    <3>1. HandlerOK(u) /\ h'[u] = h[u]
      BY <1>7, <2>2 DEF IInv
    <3>2. Busy(u) => approval'[h[u].approval] = approval[h[u].approval]
      BY <1>10, <1>12, <3>1 DEF HandlerOK
    <3> QED  BY <1>1, <3>1, <3>2 DEF HandlerOK, Busy
  <2> QED  BY <2>1, <2>2
<1>14. OneHandler'
  BY <1>6, <1>7, <1>12 DEF IInv, OneHandler, Busy
<1>15. Issued'
  BY <1>9, <1>10 DEF IInv, Issued
<1>16. RowsMatchApprovals'
  BY <1>1, <1>10 DEF IInv, RowsMatchApprovals
<1>17. Counted'
  <2>1. ASSUME NEW b \in Approvals, b # a, Reviewing(b)' PROVE Reviewing(b)
    BY <1>6, <1>7, <2>1 DEF Reviewing, Busy
  <2>2. ASSUME NEW g \in Generations
        PROVE Executions(g)' \subseteq Executions(g) /\ Reviewed(g) \subseteq Reviewed(g)'
    BY <1>1, <1>8, <1>9, <1>10, <2>1 DEF Executions, Reviewed
  <2> QED  BY <2>2, CountKept DEF IInv
<1> QED  BY <1>1, <1>7, <1>11, <1>13, <1>14, <1>15, <1>16, <1>17, SameRows DEF IInv

\* The quote's last part: a review ends by issuing one EXECUTION approval, and is
\* counted from then on; an execution goes on with the approved quantity.
LEMMA QuoteQuantityStep ==
    ASSUME IInv, NEW t \in Handlers, QuoteQuantity(t)
    PROVE  IInv'
<1>1. order' = order /\ Busy(t) /\ HandlerOK(t) /\ IsHandler(h[t])
  BY DEF IInv, HandlerShapes, Busy, QuoteQuantity
<1>2. ASSUME NEW n, h[t].op = "execute", n = approval[h[t].approval].quantity,
             h' = [h EXCEPT ![t].pc = "recheck", ![t].quantity = n,
                            ![t].plan = 0, ![t].want = 0],
             approval' = approval
      PROVE  IInv'
  <2>1. PICK old, r : old = h[t] /\ r = [old EXCEPT !.pc = "recheck", !.quantity = n,
                                                    !.plan = 0, !.want = 0]
    OBVIOUS
  <2>2. /\ IsHandler(r) /\ r.pc = "recheck" /\ r.quantity = n /\ r.op = old.op
        /\ r.approval = old.approval /\ r.signal = old.signal
    <3>1. IsHandler(old)
      BY <1>1, <2>1
    <3> QED  BY <2>1, <3>1 DEF IsHandler
  <2>3. h' = [h EXCEPT ![t] = r]
    BY <1>2, <2>1
  <2>4. /\ HandlerShapes' /\ h'[t] = r
        /\ \A u \in Handlers \ {t} : GoesOn(u)
    BY <1>1, <2>2, <2>3, OneMoves
  <2>5. GoesOn(t)
    BY <1>1, <1>2, <2>1, <2>2, <2>4 DEF GoesOn, HandlerOK, Busy
  <2> QED  BY <1>1, <1>2, <2>4, <2>5, KeptStep, SameApprovals, SameRows
<1>3. ASSUME NEW n, NEW a \in Approvals, h[t].op = "review", approval[a].status = "NONE",
             approval' = [approval EXCEPT ![a] = [status |-> "ACTIVE", stage |-> "EXECUTION",
                                                  signal |-> h[t].signal, quantity |-> n]],
             h' = [h EXCEPT ![t] = Idle]
      PROVE  IInv'
  <2>0. PICK c : c = h[t].approval
    OBVIOUS
  <2>1. PICK q : q = [status |-> "ACTIVE", stage |-> "EXECUTION",
                      signal |-> h[t].signal, quantity |-> n]
    OBVIOUS
  <2>2. /\ IsApproval(q) /\ q.status = "ACTIVE" /\ q.stage = "EXECUTION"
        /\ q.signal = h[t].signal
    BY <2>1 DEF IsApproval
  <2>3. /\ approval'[a] = q /\ \A b \in Approvals \ {a} : approval'[b] = approval[b]
        /\ IsFun(approval', Approvals)
    BY <1>3, <2>1 DEF IInv, ApprovalShapes, IsFun
  <2>4. ApprovalShapes'
    BY <2>2, <2>3 DEF IInv, ApprovalShapes
  <2>5. IsHandler(Idle) /\ Idle.pc = "idle"
    BY DEF Idle, IsHandler
  <2>6. /\ HandlerShapes' /\ h'[t] = Idle
        /\ \A u \in Handlers \ {t} : h'[u] = h[u]
    BY <1>1, <1>3, <2>5, OneMoves
  <2>7. ASSUME NEW u \in Handlers PROVE HandlerOK(u)'
    <3>1. CASE u = t
      BY <2>5, <2>6, <3>1 DEF HandlerOK, Busy
    <3>2. CASE u # t
      <4>1. HandlerOK(u) /\ h'[u] = h[u]
        BY <2>6, <3>2 DEF IInv
      <4>2. Busy(u) => approval'[h[u].approval] = approval[h[u].approval]
        BY <1>3, <2>3, <4>1 DEF HandlerOK
      <4> QED  BY <1>1, <4>1, <4>2 DEF HandlerOK, Busy
    <3> QED  BY <3>1, <3>2
  <2>8. OneHandler'
    BY <2>5, <2>6 DEF IInv, OneHandler, Busy
  <2>9. Issued' /\ RowsMatchApprovals'
    BY <1>1, <1>3, <2>2, <2>3 DEF IInv, Issued, RowsMatchApprovals
  <2>10. /\ c \in Approvals /\ approval[c].stage = "REVIEW" /\ approval[c].status = "USED"
         /\ approval[c].signal = h[t].signal /\ Reviewing(c) /\ c # a
    BY <1>1, <1>3, <2>0 DEF HandlerOK, Reviewing
  <2>11. ~Reviewing(c)'
    <3>1. ASSUME NEW u \in Handlers, Busy(u)' PROVE h'[u].approval # c
      <4>1. u # t /\ h'[u] = h[u]
        BY <2>5, <2>6, <3>1 DEF Busy
      <4>2. Busy(u)
        BY <3>1, <4>1 DEF Busy
      <4>3. h[u].approval # h[t].approval
        BY <1>1, <4>1, <4>2 DEF IInv, OneHandler
      <4> QED  BY <2>0, <4>1, <4>3
    <3>2. ~\E u \in Handlers : Busy(u)' /\ h'[u].op = "review" /\ h'[u].approval = c
      BY <3>1
    <3> QED  BY <3>2 DEF Reviewing
  <2>12. ASSUME NEW b \in Approvals, Reviewing(b)' PROVE Reviewing(b)
    BY <2>5, <2>6, <2>12 DEF Reviewing, Busy
  <2>13. Counted'
    <3> SUFFICES ASSUME NEW g \in Generations
                 PROVE  Cardinality(Executions(g)') <= Cardinality(Reviewed(g)')
      BY DEF Counted
    <3>1. /\ IsFiniteSet(Executions(g)) /\ IsFiniteSet(Reviewed(g))
          /\ Cardinality(Executions(g)) \in Nat /\ Cardinality(Reviewed(g)) \in Nat
          /\ Cardinality(Executions(g)) <= Cardinality(Reviewed(g))
      BY FiniteSelections DEF IInv, Counted
    <3>2. Executions(g)' \subseteq Approvals /\ Reviewed(g)' \subseteq Approvals
      BY DEF Executions, Reviewed
    <3>3. IsFiniteSet(Executions(g)') /\ IsFiniteSet(Reviewed(g)')
      BY <3>2, FS_Subset, BuyingAssumption
    <3>4. Cardinality(Executions(g)') \in Nat /\ Cardinality(Reviewed(g)') \in Nat
      BY <3>3, FS_CardinalityType
    <3>5. Reviewed(g) \subseteq Reviewed(g)'
      BY <1>3, <2>3, <2>12 DEF Reviewed
    <3>6. CASE g # h[t].signal
      <4>1. Executions(g)' \subseteq Executions(g)
        BY <2>2, <2>3, <3>6 DEF Executions
      <4>2. Cardinality(Executions(g)') <= Cardinality(Executions(g))
        BY <3>1, <4>1, FS_Subset
      <4>3. Cardinality(Reviewed(g)) <= Cardinality(Reviewed(g)')
        BY <3>3, <3>5, FS_Subset
      <4> QED  BY <3>1, <3>4, <4>2, <4>3
    <3>7. CASE g = h[t].signal
      <4>1. Executions(g)' \subseteq Executions(g) \cup {a}
        BY <2>3 DEF Executions
      <4>2. a \notin Executions(g)
        BY <1>3 DEF IInv, Issued, Executions
      <4>3. /\ IsFiniteSet(Executions(g) \cup {a})
            /\ Cardinality(Executions(g) \cup {a}) = Cardinality(Executions(g)) + 1
        BY <3>1, <4>2, FS_AddElement
      <4>4. Cardinality(Executions(g)') <= Cardinality(Executions(g)) + 1
        BY <4>1, <4>3, FS_Subset
      <4>5. c \notin Reviewed(g)
        BY <2>10 DEF Reviewed
      <4>6. Reviewed(g) \cup {c} \subseteq Reviewed(g)'
        <5>1. approval'[c] = approval[c]
          BY <2>3, <2>10
        <5>2. c \in Reviewed(g)'
          BY <2>10, <2>11, <3>7, <5>1 DEF Reviewed
        <5> QED  BY <3>5, <5>2
      <4>7. Cardinality(Reviewed(g) \cup {c}) = Cardinality(Reviewed(g)) + 1
        BY <3>1, <4>5, FS_AddElement
      <4>8. Cardinality(Reviewed(g)) + 1 <= Cardinality(Reviewed(g)')
        BY <3>3, <4>6, <4>7, FS_Subset
      <4> QED  BY <3>1, <3>4, <4>4, <4>8
    <3> QED  BY <3>6, <3>7
  <2> QED  BY <1>1, <2>4, <2>6, <2>7, <2>8, <2>9, <2>13, SameRows DEF IInv
<1> QED  BY <1>2, <1>3 DEF QuoteQuantity, Return

\* Clock, market, signals and targets do not touch what was approved or ordered.
LEMMA EnvironmentSteps ==
    ASSUME IInv, UNCHANGED <<approval, order, h>>
    PROVE  IInv'
BY KeptStep, SameApprovals, SameRows, SameHandlers

\* A crash ends all handlers; approvals and rows are in the database.
LEMMA CrashStep == ASSUME IInv, Crash PROVE IInv'
<1>1. approval' = approval /\ order' = order /\ h' = [t \in Handlers |-> Idle]
  BY DEF Crash
<1>2. IsHandler(Idle) /\ Idle.pc = "idle"
  BY DEF Idle, IsHandler
<1>3. HandlerShapes'
  BY <1>1, <1>2 DEF HandlerShapes, IsFun
<1>4. \A t \in Handlers : GoesOn(t)
  BY <1>1, <1>2 DEF GoesOn, Busy
<1> QED  BY <1>1, <1>3, <1>4, KeptStep, SameApprovals, SameRows

LEMMA Inductive == IInv /\ [Next]_vars => IInv'
<1> SUFFICES ASSUME IInv, [Next]_vars PROVE IInv'
  OBVIOUS
<1>1. ASSUME NEW t \in Handlers, HandlerStep(t) PROVE IInv'
  BY <1>1, HandlerMoves, ExecutionSteps, QuoteQuantityStep DEF HandlerStep
<1>2. ASSUME NEW t \in Handlers, NEW a \in Approvals, ConsumeReview(t, a) \/ ConsumeExecution(t, a)
      PROVE  IInv'
  BY <1>2, ConsumeStep
<1>3. CASE \/ \E g \in Generations : CreateReview(g)
           \/ \E a \in Approvals : CancelApproval(a)
           \/ AllocOffer
  BY <1>3, ApprovalSteps
<1>4. CASE (\E a \in Approvals : ApplyFill(a) \/ MonitorRefresh(a)) \/ AllocSettle
  BY <1>4, RowSteps
<1>5. CASE \/ \E g \in Generations : SignalLapses(g)
           \/ MonitorSettles \/ ExpireStaleSignals \/ AllocInvalidate \/ AllocSetTarget
           \/ AllocFreeze \/ AllocSell \/ SessionStarts \/ ReconciliationAlarm
           \/ UNCHANGED vars
  <2>1. UNCHANGED <<approval, order, h>>
    BY <1>5 DEF SignalLapses, MonitorSettles, ExpireStaleSignals, AllocInvalidate, AllocSetTarget,
       AllocFreeze, AllocSell, SessionStarts, ReconciliationAlarm, vars
  <2> QED  BY <2>1, EnvironmentSteps
<1> QED  BY <1>1, <1>2, <1>3, <1>4, <1>5, CrashStep DEF Next, AllocStep

-----------------------------------------------------------------------------
(* Theorems *)

\* The invariant behind the theorem below: what a handler at work has consumed, and that
\* the reviews done are at least as many as the EXECUTION approvals issued.
THEOREM Invariance == Spec => []IInv
BY Initially, Inductive, PTL DEF Spec

\* Every BUY was confirmed twice, for its quantity, and a signal never has more orders than
\* reviews the operator confirmed, whatever tokens are withdrawn, executed at once or
\* interrupted by a crash.
THEOREM EveryBuyIsApprovedTwice == Spec => []BuysAreApprovedTwice
<1>1. IInv => BuysAreApprovedTwice
  <2> SUFFICES ASSUME IInv PROVE BuysAreApprovedTwice
    OBVIOUS
  <2>1. ASSUME NEW g \in Generations
        PROVE  Cardinality({a \in Approvals : order[a].signal = g})
                 <= Cardinality({a \in Approvals : /\ approval[a].signal = g
                                                   /\ approval[a].stage = "REVIEW"
                                                   /\ approval[a].status = "USED"})
    <3> DEFINE Ordered == {a \in Approvals : order[a].signal = g}
               Confirmed == {a \in Approvals : /\ approval[a].signal = g
                                               /\ approval[a].stage = "REVIEW"
                                               /\ approval[a].status = "USED"}
    <3>1. g # 0
      BY BuyingAssumption DEF Generations
    <3>2. Ordered \subseteq Executions(g)
      BY <3>1 DEF IInv, RowsMatchApprovals, Executions
    <3>3. Reviewed(g) \subseteq Confirmed
      BY DEF Reviewed
    <3>4. IsFiniteSet(Ordered) /\ IsFiniteSet(Confirmed)
      <4>1. Ordered \subseteq Approvals /\ Confirmed \subseteq Approvals
        OBVIOUS
      <4> QED  BY <4>1, FS_Subset, BuyingAssumption
    <3>5. Cardinality(Ordered) \in Nat /\ Cardinality(Confirmed) \in Nat
      BY <3>4, FS_CardinalityType
    <3>6. Cardinality(Ordered) <= Cardinality(Executions(g))
      BY <3>2, FiniteSelections, FS_Subset
    <3>7. Cardinality(Reviewed(g)) <= Cardinality(Confirmed)
      BY <3>3, <3>4, FS_Subset
    <3>8. Cardinality(Executions(g)) <= Cardinality(Reviewed(g))
      BY DEF IInv, Counted
    <3> HIDE DEF Ordered, Confirmed
    <3> SUFFICES Cardinality(Ordered) <= Cardinality(Confirmed)
      BY DEF Ordered, Confirmed
    <3> QED  BY <3>5, <3>6, <3>7, <3>8, FiniteSelections
  <2> QED  BY <2>1 DEF IInv, RowsMatchApprovals, BuysAreApprovedTwice
<1> QED  BY <1>1, Invariance, PTL

-----------------------------------------------------------------------------
(* Shares *)

\* Rows count their shares in order: applied, filled, ordered. A row that is about
\* to be placed has no fill yet.
RowCounts(a) ==
    /\ order[a].status \in {"NONE", "CREATED", "PENDING", "UNKNOWN", "DONE"}
    /\ order[a].qty \in Nat /\ order[a].filled \in Nat /\ order[a].applied \in Nat
    /\ order[a].applied <= order[a].filled /\ order[a].filled <= order[a].qty
    /\ order[a].status = "NONE" => order[a].qty = 0
    /\ order[a].status = "CREATED" => order[a].filled = 0

\* The row of a handler does not exist before it has reserved it.
HandlerCounts(t) ==
    /\ h[t].plan \in Nat /\ h[t].want \in Int /\ h[t].quantity \in Nat
    /\ h[t].outcome \in {"ACTIVE", "PROCESSED"}
    /\ h[t].pc \in {"quote", "target", "committed", "recheck", "reserve"} =>
          order[h[t].approval].status = "NONE"
    /\ h[t].pc = "place" => order[h[t].approval].status = "CREATED"

ApprovalCounts(a) ==
    /\ approval[a].status \in {"NONE", "ACTIVE", "USED", "CANCELED"}
    /\ approval[a].status # "NONE" => approval[a].signal \in Generations

CoreTypes ==
    /\ generation \in Nat /\ generation <= MaxGeneration
    /\ trendActive \in BOOLEAN /\ safe \in BOOLEAN
    /\ frozen \in BOOLEAN /\ started \in BOOLEAN
    /\ target \in 0..MaxTarget /\ core \in Nat /\ base \in Nat

SignalTypes ==
    /\ signal \in [Generations -> {"NONE", "ACTIVE", "PROCESSED", "INVALID", "EXPIRED", "UNKNOWN"}]
    /\ planned \in [Generations -> 0..MaxTarget]

RunTypes ==
    /\ settling \in Approvals \cup {NoApproval} /\ alloc \in {"idle", "settle", "target"}
    /\ alloc # "idle" => generation < MaxGeneration

Counts ==
    /\ CoreTypes /\ SignalTypes /\ RunTypes
    /\ \A a \in Approvals : ApprovalCounts(a) /\ RowCounts(a)
    /\ \A t \in Handlers : HandlerCounts(t)

\* What a step writes into one handler's record, and into one row.
HandlerWrites(t, pc, plan, want, quantity, outcome) ==
    /\ h'[t].pc = pc /\ h'[t].plan = plan /\ h'[t].want = want
    /\ h'[t].quantity = quantity /\ h'[t].outcome = outcome
    /\ h'[t].approval = h[t].approval
    /\ \A u \in Handlers \ {t} : h'[u] = h[u]

RowWrites(a, status, quantity, filled, applied) ==
    /\ order'[a].status = status /\ order'[a].qty = quantity
    /\ order'[a].filled = filled /\ order'[a].applied = applied
    /\ \A b \in Approvals \ {a} : order'[b] = order[b]

LEMMA HandlerGets ==
    ASSUME IInv, NEW t \in Handlers, NEW r, h' = [h EXCEPT ![t] = r],
           r.approval = h[t].approval
    PROVE  HandlerWrites(t, r.pc, r.plan, r.want, r.quantity, r.outcome)
BY DEF IInv, HandlerShapes, IsFun, HandlerWrites

LEMMA RowGets ==
    ASSUME IInv, NEW a \in Approvals, NEW q, order' = [order EXCEPT ![a] = q]
    PROVE  RowWrites(a, q.status, q.qty, q.filled, q.applied)
BY DEF IInv, RowShapes, IsFun, RowWrites

LEMMA ReturnWrites ==
    ASSUME IInv, NEW t \in Handlers, Return(t)
    PROVE  /\ h'[t] = Idle /\ \A u \in Handlers \ {t} : h'[u] = h[u]
BY DEF IInv, HandlerShapes, IsFun, Return

LEMMA ContinueWrites ==
    ASSUME IInv, NEW t \in Handlers, NEW pc, Continue(t, pc)
    PROVE  HandlerWrites(t, pc, h[t].plan, h[t].want, h[t].quantity, h[t].outcome)
<1>1. PICK old, r : old = h[t] /\ r = [old EXCEPT !.pc = pc]
  OBVIOUS
<1>2. IsHandler(old)
  BY <1>1 DEF IInv, HandlerShapes
<1>3. /\ r.pc = pc /\ r.plan = old.plan /\ r.want = old.want /\ r.quantity = old.quantity
      /\ r.outcome = old.outcome /\ r.approval = old.approval
  BY <1>1, <1>2 DEF IsHandler
<1>4. h' = [h EXCEPT ![t] = r]
  BY <1>1 DEF Continue
<1>5. HandlerWrites(t, r.pc, r.plan, r.want, r.quantity, r.outcome)
  BY <1>1, <1>3, <1>4, HandlerGets
<1> QED  BY <1>1, <1>3, <1>5

\* A handler at work, and the approval and the row it works on.
LEMMA AtWork ==
    ASSUME IInv, NEW t \in Handlers, Busy(t)
    PROVE  /\ h[t].approval \in Approvals /\ IsHandler(h[t])
           /\ IsRow(order[h[t].approval])
           /\ approval[h[t].approval].status = "USED"
           /\ approval[h[t].approval].signal = h[t].signal
           /\ \A u \in Handlers \ {t} : Busy(u) => h[u].approval # h[t].approval
BY DEF IInv, HandlerOK, HandlerShapes, RowShapes, OneHandler

LEMMA ReserveWrites ==
    ASSUME IInv, NEW t \in Handlers, Reserve(t)
    PROVE  /\ Busy(t) /\ h[t].pc = "reserve"
           /\ HandlerWrites(t, "place", h[t].plan, h[t].want, h[t].quantity, h[t].outcome)
           /\ RowWrites(h[t].approval, "CREATED", h[t].quantity, 0, 0)
<1>1. Busy(t) /\ h[t].pc = "reserve"
  BY DEF Reserve, Busy
<1>2. PICK q : q = [status |-> "CREATED", signal |-> h[t].signal, qty |-> h[t].quantity,
                    filled |-> 0, applied |-> 0]
  OBVIOUS
<1>3. order' = [order EXCEPT ![h[t].approval] = q] /\ Continue(t, "place")
  BY <1>2 DEF Reserve
<1>4. q.status = "CREATED" /\ q.qty = h[t].quantity /\ q.filled = 0 /\ q.applied = 0
  BY <1>2
<1>5. RowWrites(h[t].approval, q.status, q.qty, q.filled, q.applied)
  BY <1>1, <1>3, AtWork, RowGets
<1> QED  BY <1>1, <1>3, <1>4, <1>5, ContinueWrites

LEMMA PlaceWrites ==
    ASSUME IInv, NEW t \in Handlers, Place(t)
    PROVE  /\ Busy(t) /\ h[t].pc = "place"
           /\ \E n \in 0..order[h[t].approval].qty, st \in {"DONE", "PENDING"},
                 oc \in {"ACTIVE", "PROCESSED"} :
                 /\ HandlerWrites(t, "mark", h[t].plan, h[t].want, h[t].quantity, oc)
                 /\ RowWrites(h[t].approval, st, order[h[t].approval].qty, n,
                              order[h[t].approval].applied)
<1>1. Busy(t) /\ h[t].pc = "place"
  BY DEF Place, Busy
<1>2. PICK a : a = h[t].approval
  OBVIOUS
<1>3. PICK n \in 0..order[a].qty, done \in BOOLEAN :
              /\ order' = [order EXCEPT ![a].filled = n,
                                        ![a].status = IF done THEN "DONE" ELSE "PENDING"]
              /\ h' = [h EXCEPT ![t].pc = "mark",
                                ![t].outcome = IF done /\ n < order[a].qty THEN "ACTIVE"
                                                                           ELSE "PROCESSED"]
  BY <1>2 DEF Place
<1>4. PICK st \in {"DONE", "PENDING"}, oc \in {"ACTIVE", "PROCESSED"} :
          /\ st = IF done THEN "DONE" ELSE "PENDING"
          /\ oc = IF done /\ n < order[a].qty THEN "ACTIVE" ELSE "PROCESSED"
  OBVIOUS
<1>5. PICK old, r : old = h[t] /\ r = [old EXCEPT !.pc = "mark", !.outcome = oc]
  OBVIOUS
<1>6. PICK row, q : row = order[a] /\ q = [row EXCEPT !.filled = n, !.status = st]
  OBVIOUS
<1>7. h' = [h EXCEPT ![t] = r] /\ order' = [order EXCEPT ![a] = q]
  BY <1>3, <1>4, <1>5, <1>6
<1>8. IsHandler(old) /\ IsRow(row) /\ a \in Approvals
  BY <1>1, <1>2, <1>5, <1>6, AtWork
<1>9. /\ r.pc = "mark" /\ r.plan = old.plan /\ r.want = old.want /\ r.quantity = old.quantity
      /\ r.outcome = oc /\ r.approval = old.approval
  BY <1>5, <1>8 DEF IsHandler
<1>10. q.status = st /\ q.qty = row.qty /\ q.filled = n /\ q.applied = row.applied
  BY <1>6, <1>8 DEF IsRow
<1>11. HandlerWrites(t, r.pc, r.plan, r.want, r.quantity, r.outcome)
  BY <1>5, <1>7, <1>9, HandlerGets
<1>12. RowWrites(a, q.status, q.qty, q.filled, q.applied)
  BY <1>7, <1>8, RowGets
<1>13. HandlerWrites(t, "mark", h[t].plan, h[t].want, h[t].quantity, oc)
  BY <1>5, <1>9, <1>11
<1>14. RowWrites(a, st, order[a].qty, n, order[a].applied)
  BY <1>6, <1>10, <1>12
<1> QED  BY <1>1, <1>2, <1>13, <1>14

LEMMA PlaceFailsWrites ==
    ASSUME IInv, NEW t \in Handlers, PlaceFails(t)
    PROVE  /\ Busy(t) /\ h[t].pc = "place" /\ Return(t)
           /\ RowWrites(h[t].approval, "UNKNOWN", order[h[t].approval].qty,
                        order[h[t].approval].filled, order[h[t].approval].applied)
<1>1. Busy(t) /\ h[t].pc = "place" /\ Return(t)
  BY DEF PlaceFails, Busy
<1>2. PICK row, q : row = order[h[t].approval] /\ q = [row EXCEPT !.status = "UNKNOWN"]
  OBVIOUS
<1>3. order' = [order EXCEPT ![h[t].approval] = q]
  BY <1>2 DEF PlaceFails
<1>4. IsRow(row) /\ h[t].approval \in Approvals
  BY <1>1, <1>2, AtWork
<1>5. /\ q.status = "UNKNOWN" /\ q.qty = row.qty /\ q.filled = row.filled
      /\ q.applied = row.applied
  BY <1>2, <1>4 DEF IsRow
<1>6. RowWrites(h[t].approval, q.status, q.qty, q.filled, q.applied)
  BY <1>3, <1>4, RowGets
<1> QED  BY <1>1, <1>2, <1>5, <1>6

LEMMA ApplyFillWrites ==
    ASSUME IInv, NEW a \in Approvals, ApplyFill(a)
    PROVE  RowWrites(a, order[a].status, order[a].qty, order[a].filled, order[a].filled)
<1>1. PICK n : n = order[a].filled
  OBVIOUS
<1>2. PICK row, q : row = order[a] /\ q = [row EXCEPT !.applied = n]
  OBVIOUS
<1>3. order' = [order EXCEPT ![a] = q]
  BY <1>1, <1>2 DEF ApplyFill
<1>4. IsRow(row)
  BY <1>2 DEF IInv, RowShapes
<1>5. q.status = row.status /\ q.qty = row.qty /\ q.filled = row.filled /\ q.applied = n
  BY <1>2, <1>4 DEF IsRow
<1>6. RowWrites(a, q.status, q.qty, q.filled, q.applied)
  BY <1>3, RowGets
<1> QED  BY <1>1, <1>2, <1>5, <1>6

LEMMA MonitorRefreshWrites ==
    ASSUME IInv, NEW a \in Approvals, MonitorRefresh(a)
    PROVE  \E n \in order[a].filled..order[a].qty, st \in {"DONE", "PENDING"} :
              RowWrites(a, st, order[a].qty, n, order[a].applied)
<1>1. PICK n \in order[a].filled..order[a].qty, done \in BOOLEAN :
            order' = [order EXCEPT ![a].filled = n,
                                   ![a].status = IF done THEN "DONE" ELSE "PENDING"]
  BY DEF MonitorRefresh
<1>2. PICK st \in {"DONE", "PENDING"} : st = IF done THEN "DONE" ELSE "PENDING"
  OBVIOUS
<1>3. PICK row, q : row = order[a] /\ q = [row EXCEPT !.filled = n, !.status = st]
  OBVIOUS
<1>4. order' = [order EXCEPT ![a] = q]
  BY <1>1, <1>2, <1>3
<1>5. IsRow(row)
  BY <1>3 DEF IInv, RowShapes
<1>6. q.status = st /\ q.qty = row.qty /\ q.filled = n /\ q.applied = row.applied
  BY <1>3, <1>5 DEF IsRow
<1>7. RowWrites(a, q.status, q.qty, q.filled, q.applied)
  BY <1>4, RowGets
<1> QED  BY <1>3, <1>6, <1>7

\* The settlement ends every open row with what it has filled.
SettledRow(a) ==
    /\ order'[a].qty = order[a].qty /\ order'[a].filled = order[a].filled
    /\ RowOpen(a) => order'[a].status = "DONE" /\ order'[a].applied = order[a].filled
    /\ ~RowOpen(a) => order'[a].status = order[a].status /\ order'[a].applied = order[a].applied

LEMMA AllocSettleWrites ==
    ASSUME IInv, AllocSettle
    PROVE  \/ order' = order /\ core' = core
           \/ /\ \A a \in Approvals : order[a].status \notin {"CREATED", "UNKNOWN"} /\ SettledRow(a)
              /\ core' = core + SumFunction([a \in Approvals |-> order'[a].applied - order[a].applied])
<1>1. CASE \E a \in Approvals : order[a].status \in {"CREATED", "UNKNOWN"}
  BY <1>1 DEF AllocSettle
<1>2. CASE ~\E a \in Approvals : order[a].status \in {"CREATED", "UNKNOWN"}
  <2>1. /\ order' = [a \in Approvals |->
               IF RowOpen(a) THEN [order[a] EXCEPT !.status = "DONE", !.applied = order[a].filled]
                             ELSE order[a]]
        /\ core' = core + SumFunction([a \in Approvals |-> order'[a].applied - order[a].applied])
    BY <1>2 DEF AllocSettle
  <2>2. ASSUME NEW a \in Approvals
        PROVE  SettledRow(a)
    <3>1. CASE RowOpen(a)
      <4>1. PICK n : n = order[a].filled
        OBVIOUS
      <4>2. PICK row, q : row = order[a] /\ q = [row EXCEPT !.status = "DONE", !.applied = n]
        OBVIOUS
      <4>3. order'[a] = q
        BY <2>1, <3>1, <4>1, <4>2
      <4>4. IsRow(row)
        BY <4>2 DEF IInv, RowShapes
      <4>5. q.status = "DONE" /\ q.qty = row.qty /\ q.filled = row.filled /\ q.applied = n
        BY <4>2, <4>4 DEF IsRow
      <4> QED  BY <3>1, <4>1, <4>2, <4>3, <4>5 DEF SettledRow
    <3>2. CASE ~RowOpen(a)
      BY <2>1, <3>2 DEF SettledRow
    <3> QED  BY <3>1, <3>2
  <2> QED  BY <1>2, <2>1, <2>2
<1> QED  BY <1>1, <1>2

-----------------------------------------------------------------------------
(* Rows and handlers keep their counts *)

RowsCount == \A a \in Approvals : RowCounts(a)

\* Rows that are missing or about to be placed stay so, except the one at hand.
PendingKept(a) ==
    \A b \in Approvals \ {a} :
        order[b].status \in {"NONE", "CREATED"} => order'[b].status = order[b].status

LEMMA OtherHandlersCount ==
    ASSUME IInv, Counts, NEW t \in Handlers, HandlerCounts(t)',
           \A u \in Handlers \ {t} : h'[u] = h[u],
           (Busy(t) /\ PendingKept(h[t].approval)) \/ order' = order
    PROVE  \A u \in Handlers : HandlerCounts(u)'
<1> SUFFICES ASSUME NEW u \in Handlers \ {t} PROVE HandlerCounts(u)'
  OBVIOUS
<1>1. h'[u] = h[u] /\ HandlerCounts(u)
  BY DEF Counts
<1>2. CASE order' = order
  BY <1>1, <1>2 DEF HandlerCounts
<1>3. CASE Busy(u) /\ Busy(t) /\ PendingKept(h[t].approval)
  <2>1. h[u].approval \in Approvals \ {h[t].approval}
    BY <1>3, AtWork
  <2> QED  BY <1>1, <1>3, <2>1 DEF HandlerCounts, PendingKept
<1>4. CASE ~Busy(u)
  BY <1>1, <1>4 DEF HandlerCounts, Busy
<1> QED  BY <1>2, <1>3, <1>4

LEMMA NoHandlerMoves ==
    ASSUME IInv, Counts, h' = h,
           \A b \in Approvals :
               order[b].status \in {"NONE", "CREATED"} => order'[b].status = order[b].status
    PROVE  \A u \in Handlers : HandlerCounts(u)'
<1> SUFFICES ASSUME NEW u \in Handlers PROVE HandlerCounts(u)'
  OBVIOUS
<1>1. h'[u] = h[u] /\ HandlerCounts(u)
  BY DEF Counts
<1>2. CASE Busy(u)
  <2>1. h[u].approval \in Approvals
    BY <1>2, AtWork
  <2> QED  BY <1>1, <2>1 DEF HandlerCounts
<1>3. CASE ~Busy(u)
  BY <1>1, <1>3 DEF HandlerCounts, Busy
<1> QED  BY <1>2, <1>3

LEMMA IdleCounts ==
    /\ Idle.pc = "idle" /\ Idle.plan = 0 /\ Idle.want = 0 /\ Idle.quantity = 0
    /\ Idle.outcome = "ACTIVE" /\ Idle.approval = NoApproval
BY DEF Idle

LEMMA OtherRowsCount ==
    ASSUME Counts, NEW a \in Approvals, RowCounts(a)',
           \A b \in Approvals \ {a} : order'[b] = order[b]
    PROVE  RowsCount'
BY DEF RowsCount, RowCounts, Counts

LEMMA ReserveCounts ==
    ASSUME IInv, Counts, NEW t \in Handlers, Reserve(t)
    PROVE  RowsCount' /\ \A u \in Handlers : HandlerCounts(u)'
<1>1. PICK a \in Approvals : a = h[t].approval
  BY ReserveWrites, AtWork
<1>2. /\ Busy(t) /\ h[t].pc = "reserve"
      /\ HandlerWrites(t, "place", h[t].plan, h[t].want, h[t].quantity, h[t].outcome)
      /\ RowWrites(a, "CREATED", h[t].quantity, 0, 0)
  BY <1>1, ReserveWrites
<1>3. HandlerCounts(t)
  BY DEF Counts
<1>4. HandlerCounts(t)'
  BY <1>1, <1>2, <1>3 DEF HandlerCounts, HandlerWrites, RowWrites
<1>5. RowCounts(a)'
  BY <1>2, <1>3 DEF HandlerCounts, RowWrites, RowCounts
<1>6. RowsCount'
  BY <1>2, <1>5, OtherRowsCount DEF RowWrites
<1>7. PendingKept(h[t].approval) /\ \A u \in Handlers \ {t} : h'[u] = h[u]
  BY <1>1, <1>2 DEF PendingKept, RowWrites, HandlerWrites
<1> QED  BY <1>2, <1>4, <1>6, <1>7, OtherHandlersCount

LEMMA PlaceCounts ==
    ASSUME IInv, Counts, NEW t \in Handlers, Place(t)
    PROVE  RowsCount' /\ \A u \in Handlers : HandlerCounts(u)'
<1>1. PICK a \in Approvals : a = h[t].approval
  BY PlaceWrites, AtWork
<1>2. Busy(t) /\ h[t].pc = "place"
  BY PlaceWrites
<1>3. PICK n \in 0..order[a].qty, st \in {"DONE", "PENDING"}, oc \in {"ACTIVE", "PROCESSED"} :
          /\ HandlerWrites(t, "mark", h[t].plan, h[t].want, h[t].quantity, oc)
          /\ RowWrites(a, st, order[a].qty, n, order[a].applied)
  BY <1>1, PlaceWrites
<1>4. HandlerCounts(t) /\ RowCounts(a)
  BY DEF Counts
<1>5. HandlerCounts(t)'
  BY <1>3, <1>4 DEF HandlerCounts, HandlerWrites
<1>6. order[a].status = "CREATED" /\ order[a].filled = 0 /\ order[a].applied = 0
      /\ order[a].qty \in Nat
  BY <1>1, <1>2, <1>4 DEF HandlerCounts, RowCounts
<1>7. RowCounts(a)'
  BY <1>3, <1>6 DEF RowWrites, RowCounts
<1>8. RowsCount'
  BY <1>3, <1>7, OtherRowsCount DEF RowWrites
<1>9. PendingKept(h[t].approval) /\ \A u \in Handlers \ {t} : h'[u] = h[u]
  BY <1>1, <1>3 DEF PendingKept, RowWrites, HandlerWrites
<1> QED  BY <1>2, <1>5, <1>8, <1>9, OtherHandlersCount

LEMMA PlaceFailsCounts ==
    ASSUME IInv, Counts, NEW t \in Handlers, PlaceFails(t)
    PROVE  RowsCount' /\ \A u \in Handlers : HandlerCounts(u)'
<1>1. PICK a \in Approvals : a = h[t].approval
  BY PlaceFailsWrites, AtWork
<1>2. /\ Busy(t) /\ h[t].pc = "place"
      /\ RowWrites(a, "UNKNOWN", order[a].qty, order[a].filled, order[a].applied)
      /\ h'[t] = Idle /\ \A u \in Handlers \ {t} : h'[u] = h[u]
  BY <1>1, PlaceFailsWrites, ReturnWrites
<1>3. HandlerCounts(t) /\ RowCounts(a)
  BY DEF Counts
<1>4. HandlerCounts(t)'
  BY <1>2, IdleCounts DEF HandlerCounts
<1>5. RowCounts(a)'
  BY <1>1, <1>2, <1>3 DEF HandlerCounts, RowWrites, RowCounts
<1>6. RowsCount'
  BY <1>2, <1>5, OtherRowsCount DEF RowWrites
<1>7. PendingKept(h[t].approval)
  BY <1>1, <1>2 DEF PendingKept, RowWrites
<1> QED  BY <1>2, <1>4, <1>6, <1>7, OtherHandlersCount

LEMMA FillCounts ==
    ASSUME IInv, Counts, NEW a \in Approvals, ApplyFill(a) \/ MonitorRefresh(a)
    PROVE  RowsCount' /\ \A u \in Handlers : HandlerCounts(u)'
<1>1. RowCounts(a) /\ h' = h
  BY DEF Counts, ApplyFill, MonitorRefresh
<1>2. /\ RowCounts(a)' /\ \A b \in Approvals \ {a} : order'[b] = order[b]
      /\ order[a].status \notin {"NONE", "CREATED"} \/ order'[a].status = order[a].status
  <2>1. CASE ApplyFill(a)
    <3>1. /\ order[a].applied < order[a].filled
          /\ RowWrites(a, order[a].status, order[a].qty, order[a].filled, order[a].filled)
      BY <2>1, ApplyFillWrites DEF ApplyFill
    <3> QED  BY <1>1, <3>1 DEF RowWrites, RowCounts
  <2>2. CASE MonitorRefresh(a)
    <3>1. PICK n \in order[a].filled..order[a].qty, st \in {"DONE", "PENDING"} :
              RowWrites(a, st, order[a].qty, n, order[a].applied)
      BY <2>2, MonitorRefreshWrites
    <3>2. order[a].status = "PENDING"
      BY <2>2 DEF MonitorRefresh
    <3> QED  BY <1>1, <3>1, <3>2 DEF RowWrites, RowCounts
  <2> QED  BY <2>1, <2>2
<1>3. RowsCount'
  BY <1>2, OtherRowsCount
<1> QED  BY <1>1, <1>2, <1>3, NoHandlerMoves

LEMMA SettleCounts ==
    ASSUME IInv, Counts, AllocSettle
    PROVE  RowsCount' /\ \A u \in Handlers : HandlerCounts(u)'
<1>1. h' = h /\ RowsCount
  BY DEF AllocSettle, Counts, RowsCount
<1>2. CASE order' = order
  BY <1>1, <1>2, NoHandlerMoves DEF RowsCount, RowCounts
<1>3. CASE \A a \in Approvals : order[a].status \notin {"CREATED", "UNKNOWN"} /\ SettledRow(a)
  <2>1. \A a \in Approvals : RowCounts(a)'
    BY <1>1, <1>3 DEF RowsCount, RowCounts, SettledRow, RowOpen
  <2>2. \A b \in Approvals :
            order[b].status \in {"NONE", "CREATED"} => order'[b].status = order[b].status
    BY <1>3 DEF SettledRow, RowOpen
  <2> QED  BY <1>1, <2>1, <2>2, NoHandlerMoves DEF RowsCount
<1> QED  BY <1>2, <1>3, AllocSettleWrites

\* Shares of a BUY that are ordered or filled and not yet in the ledger.
Left(a) == IF RowOpen(a) THEN order[a].qty - order[a].applied ELSE order[a].filled - order[a].applied

LEMMA LeftType == ASSUME NEW a \in Approvals, RowCounts(a) PROVE Left(a) \in Nat
BY DEF Left, RowCounts

CommittedIsNat == Committed \in Nat

LEMMA CommittedType == RowsCount => CommittedIsNat
<1> SUFFICES ASSUME RowsCount PROVE Committed \in Nat
  BY DEF CommittedIsNat
<1> DEFINE f == [a \in Approvals |-> Left(a)]
<1>1. f \in [Approvals -> Int] /\ \A a \in Approvals : f[a] >= 0
  BY LeftType DEF RowsCount
<1>2. SumFunction(f) \in Nat
  <2> HIDE DEF f
  <2> QED  BY <1>1, BuyingAssumption, SumNat
<1> QED  BY <1>2 DEF Committed, Left

LEMMA CommittedTypeNext == RowsCount' => CommittedIsNat'
BY CommittedType, PTL

\* Steps of a handler that leave the rows alone.
LEMMA OneHandlerCounts ==
    ASSUME IInv, Counts, NEW t \in Handlers, order' = order, HandlerCounts(t)',
           \A u \in Handlers \ {t} : h'[u] = h[u]
    PROVE  RowsCount' /\ \A u \in Handlers : HandlerCounts(u)'
BY OtherHandlersCount DEF Counts, RowsCount, RowCounts

LEMMA ReturnCounts ==
    ASSUME IInv, Counts, NEW t \in Handlers, order' = order, Return(t)
    PROVE  RowsCount' /\ \A u \in Handlers : HandlerCounts(u)'
<1>1. h'[t] = Idle /\ \A u \in Handlers \ {t} : h'[u] = h[u]
  BY ReturnWrites
<1>2. HandlerCounts(t)'
  BY <1>1, IdleCounts DEF HandlerCounts
<1> QED  BY <1>1, <1>2, OneHandlerCounts

LEMMA QuoteCounts ==
    ASSUME IInv, Counts, NEW t \in Handlers,
           \/ QuoteSignal(t) \/ QuoteTarget(t) \/ QuoteQuantity(t) \/ QuoteFails(t)
           \/ Recheck(t) \/ ReserveFails(t) \/ MarkExecuted(t)
    PROVE  RowsCount' /\ \A u \in Handlers : HandlerCounts(u)'
<1>1. order' = order /\ Busy(t)
  BY DEF Busy, QuoteSignal, QuoteTarget, QuoteQuantity, QuoteFails, Recheck, ReserveFails,
         MarkExecuted
<1>2. IsHandler(h[t]) /\ h[t].approval \in Approvals /\ HandlerCounts(t)
      /\ h[t].signal \in Generations
  <2>1. ApprovalCounts(h[t].approval)
    BY <1>1, AtWork DEF Counts
  <2> QED  BY <1>1, <2>1, AtWork DEF Counts, ApprovalCounts
<1>3. CASE Return(t)
  BY <1>1, <1>3, ReturnCounts
<1>4. CASE QuoteSignal(t) /\ ~Return(t)
  <2>1. PICK v : v = planned[h[t].signal]
    OBVIOUS
  <2>2. PICK old, r : old = h[t] /\ r = [old EXCEPT !.pc = "target", !.plan = v]
    OBVIOUS
  <2>3. h' = [h EXCEPT ![t] = r] /\ h[t].pc = "quote"
    BY <1>4, <2>1, <2>2 DEF QuoteSignal
  <2>4. /\ r.pc = "target" /\ r.plan = v /\ r.want = old.want /\ r.quantity = old.quantity
        /\ r.outcome = old.outcome /\ r.approval = old.approval
    BY <1>2, <2>2 DEF IsHandler
  <2>5. HandlerWrites(t, r.pc, r.plan, r.want, r.quantity, r.outcome)
    BY <2>2, <2>3, <2>4, HandlerGets
  <2>6. v \in Nat
    BY <1>2, <2>1 DEF Counts, SignalTypes
  <2>7. HandlerCounts(t)'
    BY <1>1, <1>2, <2>2, <2>3, <2>4, <2>5, <2>6 DEF HandlerCounts, HandlerWrites
  <2> QED  BY <1>1, <2>5, <2>7, OneHandlerCounts DEF HandlerWrites
<1>5. CASE QuoteTarget(t)
  <2>1. PICK w : w = (IF target <= 0 THEN h[t].plan ELSE target) - core
    OBVIOUS
  <2>2. PICK old, r : old = h[t] /\ r = [old EXCEPT !.pc = "committed", !.want = w]
    OBVIOUS
  <2>3. h' = [h EXCEPT ![t] = r] /\ h[t].pc = "target"
    BY <1>5, <2>1, <2>2 DEF QuoteTarget
  <2>4. /\ r.pc = "committed" /\ r.plan = old.plan /\ r.want = w /\ r.quantity = old.quantity
        /\ r.outcome = old.outcome /\ r.approval = old.approval
    BY <1>2, <2>2 DEF IsHandler
  <2>5. HandlerWrites(t, r.pc, r.plan, r.want, r.quantity, r.outcome)
    BY <2>2, <2>3, <2>4, HandlerGets
  <2>6. w \in Int
    BY <1>2, <2>1 DEF Counts, CoreTypes, HandlerCounts
  <2>7. HandlerCounts(t)'
    BY <1>1, <1>2, <2>2, <2>3, <2>4, <2>5, <2>6 DEF HandlerCounts, HandlerWrites
  <2> QED  BY <1>1, <2>5, <2>7, OneHandlerCounts DEF HandlerWrites
<1>6. CASE QuoteQuantity(t) /\ ~Return(t)
  <2>1. PICK n \in 1..Quotable(t) :
            h' = [h EXCEPT ![t].pc = "recheck", ![t].quantity = n, ![t].plan = 0, ![t].want = 0]
    BY <1>6 DEF QuoteQuantity
  <2>2. n \in Nat
    <3>1. Quotable(t) \in Int
      <4>1. Committed \in Nat
        BY CommittedType DEF Counts, RowsCount, CommittedIsNat
      <4> QED  BY <1>2, <4>1 DEF Quotable, Least, HandlerCounts
    <3> QED  BY <3>1
  <2>3. PICK m \in Nat : m = n
    BY <2>2
  <2>4. PICK old, r : old = h[t] /\ r = [old EXCEPT !.pc = "recheck", !.quantity = m,
                                                    !.plan = 0, !.want = 0]
    OBVIOUS
  <2>5. h' = [h EXCEPT ![t] = r] /\ h[t].pc = "committed"
    BY <1>6, <2>1, <2>3, <2>4 DEF QuoteQuantity
  <2>6. /\ r.pc = "recheck" /\ r.plan = 0 /\ r.want = 0 /\ r.quantity = m
        /\ r.outcome = old.outcome /\ r.approval = old.approval
    BY <1>2, <2>4 DEF IsHandler
  <2>7. HandlerWrites(t, r.pc, r.plan, r.want, r.quantity, r.outcome)
    BY <2>4, <2>5, <2>6, HandlerGets
  <2>8. HandlerCounts(t)'
    BY <1>1, <1>2, <2>4, <2>5, <2>6, <2>7 DEF HandlerCounts, HandlerWrites
  <2> QED  BY <1>1, <2>7, <2>8, OneHandlerCounts DEF HandlerWrites
<1>7. CASE Recheck(t) /\ ~Return(t)
  <2>1. h[t].pc = "recheck" /\ Continue(t, "reserve")
    BY <1>7 DEF Recheck
  <2>2. HandlerWrites(t, "reserve", h[t].plan, h[t].want, h[t].quantity, h[t].outcome)
    BY <2>1, ContinueWrites
  <2>3. HandlerCounts(t)'
    BY <1>1, <1>2, <2>1, <2>2 DEF HandlerCounts, HandlerWrites
  <2> QED  BY <1>1, <2>2, <2>3, OneHandlerCounts DEF HandlerWrites
<1>8. CASE ReserveFails(t)
  <2>1. PICK old, r : old = h[t] /\ r = [old EXCEPT !.pc = "mark", !.outcome = "ACTIVE"]
    OBVIOUS
  <2>2. h' = [h EXCEPT ![t] = r]
    BY <1>8, <2>1 DEF ReserveFails
  <2>3. /\ r.pc = "mark" /\ r.plan = old.plan /\ r.want = old.want /\ r.quantity = old.quantity
        /\ r.outcome = "ACTIVE" /\ r.approval = old.approval
    BY <1>2, <2>1 DEF IsHandler
  <2>4. HandlerWrites(t, r.pc, r.plan, r.want, r.quantity, r.outcome)
    BY <2>1, <2>2, <2>3, HandlerGets
  <2>5. HandlerCounts(t)'
    BY <1>1, <1>2, <2>1, <2>3, <2>4 DEF HandlerCounts, HandlerWrites
  <2> QED  BY <1>1, <2>4, <2>5, OneHandlerCounts DEF HandlerWrites
<1> QED
  BY <1>3, <1>4, <1>5, <1>6, <1>7, <1>8 DEF QuoteFails, MarkExecuted

LEMMA ConsumeCounts ==
    ASSUME IInv, Counts, NEW t \in Handlers, NEW a \in Approvals,
           ConsumeReview(t, a) \/ ConsumeExecution(t, a)
    PROVE  RowsCount' /\ \A u \in Handlers : HandlerCounts(u)'
<1>1. order' = order /\ approval[a].status = "ACTIVE" /\ order[a].status = "NONE"
  BY DEF ConsumeReview, ConsumeExecution, Consume, Consumable, IInv, RowsMatchApprovals
<1>2. PICK op : h' = [h EXCEPT ![t] = [Idle EXCEPT !.pc = "quote", !.op = op, !.approval = a,
                                                   !.signal = approval[a].signal]]
  BY DEF ConsumeReview, ConsumeExecution, Consume
<1>3. PICK g : g = approval[a].signal
  OBVIOUS
<1>4. PICK r : r = [Idle EXCEPT !.pc = "quote", !.op = op, !.approval = a, !.signal = g]
  OBVIOUS
<1>5. /\ r.pc = "quote" /\ r.plan = 0 /\ r.want = 0 /\ r.quantity = 0 /\ r.outcome = "ACTIVE"
      /\ r.approval = a
  BY <1>4 DEF Idle
<1>6. h'[t] = r /\ \A u \in Handlers \ {t} : h'[u] = h[u]
  <2>1. h' = [h EXCEPT ![t] = r]
    BY <1>2, <1>3, <1>4
  <2> QED  BY <2>1 DEF IInv, HandlerShapes, IsFun
<1>7. HandlerCounts(t)'
  BY <1>1, <1>5, <1>6 DEF HandlerCounts
<1> QED  BY <1>1, <1>6, <1>7, OneHandlerCounts

\* Approvals are issued for signals that exist.
ApprovalsCount == \A a \in Approvals : ApprovalCounts(a)

LEMMA CanceledCounts ==
    ASSUME IInv, ApprovalsCount, NEW g,
           approval' = [b \in Approvals |->
               IF approval[b].status = "ACTIVE" /\ approval[b].signal = g
               THEN [approval[b] EXCEPT !.status = "CANCELED"] ELSE approval[b]]
    PROVE  ApprovalsCount'
<1> SUFFICES ASSUME NEW b \in Approvals PROVE ApprovalCounts(b)'
  BY DEF ApprovalsCount
<1>1. CASE approval'[b] = approval[b]
  BY <1>1 DEF ApprovalsCount, ApprovalCounts
<1>2. CASE approval'[b] # approval[b]
  <2>1. PICK old, q : old = approval[b] /\ q = [old EXCEPT !.status = "CANCELED"]
    OBVIOUS
  <2>2. approval'[b] = q /\ old.status = "ACTIVE"
    BY <1>2, <2>1
  <2>3. IsApproval(old)
    BY <2>1 DEF IInv, ApprovalShapes
  <2>4. q.status = "CANCELED" /\ q.signal = old.signal
    BY <2>1, <2>3 DEF IsApproval
  <2> QED  BY <2>1, <2>2, <2>4 DEF ApprovalsCount, ApprovalCounts
<1> QED  BY <1>1, <1>2

LEMMA ApprovalStepCounts ==
    ASSUME IInv, Counts, [Next]_vars
    PROVE  ApprovalsCount'
<1>1. ApprovalsCount
  BY DEF Counts, ApprovalsCount
<1>2. ASSUME approval' = approval
      PROVE  ApprovalsCount'
  BY <1>1, <1>2 DEF ApprovalsCount, ApprovalCounts
<1>3. ASSUME NEW a \in Approvals, NEW q, approval' = [approval EXCEPT ![a] = q],
             q.status \in {"ACTIVE", "USED"}, q.signal \in Generations
      PROVE  ApprovalsCount'
  <2>1. approval'[a] = q /\ \A b \in Approvals \ {a} : approval'[b] = approval[b]
    BY <1>3 DEF IInv, ApprovalShapes, IsFun
  <2> QED  BY <1>1, <1>3, <2>1 DEF ApprovalsCount, ApprovalCounts
<1>4. ASSUME NEW g \in Generations, CreateReview(g)
      PROVE  ApprovalsCount'
  <2>1. CASE approval' # approval
    <3>1. PICK a \in Approvals : approval' = [approval EXCEPT ![a] =
              [status |-> "ACTIVE", stage |-> "REVIEW", signal |-> g, quantity |-> 0]]
      BY <1>4, <2>1 DEF CreateReview
    <3>2. PICK q : q = [status |-> "ACTIVE", stage |-> "REVIEW", signal |-> g, quantity |-> 0]
      OBVIOUS
    <3>3. q.status = "ACTIVE" /\ q.signal = g
      BY <3>2
    <3> QED  BY <1>3, <3>1, <3>2, <3>3
  <2> QED  BY <1>2, <2>1
<1>5. ASSUME NEW a \in Approvals, CancelApproval(a)
      PROVE  ApprovalsCount'
  <2>1. PICK g : g = approval[a].signal
    OBVIOUS
  <2> QED  BY <1>1, <1>5, <2>1, CanceledCounts DEF CancelApproval
<1>6. AllocOffer => ApprovalsCount'
  BY <1>1, CanceledCounts DEF AllocOffer
<1>7. ASSUME NEW t \in Handlers, NEW a \in Approvals, ConsumeReview(t, a) \/ ConsumeExecution(t, a)
      PROVE  ApprovalsCount'
  <2>1. approval' = [approval EXCEPT ![a].status = "USED"] /\ approval[a].status = "ACTIVE"
    BY <1>7 DEF ConsumeReview, ConsumeExecution, Consume, Consumable
  <2>2. PICK old, q : old = approval[a] /\ q = [old EXCEPT !.status = "USED"]
    OBVIOUS
  <2>3. approval' = [approval EXCEPT ![a] = q]
    BY <2>1, <2>2
  <2>4. q.status = "USED" /\ q.signal = old.signal
    <3>1. IsApproval(old)
      BY <2>2 DEF IInv, ApprovalShapes
    <3> QED  BY <2>2, <3>1 DEF IsApproval
  <2>5. q.signal \in Generations
    BY <1>1, <2>1, <2>2, <2>4 DEF ApprovalsCount, ApprovalCounts
  <2> QED  BY <1>3, <2>3, <2>4, <2>5
<1>8. ASSUME NEW t \in Handlers, QuoteQuantity(t)
      PROVE  ApprovalsCount'
  <2>1. CASE approval' # approval
    <3>1. PICK n \in 1..Quotable(t), a \in Approvals : approval' = [approval EXCEPT ![a] =
              [status |-> "ACTIVE", stage |-> "EXECUTION", signal |-> h[t].signal, quantity |-> n]]
      BY <1>8, <2>1 DEF QuoteQuantity
    <3>2. PICK q : q = [status |-> "ACTIVE", stage |-> "EXECUTION", signal |-> h[t].signal,
                        quantity |-> n]
      OBVIOUS
    <3>3. q.status = "ACTIVE" /\ q.signal = h[t].signal
      BY <3>2
    <3>4. h[t].signal \in Generations
      <4>1. Busy(t)
        BY <1>8 DEF QuoteQuantity, Busy
      <4> QED  BY <1>1, <4>1, AtWork DEF ApprovalsCount, ApprovalCounts
    <3> QED  BY <1>3, <3>1, <3>2, <3>3, <3>4
  <2> QED  BY <1>2, <2>1
<1>9. ASSUME NEW t \in Handlers, HandlerStep(t), ~QuoteQuantity(t)
      PROVE  approval' = approval
  BY <1>9 DEF HandlerStep, QuoteSignal, QuoteTarget, QuoteFails, Recheck, Reserve, ReserveFails,
              Place, PlaceFails, MarkExecuted
<1>10. ASSUME \/ \E a \in Approvals : ApplyFill(a) \/ MonitorRefresh(a)
              \/ \E g \in Generations : SignalLapses(g)
              \/ MonitorSettles \/ ExpireStaleSignals \/ AllocInvalidate \/ AllocSettle
              \/ AllocSetTarget \/ AllocFreeze \/ AllocSell \/ SessionStarts
              \/ ReconciliationAlarm \/ Crash \/ UNCHANGED vars
       PROVE  approval' = approval
  BY <1>10 DEF ApplyFill, MonitorRefresh, SignalLapses, MonitorSettles, ExpireStaleSignals,
               AllocInvalidate, AllocSettle, AllocSetTarget, AllocFreeze, AllocSell, SessionStarts,
               ReconciliationAlarm, Crash, vars
<1> QED
  BY <1>2, <1>4, <1>5, <1>6, <1>7, <1>8, <1>9, <1>10 DEF Next, AllocStep

\* Rows and handlers at every step.
LEMMA RowStepCounts ==
    ASSUME IInv, Counts, [Next]_vars
    PROVE  RowsCount' /\ \A t \in Handlers : HandlerCounts(t)'
<1>1. ASSUME NEW t \in Handlers, HandlerStep(t)
      PROVE  RowsCount' /\ \A u \in Handlers : HandlerCounts(u)'
  BY <1>1, QuoteCounts, ReserveCounts, PlaceCounts, PlaceFailsCounts DEF HandlerStep
<1>2. ASSUME NEW a \in Approvals, ApplyFill(a) \/ MonitorRefresh(a)
      PROVE  RowsCount' /\ \A u \in Handlers : HandlerCounts(u)'
  BY <1>2, FillCounts
<1>3. ASSUME h' = h, order' = order
      PROVE  RowsCount' /\ \A u \in Handlers : HandlerCounts(u)'
  BY <1>3 DEF Counts, RowsCount, RowCounts, HandlerCounts
<1>4. ASSUME \/ \E g \in Generations : CreateReview(g) \/ SignalLapses(g)
             \/ \E a \in Approvals : CancelApproval(a)
             \/ MonitorSettles \/ ExpireStaleSignals \/ AllocInvalidate
             \/ AllocSetTarget \/ AllocFreeze \/ AllocSell \/ AllocOffer \/ SessionStarts
             \/ ReconciliationAlarm \/ UNCHANGED vars
      PROVE  h' = h /\ order' = order
  BY <1>4 DEF CreateReview, SignalLapses, CancelApproval, MonitorSettles, ExpireStaleSignals,
              AllocInvalidate, AllocSetTarget, AllocFreeze, AllocSell, AllocOffer, SessionStarts,
              ReconciliationAlarm, vars
<1>5. Crash => RowsCount' /\ \A u \in Handlers : HandlerCounts(u)'
  <2> SUFFICES ASSUME Crash PROVE RowsCount' /\ \A u \in Handlers : HandlerCounts(u)'
    OBVIOUS
  <2>1. order' = order /\ h' = [t \in Handlers |-> Idle]
    BY DEF Crash
  <2>2. RowsCount'
    BY <2>1 DEF Counts, RowsCount, RowCounts
  <2>3. ASSUME NEW u \in Handlers PROVE h'[u] = Idle
    BY <2>1
  <2> QED  BY <2>2, <2>3, IdleCounts DEF HandlerCounts
<1> QED
  BY <1>1, <1>2, <1>3, <1>4, <1>5, ConsumeCounts, SettleCounts DEF Next, AllocStep

-----------------------------------------------------------------------------
(* Shares held and ordered *)

LEMMA CommittedOf == Committed = SumFunction([a \in Approvals |-> Left(a)])
BY DEF Committed, Left

LEMMA CommittedOfNext == Committed' = SumFunction([a \in Approvals |-> Left(a)'])
BY DEF Committed, Left

\* One row changes.
LEMMA CommittedMoves ==
    ASSUME RowsCount, RowsCount', NEW a \in Approvals,
           \A b \in Approvals \ {a} : order'[b] = order[b]
    PROVE  Committed' = Committed + (Left(a)' - Left(a)) /\ Committed \in Nat /\ Committed' \in Nat
<1> DEFINE f == [b \in Approvals |-> Left(b)]
           g == [b \in Approvals |-> Left(b)']
<1>1. \A b \in Approvals : Left(b) \in Nat /\ Left(b)' \in Nat
  BY DEF RowsCount, RowCounts, Left, RowOpen
<1>2. f \in [Approvals -> Int] /\ g \in [Approvals -> Int]
  BY <1>1
<1>3. \A b \in Approvals \ {a} : g[b] = f[b]
  BY DEF Left, RowOpen
<1>4. SumFunction(g) = SumFunction(f) + (g[a] - f[a])
  <2> HIDE DEF f, g
  <2> QED  BY <1>2, <1>3, BuyingAssumption, SumChange
<1>5. g[a] = Left(a)' /\ f[a] = Left(a)
  OBVIOUS
<1>6. Committed = SumFunction(f) /\ Committed' = SumFunction(g)
  BY CommittedOf, CommittedOfNext
<1>7. Committed \in Nat /\ Committed' \in Nat
  BY CommittedType, CommittedTypeNext DEF CommittedIsNat
<1> HIDE DEF f, g
<1> QED  BY <1>4, <1>5, <1>6, <1>7

\* The settlement moves fills into the ledger and gives up the rest.
LEMMA SettleKeepsTotal ==
    ASSUME IInv, Counts, RowsCount', AllocSettle
    PROVE  core' \in Nat /\ core' + Committed' <= core + Committed
<1>1. core \in Nat /\ RowsCount
  BY DEF Counts, CoreTypes, RowsCount
<1>2. Committed \in Nat /\ Committed' \in Nat
  BY <1>1, CommittedType, CommittedTypeNext DEF CommittedIsNat
<1>3. CASE order' = order /\ core' = core
  <2>1. Committed' = Committed
    BY <1>3 DEF Committed, RowOpen
  <2> QED  BY <1>1, <1>2, <1>3, <2>1
<1>4. CASE /\ \A a \in Approvals : SettledRow(a)
           /\ core' = core + SumFunction([a \in Approvals |-> order'[a].applied - order[a].applied])
  <2> DEFINE f == [a \in Approvals |-> Left(a)]
             g == [a \in Approvals |-> Left(a)']
             d == [a \in Approvals |-> order'[a].applied - order[a].applied]
             k == [a \in Approvals |-> (order'[a].applied - order[a].applied) + Left(a)']
  <2>1. \A a \in Approvals :
            /\ Left(a) \in Nat /\ Left(a)' \in Nat
            /\ order'[a].applied - order[a].applied \in Nat
            /\ (order'[a].applied - order[a].applied) + Left(a)' <= Left(a)
    <3> SUFFICES ASSUME NEW a \in Approvals
                 PROVE  /\ Left(a) \in Nat /\ Left(a)' \in Nat
                        /\ order'[a].applied - order[a].applied \in Nat
                        /\ (order'[a].applied - order[a].applied) + Left(a)' <= Left(a)
      OBVIOUS
    <3>1. RowCounts(a) /\ RowCounts(a)' /\ SettledRow(a)
      BY <1>1, <1>4 DEF RowsCount
    <3> QED  BY <3>1 DEF RowCounts, SettledRow, Left, RowOpen
  <2>2. /\ f \in [Approvals -> Int] /\ g \in [Approvals -> Int]
        /\ d \in [Approvals -> Int] /\ k \in [Approvals -> Int]
    BY <2>1
  <2>3. \A a \in Approvals : k[a] = d[a] + g[a] /\ k[a] <= f[a] /\ d[a] >= 0
    BY <2>1
  <2>4. Committed = SumFunction(f) /\ Committed' = SumFunction(g) /\ core' = core + SumFunction(d)
    BY <1>4, CommittedOf, CommittedOfNext
  <2>5. /\ SumFunction(k) = SumFunction(d) + SumFunction(g)
        /\ SumFunction(k) <= SumFunction(f) /\ SumFunction(d) \in Nat
    <3> HIDE DEF f, g, d, k
    <3> QED  BY <2>2, <2>3, BuyingAssumption, SumsAddUp, SumMonotone, SumNat
  <2> HIDE DEF f, g, d, k
  <2> QED  BY <1>1, <1>2, <2>4, <2>5
<1> QED  BY <1>3, <1>4, AllocSettleWrites

\* A fill moves shares from the rows into the ledger, a refresh and the end of an
\* order only give some up.
LEMMA FillKeepsTotal ==
    ASSUME IInv, Counts, RowsCount', NEW a \in Approvals,
           \/ ApplyFill(a) \/ MonitorRefresh(a)
           \/ \E t \in Handlers : h[t].approval = a /\ (Place(t) \/ PlaceFails(t))
    PROVE  core' \in Nat /\ core' + Committed' <= core + Committed
<1>1. core \in Nat /\ RowsCount /\ RowCounts(a)
  BY DEF Counts, CoreTypes, RowsCount
<1>2. CASE ApplyFill(a)
  <2>1. /\ RowWrites(a, order[a].status, order[a].qty, order[a].filled, order[a].filled)
        /\ core' = core + (order[a].filled - order[a].applied)
    BY <1>2, ApplyFillWrites DEF ApplyFill
  <2>2. Left(a)' = Left(a) - (order[a].filled - order[a].applied) /\ Left(a) \in Nat
    BY <1>1, <2>1 DEF Left, RowOpen, RowWrites, RowCounts
  <2>3. Committed' = Committed + (Left(a)' - Left(a)) /\ Committed \in Nat /\ Committed' \in Nat
    BY <1>1, <2>1, CommittedMoves DEF RowWrites
  <2>4. order[a].filled - order[a].applied \in Nat
    BY <1>1 DEF RowCounts
  <2> QED  BY <1>1, <2>1, <2>2, <2>3, <2>4
<1>3. CASE MonitorRefresh(a) \/ \E t \in Handlers : h[t].approval = a /\ (Place(t) \/ PlaceFails(t))
  <2>1. core' = core
    BY <1>3 DEF MonitorRefresh, Place, PlaceFails, coreVars
  <2>2. \E n \in 0..order[a].qty, st \in {"DONE", "PENDING", "UNKNOWN"} :
            /\ RowWrites(a, st, order[a].qty, n, order[a].applied)
            /\ order[a].applied <= n /\ RowOpen(a)
    <3>1. CASE MonitorRefresh(a)
      <4>1. PICK n \in order[a].filled..order[a].qty, st \in {"DONE", "PENDING"} :
                RowWrites(a, st, order[a].qty, n, order[a].applied)
        BY <3>1, MonitorRefreshWrites
      <4>2. n \in 0..order[a].qty /\ order[a].applied <= n
        BY <1>1, <4>1 DEF RowCounts
      <4> QED  BY <3>1, <4>1, <4>2 DEF MonitorRefresh, RowOpen
    <3>2. ASSUME NEW t \in Handlers, h[t].approval = a, Place(t)
          PROVE  \E n \in 0..order[a].qty, st \in {"DONE", "PENDING", "UNKNOWN"} :
                    /\ RowWrites(a, st, order[a].qty, n, order[a].applied)
                    /\ order[a].applied <= n /\ RowOpen(a)
      <4>1. h[t].pc = "place" /\ HandlerCounts(t)
        BY <3>2, PlaceWrites DEF Counts
      <4>2. order[a].status = "CREATED" /\ order[a].applied = 0
        BY <1>1, <3>2, <4>1 DEF HandlerCounts, RowCounts
      <4>3. PICK n \in 0..order[a].qty, st \in {"DONE", "PENDING"} :
                RowWrites(a, st, order[a].qty, n, order[a].applied)
        BY <3>2, PlaceWrites
      <4> QED  BY <1>1, <4>2, <4>3 DEF RowOpen, RowCounts
    <3>3. ASSUME NEW t \in Handlers, h[t].approval = a, PlaceFails(t)
          PROVE  \E n \in 0..order[a].qty, st \in {"DONE", "PENDING", "UNKNOWN"} :
                    /\ RowWrites(a, st, order[a].qty, n, order[a].applied)
                    /\ order[a].applied <= n /\ RowOpen(a)
      <4>1. h[t].pc = "place" /\ HandlerCounts(t)
            /\ RowWrites(a, "UNKNOWN", order[a].qty, order[a].filled, order[a].applied)
        BY <3>3, PlaceFailsWrites DEF Counts
      <4>2. order[a].status = "CREATED" /\ order[a].filled \in 0..order[a].qty
            /\ order[a].applied <= order[a].filled
        BY <1>1, <3>3, <4>1 DEF HandlerCounts, RowCounts
      <4> QED  BY <4>1, <4>2 DEF RowOpen
    <3> QED  BY <1>3, <3>1, <3>2, <3>3
  <2>3. PICK n \in 0..order[a].qty, st \in {"DONE", "PENDING", "UNKNOWN"} :
            /\ RowWrites(a, st, order[a].qty, n, order[a].applied)
            /\ order[a].applied <= n /\ RowOpen(a)
    BY <2>2
  <2>4. Left(a)' <= Left(a) /\ Left(a)' \in Nat /\ Left(a) \in Nat
    BY <1>1, <2>3 DEF Left, RowOpen, RowWrites, RowCounts
  <2>5. Committed' = Committed + (Left(a)' - Left(a)) /\ Committed \in Nat /\ Committed' \in Nat
    BY <1>1, <2>3, CommittedMoves DEF RowWrites
  <2> QED  BY <1>1, <2>1, <2>4, <2>5
<1> QED  BY <1>2, <1>3

\* The reservation commits as many shares as the target still allows.
LEMMA ReserveWithinTarget ==
    ASSUME IInv, Counts, RowsCount', NEW t \in Handlers, Reserve(t),
           ~(target = 0 /\ trendActive)
    PROVE  \/ core + Committed' <= target
           \/ Committed' = Committed
<1>1. PICK a \in Approvals : a = h[t].approval
  BY ReserveWrites, AtWork
<1>2. /\ RowWrites(a, "CREATED", h[t].quantity, 0, 0) /\ h[t].pc = "reserve"
  BY <1>1, ReserveWrites
<1>3. /\ RowsCount /\ core \in Nat /\ target \in Nat /\ h[t].quantity \in Nat
      /\ order[a].status = "NONE" /\ RowCounts(a)
  BY <1>1, <1>2, BuyingAssumption DEF Counts, RowsCount, CoreTypes, HandlerCounts
<1>4. h[t].quantity <= Remaining(target)
  BY DEF Reserve, ReservationTargets
<1>5. Left(a) = 0 /\ Left(a)' = h[t].quantity
  BY <1>2, <1>3 DEF Left, RowOpen, RowWrites, RowCounts
<1>6. Committed' = Committed + (Left(a)' - Left(a)) /\ Committed \in Nat /\ Committed' \in Nat
  BY <1>2, <1>3, CommittedMoves DEF RowWrites
<1> QED  BY <1>3, <1>4, <1>5, <1>6 DEF Remaining, Greatest

-----------------------------------------------------------------------------
(* Types, and the target *)

\* Steps that leave the position, the target and the rows alone.
CoreKept ==
    /\ core' = core /\ target' = target /\ frozen' = frozen /\ trendActive' = trendActive
    /\ base' = base /\ order' = order /\ generation' = generation /\ started' = started

LEMMA QuietSteps ==
    ASSUME \/ \E t \in Handlers :
                 \/ QuoteSignal(t) \/ QuoteTarget(t) \/ QuoteQuantity(t) \/ QuoteFails(t)
                 \/ Recheck(t) \/ ReserveFails(t) \/ MarkExecuted(t)
           \/ \E t \in Handlers, a \in Approvals : ConsumeReview(t, a) \/ ConsumeExecution(t, a)
           \/ \E g \in Generations : CreateReview(g) \/ SignalLapses(g)
           \/ \E a \in Approvals : CancelApproval(a)
           \/ MonitorSettles \/ ExpireStaleSignals \/ AllocInvalidate \/ AllocOffer
           \/ ReconciliationAlarm \/ Crash \/ UNCHANGED vars
    PROVE  CoreKept
BY DEF QuoteSignal, QuoteTarget, QuoteQuantity, QuoteFails, Recheck, ReserveFails, MarkExecuted,
       ConsumeReview, ConsumeExecution, Consume, CreateReview, SignalLapses, CancelApproval,
       MonitorSettles, ExpireStaleSignals, AllocInvalidate, AllocOffer, ReconciliationAlarm, Crash,
       vars, coreVars, CoreKept

\* Steps that only move shares between rows and ledger.
RowMoves ==
    /\ target' = target /\ frozen' = frozen /\ trendActive' = trendActive
    /\ base' = base /\ generation' = generation /\ started' = started

LEMMA RowMoveSteps ==
    ASSUME \/ \E t \in Handlers : Reserve(t) \/ Place(t) \/ PlaceFails(t)
           \/ \E a \in Approvals : ApplyFill(a) \/ MonitorRefresh(a)
           \/ AllocSettle
    PROVE  RowMoves
BY DEF Reserve, Place, PlaceFails, ApplyFill, MonitorRefresh, AllocSettle, coreVars, RowMoves

LEMMA SafeStep ==
    ASSUME CoreTypes, [Next]_vars
    PROVE  safe' \in BOOLEAN
<1>1. safe' = safe \/ safe' = TRUE
      \/ safe' = (safe \/ \E a \in Approvals : /\ RowOpen(a)
                                               /\ order[a].status # "PENDING" \/ order[a].filled > 0)
  BY DEF Next, HandlerStep, AllocStep, vars,
         QuoteSignal, QuoteTarget, QuoteQuantity, QuoteFails, Recheck, ReserveFails, MarkExecuted,
         ConsumeReview, ConsumeExecution, Consume, CreateReview, SignalLapses, CancelApproval,
         MonitorSettles, ExpireStaleSignals, AllocInvalidate, AllocOffer, ReconciliationAlarm, Crash,
         Reserve, Place, PlaceFails, ApplyFill, MonitorRefresh, AllocSettle, AllocSetTarget,
         AllocFreeze, AllocSell, SessionStarts
<1> QED  BY <1>1 DEF CoreTypes

\* A target frozen at zero with a positive weight, which binds nobody.
Unbound == target = 0 /\ trendActive

LEMMA CoreStep ==
    ASSUME IInv, Counts, RowsCount', NeverOverbuys, [Next]_vars
    PROVE  CoreTypes' /\ NeverOverbuys'
<1>1. CoreTypes /\ RunTypes /\ RowsCount /\ safe' \in BOOLEAN /\ core \in Nat
  BY SafeStep DEF Counts, RowsCount, CoreTypes
<1>2. Committed \in Nat /\ Committed' \in Nat
  BY <1>1, CommittedType, CommittedTypeNext DEF CommittedIsNat
<1>3. ASSUME CoreKept
      PROVE  CoreTypes' /\ NeverOverbuys'
  <2>1. Committed' = Committed
    BY <1>3 DEF Committed, RowOpen, CoreKept
  <2> QED  BY <1>1, <1>3, <2>1 DEF CoreKept, CoreTypes, NeverOverbuys
<1>4. ASSUME RowMoves, core' \in Nat,
             \/ core' + Committed' <= core + Committed
             \/ Unbound
             \/ core' + Committed' <= target
      PROVE  CoreTypes' /\ NeverOverbuys'
  <2>1. CoreTypes'
    BY <1>1, <1>4 DEF RowMoves, CoreTypes
  <2>2. /\ target' = target /\ frozen' = frozen /\ trendActive' = trendActive /\ base' = base
        /\ target \in Nat /\ base \in Nat
    BY <1>1, <1>4, BuyingAssumption DEF RowMoves, CoreTypes
  <2>3. ASSUME frozen, ~Unbound
        PROVE  core' + Committed' <= Greatest(target, base)
    <3>1. core + Committed <= Greatest(target, base)
      BY <2>3 DEF NeverOverbuys, Unbound
    <3>2. Greatest(target, base) \in Nat /\ target <= Greatest(target, base)
      BY <2>2 DEF Greatest
    <3>3. core' + Committed' <= core + Committed \/ core' + Committed' <= target
      BY <1>4, <2>3
    <3>4. core' \in Nat
      BY <1>4
    <3>5. core \in Nat /\ target \in Nat
      BY <1>1, <2>2
    <3>6. CASE core' + Committed' <= core + Committed
      <4>1. \A x, y, z \in Int : x <= y /\ y <= z => x <= z
        OBVIOUS
      <4>2. core' + Committed' \in Int /\ core + Committed \in Int /\ Greatest(target, base) \in Int
        BY <1>2, <3>2, <3>4, <3>5
      <4> QED  BY <3>1, <3>6, <4>1, <4>2, Zenon
    <3>7. CASE core' + Committed' <= target
      <4>1. \A x, y, z \in Int : x <= y /\ y <= z => x <= z
        OBVIOUS
      <4>2. core' + Committed' \in Int /\ target \in Int /\ Greatest(target, base) \in Int
        BY <1>2, <3>2, <3>4, <3>5
      <4> QED  BY <3>2, <3>7, <4>1, <4>2, Zenon
    <3> QED  BY <3>3, <3>6, <3>7
  <2>4. NeverOverbuys'
    BY <2>2, <2>3 DEF NeverOverbuys, Unbound, Greatest
  <2> QED  BY <2>1, <2>4
<1>5. ASSUME NEW t \in Handlers, Reserve(t)
      PROVE  CoreTypes' /\ NeverOverbuys'
  <2>1. core' = core /\ RowMoves
    BY <1>5, RowMoveSteps DEF Reserve, coreVars
  <2>2. Unbound \/ core + Committed' <= target \/ Committed' = Committed
    BY <1>5, <1>1, ReserveWithinTarget DEF Unbound
  <2>3. core' + Committed' <= core + Committed \/ Unbound
        \/ core' + Committed' <= target
    <3>1. core \in Nat /\ target \in Nat /\ core' = core
      BY <1>1, <2>1, BuyingAssumption DEF CoreTypes
    <3>2. ASSUME Committed' = Committed PROVE core' + Committed' <= core + Committed
      <4>1. core' + Committed' = core + Committed
        BY <3>1, <3>2
      <4>2. core + Committed \in Int
        BY <1>2, <3>1
      <4> QED  BY <4>1, <4>2
    <3>3. ASSUME core + Committed' <= target PROVE core' + Committed' <= target
      BY <3>1, <3>3
    <3> QED  BY <2>2, <3>2, <3>3
  <2> QED  BY <1>1, <1>4, <2>1, <2>3
<1>6. ASSUME \/ \E t \in Handlers : Place(t) \/ PlaceFails(t)
             \/ \E a \in Approvals : ApplyFill(a) \/ MonitorRefresh(a)
      PROVE  CoreTypes' /\ NeverOverbuys'
  <2>1. RowMoves
    BY <1>6, RowMoveSteps
  <2>2. \A t \in Handlers : Place(t) \/ PlaceFails(t) => h[t].approval \in Approvals
    BY PlaceWrites, PlaceFailsWrites, AtWork
  <2>3. core' \in Nat /\ core' + Committed' <= core + Committed
    BY <1>1, <1>6, <2>2, FillKeepsTotal
  <2> QED  BY <1>4, <2>1, <2>3
<1>7. AllocSettle => CoreTypes' /\ NeverOverbuys'
  BY <1>1, <1>4, RowMoveSteps, SettleKeepsTotal
<1>8. AllocSetTarget => CoreTypes' /\ NeverOverbuys'
  <2> SUFFICES ASSUME AllocSetTarget PROVE CoreTypes' /\ NeverOverbuys'
    OBVIOUS
  <2>1. /\ generation' = generation + 1 /\ trendActive' \in BOOLEAN /\ core' = core
        /\ target' = 0 /\ frozen' = FALSE /\ started' = FALSE /\ base' = base
        /\ generation < MaxGeneration
    BY <1>1 DEF AllocSetTarget, RunTypes
  <2>2. generation' \in Nat /\ generation' <= MaxGeneration
    BY <1>1, <2>1, BuyingAssumption DEF CoreTypes
  <2>3. target' \in 0..MaxTarget
    BY <2>1, BuyingAssumption
  <2>4. CoreTypes'
    BY <1>1, <2>1, <2>2, <2>3 DEF CoreTypes
  <2> QED  BY <2>1, <2>4 DEF NeverOverbuys
<1>9. ASSUME AllocFreeze
      PROVE  CoreTypes' /\ NeverOverbuys'
  <2>1. /\ order' = order /\ core' = core /\ base' = core + Committed /\ frozen' = TRUE
        /\ generation' = generation /\ trendActive' = trendActive /\ started' = started
        /\ target' \in 0..MaxTarget
    BY <1>9, BuyingAssumption DEF AllocFreeze
  <2>2. Committed' = Committed
    BY <2>1 DEF Committed, RowOpen
  <2> QED
    BY <1>1, <1>2, <2>1, <2>2, BuyingAssumption DEF CoreTypes, NeverOverbuys, Greatest
<1>10. ASSUME AllocSell
       PROVE  CoreTypes' /\ NeverOverbuys'
  <2>1. /\ order' = order /\ core' = target /\ base' = target + Committed /\ frozen' = frozen
        /\ generation' = generation /\ trendActive' = trendActive /\ started' = started
        /\ target' = target
    BY <1>10 DEF AllocSell
  <2>2. Committed' = Committed
    BY <2>1 DEF Committed, RowOpen
  <2> QED
    BY <1>1, <1>2, <2>1, <2>2, BuyingAssumption DEF CoreTypes, NeverOverbuys, Greatest
<1>11. ASSUME SessionStarts
       PROVE  CoreTypes' /\ NeverOverbuys'
  <2>1. /\ order' = order /\ core' = core /\ base' = base /\ frozen' = frozen
        /\ generation' = generation /\ trendActive' = trendActive /\ started' = TRUE
        /\ target' = target
    BY <1>11 DEF SessionStarts
  <2>2. Committed' = Committed
    BY <2>1 DEF Committed, RowOpen
  <2> QED  BY <1>1, <2>1, <2>2 DEF CoreTypes, NeverOverbuys
<1> QED
  BY <1>3, <1>5, <1>6, <1>7, <1>8, <1>9, <1>10, <1>11, QuietSteps DEF Next, HandlerStep, AllocStep

LEMMA SignalStep ==
    ASSUME IInv, Counts, [Next]_vars
    PROVE  SignalTypes'
<1> DEFINE Marks == {"NONE", "ACTIVE", "PROCESSED", "INVALID", "EXPIRED", "UNKNOWN"}
<1>1. signal \in [Generations -> Marks] /\ planned \in [Generations -> 0..MaxTarget]
  BY DEF Counts, SignalTypes
<1>2. planned' \in [Generations -> 0..MaxTarget]
  <2>1. CASE AllocOffer
    <3>1. Committed \in Nat /\ core \in Nat /\ target \in 0..MaxTarget
      BY CommittedType DEF Counts, RowsCount, CommittedIsNat, CoreTypes
    <3>2. Gap \in 0..MaxTarget
      BY <3>1, BuyingAssumption DEF Gap, Greatest
    <3> QED  BY <1>1, <2>1, <3>2 DEF AllocOffer
  <2>2. CASE ~AllocOffer
    <3>1. planned' = planned
      BY <2>2 DEF Next, HandlerStep, AllocStep, vars, signalVars,
         QuoteSignal, QuoteTarget, QuoteQuantity, QuoteFails, Recheck, ReserveFails, MarkExecuted,
         ConsumeReview, ConsumeExecution, Consume, CreateReview, SignalLapses, CancelApproval,
         MonitorSettles, ExpireStaleSignals, AllocInvalidate, ReconciliationAlarm, Crash,
         Reserve, Place, PlaceFails, ApplyFill, MonitorRefresh, AllocSettle, AllocSetTarget,
         AllocFreeze, AllocSell, SessionStarts
    <3> QED  BY <1>1, <3>1
  <2> QED  BY <2>1, <2>2
<1>3. ASSUME NEW g, NEW mark \in Marks, MarkSignal(g, mark)
      PROVE  signal' \in [Generations -> Marks]
  BY <1>1, <1>3 DEF MarkSignal
<1>4. ASSUME NEW g, RefuseSignal(g)
      PROVE  signal' \in [Generations -> Marks]
  BY <1>1, <1>4 DEF RefuseSignal
<1>5. ASSUME NEW t \in Handlers, MarkExecuted(t)
      PROVE  signal' \in [Generations -> Marks]
  <2>1. h[t].outcome \in Marks
    BY DEF Counts, HandlerCounts
  <2> QED  BY <1>3, <1>5, <2>1 DEF MarkExecuted
<1>6. ASSUME NEW t \in Handlers, QuoteSignal(t) \/ Recheck(t) \/ PlaceFails(t)
      PROVE  signal' \in [Generations -> Marks]
  BY <1>1, <1>3, <1>4, <1>6 DEF QuoteSignal, Recheck, PlaceFails
<1>7. ASSUME NEW g \in Generations, CreateReview(g)
      PROVE  signal' \in [Generations -> Marks]
  BY <1>1, <1>4, <1>7 DEF CreateReview
<1>8. MonitorSettles \/ AllocOffer => signal' \in [Generations -> Marks]
  BY <1>3 DEF MonitorSettles, AllocOffer
<1>9. ExpireStaleSignals \/ AllocInvalidate => signal' \in [Generations -> Marks]
  BY <1>1 DEF ExpireStaleSignals, AllocInvalidate
<1>10. ASSUME \/ \E t \in Handlers :
                    \/ QuoteTarget(t) \/ QuoteQuantity(t) \/ QuoteFails(t) \/ ReserveFails(t)
                    \/ Reserve(t) \/ Place(t)
              \/ \E t \in Handlers, a \in Approvals : ConsumeReview(t, a) \/ ConsumeExecution(t, a)
              \/ \E g \in Generations : SignalLapses(g)
              \/ \E a \in Approvals : CancelApproval(a) \/ ApplyFill(a) \/ MonitorRefresh(a)
              \/ AllocSettle \/ AllocSetTarget \/ AllocFreeze \/ AllocSell \/ SessionStarts
              \/ ReconciliationAlarm \/ Crash \/ UNCHANGED vars
       PROVE  signal' = signal
  BY <1>10 DEF vars, signalVars, QuoteTarget, QuoteQuantity, QuoteFails, ReserveFails,
               ConsumeReview, ConsumeExecution, Consume, SignalLapses, CancelApproval,
               ReconciliationAlarm, Crash, Reserve, Place, ApplyFill, MonitorRefresh, AllocSettle,
               AllocSetTarget, AllocFreeze, AllocSell, SessionStarts
<1>11. signal' \in [Generations -> Marks]
  BY <1>1, <1>5, <1>6, <1>7, <1>8, <1>9, <1>10 DEF Next, HandlerStep, AllocStep
<1> QED  BY <1>2, <1>11 DEF SignalTypes

LEMMA RunStep ==
    ASSUME Counts, [Next]_vars
    PROVE  RunTypes'
<1>1. settling \in Approvals \cup {NoApproval} /\ alloc \in {"idle", "settle", "target"}
      /\ (alloc # "idle" => generation < MaxGeneration)
  BY DEF Counts, RunTypes
<1>2. settling' \in Approvals \cup {NoApproval}
  <2>1. settling' = settling \/ settling' = NoApproval
        \/ \E a \in Approvals : MonitorRefresh(a)
    BY DEF Next, HandlerStep, AllocStep, vars,
         QuoteSignal, QuoteTarget, QuoteQuantity, QuoteFails, Recheck, ReserveFails, MarkExecuted,
         ConsumeReview, ConsumeExecution, Consume, CreateReview, SignalLapses, CancelApproval,
         MonitorSettles, ExpireStaleSignals, AllocInvalidate, AllocOffer, ReconciliationAlarm, Crash,
         Reserve, Place, PlaceFails, ApplyFill, AllocSettle, AllocSetTarget,
         AllocFreeze, AllocSell, SessionStarts
  <2> QED  BY <1>1, <2>1 DEF MonitorRefresh
<1>3. alloc' \in {"idle", "settle", "target"} /\ (alloc' # "idle" => generation' < MaxGeneration)
  <2>1. \/ alloc' = alloc /\ generation' = generation
        \/ alloc' = "idle"
        \/ alloc' \in {"settle", "target"} /\ generation' = generation
           /\ (generation < MaxGeneration \/ alloc # "idle")
    BY DEF Next, HandlerStep, AllocStep, vars, coreVars, AllocGoto,
         QuoteSignal, QuoteTarget, QuoteQuantity, QuoteFails, Recheck, ReserveFails, MarkExecuted,
         ConsumeReview, ConsumeExecution, Consume, CreateReview, SignalLapses, CancelApproval,
         MonitorSettles, ExpireStaleSignals, AllocInvalidate, AllocOffer, ReconciliationAlarm, Crash,
         Reserve, Place, PlaceFails, ApplyFill, MonitorRefresh, AllocSettle, AllocSetTarget,
         AllocFreeze, AllocSell, SessionStarts
  <2> QED  BY <1>1, <2>1
<1> QED  BY <1>2, <1>3 DEF RunTypes

LEMMA InitCounts == Init => Counts /\ NeverOverbuys
<1> SUFFICES ASSUME Init PROVE Counts /\ NeverOverbuys
  OBVIOUS
<1>1. CoreTypes /\ RunTypes /\ NeverOverbuys
  <2>1. CoreTypes
    <3>1. 0 \in 0..MaxTarget /\ 0 <= MaxGeneration
      BY BuyingAssumption
    <3> QED  BY <3>1, Zenon DEF Init, CoreTypes
  <2>2. RunTypes /\ NeverOverbuys
    BY DEF Init, RunTypes, NeverOverbuys
  <2> QED  BY <2>1, <2>2
<1>2. SignalTypes
  BY BuyingAssumption DEF Init, SignalTypes
<1>3. \A a \in Approvals : ApprovalCounts(a) /\ RowCounts(a)
  BY DEF Init, ApprovalCounts, RowCounts, NoRow, Unused
<1>4. \A t \in Handlers : HandlerCounts(t)
  BY IdleCounts DEF Init, HandlerCounts
<1> QED  BY <1>1, <1>2, <1>3, <1>4 DEF Counts

LEMMA NextCounts == IInv /\ Counts /\ NeverOverbuys /\ [Next]_vars => Counts' /\ NeverOverbuys'
<1> SUFFICES ASSUME IInv, Counts, NeverOverbuys, [Next]_vars PROVE Counts' /\ NeverOverbuys'
  OBVIOUS
<1>1. RowsCount' /\ ApprovalsCount' /\ \A t \in Handlers : HandlerCounts(t)'
  BY RowStepCounts, ApprovalStepCounts
<1> QED
  BY <1>1, CoreStep, SignalStep, RunStep DEF Counts, RowsCount, ApprovalsCount

\* Rows, handlers and targets keep their counts whatever interleaves.
THEOREM CountsInvariance == Spec => [](Counts /\ NeverOverbuys)
BY InitCounts, NextCounts, Invariance, PTL DEF Spec

\* No status leaves its range, and a row never fills more than it ordered nor
\* applies more than it filled.
THEOREM TypeCorrectness == Spec => []TypeOK
<1>1. Counts => TypeOK
  BY BuyingAssumption DEF Counts, CoreTypes, SignalTypes, RunTypes, ApprovalCounts, RowCounts, TypeOK
<1> QED  BY <1>1, CountsInvariance, PTL

\* Approvals executed at once, quotes that read an older position and orders that end
\* early never take the shares held and ordered beyond the frozen target.
THEOREM FrozenTargetHolds == Spec => []NeverOverbuys
BY CountsInvariance, PTL

-----------------------------------------------------------------------------
(* Signals and the target they were offered for *)

Valid(g) == signal[g] # "NONE" /\ ~overdue[g]

\* A signal that is valid has a frozen target that no run is about to change.
ValidSignalsAreFrozen == \A g \in Generations : Valid(g) => frozen /\ alloc = "idle"

\* Approvals, and so the rows and handlers that have them, are of signals that exist.
ApprovedSignalsExist ==
    \A a \in Approvals :
        approval[a].status # "NONE" =>
            approval[a].signal \in Generations /\ signal[approval[a].signal] # "NONE"

Validity == IsFun(overdue, Generations) /\ ValidSignalsAreFrozen /\ ApprovedSignalsExist

\* What a step may do to the signals unless the allocation run makes it.
OnlyLapses ==
    \A g \in Generations :
        /\ signal'[g] # "NONE" <=> signal[g] # "NONE"
        /\ overdue[g] => overdue'[g]

\* Marking a signal that exists already, or none, brings no new one.
LEMMA MarkLapses ==
    ASSUME SignalTypes, NEW g, NEW mark, mark # "NONE", MarkSignal(g, mark), overdue' = overdue,
           g \in Generations => signal[g] # "NONE"
    PROVE  OnlyLapses
BY DEF SignalTypes, MarkSignal, OnlyLapses

LEMMA RefuseLapses ==
    ASSUME SignalTypes, NEW g, RefuseSignal(g), overdue' = overdue
    PROVE  OnlyLapses
BY DEF SignalTypes, RefuseSignal, OnlyLapses

LEMMA SameLapses == ASSUME UNCHANGED <<signal, overdue>> PROVE OnlyLapses
BY DEF OnlyLapses

LEMMA HandlerSignalExists ==
    ASSUME IInv, Validity, NEW t \in Handlers, Busy(t)
    PROVE  h[t].signal \in Generations /\ signal[h[t].signal] # "NONE"
<1>1. /\ h[t].approval \in Approvals /\ approval[h[t].approval].status = "USED"
      /\ approval[h[t].approval].signal = h[t].signal
  BY DEF IInv, HandlerOK
<1> QED  BY <1>1 DEF Validity, ApprovedSignalsExist

LEMMA HandlerLapses ==
    ASSUME IInv, Counts, Validity, NEW t \in Handlers, HandlerStep(t)
    PROVE  OnlyLapses
<1>1. SignalTypes
  BY DEF Counts
<1>2. CASE QuoteTarget(t) \/ QuoteQuantity(t) \/ QuoteFails(t) \/ Reserve(t) \/ ReserveFails(t) \/ Place(t)
  BY <1>2, SameLapses DEF QuoteTarget, QuoteQuantity, QuoteFails, Reserve, ReserveFails, Place, signalVars
<1>3. CASE QuoteSignal(t)
  BY <1>1, <1>3, RefuseLapses, SameLapses DEF QuoteSignal
<1>4. CASE Recheck(t)
  BY <1>1, <1>4, RefuseLapses, SameLapses DEF Recheck
<1>5. CASE PlaceFails(t)
  <2>1. Busy(t)
    BY <1>5 DEF PlaceFails, Busy
  <2> QED  BY <1>1, <1>5, <2>1, HandlerSignalExists, MarkLapses DEF PlaceFails
<1>6. CASE MarkExecuted(t)
  <2>1. Busy(t)
    BY <1>6 DEF MarkExecuted, Busy
  <2>2. h[t].outcome # "NONE"
    BY DEF Counts, HandlerCounts
  <2> QED  BY <1>1, <1>6, <2>1, <2>2, HandlerSignalExists, MarkLapses DEF MarkExecuted
<1> QED  BY <1>2, <1>3, <1>4, <1>5, <1>6 DEF HandlerStep

LEMMA MonitorLapses ==
    ASSUME IInv, Counts, Validity, MonitorSettles
    PROVE  OnlyLapses
<1>1. SignalTypes /\ settling \in Approvals
  BY DEF Counts, RunTypes, MonitorSettles
<1>2. order[settling].signal \in Generations => signal[order[settling].signal] # "NONE"
  <2>1. CASE order[settling].status = "NONE"
    <3>1. order[settling].signal = 0
      BY <1>1, <2>1 DEF IInv, RowsMatchApprovals
    <3> QED  BY <3>1 DEF Generations
  <2>2. CASE order[settling].status # "NONE"
    <3>1. approval[settling].status = "USED" /\ approval[settling].signal = order[settling].signal
      BY <1>1, <2>2 DEF IInv, RowsMatchApprovals
    <3> QED  BY <1>1, <3>1 DEF Validity, ApprovedSignalsExist
  <2> QED  BY <2>1, <2>2
<1> QED  BY <1>1, <1>2, MarkLapses DEF MonitorSettles

\* Every step but an offer lets signals lapse at most.
LEMMA StepLapses ==
    ASSUME IInv, Counts, Validity, [Next]_vars, ~AllocOffer
    PROVE  OnlyLapses
<1>1. SignalTypes
  BY DEF Counts
<1>2. CASE \E t \in Handlers : HandlerStep(t)
  BY <1>2, HandlerLapses
<1>3. CASE MonitorSettles
  BY <1>3, MonitorLapses
<1>4. ASSUME NEW g \in Generations, CreateReview(g) PROVE OnlyLapses
  BY <1>1, <1>4, RefuseLapses, SameLapses DEF CreateReview
<1>5. ASSUME NEW g \in Generations, SignalLapses(g) PROVE OnlyLapses
  BY <1>5 DEF SignalLapses, OnlyLapses, Validity, IsFun
<1>6. CASE ExpireStaleSignals \/ AllocInvalidate
  BY <1>6 DEF ExpireStaleSignals, AllocInvalidate, OnlyLapses
<1>7. CASE \/ \E t \in Handlers, a \in Approvals : ConsumeReview(t, a) \/ ConsumeExecution(t, a)
           \/ \E a \in Approvals : CancelApproval(a) \/ ApplyFill(a) \/ MonitorRefresh(a)
           \/ AllocSettle \/ AllocSetTarget \/ AllocFreeze \/ AllocSell \/ SessionStarts
           \/ ReconciliationAlarm \/ Crash \/ UNCHANGED vars
  BY <1>7, SameLapses DEF vars, signalVars, ConsumeReview, ConsumeExecution, Consume,
     CancelApproval, ApplyFill, MonitorRefresh, AllocSettle, AllocSetTarget, AllocFreeze,
     AllocSell, SessionStarts, ReconciliationAlarm, Crash
<1> QED  BY <1>2, <1>3, <1>4, <1>5, <1>6, <1>7 DEF Next, AllocStep

\* A target waits to be changed only while no signal is valid; an offer is made for a
\* target that is frozen.
LEMMA FrozenStep ==
    ASSUME IInv, Counts, Validity, [Next]_vars
    PROVE  IsFun(overdue, Generations)' /\ ValidSignalsAreFrozen'
<1>1. SignalTypes /\ \A g \in Generations : Valid(g) => frozen /\ alloc = "idle"
  BY DEF Counts, Validity, ValidSignalsAreFrozen
<1>2. IsFun(overdue, Generations)'
  <2>1. \/ overdue' = overdue
        \/ \E g : overdue' = [overdue EXCEPT ![g] = TRUE] \/ overdue' = [overdue EXCEPT ![g] = FALSE]
    BY DEF Next, HandlerStep, AllocStep, vars, signalVars,
       QuoteSignal, QuoteTarget, QuoteQuantity, QuoteFails, Recheck, ReserveFails, MarkExecuted,
       ConsumeReview, ConsumeExecution, Consume, CreateReview, SignalLapses, CancelApproval,
       MonitorSettles, ExpireStaleSignals, AllocInvalidate, AllocOffer, ReconciliationAlarm, Crash,
       Reserve, Place, PlaceFails, ApplyFill, MonitorRefresh, AllocSettle, AllocSetTarget,
       AllocFreeze, AllocSell, SessionStarts
  <2> QED  BY <2>1 DEF Validity, IsFun
<1>3. CASE AllocOffer
  BY <1>2, <1>3 DEF AllocOffer, coreVars, ValidSignalsAreFrozen
<1>4. CASE AllocInvalidate
  <2>1. \A g \in Generations : ~Valid(g)'
    BY <1>4 DEF AllocInvalidate, SignalsHaveLapsed, Valid
  <2> QED  BY <1>2, <2>1 DEF ValidSignalsAreFrozen
<1>5. CASE ~AllocOffer /\ ~AllocInvalidate
  <2>1. \A g \in Generations : Valid(g)' => Valid(g)
    BY <1>5, StepLapses DEF OnlyLapses, Valid
  <2>2. frozen /\ alloc = "idle" => frozen' /\ alloc' = "idle"
    BY <1>5 DEF Next, HandlerStep, AllocStep, AllocGoto, vars, coreVars,
       QuoteSignal, QuoteTarget, QuoteQuantity, QuoteFails, Recheck, ReserveFails, MarkExecuted,
       ConsumeReview, ConsumeExecution, Consume, CreateReview, SignalLapses, CancelApproval,
       MonitorSettles, ExpireStaleSignals, ReconciliationAlarm, Crash,
       Reserve, Place, PlaceFails, ApplyFill, MonitorRefresh, AllocSettle, AllocSetTarget,
       AllocFreeze, AllocSell, SessionStarts
  <2> QED  BY <1>1, <1>2, <2>1, <2>2 DEF ValidSignalsAreFrozen
<1> QED  BY <1>3, <1>4, <1>5

LEMMA ExistStep ==
    ASSUME IInv, Counts, Validity, [Next]_vars
    PROVE  ApprovedSignalsExist'
<1>1. SignalTypes
  BY DEF Counts
<1>2. \A g \in Generations : signal[g] # "NONE" => signal'[g] # "NONE"
  <2>1. CASE AllocOffer
    BY <1>1, <2>1 DEF AllocOffer, MarkSignal, SignalTypes
  <2> QED  BY <2>1, StepLapses DEF OnlyLapses
<1>3. SUFFICES ASSUME NEW a \in Approvals, approval'[a].status # "NONE"
               PROVE  approval'[a].signal \in Generations /\ signal[approval'[a].signal] # "NONE"
  BY <1>2 DEF ApprovedSignalsExist
<1>4. \/ approval[a].status # "NONE" /\ approval'[a].signal = approval[a].signal
      \/ approval'[a].signal \in Generations /\ signal[approval'[a].signal] # "NONE"
  <2>1. CASE \E t \in Handlers : QuoteQuantity(t)
    <3>1. PICK t \in Handlers : QuoteQuantity(t)
      BY <2>1
    <3>2. h[t].signal \in Generations /\ signal[h[t].signal] # "NONE"
      BY <3>1, HandlerSignalExists DEF QuoteQuantity, Busy
    <3> QED  BY <1>3, <3>1, <3>2 DEF QuoteQuantity, IInv, ApprovalShapes, IsFun
  <2>2. CASE \E g \in Generations : signal[g] # "NONE" /\ CreateReview(g)
    BY <1>3, <2>2 DEF CreateReview, IInv, ApprovalShapes, IsFun
  <2>3. CASE \E t \in Handlers, b \in Approvals : ConsumeReview(t, b) \/ ConsumeExecution(t, b)
    BY <1>3, <2>3 DEF ConsumeReview, ConsumeExecution, Consume, Consumable, IInv, ApprovalShapes,
       IsFun, IsApproval
  <2>4. CASE AllocOffer \/ \E b \in Approvals : CancelApproval(b)
    BY <1>3, <2>4 DEF AllocOffer, CancelApproval, IInv, ApprovalShapes, IsApproval
  <2>5. CASE approval' = approval
    BY <1>3, <2>5
  <2> QED
    BY <2>1, <2>2, <2>3, <2>4, <2>5 DEF Next, HandlerStep, AllocStep, vars,
       QuoteSignal, QuoteTarget, QuoteFails, Recheck, ReserveFails, MarkExecuted,
       SignalLapses, MonitorSettles, ExpireStaleSignals, AllocInvalidate, ReconciliationAlarm, Crash,
       Reserve, Place, PlaceFails, ApplyFill, MonitorRefresh, AllocSettle, AllocSetTarget,
       AllocFreeze, AllocSell, SessionStarts
<1> QED  BY <1>4 DEF Validity, ApprovedSignalsExist

LEMMA InitValidity == Init => Validity
BY DEF Init, Validity, IsFun, ValidSignalsAreFrozen, Valid, ApprovedSignalsExist, Unused

\* Only the reservation creates a row.
LEMMA OnlyReservationsCreate ==
    ASSUME IInv, [Next]_vars, NEW a \in Approvals, order[a].status = "NONE", order'[a].status = "CREATED"
    PROVE  \E t \in Handlers : Reserve(t) /\ h[t].approval = a
<1>1. CASE \E t \in Handlers : Reserve(t)
  BY <1>1 DEF Reserve, IInv, RowShapes, IsFun
<1>2. CASE \E t \in Handlers : Place(t) \/ PlaceFails(t)
  <2>1. PICK t \in Handlers : Place(t) \/ PlaceFails(t)
    BY <1>2
  <2>2. PICK b, st : RowWrites(b, st, order'[b].qty, order'[b].filled, order'[b].applied)
                     /\ st # "CREATED"
    BY <2>1, PlaceWrites, PlaceFailsWrites DEF RowWrites
  <2> QED  BY <2>2 DEF RowWrites
<1>3. CASE \E b \in Approvals : ApplyFill(b) \/ MonitorRefresh(b)
  <2>1. PICK b \in Approvals : ApplyFill(b) \/ MonitorRefresh(b)
    BY <1>3
  <2>2. \A c \in Approvals \ {b} : order'[c] = order[c]
    BY <2>1, ApplyFillWrites, MonitorRefreshWrites DEF RowWrites
  <2>3. order'[b].status = order[b].status \/ order'[b].status \in {"DONE", "PENDING"}
    BY <2>1, ApplyFillWrites, MonitorRefreshWrites DEF RowWrites
  <2> QED  BY <2>2, <2>3
<1>4. CASE AllocSettle
  BY <1>4 DEF AllocSettle, IInv, RowShapes, IsRow
<1>5. CASE order' = order
  BY <1>5
<1> QED
  BY <1>1, <1>2, <1>3, <1>4, <1>5 DEF Next, HandlerStep, AllocStep, vars,
     QuoteSignal, QuoteTarget, QuoteQuantity, QuoteFails, Recheck, ReserveFails, MarkExecuted,
     ConsumeReview, ConsumeExecution, Consume, CreateReview, SignalLapses, CancelApproval,
     MonitorSettles, ExpireStaleSignals, AllocInvalidate, AllocOffer, ReconciliationAlarm, Crash,
     AllocSetTarget, AllocFreeze, AllocSell, SessionStarts

\* Whatever handlers have read, whoever reopens a signal and however late: a BUY is
\* reserved for a target that is not frozen only by a handler that its signal's end
\* overtook after its last check.
THEOREM FrozenTargetsAreMet == Spec => BuysMeetFrozenTargets
<1>1. Init => Validity
  BY InitValidity
<1>2. IInv /\ Counts /\ Validity /\ [Next]_vars => Validity'
  BY FrozenStep, ExistStep DEF Validity
<1>3. ASSUME IInv, Validity, [Next]_vars
      PROVE  [\A a \in Approvals : order[a].status = "NONE" /\ order'[a].status = "CREATED"
                 => frozen \/ overdue[order'[a].signal]]_vars
  <2> SUFFICES ASSUME NEW a \in Approvals, order[a].status = "NONE", order'[a].status = "CREATED"
               PROVE  frozen \/ overdue[order'[a].signal]
    OBVIOUS
  <2>1. PICK t \in Handlers : Reserve(t) /\ h[t].approval = a
    BY <1>3, OnlyReservationsCreate
  <2>2. h[t].signal \in Generations /\ signal[h[t].signal] # "NONE"
    BY <1>3, <2>1, HandlerSignalExists DEF Reserve, Busy
  <2>3. order'[a].signal = h[t].signal
    BY <1>3, <2>1 DEF Reserve, IInv, RowShapes, IsFun
  <2> QED  BY <1>3, <2>2, <2>3 DEF Validity, ValidSignalsAreFrozen, Valid
<1> QED
  BY <1>1, <1>2, <1>3, Invariance, CountsInvariance, PTL DEF Spec, BuysMeetFrozenTargets
=============================================================================
