----------------------------- MODULE PayoutsProofs -----------------------------
(* Theorems about Payouts for any number of requests, payments and calls.  *)
EXTENDS Payouts, Sums, FiniteSetTheorems, TLAPS

(* The strengthening.  A completion that outlives its approval finds the   *)
(* request rejected, deleted or reopened.                                  *)
CompletionsKnow ==
    \A r \in Requests \ reopened :
        completing[r] # {} =>
            \/ request[r] = "APPROVED" /\ completing[r] = locked[r]
            \/ request[r] \in {"REJECTED", "DELETED"}

PayoutInv == TypeOK /\ OneActive /\ AmountBacked /\ CompletionsKnow

\* A completion that has counted found every payment payable, and what is not
\* any more changed since.
CountHolds(r) ==
    /\ counted[r] # "NO" => completing[r] # {}
    /\ counted[r] = "YES" => \A p \in completing[r] : Payable(p) \/ p \in slipped[r]

CountsHold == \A r \in Requests : CountHolds(r)

-----------------------------------------------------------------------------

\* Every payment is worth something to the vendor.
LEMMA TotalIsPositive ==
    ASSUME NEW S \in SUBSET Payments
    PROVE  Total(S) \in Nat /\ (S # {} => Total(S) > 0)
<1>1. Share \in [Payments -> Nat] /\ \A p \in Payments : Share[p] > 0
  BY ShareAssumption
<1>2. IsFiniteSet(S)
  <2>1. 1 \in Int /\ N \in Int
    BY ShareAssumption
  <2>2. IsFiniteSet(Payments)
    BY <2>1, FS_Interval DEF Payments
  <2>. QED  BY <2>2, FS_Subset
<1>3. Total(S) = SumOf(Share, S)
  BY DEF Total, SumOf
<1>4. SumOf(Share, S) \in Nat
  BY <1>1, <1>2, SumIsNat
<1>5. SumOf(Share, S) > 0 <=> \E p \in S : Share[p] > 0
  BY <1>1, <1>2, SumPositive
<1>6. (\E p \in S : Share[p] > 0) <=> S # {}
  BY <1>1
<1>. QED  BY <1>3, <1>4, <1>5, <1>6

LEMMA InitHolds == Init => PayoutInv
  BY ShareAssumption DEF Init, PayoutInv, TypeOK, RequestStatus, OneActive, AmountBacked, CompletionsKnow,
     Active, Closing

\* What approval locks is worth at least what it approves.
LEMMA FinalAmountBacked ==
    ASSUME TypeOK, NEW x \in Nat, x > 0, ToLock(x) # {}
    PROVE  /\ ToLock(x) \in SUBSET Payments
           /\ FinalAmount(x) \in Nat /\ 0 < FinalAmount(x) /\ FinalAmount(x) <= Total(ToLock(x))
<1>1. ToLock(x) \in SUBSET Payments
  BY DEF ToLock
<1>2. Total(ToLock(x)) \in Nat /\ Total(ToLock(x)) > 0
  BY <1>1, TotalIsPositive
<1>. HIDE DEF Total, ToLock
<1>. QED  BY <1>1, <1>2 DEF FinalAmount

\* Whatever leaves the requests, their amounts and their payments alone.
LEMMA RequestsRest ==
    ASSUME PayoutInv, TypeOK', UNCHANGED <<requestVars, reopened>>,
           \A r \in Requests : completing'[r] = completing[r] \/ completing'[r] = {}
                               \/ (request[r] = "APPROVED" /\ completing'[r] = locked[r])
    PROVE  PayoutInv'
  BY DEF PayoutInv, requestVars, OneActive, AmountBacked, CompletionsKnow, Active, Closing,
     completionVars, historyVars

\* A request moves; what is locked for it and promised may move with it.
LEMMA RequestMoves ==
    ASSUME PayoutInv, TypeOK', NEW r \in Requests,
           reopened \subseteq reopened',
           \A s \in Requests \ {r} : /\ request'[s] = request[s] /\ amount'[s] = amount[s]
                                     /\ locked'[s] = locked[s] /\ completing'[s] = completing[s],
           r \notin reopened' /\ Active(r)' => Active(r) \/ NoneActive,
           Closing(r)' => 0 < amount'[r] /\ amount'[r] <= Total(locked'[r]),
           r \notin reopened' /\ completing'[r] # {} => request'[r] \in {"REJECTED", "DELETED"}
    PROVE  PayoutInv'
<1>. USE DEF PayoutInv
<1>1. OneActive'
  BY DEF OneActive, Active, NoneActive
<1>2. AmountBacked'
  BY DEF AmountBacked, Closing
<1>3. CompletionsKnow'
  BY DEF CompletionsKnow
<1>. QED  BY <1>1, <1>2, <1>3

-----------------------------------------------------------------------------
(* The vendor, and the money side.                                         *)

LEMMA VendorKeeps == ASSUME PayoutInv, Vendor PROVE PayoutInv'
<1>. USE DEF PayoutInv
<1>0. \A S \in SUBSET Payments : Total(S) \in Nat
  BY TotalIsPositive
<1>1. CASE RequestRead \/ RequestAbort
  <2>1. Total(Askable) \in Nat
    BY <1>0 DEF Askable
  <2>2. TypeOK'
    BY <1>1, <2>1 DEF RequestRead, RequestAbort, TypeOK, moneyVars, requestVars,
       completionVars, historyVars
  <2>. QED  BY <1>1, <2>2, RequestsRest DEF RequestRead, RequestAbort, requestVars,
     completionVars, historyVars
<1>2. ASSUME NEW r \in Requests, NEW balance \in asked, RequestCommit(r, balance) PROVE PayoutInv'
  <2>1. TypeOK'
    BY <1>2 DEF RequestCommit, TypeOK, RequestStatus, moneyVars, completionVars, historyVars
  <2>2. request[r] = "NONE" /\ request' = [request EXCEPT ![r] = "PENDING"] /\ NoneActive
        /\ amount' = [amount EXCEPT ![r] = balance]
        /\ UNCHANGED <<locked, completing, reopened>>
    <3>1. NextId(r)
      BY <1>2 DEF RequestCommit
    <3>2. r \in Nat
      BY ShareAssumption
    <3>3. request[r] = "NONE" <=> r <= r
      BY <3>1 DEF NextId
    <3>4. request[r] = "NONE"
      BY <3>2, <3>3
    <3>. QED  BY <1>2, <3>4 DEF RequestCommit, completionVars, historyVars
  <2>3. r \notin reopened' => completing'[r] = {}
    BY <2>2 DEF CompletionsKnow
  <2>4. ~Closing(r)'
    BY <2>2 DEF TypeOK, Closing
  <2>. QED  BY <2>1, <2>2, <2>3, <2>4, RequestMoves DEF TypeOK
<1>3. ASSUME NEW r \in Requests, DeleteRejected(r) PROVE PayoutInv'
  <2>1. TypeOK'
    BY <1>3 DEF DeleteRejected, TypeOK, RequestStatus, moneyVars, callVars,
       completionVars, historyVars
  <2>2. request' = [request EXCEPT ![r] = "DELETED"] /\ locked' = [locked EXCEPT ![r] = {}]
        /\ amount' = [amount EXCEPT ![r] = 0]
        /\ UNCHANGED <<completing, reopened>>
    BY <1>3 DEF DeleteRejected, callVars, completionVars, historyVars
  <2>3. ~Closing(r)' /\ ~Active(r)' /\ request'[r] = "DELETED"
    BY <2>2 DEF TypeOK, Closing, Active
  <2>. QED  BY <2>1, <2>2, <2>3, RequestMoves DEF TypeOK
<1>. QED  BY <1>1, <1>2, <1>3 DEF Vendor

LEMMA WireKeeps ==
    ASSUME PayoutInv, NEW p \in Payments, Wire(p) \/ BookingEnds(p) \/ Refund(p)
    PROVE  PayoutInv'
<1>0. Slips(p) => slipped' \in [Requests -> SUBSET Payments]
  BY DEF PayoutInv, TypeOK, Slips
<1>1. TypeOK'
  <2>1. CASE MarkCommit(p) \/ Refund(p)
    <3>1. slipped' \in [Requests -> SUBSET Payments]
      BY <1>0, <2>1 DEF PayoutInv, TypeOK, MarkCommit, Refund
    <3>. QED  BY <2>1, <3>1 DEF PayoutInv, TypeOK, MarkCommit, Refund, moneyVars, requestVars, callVars,
                 completionVars
  <2>2. CASE BookingEnds(p) \/ MarkRead(p) \/ MarkUnpaid(p)
    BY <2>2 DEF PayoutInv, BookingEnds, MarkRead, MarkUnpaid, TypeOK, moneyVars, requestVars, callVars,
       completionVars, historyVars
  <2>. QED  BY <2>1, <2>2 DEF Wire
<1>2. UNCHANGED <<requestVars, completing, reopened>>
  BY DEF Wire, BookingEnds, Refund, MarkRead, MarkCommit, MarkUnpaid, moneyVars, requestVars, callVars,
     completionVars, historyVars, Slips
<1>. QED  BY <1>1, <1>2, RequestsRest DEF requestVars, completionVars, historyVars

-----------------------------------------------------------------------------
(* The admin.                                                              *)

LEMMA ApprovalKeeps ==
    ASSUME PayoutInv, NEW r \in Requests, ApproveRead(r) \/ Approve(r) \/ ApproveAbort(r)
    PROVE  PayoutInv'
<1>. USE DEF PayoutInv
<1>1. CASE ApproveRead(r) \/ ApproveAbort(r)
  <2>1. /\ \E x \in Nat : approving' = [approving EXCEPT ![r] = x]
        /\ UNCHANGED <<moneyVars, requestVars, asked, rejecting, completionVars, reverting, marking, historyVars>>
    BY <1>1 DEF ApproveRead, ApproveAbort, TypeOK
  <2>2. TypeOK'
    BY <2>1 DEF TypeOK, moneyVars, requestVars, completionVars, historyVars
  <2>. QED  BY <2>1, <2>2, RequestsRest DEF completionVars, historyVars
<1>2. CASE Approve(r)
  <2>. DEFINE x == approving[r]
  <2>0. x \in Nat /\ x > 0 /\ ToLock(x) # {}
    BY <1>2 DEF Approve, TypeOK
  <2>1. /\ ToLock(x) \in SUBSET Payments
        /\ FinalAmount(x) \in Nat /\ 0 < FinalAmount(x) /\ FinalAmount(x) <= Total(ToLock(x))
    BY <2>0, FinalAmountBacked
  <2>2. /\ request[r] = "PENDING" /\ request' = [request EXCEPT ![r] = "APPROVED"]
        /\ amount' = [amount EXCEPT ![r] = FinalAmount(x)]
        /\ locked' = [locked EXCEPT ![r] = ToLock(x)]
        /\ approving' = [approving EXCEPT ![r] = 0]
        /\ UNCHANGED <<moneyVars, asked, rejecting, completionVars, reverting, marking, historyVars>>
    BY <1>2 DEF Approve
  <2>. HIDE DEF x
  <2>3. TypeOK'
    BY <2>1, <2>2 DEF TypeOK, RequestStatus, moneyVars, completionVars, historyVars
  <2>4. amount'[r] = FinalAmount(x) /\ locked'[r] = ToLock(x)
    BY <2>2 DEF TypeOK
  <2>5. r \notin reopened' => completing'[r] = {}
    BY <2>2 DEF CompletionsKnow, completionVars, historyVars
  <2>6. Active(r)
    BY <2>2 DEF Active
  <2>. QED  BY <2>1, <2>2, <2>3, <2>4, <2>5, <2>6, RequestMoves DEF TypeOK, completionVars, historyVars
<1>. QED  BY <1>1, <1>2

LEMMA RejectionKeeps ==
    ASSUME PayoutInv, NEW r \in Requests, RejectRead(r) \/ Reject(r) \/ RejectAbort(r)
    PROVE  PayoutInv'
<1>. USE DEF PayoutInv
<1>1. CASE RejectRead(r) \/ RejectAbort(r)
  <2>1. TypeOK'
    BY <1>1 DEF RejectRead, RejectAbort, TypeOK, moneyVars, requestVars, completionVars, historyVars
  <2>. QED  BY <1>1, <2>1, RequestsRest DEF RejectRead, RejectAbort, requestVars,
     completionVars, historyVars
<1>2. CASE Reject(r)
  <2>1. TypeOK'
    BY <1>2 DEF Reject, TypeOK, RequestStatus, moneyVars, completionVars, historyVars
  <2>2. request' = [request EXCEPT ![r] = "REJECTED"]
        /\ UNCHANGED <<amount, locked, completing, reopened>>
    BY <1>2 DEF Reject, completionVars, historyVars
  <2>3. ~Closing(r)' /\ ~Active(r)' /\ request'[r] = "REJECTED"
    BY <2>2 DEF TypeOK, Closing, Active
  <2>. QED  BY <2>1, <2>2, <2>3, RequestMoves DEF TypeOK
<1>. QED  BY <1>1, <1>2

LEMMA CompletionKeeps ==
    ASSUME PayoutInv, NEW r \in Requests,
           CompleteRead(r) \/ CompleteCount(r) \/ CompleteDrift(r) \/ CompleteCommit(r) \/ CompleteAbort(r)
    PROVE  PayoutInv'
<1>. USE DEF PayoutInv
<1>1. TypeOK'
  BY ZenonT(40) DEF CompleteRead, CompleteCount, CompleteDrift, CompleteCommit, CompleteAbort, TypeOK, RequestStatus,
     moneyVars, requestVars, completionVars, historyVars, CompletionOver
<1>2. CASE CompleteRead(r) \/ CompleteCount(r) \/ CompleteAbort(r)
  BY <1>1, <1>2, RequestsRest DEF CompleteRead, CompleteCount, CompleteAbort, TypeOK, requestVars,
     completionVars, historyVars, CompletionOver
<1>3. CASE CompleteDrift(r) \/ CompleteCommit(r)
  <2>1. /\ request[r] = "APPROVED" /\ completing' = [completing EXCEPT ![r] = {}]
        /\ UNCHANGED <<amount, reopened>>
        /\ \/ request' = [request EXCEPT ![r] = "PENDING"] /\ locked' = [locked EXCEPT ![r] = {}]
           \/ request' = [request EXCEPT ![r] = "COMPLETED"] /\ UNCHANGED locked
    BY <1>3 DEF CompleteDrift, CompleteCommit, CompletionOver
  <2>2. Active(r) /\ completing'[r] = {}
    BY <2>1 DEF Active, TypeOK
  <2>3. Closing(r)' => 0 < amount'[r] /\ amount'[r] <= Total(locked'[r])
    BY <2>1 DEF Closing, AmountBacked, TypeOK
  <2>. QED  BY <1>1, <2>1, <2>2, <2>3, RequestMoves DEF TypeOK
<1>. QED  BY <1>2, <1>3

LEMMA ReopeningKeeps ==
    ASSUME PayoutInv, NEW r \in Requests,
           (\E to \in {"PENDING", "APPROVED"} : RevertRead(r, to)) \/ RevertCommit(r) \/ RevertAbort(r)
    PROVE  PayoutInv'
<1>. USE DEF PayoutInv
<1>1. CASE (\E to \in {"PENDING", "APPROVED"} : RevertRead(r, to)) \/ RevertAbort(r)
  <2>1. /\ \E moves \in SUBSET Reopenings : reverting' = [reverting EXCEPT ![r] = moves]
        /\ UNCHANGED <<moneyVars, requestVars, asked, approving, rejecting, completionVars, marking, historyVars>>
    <3>1. CASE RevertAbort(r)
      BY <3>1 DEF RevertAbort
    <3>2. ASSUME NEW to \in {"PENDING", "APPROVED"}, RevertRead(r, to)
          PROVE  /\ {<<request[r], to>>} \in SUBSET Reopenings
                 /\ reverting' = [reverting EXCEPT ![r] = {<<request[r], to>>}]
                 /\ UNCHANGED <<moneyVars, requestVars, asked, approving, rejecting, completionVars, marking, historyVars>>
      BY <3>2 DEF RevertRead, RevertAllowed
    <3>. QED  BY <1>1, <3>1, <3>2
  <2>2. TypeOK'
    BY <2>1 DEF TypeOK, moneyVars, requestVars, completionVars, historyVars
  <2>. QED  BY <2>1, <2>2, RequestsRest DEF completionVars, historyVars
<1>2. CASE RevertCommit(r)
  <2>1. PICK move \in reverting[r] :
           /\ request[r] = move[1]
           /\ request' = [request EXCEPT ![r] = move[2]]
           /\ locked' = [locked EXCEPT ![r] = IF move[2] = "PENDING" THEN {} ELSE @]
    BY <1>2 DEF RevertCommit
  <2>2. move \in Reopenings
    BY DEF TypeOK
  <2>3. TypeOK'
    BY <1>2, <2>1, <2>2 DEF RevertCommit, TypeOK, RequestStatus, Reopenings, moneyVars,
       completionVars, historyVars
  <2>4. r \in reopened' /\ reopened \subseteq reopened' /\ UNCHANGED <<amount, completing>>
    BY <1>2 DEF RevertCommit, completionVars
  <2>5. Closing(r)' => 0 < amount'[r] /\ amount'[r] <= Total(locked'[r])
    BY <2>1, <2>2, <2>4 DEF Closing, AmountBacked, TypeOK, Reopenings
  <2>. QED  BY <2>1, <2>3, <2>4, <2>5, RequestMoves DEF TypeOK
<1>. QED  BY <1>1, <1>2

\* A count stays true but for what slips in behind it.
LEMMA CountsKept == PayoutInv /\ CountsHold /\ [Next]_vars => CountsHold'
<1>. SUFFICES ASSUME TypeOK, CountsHold, [Next]_vars PROVE CountsHold'
  BY DEF PayoutInv
<1>0. ASSUME NEW r \in Requests,
             completing'[r] = completing[r], counted'[r] = counted[r],
             \A p \in completing[r] :
                counted[r] = "YES" /\ (Payable(p) \/ p \in slipped[r]) => Payable(p)' \/ p \in slipped'[r]
      PROVE  CountHolds(r)'
  BY <1>0 DEF CountsHold, CountHolds
<1>1. ASSUME UNCHANGED <<status, payout, completionVars, slipped>> PROVE CountsHold'
  BY <1>0, <1>1 DEF CountsHold, Payable, completionVars
<1>2. ASSUME NEW q \in Payments, Refund(q) \/ MarkCommit(q) PROVE CountsHold'
  <2>1. UNCHANGED <<completing, counted>>
    BY <1>2 DEF Refund, MarkCommit, completionVars, callVars
  <2>2. \A p \in Payments \ {q} : Payable(p)' <=> Payable(p)
    BY <1>2 DEF Refund, MarkCommit, Payable, TypeOK
  <2>3. Slips(q) \/ (slipped' = slipped /\ Payable(q)' = Payable(q))
    BY <1>2 DEF Refund, MarkCommit, Payable, TypeOK
  <2>4. \A r \in Requests : slipped[r] \subseteq slipped'[r]
    BY <2>3 DEF Slips
  <2>5. \A r \in Requests : q \in completing[r] /\ counted[r] = "YES" /\ Payable(q)
                             => Payable(q)' \/ q \in slipped'[r]
    BY <2>3 DEF Slips
  <2>6. \A r \in Requests : completing[r] \subseteq Payments
    BY DEF TypeOK
  <2>. QED  BY <1>0, <2>1, <2>2, <2>4, <2>5, <2>6 DEF CountsHold
<1>3. ASSUME NEW q \in Payments, MarkUnpaid(q) PROVE CountsHold'
  <2>1. \A p \in Payments : Payable(p) => Payable(p)'
    BY <1>3 DEF MarkUnpaid, Payable, TypeOK
  <2>2. UNCHANGED <<completing, counted, slipped>> /\ \A r \in Requests : completing[r] \subseteq Payments
    BY <1>3 DEF MarkUnpaid, TypeOK, completionVars, callVars, historyVars
  <2>. QED  BY <1>0, <2>1, <2>2 DEF CountsHold
<1>4. ASSUME NEW s \in Requests,
             CompleteRead(s) \/ CompleteCount(s) \/ CompletionOver(s),
             UNCHANGED <<status, payout>>
      PROVE  CountsHold'
  <2>1. \A r \in Requests \ {s} : /\ completing'[r] = completing[r] /\ counted'[r] = counted[r]
                                   /\ slipped'[r] = slipped[r]
    BY <1>4 DEF CompleteRead, CompleteCount, CompletionOver, TypeOK, historyVars
  <2>2. CountHolds(s)'
    <3>1. CASE CompletionOver(s)
      BY <3>1 DEF CompletionOver, CountHolds, TypeOK
    <3>2. CASE CompleteRead(s)
      <4>1. counted[s] = "NO"
        BY <3>2 DEF CompleteRead, CountsHold, CountHolds, TypeOK
      <4>. QED  BY <3>2, <4>1 DEF CompleteRead, CountHolds
    <3>3. CASE CompleteCount(s)
      BY <1>4, <3>3 DEF CompleteCount, CountHolds, Payable, TypeOK
    <3>. QED  BY <1>4, <3>1, <3>2, <3>3
  <2>3. \A p \in Payments : Payable(p)' <=> Payable(p)
    BY <1>4 DEF Payable
  <2>. QED  BY <1>0, <2>1, <2>2, <2>3 DEF CountsHold, TypeOK
<1>5. CASE UNCHANGED vars
  BY <1>1, <1>5 DEF vars, moneyVars, callVars, historyVars
<1>6. CASE Vendor
  BY <1>1, <1>6 DEF Vendor, RequestRead, RequestCommit, RequestAbort, DeleteRejected, moneyVars,
     callVars, historyVars
<1>7. ASSUME NEW s \in Requests, Admin(s) PROVE CountsHold'
  <2>1. CASE CompleteRead(s) \/ CompleteCount(s) \/ CompleteDrift(s) \/ CompleteCommit(s) \/ CompleteAbort(s)
    BY <1>4, <2>1 DEF CompleteRead, CompleteCount, CompleteDrift, CompleteCommit, CompleteAbort, moneyVars
  <2>2. CASE ApproveRead(s) \/ Approve(s) \/ ApproveAbort(s) \/ RejectRead(s) \/ Reject(s) \/ RejectAbort(s)
    BY <1>1, <2>2 DEF ApproveRead, Approve, ApproveAbort, RejectRead, Reject, RejectAbort, moneyVars,
       historyVars
  <2>3. CASE (\E to \in {"PENDING", "APPROVED"} : RevertRead(s, to)) \/ RevertCommit(s) \/ RevertAbort(s)
    BY <1>1, <2>3 DEF RevertRead, RevertCommit, RevertAbort, moneyVars, historyVars
  <2>. QED  BY <1>7, <2>1, <2>2, <2>3 DEF Admin
<1>8. ASSUME NEW p \in Payments, MarkRead(p) \/ BookingEnds(p) PROVE CountsHold'
  BY <1>1, <1>8 DEF MarkRead, BookingEnds, moneyVars, callVars, historyVars
<1>. QED  BY <1>2, <1>3, <1>5, <1>6, <1>7, <1>8 DEF Next, Wire

LEMMA StutterKeeps == ASSUME PayoutInv, UNCHANGED vars PROVE PayoutInv'
<1>1. TypeOK'
  BY DEF PayoutInv, vars, TypeOK, moneyVars, requestVars, callVars, completionVars, historyVars
<1>. QED  BY <1>1, RequestsRest DEF vars, requestVars, callVars, completionVars, historyVars

LEMMA StepKeeps == PayoutInv /\ [Next]_vars => PayoutInv'
  BY VendorKeeps, WireKeeps, ApprovalKeeps, RejectionKeeps, CompletionKeeps, ReopeningKeeps,
     StutterKeeps DEF Next, Admin

-----------------------------------------------------------------------------

\* Each variable keeps its type.
THEOREM TypeCorrect == Spec => []TypeOK
<1>1. PayoutInv => TypeOK
  BY DEF PayoutInv
<1>. QED  BY <1>1, InitHolds, StepKeeps, PTL DEF Spec

\* Without a reopening, whatever tabs, retries and admins do, one request of
\* the vendor is in flight (requestPayout).
THEOREM OneIsActive == Spec => []OneActive
<1>1. PayoutInv => OneActive
  BY DEF PayoutInv
<1>. QED  BY <1>1, InitHolds, StepKeeps, PTL DEF Spec

\* What is approved is backed by the payments locked for it, for any amounts
\* and through every reopening (processPayoutRequest, revertPayoutRequest).
THEOREM AmountIsBacked == Spec => []AmountBacked
<1>1. PayoutInv => AmountBacked
  BY DEF PayoutInv
<1>. QED  BY <1>1, InitHolds, StepKeeps, PTL DEF Spec

\* A request that was never reopened completes only while all it locked is
\* payable, however old the completion's read is; only what changes between the
\* count and the update slips through (processPayoutRequest).
THEOREM CompletesPayable == Spec => CompletedWhenPayable
<1>. DEFINE Completes ==
       \A r \in Requests :
          request[r] = "APPROVED" /\ request'[r] = "COMPLETED" /\ r \notin reopened
             => \A p \in locked[r] : Payable(p) \/ p \in slipped[r]
<1>1. ASSUME PayoutInv, CountsHold, [Next]_vars PROVE Completes
  <2>. SUFFICES ASSUME NEW r \in Requests, request[r] = "APPROVED", request'[r] = "COMPLETED",
                       r \notin reopened
                PROVE  \A p \in locked[r] : Payable(p) \/ p \in slipped[r]
    OBVIOUS
  <2>0. /\ TypeOK /\ reverting[r] \subseteq Reopenings
        /\ completing[r] # {} => completing[r] = locked[r]
    BY <1>1 DEF PayoutInv, CompletionsKnow, TypeOK
  <2>1. \E s \in Requests : Admin(s)
    BY <1>1, <2>0 DEF Next, vars, Vendor, RequestRead, RequestAbort, RequestCommit, DeleteRejected,
       Wire, MarkRead, MarkCommit, MarkUnpaid, BookingEnds, Refund, TypeOK, requestVars
  <2>2. PICK s \in Requests : Admin(s)
    BY <2>1
  <2>3. UNCHANGED request \/ \E x \in {"PENDING", "APPROVED", "REJECTED"} : request' = [request EXCEPT ![s] = x]
        \/ CompleteCommit(s) \/ RevertCommit(s)
    BY <2>2 DEF Admin, ApproveRead, Approve, ApproveAbort, RejectRead, Reject, RejectAbort,
       CompleteRead, CompleteCount, CompleteDrift, CompleteAbort, RevertRead, RevertAbort, requestVars
  <2>4. CASE CompleteCommit(s)
    <3>1. s = r
      BY <2>0, <2>4 DEF CompleteCommit, TypeOK
    <3>2. counted[r] = "YES"
      BY <2>4, <3>1 DEF CompleteCommit
    <3>. QED  BY <1>1, <2>0, <3>2 DEF CountsHold, CountHolds
  <2>5. CASE RevertCommit(s)
    <3>1. \A move \in Reopenings : move[2] # "COMPLETED"
      BY DEF Reopenings
    <3>2. PICK move \in reverting[s] : request' = [request EXCEPT ![s] = move[2]]
      BY <2>5 DEF RevertCommit
    <3>. QED  BY <2>0, <3>1, <3>2 DEF TypeOK
  <2>. QED  BY <2>0, <2>3, <2>4, <2>5 DEF TypeOK
<1>2. Init => CountsHold
  BY DEF Init, CountsHold, CountHolds
<1>. QED  BY <1>1, <1>2, InitHolds, StepKeeps, CountsKept, PTL DEF Spec, CompletedWhenPayable
=============================================================================
