------------------------------- MODULE Payouts -------------------------------
(***************************************************************************)
(* The payout workflow of one vendor, in apps/api/src/vendor and           *)
(* apps/api/src/admin: the vendor requests a payout, admins approve,       *)
(* reject, complete and reopen the request, and record the bank wire by    *)
(* marking payments as paid.                                               *)
(*                                                                         *)
(* Payments are numbered in the order of their createdAt.  A database      *)
(* transaction is one action; what a handler has read before the statement *)
(* or transaction it commits with is kept in a variable (asked,            *)
(* approving, rejecting, completing, counted, reverting, marking).         *)
(* Transactions are READ COMMITTED and the count of a completion locks no  *)
(* row, so the count and the update are two actions.  A suspended vendor,  *)
(* a missing bank account and the cool-down only refuse calls; a call that *)
(* is refused for them is a call that is not made.                         *)
(***************************************************************************)
EXTENDS Naturals, FiniteSets, FiniteSetsExt

CONSTANTS
    Requests,     \* payout request ids, numbered in the order of their creation
    N,            \* number of payments
    Share,        \* vendor's share of each payment, totalPrice - commissionAmount
    Minimum,      \* MIN_PAYOUT_AMOUNT
    MaxCalls      \* bound on the calls, other than approvals and completions, that are
                  \* between their read and their commit

Payments == 1..N

\* What the vendor is owed for a set of payments.
Total(S) == MapThenSumSet(LAMBDA p : Share[p], S)

ASSUME ShareAssumption ==
    /\ N \in Nat
    /\ Requests \subseteq Nat
    /\ Share \in [Payments -> Nat \ {0}]
    /\ Minimum \in Nat \ {0}
    /\ MaxCalls \in Nat

VARIABLES
    status,       \* Payment.status of each payment
    payout,       \* Payment.payoutStatus
    ended,        \* the booking's endDatetime is before the payout cut-off
    request,      \* PayoutRequest.status; NONE before, DELETED after
    amount,       \* PayoutRequest.amount
    locked,       \* PayoutRequest.paymentIds
    asked,        \* balances that running requestPayout calls have computed
    approving,    \* amount read by a running approval of a PENDING request
    rejecting,    \* requests a running rejection has found PENDING
    completing,   \* paymentIds read by a running completion
    counted,      \* what that completion's count has found, YES or DRIFT; NO before
    reverting,    \* <<from, to>> of a running reopening, or {}
    marking,      \* payments a running mark-as-paid call has cleared
    reopened,     \* history: the requests that have been reopened
    slipped       \* history: payments refunded or paid since a running completion counted

moneyVars == <<status, payout, ended>>
requestVars == <<request, amount, locked>>
completionVars == <<completing, counted>>
callVars == <<asked, approving, rejecting, completionVars, reverting, marking>>
historyVars == <<reopened, slipped>>
vars == <<moneyVars, requestVars, callVars, historyVars>>

-----------------------------------------------------------------------------
RequestStatus == {"NONE", "PENDING", "APPROVED", "COMPLETED", "REJECTED", "DELETED"}

\* The reopenings that revertPayoutRequest allows.
Reopenings == {<<"APPROVED", "PENDING">>, <<"COMPLETED", "PENDING">>,
               <<"COMPLETED", "APPROVED">>, <<"REJECTED", "PENDING">>}

TypeOK ==
    /\ status \in [Payments -> {"SUCCESS", "REFUNDED"}]
    /\ payout \in [Payments -> {"UNPAID", "PAID"}]
    /\ ended \in [Payments -> BOOLEAN]
    /\ request \in [Requests -> RequestStatus]
    /\ amount \in [Requests -> Nat]
    /\ locked \in [Requests -> SUBSET Payments]
    /\ asked \in SUBSET Nat
    /\ approving \in [Requests -> Nat]
    /\ rejecting \in SUBSET Requests
    /\ completing \in [Requests -> SUBSET Payments]
    /\ counted \in [Requests -> {"NO", "YES", "DRIFT"}]
    /\ reverting \in [Requests -> SUBSET Reopenings]
    /\ marking \in SUBSET Payments
    /\ reopened \in SUBSET Requests
    /\ slipped \in [Requests -> SUBSET Payments]

Init ==
    /\ status = [p \in Payments |-> "SUCCESS"]
    /\ payout = [p \in Payments |-> "UNPAID"]
    /\ ended = [p \in Payments |-> FALSE]
    /\ request = [r \in Requests |-> "NONE"]
    /\ amount = [r \in Requests |-> 0]
    /\ locked = [r \in Requests |-> {}]
    /\ asked = {}
    /\ approving = [r \in Requests |-> 0]
    /\ rejecting = {}
    /\ completing = [r \in Requests |-> {}]
    /\ counted = [r \in Requests |-> "NO"]
    /\ reverting = [r \in Requests |-> {}]
    /\ marking = {}
    /\ reopened = {}
    /\ slipped = [r \in Requests |-> {}]

-----------------------------------------------------------------------------
Active(r) == request[r] \in {"PENDING", "APPROVED"}
Closing(r) == request[r] \in {"APPROVED", "COMPLETED"}

\* Another call may begin; an approval and a completion always may.
Room ==
    Cardinality(asked) + Cardinality(rejecting) + Cardinality(marking)
      + Cardinality({r \in Requests : completing[r] # {}})
      + Cardinality({r \in Requests : reverting[r] # {}}) < MaxCalls

NoneActive == \A r \in Requests : ~Active(r)

\* SUCCESS and UNPAID: the platform still owes the vendor for it.
Payable(p) == status[p] = "SUCCESS" /\ payout[p] = "UNPAID"

\* What the vendor may ask for: ended, payable, in no approved or completed
\* request.
Askable ==
    {p \in Payments : /\ ended[p] /\ Payable(p)
                      /\ \A r \in Requests : Closing(r) => p \notin locked[r]}

\* A payment stops being payable behind the count of a completion.
Slips(p) ==
    slipped' = [r \in Requests |->
                  slipped[r] \cup {q \in {p} \cap completing[r] : counted[r] = "YES"}]

\* The money side.  The booking ends, which nothing asks of a refunded one; a
\* cancel by an admin refunds the payment, paid out or not.
BookingEnds(p) ==
    /\ ~ended[p] /\ status[p] = "SUCCESS"
    /\ ended' = [ended EXCEPT ![p] = TRUE]
    /\ UNCHANGED <<status, payout, requestVars, callVars, historyVars>>

Refund(p) ==
    /\ status[p] = "SUCCESS"
    /\ status' = [status EXCEPT ![p] = "REFUNDED"]
    /\ Slips(p)
    /\ UNCHANGED <<payout, ended, requestVars, callVars, reopened>>

-----------------------------------------------------------------------------
(* The vendor.                                                             *)

\* requestPayout, evaluatePayoutEligibility: no request in flight and a
\* balance of at least the minimum.
RequestRead ==
    /\ Room
    /\ NoneActive
    /\ Total(Askable) >= Minimum
    /\ asked' = asked \cup {Total(Askable)}
    /\ UNCHANGED <<moneyVars, requestVars, approving, rejecting, completionVars, reverting, marking, historyVars>>

\* The id of the next row.
NextId(r) == \A s \in Requests : request[s] = "NONE" <=> r <= s

\* Bug: the transaction trusts the check made before it.
RequestCommitUnchecked(r, balance) ==
    /\ balance \in asked
    /\ NextId(r)
    /\ request' = [request EXCEPT ![r] = "PENDING"]
    /\ amount' = [amount EXCEPT ![r] = balance]
    /\ \/ asked' = asked \ {balance}
       \/ UNCHANGED asked
    /\ UNCHANGED <<moneyVars, locked, approving, rejecting, completionVars, reverting, marking, historyVars>>

\* requestPayout, the serializable transaction: checked again, then created.
\* Another call with the same balance may still be running.
RequestCommit(r, balance) ==
    /\ balance \in asked
    /\ NextId(r)
    /\ NoneActive
    /\ request' = [request EXCEPT ![r] = "PENDING"]
    /\ amount' = [amount EXCEPT ![r] = balance]
    /\ \/ asked' = asked \ {balance}
       \/ UNCHANGED asked
    /\ UNCHANGED <<moneyVars, locked, approving, rejecting, completionVars, reverting, marking, historyVars>>

\* The running calls find a request in flight, or are aborted.
RequestAbort ==
    /\ asked # {}
    /\ asked' = {}
    /\ UNCHANGED <<moneyVars, requestVars, approving, rejecting, completionVars, reverting, marking, historyVars>>

\* deletePayoutRequest: the vendor clears a rejected request.
DeleteRejected(r) ==
    /\ request[r] = "REJECTED"
    /\ request' = [request EXCEPT ![r] = "DELETED"]
    /\ amount' = [amount EXCEPT ![r] = 0]
    /\ locked' = [locked EXCEPT ![r] = {}]
    /\ UNCHANGED <<moneyVars, callVars, historyVars>>

-----------------------------------------------------------------------------
(* The admin: processPayoutRequest.                                        *)

\* The read of a PENDING request, before it is approved.  Bound: one approval
\* of a request is in flight at a time.
ApproveRead(r) ==
    /\ request[r] = "PENDING"
    /\ approving[r] = 0
    /\ approving' = [approving EXCEPT ![r] = amount[r]]
    /\ UNCHANGED <<moneyVars, requestVars, asked, rejecting, completionVars, reverting, marking, historyVars>>

\* The payments approval locks: the eligible ones in order of creation, until
\* the requested amount is reached.
ToLock(requested) ==
    LET eligible == {p \in Payments : ended[p] /\ Payable(p)} IN
    {p \in eligible : Total({q \in eligible : q < p}) < requested}

\* Bug: the snapshot amount is approved as it was requested.
FinalAmountUncapped(requested) == requested

\* The approved amount: capped at what the locked payments are worth.
FinalAmount(requested) ==
    IF requested < Total(ToLock(requested)) THEN requested ELSE Total(ToLock(requested))

\* PENDING to APPROVED, the transaction.
Approve(r) ==
    /\ approving[r] > 0
    /\ request[r] = "PENDING"
    /\ ToLock(approving[r]) # {}
    /\ request' = [request EXCEPT ![r] = "APPROVED"]
    /\ amount' = [amount EXCEPT ![r] = FinalAmount(approving[r])]
    /\ locked' = [locked EXCEPT ![r] = ToLock(approving[r])]
    /\ approving' = [approving EXCEPT ![r] = 0]
    /\ UNCHANGED <<moneyVars, asked, rejecting, completionVars, reverting, marking, historyVars>>

\* Nothing is left to pay, another admin was faster, or the database failed.
ApproveAbort(r) ==
    /\ approving[r] > 0
    /\ approving' = [approving EXCEPT ![r] = 0]
    /\ UNCHANGED <<moneyVars, requestVars, asked, rejecting, completionVars, reverting, marking, historyVars>>

\* The read of a PENDING request, before it is rejected.
RejectRead(r) ==
    /\ Room
    /\ request[r] = "PENDING"
    /\ rejecting' = rejecting \cup {r}
    /\ UNCHANGED <<moneyVars, requestVars, asked, approving, completionVars, reverting, marking, historyVars>>

\* PENDING to REJECTED: an update by id, whatever the request has become.
Reject(r) ==
    /\ r \in rejecting
    /\ request[r] # "DELETED"
    /\ request' = [request EXCEPT ![r] = "REJECTED"]
    /\ rejecting' = rejecting \ {r}
    /\ UNCHANGED <<moneyVars, amount, locked, asked, approving, completionVars, reverting, marking, historyVars>>

RejectAbort(r) ==
    /\ r \in rejecting
    /\ rejecting' = rejecting \ {r}
    /\ UNCHANGED <<moneyVars, requestVars, asked, approving, completionVars, reverting, marking, historyVars>>

\* APPROVED to COMPLETED, the read of the request.  Bound: one completion of a
\* request is in flight at a time.
CompleteRead(r) ==
    /\ request[r] = "APPROVED"
    /\ locked[r] # {}
    /\ completing[r] = {}
    /\ completing' = [completing EXCEPT ![r] = locked[r]]
    /\ UNCHANGED <<moneyVars, requestVars, asked, approving, rejecting, counted, reverting, marking, historyVars>>

\* Bug: the transaction trusts the pre-flight count, made a while ago.
CompleteCountUnchecked(r) ==
    /\ completing[r] # {} /\ counted[r] = "NO"
    /\ counted' = [counted EXCEPT ![r] = "YES"]
    /\ UNCHANGED <<moneyVars, requestVars, asked, approving, rejecting, completing, reverting, marking, historyVars>>

\* A count of the payments that are still payable.  The pre-flight count finds
\* the drift; a drift that only the transaction's own count finds is an error
\* like any other (CompleteAbort).
CompleteCount(r) ==
    /\ completing[r] # {} /\ counted[r] = "NO"
    /\ counted' = [counted EXCEPT ![r] =
                     IF \A p \in completing[r] : Payable(p) THEN "YES" ELSE "DRIFT"]
    /\ UNCHANGED <<moneyVars, requestVars, asked, approving, rejecting, completing, reverting, marking, historyVars>>

\* The call is over.
CompletionOver(r) ==
    /\ completing' = [completing EXCEPT ![r] = {}]
    /\ counted' = [counted EXCEPT ![r] = "NO"]
    /\ slipped' = [slipped EXCEPT ![r] = {}]

\* Bug: the reopening is rolled back by the error that follows it.
CompleteDriftRolledBack(r) ==
    /\ counted[r] = "DRIFT"
    /\ request[r] = "APPROVED"
    /\ CompletionOver(r)
    /\ UNCHANGED <<moneyVars, requestVars, asked, approving, rejecting, reverting, marking, reopened>>

\* Drift: the request goes back to PENDING in a statement of its own, and the
\* call fails.
CompleteDrift(r) ==
    /\ counted[r] = "DRIFT"
    /\ request[r] = "APPROVED"
    /\ request' = [request EXCEPT ![r] = "PENDING"]
    /\ locked' = [locked EXCEPT ![r] = {}]
    /\ CompletionOver(r)
    /\ UNCHANGED <<moneyVars, amount, asked, approving, rejecting, reverting, marking, reopened>>

\* The transaction's update.  It locks the request's row and not the payments
\* that were counted: they may have changed since.
CompleteCommit(r) ==
    /\ counted[r] = "YES"
    /\ request[r] = "APPROVED"
    /\ request' = [request EXCEPT ![r] = "COMPLETED"]
    /\ CompletionOver(r)
    /\ UNCHANGED <<moneyVars, amount, locked, asked, approving, rejecting, reverting, marking, reopened>>

\* Another admin was faster, a payment changed meanwhile, the database failed.
\* A failure before the count leaves what one after it does.
CompleteAbort(r) ==
    /\ counted[r] # "NO"
    /\ CompletionOver(r)
    /\ UNCHANGED <<moneyVars, requestVars, asked, approving, rejecting, reverting, marking, reopened>>

-----------------------------------------------------------------------------
(* The admin: revertPayoutRequest.                                         *)

\* The checks: no other request in flight; a completed request is reopened
\* only while its payments are all payable.
RevertAllowed(r, to) ==
    /\ <<request[r], to>> \in Reopenings
    /\ \A s \in Requests \ {r} : ~Active(s)
    /\ request[r] = "COMPLETED" => \A p \in locked[r] : Payable(p)

RevertRead(r, to) ==
    /\ Room
    /\ RevertAllowed(r, to)
    /\ reverting[r] = {}
    /\ reverting' = [reverting EXCEPT ![r] = {<<request[r], to>>}]
    /\ UNCHANGED <<moneyVars, requestVars, asked, approving, rejecting, completionVars, marking, historyVars>>

\* The update, if the request still has the status that was read.  Going back
\* to PENDING releases the payments.
RevertCommit(r) ==
    /\ \E move \in reverting[r] :
          /\ request[r] = move[1]
          /\ request' = [request EXCEPT ![r] = move[2]]
          /\ locked' = [locked EXCEPT ![r] = IF move[2] = "PENDING" THEN {} ELSE @]
    /\ reverting' = [reverting EXCEPT ![r] = {}]
    /\ reopened' = reopened \cup {r}
    /\ UNCHANGED <<moneyVars, amount, asked, approving, rejecting, completionVars, marking, slipped>>

RevertAbort(r) ==
    /\ reverting[r] # {}
    /\ reverting' = [reverting EXCEPT ![r] = {}]
    /\ UNCHANGED <<moneyVars, requestVars, asked, approving, rejecting, completionVars, marking, historyVars>>

-----------------------------------------------------------------------------
(* The admin: the wire.                                                    *)

\* markPayoutsPaid, the checks: no request waits for a decision, the payment is
\* in no approved request, and it is not in escrow.
MarkRead(p) ==
    /\ Room
    /\ \A r \in Requests : /\ request[r] # "PENDING"
                           /\ request[r] = "APPROVED" => p \notin locked[r]
    /\ Payable(p) => ended[p]
    /\ marking' = marking \cup {p}
    /\ UNCHANGED <<moneyVars, requestVars, asked, approving, rejecting, completionVars, reverting, historyVars>>

\* The update: payable rows whose booking is over become PAID; a row that
\* changed since the checks is left and reported to the admins.
MarkCommit(p) ==
    /\ p \in marking
    /\ payout' = [payout EXCEPT ![p] = IF Payable(p) /\ ended[p] THEN "PAID" ELSE @]
    /\ marking' = marking \ {p}
    /\ IF payout'[p] # payout[p] THEN Slips(p) ELSE UNCHANGED slipped
    /\ UNCHANGED <<status, ended, requestVars, asked, approving, rejecting, completionVars, reverting, reopened>>

\* markPayoutUnpaid.  While the payment is PAID no approval can lock it, so the
\* check for a locking request and the update are one step.
MarkUnpaid(p) ==
    /\ status[p] = "SUCCESS"
    /\ payout[p] = "PAID"
    /\ \A r \in Requests : Closing(r) => p \notin locked[r]
    /\ payout' = [payout EXCEPT ![p] = "UNPAID"]
    /\ UNCHANGED <<status, ended, requestVars, callVars, historyVars>>

-----------------------------------------------------------------------------
Vendor ==
    \/ RequestRead
    \/ RequestAbort
    \/ \E r \in Requests : DeleteRejected(r) \/ \E balance \in asked : RequestCommit(r, balance)

Admin(r) ==
    \/ ApproveRead(r) \/ Approve(r) \/ ApproveAbort(r)
    \/ RejectRead(r) \/ Reject(r) \/ RejectAbort(r)
    \/ CompleteRead(r) \/ CompleteCount(r) \/ CompleteDrift(r) \/ CompleteCommit(r) \/ CompleteAbort(r)
    \/ \E to \in {"PENDING", "APPROVED"} : RevertRead(r, to)
    \/ RevertCommit(r) \/ RevertAbort(r)

Wire(p) == MarkRead(p) \/ MarkCommit(p) \/ MarkUnpaid(p)

Next ==
    \/ Vendor
    \/ \E r \in Requests : Admin(r)
    \/ \E p \in Payments : Wire(p) \/ BookingEnds(p) \/ Refund(p)

Spec == Init /\ [][Next]_vars

\* An admin who finds an approved request completes it, again if the call
\* failed, and not every call fails.
FairSpec ==
    /\ Spec
    /\ \A r \in Requests : /\ WF_vars(CompleteRead(r) \/ CompleteCount(r))
                           /\ SF_vars(CompleteDrift(r) \/ CompleteCommit(r))

-----------------------------------------------------------------------------
(* What must hold.                                                         *)

\* At most one request of the vendor is in flight, however many tabs, retries
\* and admins work on them, unless one of them was reopened (requestPayout,
\* revertPayoutRequest).
OneActive ==
    \A r, s \in Requests \ reopened : Active(r) /\ Active(s) => r = s

\* The vendor is promised no more than the payments locked for the promise are
\* worth, although refunds come between request and approval.
AmountBacked ==
    \A r \in Requests : Closing(r) => 0 < amount[r] /\ amount[r] <= Total(locked[r])

\* A request is completed only while the platform still owes for every payment
\* in it: a refund or a wire since the approval sends it back instead.  Only one
\* that falls between the transaction's count and its update slips through.  A
\* call that outlives a reopening and a second approval counts the first
\* approval's payments (processPayoutRequest).
CompletedWhenPayable ==
    [][\A r \in Requests :
          request[r] = "APPROVED" /\ request'[r] = "COMPLETED" /\ r \notin reopened
             => \A p \in locked[r] : Payable(p) \/ p \in slipped[r]]_vars

\* No approved request is stuck: it is completed or goes back for a decision,
\* even when its payments were refunded or paid under it.
ApprovedEnds == \A r \in Requests : request[r] = "APPROVED" ~> request[r] # "APPROVED"

\* "Block if the vendor already has another in-flight request" (revertPayoutRequest),
\* by checks that pass each other.
NeverTwoActive == \A r, s \in Requests : Active(r) /\ Active(s) => r = s

\* "A payment that's already in an APPROVED/COMPLETED request cannot land in a
\* subsequent request" (PayoutRequest.paymentIds).
LockedOnce ==
    \A r, s \in Requests :
        r # s /\ Closing(r) /\ Closing(s) => locked[r] \cap locked[s] = {}

\* "Enforce valid status transitions" (processPayoutRequest): a rejection
\* takes a pending request only.
RejectsPending ==
    [][\A r \in Requests :
          request'[r] = "REJECTED" => request[r] \in {"PENDING", "REJECTED"}]_vars

\* "A race with markPayoutUnpaid / cascade refunds can't silently settle a request
\* against missing money" (processPayoutRequest).
NothingSlips ==
    [][\A r \in Requests :
          request[r] = "APPROVED" /\ request'[r] = "COMPLETED" /\ r \notin reopened
             => \A p \in locked[r] : Payable(p)]_vars

\* Marking a payment of a completed request as paid by mistake can be undone:
\* "Revert the request from the Payout Requests page instead" (markPayoutUnpaid)
\* and "Revert those payouts first, then retry" (revertPayoutRequest).
MistakeReversible ==
    \A r \in Requests, p \in Payments :
        /\ request[r] = "COMPLETED" /\ p \in locked[r]
        /\ status[p] = "SUCCESS" /\ payout[p] = "PAID" /\ reverting[r] = {}
        => \/ ENABLED MarkUnpaid(p)
           \/ \E to \in {"PENDING", "APPROVED"} : ENABLED RevertRead(r, to)

=============================================================================
