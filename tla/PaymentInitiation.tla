-------------------------- MODULE PaymentInitiation --------------------------
(***************************************************************************)
(* The hand-off of one booking's payment to the PAY2M gateway              *)
(* (initiatePayment, apps/api/src/payment), called from several tabs and   *)
(* by retries, under the Redis lock payment_lock:<payment id>.  A call     *)
(* reads the payment row, takes the lock, writes the basket id to the row, *)
(* fetches an access token for the basket and answers with the checkout    *)
(* form.  The gateway's callback finds the payment by its basket id, if    *)
(* cancelBooking has not deleted the row meanwhile.                        *)
(***************************************************************************)
EXTENDS Naturals

CONSTANTS
    Calls,        \* calls of initiatePayment for the payment
    Baskets,      \* fresh basket ids (random, so never drawn twice)
    NoBasket,     \* gatewayBasketId IS NULL
    NoCall        \* the lock key is not set

ASSUME NoBasketAssumption == NoBasket \notin Baskets
ASSUME NoCallAssumption == NoCall \notin Calls

VARIABLES
    step,         \* where each call is
    saw,          \* gatewayBasketId the call read
    sent,         \* basket the call works with
    lock,         \* value of the lock key: the call whose token it holds
    basket,       \* Payment.gatewayBasketId
    state,        \* PENDING: booking and payment are, and the hold is alive; LAPSED: only
                  \* the payment is; FAILED: the payment is not (any more)
    gone,         \* the payment row has been deleted; basket and state stay as they were
    deleting,     \* a cancelBooking call has taken the branch that deletes the rows
    drawnBehind,  \* history: a basket was drawn after that call had found none
    issued,       \* baskets with a checkout form in some browser
    captured,     \* external: baskets the gateway took money for
    unknown       \* captured baskets whose callback answered "Payment not found"

rowVars == <<state, gone>>
cancelVars == <<deleting, drawnBehind>>
gatewayVars == <<issued, captured, unknown>>
callVars == <<step, saw, sent, lock, basket, rowVars, cancelVars, gatewayVars>>

CallsTypeOK ==
    /\ step \in [Calls -> {"IDLE", "READ", "LOCKED", "WRITTEN", "ANSWERED", "DONE"}]
    /\ saw \in [Calls -> Baskets \cup {NoBasket}]
    /\ sent \in [Calls -> Baskets \cup {NoBasket}]
    /\ lock \in Calls \cup {NoCall}
    /\ basket \in Baskets \cup {NoBasket}
    /\ state \in {"PENDING", "LAPSED", "FAILED"}
    /\ gone \in BOOLEAN
    /\ deleting \in BOOLEAN
    /\ drawnBehind \in BOOLEAN
    /\ issued \in SUBSET Baskets
    /\ captured \in SUBSET Baskets
    /\ unknown \in SUBSET Baskets

CallsInit ==
    /\ step = [c \in Calls |-> "IDLE"]
    /\ saw = [c \in Calls |-> NoBasket]
    /\ sent = [c \in Calls |-> NoBasket]
    /\ lock = NoCall
    /\ basket = NoBasket
    /\ state = "PENDING"
    /\ gone = FALSE
    /\ deleting = FALSE
    /\ drawnBehind = FALSE
    /\ issued = {}
    /\ captured = {}
    /\ unknown = {}

-----------------------------------------------------------------------------
\* Call c goes on from one step to the next.
Goes(c, from, to) == step[c] = from /\ step' = [step EXCEPT ![c] = to]

\* The checks and the reads, before the lock.
ReadPayment(c) ==
    /\ Goes(c, "IDLE", "READ")
    /\ state = "PENDING" /\ ~gone
    /\ saw' = [saw EXCEPT ![c] = basket]
    /\ UNCHANGED <<sent, lock, basket, rowVars, cancelVars, gatewayVars>>

\* redisLock.acquire: SET NX.  Redis being out of reach counts as acquired.
Acquire(c) ==
    /\ Goes(c, "READ", "LOCKED")
    /\ \/ lock = NoCall /\ lock' = c
       \/ UNCHANGED lock
    /\ UNCHANGED <<saw, sent, basket, rowVars, cancelVars, gatewayVars>>

\* The lock is taken: the call is refused.
Refused(c) ==
    /\ Goes(c, "READ", "DONE")
    /\ lock # NoCall
    /\ UNCHANGED <<saw, sent, lock, basket, rowVars, cancelVars, gatewayVars>>

\* The update: the basket that was read is kept, otherwise a fresh one is
\* written.  Neither the row's basket nor its status is looked at again.
WriteBasket(c) ==
    /\ Goes(c, "LOCKED", "WRITTEN")
    /\ ~gone
    /\ \/ /\ saw[c] # NoBasket
          /\ sent' = [sent EXCEPT ![c] = saw[c]]
          /\ UNCHANGED <<basket, drawnBehind>>
       \/ /\ saw[c] = NoBasket
          /\ \E b \in Baskets :
                /\ \A d \in Calls : sent[d] # b
                /\ sent' = [sent EXCEPT ![c] = b]
                /\ basket' = b
          /\ drawnBehind' = (drawnBehind \/ deleting)
    /\ UNCHANGED <<saw, lock, rowVars, deleting, gatewayVars>>

\* The row to update is gone: the call throws.
WriteFails(c) ==
    /\ Goes(c, "LOCKED", "ANSWERED")
    /\ gone
    /\ UNCHANGED <<saw, sent, lock, basket, rowVars, cancelVars, gatewayVars>>

\* getAccessToken answers and the form is returned, or the gateway fails and
\* the call throws.  The basket is on the row either way.
Answer(c) ==
    /\ Goes(c, "WRITTEN", "ANSWERED")
    /\ \/ issued' = issued \cup {sent[c]}
       \/ UNCHANGED issued
    /\ UNCHANGED <<saw, sent, lock, basket, rowVars, cancelVars, captured, unknown>>

\* finally: the lock is deleted if it still holds the call's own token.
Release(c) ==
    /\ Goes(c, "ANSWERED", "DONE")
    /\ lock' = IF lock = c THEN NoCall ELSE lock
    /\ UNCHANGED <<saw, sent, basket, rowVars, cancelVars, gatewayVars>>

\* The lock's 30 s pass while its holder still waits for the gateway.
LockExpires ==
    /\ lock # NoCall
    /\ lock' = NoCall
    /\ UNCHANGED <<step, saw, sent, basket, rowVars, cancelVars, gatewayVars>>

\* The hold lapses or the booking is confirmed by staff; the payment leaves
\* PENDING.
PendingOver ==
    /\ ~gone
    /\ \/ state = "PENDING" /\ state' = "LAPSED"
       \/ state # "FAILED" /\ state' = "FAILED"
    /\ UNCHANGED <<step, saw, sent, lock, basket, gone, cancelVars, gatewayVars>>

\* Bug: the branch for a payment in flight is missing.
CancelReadInFlight ==
    /\ ~gone
    /\ deleting' = TRUE
    /\ UNCHANGED <<step, saw, sent, lock, basket, rowVars, drawnBehind, gatewayVars>>

\* cancelBooking reads a payment that has no basket, or is FAILED under a booking
\* that staff have revived: it will delete the rows.  With a basket and a PENDING
\* payment it keeps them (PendingOver).
CancelRead ==
    /\ ~gone
    /\ basket = NoBasket \/ state = "FAILED"
    /\ deleting' = TRUE
    /\ UNCHANGED <<step, saw, sent, lock, basket, rowVars, drawnBehind, gatewayVars>>

\* The payment row is deleted by its id, whatever it holds by now.
CancelDelete ==
    /\ deleting /\ ~gone
    /\ gone' = TRUE
    /\ deleting' = FALSE
    /\ UNCHANGED <<step, saw, sent, lock, basket, state, drawnBehind, gatewayVars>>

\* The transaction fails, or finds the booking deleted already.
CancelAbort ==
    /\ deleting
    /\ deleting' = FALSE
    /\ drawnBehind' = FALSE
    /\ UNCHANGED <<step, saw, sent, lock, basket, rowVars, gatewayVars>>

\* External: a checkout is completed.
Capture(b) ==
    /\ b \in issued \ captured
    /\ captured' = captured \cup {b}
    /\ UNCHANGED <<step, saw, sent, lock, basket, rowVars, cancelVars, issued, unknown>>

\* handleCallback for a basket that no payment row has (any more).
CallbackUnknown(b) ==
    /\ b \in captured \ unknown
    /\ basket # b \/ gone
    /\ unknown' = unknown \cup {b}
    /\ UNCHANGED <<step, saw, sent, lock, basket, rowVars, cancelVars, issued, captured>>

Call(c) ==
    ReadPayment(c) \/ Acquire(c) \/ Refused(c) \/ WriteBasket(c) \/ WriteFails(c) \/ Answer(c) \/ Release(c)

CallsNext ==
    \/ \E c \in Calls : Call(c)
    \/ LockExpires
    \/ PendingOver
    \/ CancelRead \/ CancelDelete \/ CancelAbort
    \/ \E b \in Baskets : Capture(b) \/ CallbackUnknown(b)

CallsSpec == CallsInit /\ [][CallsNext]_callVars

-----------------------------------------------------------------------------
\* Two calls have read the payment before either gave it a basket.
FirstReadsOverlapped ==
    \E c, d \in Calls :
        /\ c # d
        /\ {step[c], step[d]} \cap {"IDLE"} = {}
        /\ saw[c] = NoBasket /\ saw[d] = NoBasket

\* The cancel that deleted basket b's row had read it before the basket was
\* drawn, or found the payment FAILED.
DeletedBehind(b) == gone /\ basket = b /\ (drawnBehind \/ state = "FAILED")

\* A customer's money is lost from sight only if two first initiations
\* overlapped, or a cancel deleted the row on a read that was overtaken by the
\* initiation: retries, expired locks, a Redis outage and a payment that is no
\* longer PENDING all lead back to the one basket, and a cancel that sees the
\* basket keeps the row (initiatePayment, cancelBooking).
LostOnlyByRace == \A b \in unknown : FirstReadsOverlapped \/ DeletedBehind(b)

\* "gatewayBasketId + paymentFirstInitiatedAt are set ONCE on the first
\* initiate" (initiatePayment).
BasketSetOnce == [][basket # NoBasket => basket' = basket]_callVars

\* "Payments are never hard-deleted" while a capture may still come: a late
\* success callback must find the payment (cancelBooking).
PaymentFound == unknown # {} => FirstReadsOverlapped
=============================================================================
