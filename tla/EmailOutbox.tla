----------------------------- MODULE EmailOutbox -----------------------------
(* The e-mail outbox: rows enqueued with a booking, the drain that every   *)
(* pod starts each minute under a leader lock with a time to live          *)
(* (email/outbox-drain.service.ts), and the send that passes the           *)
(* suppression list, the daily cap and the pod's circuit breaker           *)
(* (email/email.service.ts), which the pod's other mail passes too.        *)
EXTENDS CircuitBreaker, FiniteSets

CONSTANTS
    Rows,           \* outbox rows
    Poison,         \* those with a payload that no template takes
    Drains,         \* runs of the drain
    Others,         \* other mail of the pods
    Pods,
    Placements,     \* where drains and other mail may run: functions to Pods
    MaxAttempts,
    Batch,          \* rows a drain takes at most
    MaxFaults,      \* bound on crashes and database errors
    SlowCalls,      \* a call may take longer than a breaker stays open
    Nobody

ASSUME OutboxAssumption ==
    /\ MaxAttempts \in Nat \ {0} /\ Batch \in Nat \ {0} /\ MaxFaults \in Nat
    /\ Poison \subseteq Rows /\ Nobody \notin Rows \cup Drains /\ Drains \cap Others = {}
    /\ Placements \subseteq [Drains \cup Others -> Pods] /\ SlowCalls \in BOOLEAN

VARIABLES
    podOf,
    row,        \* [status, attempts, due]
    leader,     \* the drain whose token holds the lock, or Nobody
    drain,      \* each run: [pc, todo, seen (attempts as picked), at]
    other,      \* each other mail: whether its call is in flight
    breaker,    \* of each pod
    probes,     \* history: calls in flight that were admitted as a probe
    faults,
    copies,     \* history: messages of each row that the provider has taken, or
                \* Excused once something has happened that justifies a second
    reached     \* history: the rows with a message taken, or dropped on purpose

vars == <<podOf, row, leader, drain, other, breaker, probes, faults, copies, reached>>

Callers == Drains \cup Others
Excused == 3
Taken(n) == IF n < 2 THEN n + 1 ELSE n

\* Every variable keeps its type.
TypeOK ==
    /\ podOf \in Placements
    /\ row \in [Rows -> [status : {"NONE", "PENDING", "SENT", "FAILED"},
                         attempts : 0..MaxAttempts, due : BOOLEAN]]
    /\ leader \in Drains \cup {Nobody}
    /\ drain \in [Drains -> [pc : {"IDLE", "NEXT", "CALLING", "SENT", "FAILED"},
                             todo : SUBSET Rows, seen : [Rows -> 0..MaxAttempts],
                             at : Rows \cup {Nobody}]]
    /\ other \in [Others -> BOOLEAN]
    /\ breaker \in [Pods -> Breakers]
    /\ probes \subseteq Callers
    /\ faults \in 0..MaxFaults
    /\ copies \in [Rows -> 0..2 \cup {Excused}] /\ reached \subseteq Rows

Resting == [pc |-> "IDLE", todo |-> {}, seen |-> [r \in Rows |-> 0], at |-> Nobody]

Init ==
    /\ podOf \in Placements
    /\ row = [r \in Rows |-> [status |-> "NONE", attempts |-> 0, due |-> FALSE]]
    /\ leader = Nobody
    /\ drain = [w \in Drains |-> Resting]
    /\ other = [o \in Others |-> FALSE]
    /\ breaker = [p \in Pods |-> Closed]
    /\ probes = {}
    /\ faults = 0
    /\ copies = [r \in Rows |-> 0] /\ reached = {}

-----------------------------------------------------------------------------
(* Rows.                                                                   *)

\* The booking is confirmed; a failed insert is logged and leaves no row.
Enqueue(r) ==
    /\ row[r].status = "NONE"
    /\ row' = [row EXCEPT ![r].status = "PENDING", ![r].due = TRUE]
    /\ UNCHANGED <<podOf, leader, drain, other, breaker, probes, faults, copies, reached>>

\* nextAttemptAt is reached.
BackoffEnds(r) ==
    /\ row[r].status = "PENDING" /\ ~row[r].due
    /\ row' = [row EXCEPT ![r].due = TRUE]
    /\ UNCHANGED <<podOf, leader, drain, other, breaker, probes, faults, copies, reached>>

-----------------------------------------------------------------------------
(* A drain.                                                                *)

DueRows == {r \in Rows : row[r].status = "PENDING" /\ row[r].due}

MayLead == leader = Nobody
\* withLeaderLock and the read of the batch.
Start(w) ==
    /\ drain[w].pc = "IDLE"
    /\ MayLead
    /\ \E batch \in SUBSET DueRows :
        /\ batch # {}
        /\ Cardinality(batch) = Batch \/ (batch = DueRows /\ Cardinality(batch) < Batch)
        /\ drain' = [drain EXCEPT ![w] =
                        [pc |-> "NEXT", todo |-> batch, at |-> Nobody,
                         seen |-> [r \in Rows |-> IF r \in batch THEN row[r].attempts ELSE 0]]]
    /\ leader' = w
    /\ UNCHANGED <<podOf, row, other, breaker, probes, faults, copies, reached>>

\* Bug: SET NX without PX.
TtlEndsNever == FALSE
TtlEnds == leader # Nobody
\* The lock's time to live ends while the drain goes on, or after it crashed.
LockExpires ==
    /\ TtlEnds
    /\ leader' = Nobody
    /\ copies' = [r \in Rows |->
                     IF r \in drain[leader].todo \cup {drain[leader].at} THEN Excused ELSE copies[r]]
    /\ UNCHANGED <<podOf, row, drain, other, breaker, probes, faults, reached>>

\* Bug: the lock is deleted whoever holds it.
ReleasedByAll(w) == Nobody
\* RELEASE_SCRIPT: only the holder's token deletes.
Released(w) == IF leader = w THEN Nobody ELSE leader

Refused(w, r) == "FAILED"

Take(w, r, pc) == [drain EXCEPT ![w].pc = pc, ![w].at = r, ![w].todo = @ \ {r}]

\* dispatch of the next row: it is malformed; or its recipient is suppressed or
\* the day's cap is reached, and it is reported sent; or the breaker refuses; or
\* the provider is called.
Dispatch(w, r) ==
    LET b == breaker[podOf[w]] IN
    /\ drain[w].pc = "NEXT"
    /\ r \in drain[w].todo
    /\ \/ /\ r \in Poison
          /\ drain' = Take(w, r, "FAILED")
          /\ UNCHANGED <<breaker, probes, reached>>
       \/ /\ r \notin Poison
          /\ drain' = Take(w, r, "SENT")
          /\ reached' = reached \cup {r}
          /\ UNCHANGED <<breaker, probes>>
       \/ /\ r \notin Poison /\ ~Admits(b)
          /\ drain' = Take(w, r, Refused(w, r))
          /\ UNCHANGED <<breaker, probes, reached>>
       \/ /\ r \notin Poison /\ Admits(b)
          /\ drain' = Take(w, r, "CALLING")
          /\ breaker' = [breaker EXCEPT ![podOf[w]] = Entered(b)]
          /\ probes' = IF b.state = "CLOSED" THEN probes ELSE probes \cup {w}
          /\ UNCHANGED reached
    /\ UNCHANGED <<podOf, row, leader, other, faults, copies>>

\* The provider takes the message and says so; or it takes it and the answer
\* does not arrive in time; or it does not take it.
CallEnds(w, taken, told) ==
    LET r == drain[w].at
        p == podOf[w]
    IN
    /\ drain[w].pc = "CALLING"
    /\ told => taken
    /\ drain' = [drain EXCEPT ![w].pc = IF told THEN "SENT" ELSE "FAILED"]
    /\ breaker' = [breaker EXCEPT ![p] = IF told THEN Succeeded(@) ELSE Failed(@)]
    /\ probes' = probes \ {w}
    /\ copies' = [copies EXCEPT ![r] = IF taken /\ ~told THEN Excused
                                      ELSE IF taken THEN Taken(@) ELSE @]
    /\ reached' = IF taken THEN reached \cup {r} ELSE reached
    /\ UNCHANGED <<podOf, row, leader, other, faults>>

\* Bug: the update goes by the id alone.
AsPickedById(w, r) == TRUE
\* The where clause of every update of a row.
AsPicked(w, r) == row[r].status = "PENDING" /\ row[r].attempts = drain[w].seen[r]

GivesUp(n) == n >= MaxAttempts

\* The row becomes SENT, waits for its next attempt, or is given up.
Record(w) ==
    LET r == drain[w].at
        n == drain[w].seen[r] + 1
        ok == drain[w].pc = "SENT"
    IN
    /\ drain[w].pc \in {"SENT", "FAILED"}
    /\ row' = IF ~AsPicked(w, r) THEN row
              ELSE [row EXCEPT ![r] =
                        [status |-> IF ok THEN "SENT" ELSE IF GivesUp(n) THEN "FAILED" ELSE "PENDING",
                         attempts |-> n, due |-> FALSE]]
    /\ drain' = [drain EXCEPT ![w].pc = "NEXT", ![w].at = Nobody, ![w].seen[r] = 0]
    /\ UNCHANGED <<podOf, leader, other, breaker, probes, faults, copies, reached>>

\* The database fails.  A failed SENT is caught and recorded as a failed
\* attempt; when that fails too, the drain throws, and its lock is released.
RecordFails(w) ==
    LET r == drain[w].at IN
    /\ drain[w].pc \in {"SENT", "FAILED"}
    /\ faults < MaxFaults
    /\ faults' = faults + 1
    /\ \/ /\ drain[w].pc = "SENT"
          /\ drain' = [drain EXCEPT ![w].pc = "FAILED"]
          /\ copies' = [copies EXCEPT ![r] = Excused]
          /\ leader' = leader
       \/ /\ drain[w].pc = "FAILED"
          /\ drain' = [drain EXCEPT ![w] = Resting]
          /\ leader' = Released(w)
          /\ copies' = copies
    /\ UNCHANGED <<podOf, row, other, breaker, probes, reached>>

Finish(w) ==
    /\ drain[w].pc = "NEXT"
    /\ drain[w].todo = {}
    /\ drain' = [drain EXCEPT ![w] = Resting]
    /\ leader' = Released(w)
    /\ UNCHANGED <<podOf, row, other, breaker, probes, faults, copies, reached>>

-----------------------------------------------------------------------------
(* The pods.                                                               *)

\* Codes, resets and the rest are sent at once, and pass the breaker.
OtherStarts(o) ==
    LET b == breaker[podOf[o]] IN
    /\ ~other[o]
    /\ Admits(b)
    /\ other' = [other EXCEPT ![o] = TRUE]
    /\ breaker' = [breaker EXCEPT ![podOf[o]] = Entered(b)]
    /\ probes' = IF b.state = "CLOSED" THEN probes ELSE probes \cup {o}
    /\ UNCHANGED <<podOf, row, leader, drain, faults, copies, reached>>
OtherEnds(o, told) ==
    /\ other[o]
    /\ other' = [other EXCEPT ![o] = FALSE]
    /\ breaker' = [breaker EXCEPT ![podOf[o]] = IF told THEN Succeeded(@) ELSE Failed(@)]
    /\ probes' = probes \ {o}
    /\ UNCHANGED <<podOf, row, leader, drain, faults, copies, reached>>

InFlight(p) ==
    {c \in Callers : podOf[c] = p /\ IF c \in Drains THEN drain[c].pc = "CALLING" ELSE other[c]}

\* openTimeoutMs runs out.  By default it is three times the time-out of a
\* call, so that every call admitted before the breaker opened has settled.
Cools(p) ==
    /\ breaker[p].state = "OPEN" /\ ~breaker[p].cooled
    /\ SlowCalls \/ InFlight(p) = {}
    /\ breaker' = [breaker EXCEPT ![p].cooled = TRUE]
    /\ UNCHANGED <<podOf, row, leader, drain, other, probes, faults, copies, reached>>

\* The pod restarts.  A message whose call was in flight may have been taken.
Crash(p) ==
    LET here == {w \in Drains : podOf[w] = p /\ drain[w].pc # "IDLE"}
    IN
    /\ here # {}
    /\ faults < MaxFaults
    /\ faults' = faults + 1
    /\ drain' = [w \in Drains |-> IF podOf[w] = p THEN Resting ELSE drain[w]]
    /\ other' = [o \in Others |-> other[o] /\ podOf[o] # p]
    /\ breaker' = [breaker EXCEPT ![p] = Closed]
    /\ probes' = {c \in probes : podOf[c] # p}
    /\ \E taken \in SUBSET {drain[w].at : w \in {v \in here : drain[v].pc = "CALLING"}} :
        reached' = reached \cup taken
    /\ copies' = [r \in Rows |-> IF \E w \in here : r = drain[w].at THEN Excused ELSE copies[r]]
    /\ UNCHANGED <<podOf, row, leader>>

-----------------------------------------------------------------------------

Step(w) ==
    \/ \E r \in Rows : Dispatch(w, r)
    \/ \E taken, told \in BOOLEAN : CallEnds(w, taken, told)
    \/ Record(w) \/ Finish(w)

Next ==
    \/ \E r \in Rows : Enqueue(r) \/ BackoffEnds(r)
    \/ \E w \in Drains : Start(w) \/ Step(w) \/ RecordFails(w)
    \/ LockExpires
    \/ \E o \in Others : OtherStarts(o) \/ \E told \in BOOLEAN : OtherEnds(o, told)
    \/ \E p \in Pods : Cools(p) \/ Crash(p)

\* Cron fires every minute on some pod, a drain that runs goes on, the lock has
\* a time to live and a backoff ends.
Fairness ==
    /\ WF_vars(\E w \in Drains : Start(w))
    /\ \A w \in Drains : WF_vars(Step(w))
    /\ WF_vars(LockExpires)
    /\ \A r \in Rows : WF_vars(BackoffEnds(r))

Spec == Init /\ [][Next]_vars
FairSpec == Spec /\ Fairness

-----------------------------------------------------------------------------

\* A message goes out twice only if the lock ran out under the drain that had
\* it, its pod crashed in the middle of it, the provider's answer was lost, or
\* the database refused to record it.
DuplicateExcused == \A r \in Rows : copies[r] # 2

\* SENT is not said of a message that was never taken and not meant to be dropped.
SentForAReason ==
    \A r \in Rows : row[r].status = "SENT" => r \in reached

\* The outbox accounts for what reaches customers.
MailAccounted == DuplicateExcused /\ SentForAReason

\* A drain with an old snapshot changes no row that is done, and puts none off
\* again: a row waits for a new time only with one more attempt counted.
RowsMoveForward ==
    [][\A r \in Rows :
          /\ row[r].status \in {"SENT", "FAILED"} => row'[r] = row[r]
          /\ row'[r] # row[r] /\ ~row'[r].due => row'[r].attempts > row[r].attempts]_row

\* One call at a time probes a service that has been failing.
SingleProbe ==
    \A p \in Pods : \A c, d \in probes : podOf[c] = p /\ podOf[d] = p => c = d

\* Every row enqueued is sent or given up: time and again no row is left waiting.
RowsSettle == []<>(\A r \in Rows : row[r].status # "PENDING")

\* "a transient provider blip would otherwise burn the whole batch's attempt
\* counters at once" (outbox-drain.service.ts): an open breaker burns one
\* attempt of every row left in the batch, without a call.
BatchSpared ==
    [][\A w \in Drains :
          drain[w].pc = "NEXT" /\ drain'[w].pc = "FAILED" => drain'[w].at \in Poison]_drain
=============================================================================
