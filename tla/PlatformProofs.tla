---------------------------- MODULE PlatformProofs ----------------------------
(* Theorems about what the platform shares between its pods: the e-mail    *)
(* outbox with its breakers (EmailOutbox), for any rows, drains, pods,     *)
(* placements and bounds, and the versioned caches (VersionedCache), for   *)
(* any keys, readers, writers and any bound on the changes.                *)
EXTENDS EmailOutbox, VersionedCache, FiniteSetTheorems, TLAPS

-----------------------------------------------------------------------------
(* The outbox.                                                             *)

LEMMA Constants ==
    /\ MaxAttempts \in Nat /\ MaxAttempts > 0 /\ MaxFaults \in Nat
    /\ Threshold \in Nat /\ Threshold > 0
    /\ Nobody \notin Rows /\ Nobody \notin Drains
    /\ \A c \in Callers : c \in Drains => c \notin Others
    /\ \A f \in Placements, c \in Callers : f[c] \in Pods
  BY OutboxAssumption, ThresholdAssumption DEF Callers

-----------------------------------------------------------------------------
(* The breaker.                                                            *)

LEMMA BreakerType ==
    ASSUME NEW b \in Breakers
    PROVE  /\ Entered(b) \in Breakers /\ Succeeded(b) \in Breakers /\ Failed(b) \in Breakers
           /\ Closed \in Breakers
<1>1. Entered(b) \in Breakers
  BY DEF Breakers, Entered
<1>2. Succeeded(b) \in Breakers
  <2>. DEFINE s == IF b.state = "HALF_OPEN" THEN "CLOSED" ELSE b.state
              c == b.cooled /\ b.state = "OPEN"
  <2>1. 0 \in 0..Threshold /\ s \in {"CLOSED", "OPEN", "HALF_OPEN"} /\ c \in BOOLEAN
    BY Constants DEF Breakers
  <2>2. Succeeded(b) = [b EXCEPT !.failures = 0, !.slot = FALSE, !.state = s, !.cooled = c]
    BY DEF Succeeded
  <2>. HIDE DEF s, c
  <2>. QED  BY <2>1, <2>2 DEF Breakers
<1>3. Failed(b) \in Breakers
  <2>. DEFINE n == IF b.failures = Threshold THEN Threshold ELSE b.failures + 1
              opens == b.state = "HALF_OPEN" \/ n = Threshold
              s == IF opens THEN "OPEN" ELSE b.state
              c == b.cooled /\ ~opens
  <2>1. n \in 0..Threshold /\ s \in {"CLOSED", "OPEN", "HALF_OPEN"} /\ c \in BOOLEAN
    BY Constants DEF Breakers
  <2>2. Failed(b) = [b EXCEPT !.failures = n, !.slot = FALSE, !.state = s, !.cooled = c]
    BY DEF Failed
  <2>. HIDE DEF n, s, c
  <2>. QED  BY <2>1, <2>2 DEF Breakers
<1>4. Closed \in Breakers
  BY Constants DEF Breakers, Closed
<1>. QED  BY <1>1, <1>2, <1>3, <1>4

\* A breaker that opens has not cooled, and only HALF_OPEN keeps the slot.
LEMMA BreakerMoves ==
    ASSUME NEW b \in Breakers
    PROVE  /\ b.state = "CLOSED" => Entered(b) = b
           /\ b.state # "CLOSED" => Entered(b).state = "HALF_OPEN" /\ Entered(b).slot
           /\ Succeeded(b).state # "HALF_OPEN" /\ Failed(b).state # "HALF_OPEN"
           /\ Succeeded(b).state = "OPEN" => b.state = "OPEN" /\ Succeeded(b).cooled = b.cooled
           /\ Failed(b).cooled /\ Failed(b).state = "OPEN" => b.state = "OPEN" /\ b.cooled
           /\ Closed.state = "CLOSED"
  BY Constants DEF Breakers, Entered, Succeeded, Failed, Closed

-----------------------------------------------------------------------------
(* Types, and what a drain is doing.                                       *)

Pcs == {"IDLE", "NEXT", "CALLING", "SENT", "FAILED"}
Runs == [pc : Pcs, todo : SUBSET Rows, seen : [Rows -> 0..MaxAttempts], at : Rows \cup {Nobody}]

\* A row that waits has an attempt left; a drain is at a row while it works on
\* it, and what it reports as sent was taken or dropped.
Shape ==
    /\ TypeOK
    /\ \A r \in Rows : row[r].status \in {"NONE", "PENDING"} => row[r].attempts < MaxAttempts
    /\ \A w \in Drains :
         /\ drain[w].pc = "IDLE" => drain[w].todo = {}
         /\ drain[w].pc \in {"IDLE", "NEXT"} <=> drain[w].at = Nobody
         /\ drain[w].at \notin drain[w].todo
         /\ drain[w].pc = "SENT" => drain[w].at \in reached
    /\ SentForAReason

\* A run d of w that may take the place of its old one.
GoodRun(d) ==
    /\ d \in Runs
    /\ d.pc = "IDLE" => d.todo = {}
    /\ d.pc \in {"IDLE", "NEXT"} <=> d.at = Nobody
    /\ d.at \notin d.todo
    /\ d.pc = "SENT" => d.at \in reached'

LEMMA RunChanges ==
    ASSUME Shape, NEW w \in Drains, NEW d, GoodRun(d), drain' = [drain EXCEPT ![w] = d],
           reached \subseteq reached', reached' \subseteq Rows,
           podOf' = podOf, row' = row, other' = other,
           leader' \in Drains \cup {Nobody},
           breaker' \in [Pods -> Breakers], probes' \subseteq Callers, faults' \in 0..MaxFaults,
           copies' \in [Rows -> 0..2 \cup {Excused}]
    PROVE  Shape'
  BY DEF Shape, TypeOK, GoodRun, Runs, Pcs, SentForAReason

LEMMA RestingIsGood == GoodRun(Resting)
  BY Constants DEF GoodRun, Resting, Runs, Pcs

\* What dispatch does, by what becomes of the row in the run.
Dispatched(w, r, pc) ==
    /\ drain' = [drain EXCEPT ![w] = [drain[w] EXCEPT !.pc = pc, !.at = r, !.todo = @ \ {r}]]
    /\ pc = "SENT" => r \in reached'
    /\ pc = "CALLING" => Admits(breaker[podOf[w]])
                         /\ breaker' = [breaker EXCEPT ![podOf[w]] = Entered(@)]
                         /\ probes' = IF breaker[podOf[w]].state = "CLOSED" THEN probes
                                      ELSE probes \cup {w}
    /\ pc # "CALLING" => UNCHANGED <<breaker, probes>>
    /\ reached' = reached \/ reached' = reached \cup {r}
    /\ UNCHANGED <<podOf, row, leader, other, faults, copies>>

LEMMA DispatchRuns ==
    ASSUME Shape, NEW w \in Drains, NEW r \in Rows, Dispatch(w, r)
    PROVE  \E pc \in {"CALLING", "SENT", "FAILED"} : Dispatched(w, r, pc)
  BY DEF Dispatch, Dispatched, Take, Refused

\* What a call does to the run that made it.
LEMMA CallRuns ==
    ASSUME Shape, NEW w \in Drains, NEW taken \in BOOLEAN, NEW heard \in BOOLEAN, CallEnds(w, taken, heard)
    PROVE  \E pc \in {"SENT", "FAILED"} :
             /\ GoodRun([drain[w] EXCEPT !.pc = pc])
             /\ drain' = [drain EXCEPT ![w] = [drain[w] EXCEPT !.pc = pc]]
             /\ pc = "SENT" <=> heard
<1>. DEFINE pc == IF heard THEN "SENT" ELSE "FAILED"
<1>1. /\ drain[w] \in Runs /\ drain[w].pc = "CALLING" /\ drain[w].at # Nobody
      /\ drain[w].at \notin drain[w].todo
  BY DEF Shape, TypeOK, Runs, Pcs, CallEnds
<1>2. drain' = [drain EXCEPT ![w] = [drain[w] EXCEPT !.pc = pc]]
  BY DEF CallEnds
<1>3. pc = "SENT" => drain[w].at \in reached'
  BY DEF CallEnds
<1>4. pc \in {"SENT", "FAILED"}
  OBVIOUS
<1>5. GoodRun([drain[w] EXCEPT !.pc = pc])
  <2>. HIDE DEF pc
  <2>. QED  BY <1>1, <1>3, <1>4 DEF GoodRun, Runs, Pcs
<1>. QED  BY <1>2, <1>4, <1>5

LEMMA CallTypes ==
    ASSUME Shape, NEW w \in Drains, NEW taken \in BOOLEAN, NEW heard \in BOOLEAN, CallEnds(w, taken, heard)
    PROVE  /\ reached \subseteq reached' /\ reached' \subseteq Rows
           /\ breaker' \in [Pods -> Breakers] /\ probes' \subseteq Callers
           /\ copies' \in [Rows -> 0..2 \cup {Excused}]
<1>1. drain[w].at \in Rows /\ podOf[w] \in Pods
  BY Constants DEF Shape, TypeOK, CallEnds, Callers
<1>2. \A n \in 0..2 \cup {Excused} : Taken(n) \in 0..2 \cup {Excused}
  BY DEF Taken, Excused
<1>3. copies' \in [Rows -> 0..2 \cup {Excused}]
  BY <1>1, <1>2 DEF Shape, TypeOK, CallEnds
<1>4. breaker' \in [Pods -> Breakers]
  BY <1>1, BreakerType DEF Shape, TypeOK, CallEnds
<1>. QED  BY <1>1, <1>3, <1>4 DEF Shape, TypeOK, CallEnds

LEMMA StepShape ==
    ASSUME Shape, NEW w \in Drains, Start(w) \/ Step(w) \/ RecordFails(w)
    PROVE  Shape'
<1>0. /\ TypeOK /\ drain[w] \in Runs /\ podOf[w] \in Pods
      /\ breaker[podOf[w]] \in Breakers
  BY Constants DEF Shape, TypeOK, Runs, Pcs, Callers
<1>1. CASE Start(w)
  <2>1. PICK batch \in SUBSET DueRows :
           drain' = [drain EXCEPT ![w] =
                        [pc |-> "NEXT", todo |-> batch, at |-> Nobody,
                         seen |-> [r \in Rows |-> IF r \in batch THEN row[r].attempts ELSE 0]]]
    BY <1>1 DEF Start
  <2>. DEFINE seen == [r \in Rows |-> IF r \in batch THEN row[r].attempts ELSE 0]
              d == [pc |-> "NEXT", todo |-> batch, at |-> Nobody, seen |-> seen]
  <2>2. seen \in [Rows -> 0..MaxAttempts] /\ batch \subseteq Rows
    BY <1>0, Constants DEF TypeOK, DueRows
  <2>3. GoodRun(d)
    <3>. HIDE DEF seen
    <3>. QED  BY <2>2, Constants DEF GoodRun, Runs, Pcs
  <2>. HIDE DEF d
  <2>4. drain' = [drain EXCEPT ![w] = d]
    BY <2>1 DEF d
  <2>. QED  BY <1>0, <1>1, <2>3, <2>4, RunChanges DEF Start, TypeOK
<1>2. ASSUME NEW r \in Rows, Dispatch(w, r) PROVE Shape'
  <2>1. PICK pc \in {"CALLING", "SENT", "FAILED"} : Dispatched(w, r, pc)
    BY <1>2, DispatchRuns
  <2>. DEFINE d == [drain[w] EXCEPT !.pc = pc, !.at = r, !.todo = @ \ {r}]
  <2>2. GoodRun(d)
    BY <1>0, <2>1, Constants DEF GoodRun, Runs, Pcs, Dispatched
  <2>. HIDE DEF d
  <2>3. drain' = [drain EXCEPT ![w] = d]
    BY <2>1 DEF d, Dispatched
  <2>4. breaker' \in [Pods -> Breakers] /\ probes' \subseteq Callers
    BY <1>0, <2>1, BreakerType DEF TypeOK, Callers, Dispatched
  <2>. QED  BY <1>0, <2>1, <2>2, <2>3, <2>4, RunChanges DEF TypeOK, Dispatched
<1>3. ASSUME NEW taken \in BOOLEAN, NEW heard \in BOOLEAN, CallEnds(w, taken, heard) PROVE Shape'
  <2>1. PICK pc \in {"SENT", "FAILED"} :
             /\ GoodRun([drain[w] EXCEPT !.pc = pc])
             /\ drain' = [drain EXCEPT ![w] = [drain[w] EXCEPT !.pc = pc]]
    BY <1>3, CallRuns
  <2>2. UNCHANGED <<podOf, row, leader, other, faults>>
    BY <1>3 DEF CallEnds
  <2>. QED  BY <1>0, <1>3, <2>1, <2>2, CallTypes, RunChanges DEF TypeOK
<1>4. CASE Record(w)
  <2>. DEFINE r == drain[w].at
              n == drain[w].seen[r] + 1
              ok == drain[w].pc = "SENT"
              seen == [drain[w].seen EXCEPT ![r] = 0]
              d == [drain[w] EXCEPT !.pc = "NEXT", !.at = Nobody, !.seen = seen]
              x == [status |-> IF ok THEN "SENT" ELSE IF GivesUp(n) THEN "FAILED" ELSE "PENDING",
                    attempts |-> n, due |-> FALSE]
  <2>1. /\ drain[w].pc \in {"SENT", "FAILED"} /\ r \in Rows
        /\ drain' = [drain EXCEPT ![w] = d]
        /\ row' = IF ~AsPicked(w, r) THEN row ELSE [row EXCEPT ![r] = x]
        /\ UNCHANGED <<podOf, leader, other, breaker, probes, faults, copies, reached>>
    <3>1. drain[w].pc \in {"SENT", "FAILED"} /\ r \in Rows
      BY <1>0, <1>4 DEF Record, Shape, Runs, Pcs
    <3>2. drain' = [drain EXCEPT ![w] = d]
      BY <1>4 DEF Record
    <3>3. row' = IF ~AsPicked(w, r) THEN row ELSE [row EXCEPT ![r] = x]
      BY <1>4 DEF Record
    <3>. QED  BY <1>4, <3>1, <3>2, <3>3 DEF Record
  <2>2. GoodRun(d)
    <3>1. seen \in [Rows -> 0..MaxAttempts]
      BY <1>0, <2>1, Constants DEF Runs
    <3>. HIDE DEF seen
    <3>. QED  BY <1>0, <2>1, <3>1, Constants DEF GoodRun, Runs, Pcs, Shape
  <2>3. AsPicked(w, r) =>
          /\ x \in [status : {"NONE", "PENDING", "SENT", "FAILED"}, attempts : 0..MaxAttempts, due : BOOLEAN]
          /\ x.status = "PENDING" => x.attempts < MaxAttempts
          /\ x.status # "NONE"
          /\ x.status = "SENT" => r \in reached
    BY <1>0, <2>1, Constants DEF AsPicked, GivesUp, Shape, TypeOK, Runs
  <2>. HIDE DEF d, x, n, ok, seen, r
  <2>. QED  BY <2>1, <2>2, <2>3 DEF GoodRun, Shape, TypeOK, Runs, Pcs, SentForAReason
<1>5. CASE Finish(w)
  BY <1>0, <1>5, RestingIsGood, RunChanges DEF Finish, Released, TypeOK
<1>6. CASE RecordFails(w)
  <2>1. faults' \in 0..MaxFaults /\ drain[w].at \in Rows /\ drain[w].pc \in {"SENT", "FAILED"}
    BY <1>0, <1>6, Constants DEF RecordFails, TypeOK, Shape, Runs
  <2>2. CASE drain' = [drain EXCEPT ![w] = Resting]
    BY ZenonT(40), <1>0, <1>6, <2>1, <2>2, RestingIsGood, RunChanges DEF RecordFails, Released, TypeOK
  <2>3. CASE drain' = [drain EXCEPT ![w].pc = "FAILED"]
    <3>1. GoodRun([drain[w] EXCEPT !.pc = "FAILED"])
      BY <1>0, <2>1, Constants DEF GoodRun, Runs, Pcs, Shape
    <3>2. drain' = [drain EXCEPT ![w] = [drain[w] EXCEPT !.pc = "FAILED"]]
      BY <2>3
    <3>3. copies' \in [Rows -> 0..2 \cup {Excused}] /\ leader' \in Drains \cup {Nobody}
      BY <1>0, <1>6, <2>1 DEF RecordFails, TypeOK, Released
    <3>. QED  BY <1>0, <1>6, <2>1, <3>1, <3>2, <3>3, RunChanges DEF RecordFails, TypeOK
  <2>. QED  BY <1>6, <2>2, <2>3 DEF RecordFails
<1>. QED  BY <1>1, <1>2, <1>3, <1>4, <1>5, <1>6 DEF Step

\* Customers, other mail, the lock's time to live and the pods.
Around ==
    \/ \E r \in Rows : Enqueue(r) \/ BackoffEnds(r)
    \/ LockExpires
    \/ \E o \in Others : OtherStarts(o) \/ \E heard \in BOOLEAN : OtherEnds(o, heard)
    \/ \E p \in Pods : Cools(p) \/ Crash(p)
    \/ UNCHANGED vars

LEMMA AroundShape ==
    ASSUME Shape, Around
    PROVE  Shape'
<1>0. TypeOK
  BY DEF Shape
<1>1. ASSUME NEW r \in Rows, Enqueue(r) \/ BackoffEnds(r) PROVE Shape'
  <2>1. PICK x \in [status : {"PENDING"}, attempts : {row[r].attempts}, due : {TRUE}] :
           row' = [row EXCEPT ![r] = x]
    <3>. DEFINE x == [status |-> "PENDING", attempts |-> row[r].attempts, due |-> TRUE]
    <3>1. row' = [row EXCEPT ![r] = x]
      BY <1>0, <1>1 DEF Enqueue, BackoffEnds, TypeOK
    <3>. QED  BY <3>1
  <2>2. /\ row[r].status \in {"NONE", "PENDING"}
        /\ UNCHANGED <<podOf, leader, drain, other, breaker, probes, faults, copies, reached>>
    BY <1>1 DEF Enqueue, BackoffEnds
  <2>. QED  BY <2>1, <2>2 DEF Shape, TypeOK, SentForAReason
<1>2. CASE LockExpires
  BY <1>2 DEF LockExpires, TtlEnds, Shape, TypeOK, SentForAReason, Excused
<1>3. ASSUME NEW o \in Others, OtherStarts(o) \/ \E heard \in BOOLEAN : OtherEnds(o, heard) PROVE Shape'
  <2>1. podOf[o] \in Pods /\ breaker[podOf[o]] \in Breakers
    BY <1>0, Constants DEF TypeOK, Callers
  <2>2. breaker' \in [Pods -> Breakers] /\ probes' \subseteq Callers /\ other' \in [Others -> BOOLEAN]
    <3>1. CASE OtherStarts(o)
      BY <1>0, <2>1, <3>1, BreakerType DEF OtherStarts, TypeOK, Callers
    <3>2. CASE \E heard \in BOOLEAN : OtherEnds(o, heard)
      BY <1>0, <2>1, <3>2, BreakerType DEF OtherEnds, TypeOK
    <3>. QED  BY <1>3, <3>1, <3>2
  <2>3. UNCHANGED <<podOf, row, leader, drain, faults, copies, reached>>
    BY <1>3 DEF OtherStarts, OtherEnds
  <2>. QED  BY <2>2, <2>3 DEF Shape, TypeOK, SentForAReason
<1>4. ASSUME NEW p \in Pods, Cools(p) PROVE Shape'
  <2>1. breaker' \in [Pods -> Breakers]
    BY ZenonT(40), <1>0, <1>4 DEF Cools, TypeOK, Breakers
  <2>. QED  BY <1>4, <2>1 DEF Cools, Shape, TypeOK, SentForAReason
<1>5. ASSUME NEW p \in Pods, Crash(p) PROVE Shape'
  <2>1. /\ faults' \in 0..MaxFaults /\ breaker' \in [Pods -> Breakers] /\ probes' \subseteq Callers
        /\ other' \in [Others -> BOOLEAN] /\ copies' \in [Rows -> 0..2 \cup {Excused}]
    <3>1. faults' \in 0..MaxFaults /\ probes' \subseteq Callers /\ other' \in [Others -> BOOLEAN]
      BY <1>0, <1>5, Constants DEF Crash, TypeOK
    <3>2. Closed \in Breakers
      BY Constants DEF Closed, Breakers
    <3>3. breaker' \in [Pods -> Breakers]
      BY <1>0, <1>5, <3>2 DEF Crash, TypeOK
    <3>4. copies' \in [Rows -> 0..2 \cup {Excused}]
      BY <1>0, <1>5 DEF Crash, TypeOK, Excused
    <3>. QED  BY <3>1, <3>3, <3>4
  <2>2. reached \subseteq reached' /\ reached' \subseteq Rows
    <3>1. \A w \in Drains : drain[w].pc = "CALLING" => drain[w].at \in Rows
      BY DEF Shape, TypeOK
    <3>. QED  BY <1>0, <1>5, <3>1 DEF Crash, TypeOK
  <2>3. drain' = [w \in Drains |-> IF podOf[w] = p THEN Resting ELSE drain[w]]
        /\ UNCHANGED <<podOf, row, leader>>
    BY <1>5 DEF Crash
  <2>4. \A w \in Drains : GoodRun(drain'[w])
    BY <1>0, <2>2, <2>3, RestingIsGood DEF GoodRun, Shape, TypeOK, Runs, Pcs
  <2>5. drain' \in [Drains -> Runs]
    BY <2>3, <2>4 DEF GoodRun
  <2>. QED  BY <2>1, <2>2, <2>3, <2>4, <2>5 DEF GoodRun, Runs, Pcs, Shape, TypeOK, SentForAReason
<1>6. CASE UNCHANGED vars
  BY <1>6 DEF vars, Shape, TypeOK, SentForAReason
<1>. QED  BY <1>1, <1>2, <1>3, <1>4, <1>5, <1>6 DEF Around

LEMMA InitShape == Init => Shape
<1>. SUFFICES ASSUME Init PROVE Shape
  OBVIOUS
<1>1. \A w \in Drains : drain[w] = Resting
  BY DEF Init
<1>2. Resting \in Runs
  BY RestingIsGood DEF GoodRun
<1>3. drain \in [Drains -> Runs] /\ breaker \in [Pods -> Breakers]
  BY <1>2, Constants DEF Init, Breakers, Closed
<1>. QED  BY <1>1, <1>3, Constants DEF Init, Shape, TypeOK, SentForAReason, Resting, Runs, Pcs

LEMMA NextShape == Shape /\ [Next]_vars => Shape'
  BY StepShape, AroundShape DEF Next, Around

-----------------------------------------------------------------------------
(* One probe, if a call does not outlast the time a breaker stays open.    *)

Flying(c) == IF c \in Drains THEN drain[c].pc = "CALLING" ELSE other[c]

\* The breaker is half open for the one call that is in flight; before it was
\* ready for that call, every other had settled.
ProbeInv ==
    /\ \A c \in probes : Flying(c) /\ breaker[podOf[c]].state = "HALF_OPEN"
    /\ \A p \in Pods : breaker[p].state = "HALF_OPEN" =>
          /\ breaker[p].slot
          /\ \A c, d \in Callers : Flying(c) /\ Flying(d) /\ podOf[c] = p /\ podOf[d] = p => c = d
    /\ \A p \in Pods : breaker[p].state = "OPEN" /\ breaker[p].cooled =>
          \A c \in Callers : podOf[c] = p => ~Flying(c)

\* A call is admitted.
LEMMA AdmitKeepsProbe ==
    ASSUME Shape, ProbeInv, NEW c \in Callers, ~Flying(c), Admits(breaker[podOf[c]]),
           podOf' = podOf, Flying(c)', \A d \in Callers \ {c} : Flying(d)' = Flying(d),
           breaker' = [breaker EXCEPT ![podOf[c]] = Entered(@)],
           probes' = IF breaker[podOf[c]].state = "CLOSED" THEN probes ELSE probes \cup {c}
    PROVE  ProbeInv'
<1>. DEFINE p == podOf[c]
<1>0. p \in Pods /\ breaker \in [Pods -> Breakers] /\ probes \subseteq Callers
      /\ breaker[p].state \in {"CLOSED", "OPEN", "HALF_OPEN"}
  BY Constants DEF Shape, TypeOK, Callers, Breakers
<1>1. CASE breaker[p].state = "CLOSED"
  <2>1. breaker' = breaker /\ probes' = probes
    BY <1>0, <1>1, BreakerMoves
  <2>. QED  BY <1>0, <1>1, <2>1 DEF ProbeInv
<1>2. CASE breaker[p].state # "CLOSED"
  <2>1. breaker[p].state = "OPEN" /\ breaker[p].cooled
    BY <1>0, <1>2 DEF Admits, ProbeInv
  <2>2. breaker'[p].state = "HALF_OPEN" /\ breaker'[p].slot
        /\ \A q \in Pods \ {p} : breaker'[q] = breaker[q]
    BY <1>0, <1>2, BreakerMoves
  <2>3. probes' = probes \cup {c} /\ \A d \in probes : podOf[d] # p
    BY <1>2, <2>1 DEF ProbeInv
  <2>4. \A d \in Callers : podOf[d] = p => ~Flying(d)
    BY <1>0, <2>1 DEF ProbeInv
  <2>5. \A d \in Callers : podOf[d] \in Pods
    BY Constants DEF Shape, TypeOK
  <2>. HIDE DEF p
  <2>6. \A d \in probes' : Flying(d)' /\ breaker'[podOf'[d]].state = "HALF_OPEN"
    BY <1>0, <2>2, <2>3, <2>5 DEF ProbeInv, p
  <2>. QED  BY <1>0, <2>2, <2>4, <2>5, <2>6 DEF ProbeInv, p
<1>. QED  BY <1>1, <1>2

\* A call settles.
LEMMA SettleKeepsProbe ==
    ASSUME Shape, ProbeInv, NEW c \in Callers, Flying(c),
           podOf' = podOf, ~Flying(c)', \A d \in Callers \ {c} : Flying(d)' = Flying(d),
           breaker' = [breaker EXCEPT ![podOf[c]] = Succeeded(@)]
           \/ breaker' = [breaker EXCEPT ![podOf[c]] = Failed(@)],
           probes' = probes \ {c}
    PROVE  ProbeInv'
<1>. DEFINE p == podOf[c]
<1>0. p \in Pods /\ breaker \in [Pods -> Breakers] /\ probes \subseteq Callers
      /\ breaker[p] \in Breakers /\ \A d \in Callers : podOf[d] \in Pods
  BY Constants DEF Shape, TypeOK, Callers
<1>1. /\ breaker'[p].state # "HALF_OPEN"
      /\ breaker'[p].state = "OPEN" /\ breaker'[p].cooled => breaker[p].state = "OPEN" /\ breaker[p].cooled
      /\ \A q \in Pods \ {p} : breaker'[q] = breaker[q]
  BY <1>0, BreakerMoves
<1>2. ~(breaker[p].state = "OPEN" /\ breaker[p].cooled)
  BY <1>0 DEF ProbeInv
<1>3. \A d \in probes' : podOf[d] # p /\ d \in probes /\ d # c
  BY <1>0 DEF ProbeInv
<1>. HIDE DEF p
<1>4. \A d \in probes' : Flying(d)' /\ breaker'[podOf'[d]].state = "HALF_OPEN"
  BY <1>0, <1>1, <1>3 DEF ProbeInv
<1>. QED  BY <1>0, <1>1, <1>2, <1>4 DEF ProbeInv, p

\* Whatever touches neither calls nor breakers.
LEMMA QuietKeepsProbe ==
    ASSUME ProbeInv, podOf' = podOf, breaker' = breaker, probes' = probes, TypeOK,
           \A d \in Callers : Flying(d)' = Flying(d)
    PROVE  ProbeInv'
  BY DEF ProbeInv, TypeOK

LEMMA NextProbe ==
    ASSUME Shape, ProbeInv, [Next]_vars, ~SlowCalls
    PROVE  ProbeInv'
<1>0. TypeOK /\ \A w \in Drains : w \in Callers /\ w \notin Others
  BY Constants DEF Shape, Callers
<1>1. ASSUME NEW w \in Drains, NEW r \in Rows, Dispatch(w, r) PROVE ProbeInv'
  <2>1. PICK pc \in {"CALLING", "SENT", "FAILED"} : Dispatched(w, r, pc)
    BY <1>1, DispatchRuns
  <2>2. drain[w].pc = "NEXT" /\ drain'[w].pc = pc /\ \A v \in Drains \ {w} : drain'[v] = drain[v]
    BY <1>0, <1>1, <2>1 DEF Dispatch, Dispatched, TypeOK
  <2>3. \A d \in Callers \ {w} : Flying(d)' = Flying(d)
    BY <2>1, <2>2 DEF Flying, Callers, Dispatched
  <2>4. CASE pc = "CALLING"
    BY <1>0, <2>1, <2>2, <2>3, <2>4, AdmitKeepsProbe DEF Flying, Dispatched
  <2>5. CASE pc # "CALLING"
    BY <1>0, <2>1, <2>2, <2>3, <2>5, QuietKeepsProbe DEF Flying, Dispatched
  <2>. QED  BY <2>4, <2>5
<1>2. ASSUME NEW w \in Drains, NEW taken \in BOOLEAN, NEW heard \in BOOLEAN, CallEnds(w, taken, heard)
      PROVE  ProbeInv'
  <2>1. /\ drain[w].pc = "CALLING" /\ drain'[w].pc # "CALLING"
        /\ \A v \in Drains \ {w} : drain'[v] = drain[v]
        /\ UNCHANGED <<podOf, other>> /\ probes' = probes \ {w}
    BY <1>0, <1>2 DEF CallEnds, TypeOK
  <2>2. breaker' = [breaker EXCEPT ![podOf[w]] = Succeeded(@)]
        \/ breaker' = [breaker EXCEPT ![podOf[w]] = Failed(@)]
    BY <1>2 DEF CallEnds
  <2>3. \A d \in Callers \ {w} : Flying(d)' = Flying(d)
    BY <2>1 DEF Flying, Callers
  <2>. QED  BY <1>0, <2>1, <2>2, <2>3, SettleKeepsProbe DEF Flying
<1>3. ASSUME NEW w \in Drains, Start(w) \/ Record(w) \/ Finish(w) \/ RecordFails(w) PROVE ProbeInv'
  <2>1. /\ drain[w].pc # "CALLING" /\ drain'[w].pc # "CALLING"
        /\ \A v \in Drains \ {w} : drain'[v] = drain[v]
    BY <1>0, <1>3 DEF Start, Record, Finish, RecordFails, Resting, TypeOK
  <2>2. UNCHANGED <<podOf, other, breaker, probes>>
    BY <1>3 DEF Start, Record, Finish, RecordFails
  <2>3. \A d \in Callers : Flying(d)' = Flying(d)
    BY <2>1, <2>2 DEF Flying, Callers
  <2>. QED  BY <1>0, <2>2, <2>3, QuietKeepsProbe
<1>4. ASSUME NEW o \in Others, OtherStarts(o) PROVE ProbeInv'
  <2>1. o \in Callers /\ o \notin Drains
    BY Constants DEF Callers
  <2>2. /\ ~other[o] /\ other'[o] /\ \A n \in Others \ {o} : other'[n] = other[n]
        /\ UNCHANGED <<podOf, drain>>
    BY <1>0, <1>4 DEF OtherStarts, TypeOK
  <2>3. \A d \in Callers \ {o} : Flying(d)' = Flying(d)
    BY <2>2 DEF Flying, Callers
  <2>. QED  BY <1>4, <2>1, <2>2, <2>3, AdmitKeepsProbe DEF OtherStarts, Flying
<1>5. ASSUME NEW o \in Others, NEW heard \in BOOLEAN, OtherEnds(o, heard) PROVE ProbeInv'
  <2>1. o \in Callers /\ o \notin Drains
    BY Constants DEF Callers
  <2>2. /\ other[o] /\ ~other'[o] /\ \A n \in Others \ {o} : other'[n] = other[n]
        /\ UNCHANGED <<podOf, drain>>
    BY <1>0, <1>5 DEF OtherEnds, TypeOK
  <2>3. \A d \in Callers \ {o} : Flying(d)' = Flying(d)
    BY <2>2 DEF Flying, Callers
  <2>4. breaker' = [breaker EXCEPT ![podOf[o]] = Succeeded(@)]
        \/ breaker' = [breaker EXCEPT ![podOf[o]] = Failed(@)]
    BY <1>5 DEF OtherEnds
  <2>. QED  BY <1>5, <2>1, <2>2, <2>3, <2>4, SettleKeepsProbe DEF OtherEnds, Flying
<1>6. ASSUME NEW p \in Pods, Cools(p) PROVE ProbeInv'
  <2>1. breaker[p].state = "OPEN" /\ \A c \in Callers : podOf[c] = p => ~Flying(c)
    BY <1>6 DEF Cools, InFlight, Flying
  <2>2. /\ \A q \in Pods : breaker'[q].state = breaker[q].state /\ breaker'[q].slot = breaker[q].slot
        /\ \A q \in Pods \ {p} : breaker'[q] = breaker[q]
        /\ UNCHANGED <<podOf, drain, other, probes>>
    BY <1>0, <1>6 DEF Cools, TypeOK, Breakers
  <2>3. \A d \in Callers : Flying(d)' = Flying(d) /\ podOf[d] \in Pods
    BY <1>0, <2>2, Constants DEF Flying, TypeOK
  <2>. QED  BY <1>0, <2>1, <2>2, <2>3 DEF ProbeInv, TypeOK
<1>7. ASSUME NEW p \in Pods, Crash(p) PROVE ProbeInv'
  <2>1. /\ breaker' = [breaker EXCEPT ![p] = Closed] /\ probes' = {c \in probes : podOf[c] # p}
        /\ podOf' = podOf
    BY <1>7 DEF Crash
  <2>2. \A c \in Callers : /\ podOf[c] = p => ~Flying(c)'
                           /\ podOf[c] # p => Flying(c)' = Flying(c)
    BY <1>0, <1>7 DEF Crash, Flying, Resting, Callers, TypeOK
  <2>3. \A c \in Callers : podOf[c] \in Pods
    BY <1>0, Constants DEF TypeOK
  <2>4. breaker'[p].state = "CLOSED" /\ \A q \in Pods \ {p} : breaker'[q] = breaker[q]
    BY <1>0, <2>1 DEF TypeOK, Closed
  <2>. QED  BY <1>0, <2>1, <2>2, <2>3, <2>4 DEF ProbeInv, TypeOK
<1>8. CASE (\E r \in Rows : Enqueue(r) \/ BackoffEnds(r)) \/ LockExpires \/ UNCHANGED vars
  <2>1. UNCHANGED <<podOf, drain, other, breaker, probes>>
    BY <1>8 DEF Enqueue, BackoffEnds, LockExpires, vars
  <2>2. \A d \in Callers : Flying(d)' = Flying(d)
    BY <2>1 DEF Flying
  <2>. QED  BY <1>0, <2>1, <2>2, QuietKeepsProbe
<1>. QED  BY <1>1, <1>2, <1>3, <1>4, <1>5, <1>6, <1>7, <1>8 DEF Next, Step

-----------------------------------------------------------------------------
(* No second message without an excuse.                                    *)

Held(w) == drain[w].todo \cup {drain[w].at}

\* A row without an excuse is held by the leader alone, as it was picked, and
\* its one message is recorded or about to be.
MailInv ==
    /\ \A w \in Drains, r \in Rows :
         r \in Held(w) /\ copies[r] # Excused =>
            /\ leader = w /\ AsPicked(w, r)
            /\ copies[r] = 1 => drain[w].at = r /\ drain[w].pc = "SENT"
    /\ \A r \in Rows : copies[r] = 1 =>
         row[r].status = "SENT" \/ \E w \in Drains : leader = w /\ drain[w].at = r
    /\ DuplicateExcused

\* A run goes on and keeps a part of what it held.
LEMMA RunKeepsMail ==
    ASSUME Shape, MailInv, NEW w \in Drains, leader' \in {leader, Released(w)},
           \A v \in Drains \ {w} : drain'[v] = drain[v],
           UNCHANGED <<row, copies>>,
           \A r \in Rows : r \in Held(w)' =>
              /\ leader' = leader /\ r \in Held(w) /\ drain'[w].seen[r] = drain[w].seen[r]
              /\ copies[r] # 1,
           \A r \in Rows : drain[w].at = r => copies[r] # 1
    PROVE  MailInv'
<1>1. \A v \in Drains \ {w}, r \in Rows :
         r \in Held(v)' /\ copies'[r] # Excused =>
            /\ leader' = v /\ AsPicked(v, r)'
            /\ copies'[r] = 1 => drain'[v].at = r /\ drain'[v].pc = "SENT"
  BY DEF MailInv, Held, AsPicked, Released
<1>2. \A r \in Rows : r \in Held(w)' /\ copies'[r] # Excused => leader' = w /\ AsPicked(w, r)' /\ copies'[r] # 1
  BY DEF MailInv, AsPicked
<1>3. ASSUME NEW r \in Rows, copies'[r] = 1
      PROVE  row'[r].status = "SENT" \/ \E v \in Drains : leader' = v /\ drain'[v].at = r
  BY <1>3 DEF MailInv, Released
<1>. QED  BY <1>1, <1>2, <1>3 DEF MailInv, DuplicateExcused

LEMMA StepMail ==
    ASSUME Shape, MailInv, NEW w \in Drains, Start(w) \/ Step(w) \/ RecordFails(w)
    PROVE  MailInv'
<1>0. TypeOK /\ drain[w] \in Runs
  BY DEF Shape, TypeOK, Runs, Pcs
<1>1. CASE Start(w)
  <2>1. PICK batch \in SUBSET DueRows :
           drain' = [drain EXCEPT ![w] =
                        [pc |-> "NEXT", todo |-> batch, at |-> Nobody,
                         seen |-> [r \in Rows |-> IF r \in batch THEN row[r].attempts ELSE 0]]]
    BY <1>1 DEF Start
  <2>2. /\ drain'[w].todo = batch /\ drain'[w].at = Nobody
        /\ \A r \in Rows : r \in batch => drain'[w].seen[r] = row[r].attempts
        /\ \A v \in Drains \ {w} : drain'[v] = drain[v]
    BY <1>0, <2>1 DEF TypeOK
  <2>3. leader = Nobody /\ leader' = w /\ UNCHANGED <<row, copies>>
    BY <1>1 DEF Start, MayLead
  <2>4. \A r \in Rows : r \in batch => row[r].status = "PENDING"
    BY DEF DueRows
  <2>5. \A r \in Rows : copies[r] = 1 => row[r].status = "SENT"
    BY <2>3, Constants DEF MailInv
  <2>6. \A v \in Drains \ {w}, r \in Rows : r \in Held(v)' => copies'[r] = Excused
    BY <2>2, <2>3, Constants DEF MailInv, Held
  <2>7. \A r \in Rows : r \in Held(w)' => AsPicked(w, r)' /\ copies'[r] # 1
    BY <2>2, <2>3, <2>4, <2>5, Constants DEF Held, AsPicked
  <2>. QED  BY <2>3, <2>5, <2>6, <2>7 DEF MailInv, DuplicateExcused
<1>2. ASSUME NEW x \in Rows, Dispatch(w, x) PROVE MailInv'
  <2>1. PICK pc \in {"CALLING", "SENT", "FAILED"} : Dispatched(w, x, pc)
    BY <1>2, DispatchRuns
  <2>2. /\ drain[w].pc = "NEXT" /\ x \in drain[w].todo /\ drain[w].at = Nobody
    BY <1>0, <1>2 DEF Dispatch, Shape, Runs, Pcs
  <2>3. /\ drain'[w].at = x /\ drain'[w].todo = drain[w].todo \ {x} /\ drain'[w].seen = drain[w].seen
        /\ \A v \in Drains \ {w} : drain'[v] = drain[v]
        /\ UNCHANGED <<row, copies, leader>>
    BY <1>0, <2>1 DEF Dispatched, TypeOK, Runs
  <2>4. \A r \in Rows : r \in Held(w)' => r \in Held(w) /\ copies[r] # 1
    BY <2>2, <2>3, Constants DEF Held, MailInv, Excused
  <2>5. \A r \in Rows : drain[w].at = r => copies[r] # 1
    BY <2>2, Constants
  <2>. QED  BY <2>3, <2>4, <2>5, RunKeepsMail
<1>3. ASSUME NEW taken \in BOOLEAN, NEW heard \in BOOLEAN, CallEnds(w, taken, heard) PROVE MailInv'
  <2>. DEFINE x == drain[w].at
  <2>1. PICK pc \in {"SENT", "FAILED"} :
             /\ drain' = [drain EXCEPT ![w] = [drain[w] EXCEPT !.pc = pc]]
             /\ pc = "SENT" <=> heard
    BY <1>3, CallRuns
  <2>2. /\ drain[w].pc = "CALLING" /\ x \in Rows /\ x \notin drain[w].todo
        /\ drain'[w].at = x /\ drain'[w].todo = drain[w].todo /\ drain'[w].seen = drain[w].seen
        /\ drain'[w].pc = pc /\ \A v \in Drains \ {w} : drain'[v] = drain[v]
        /\ UNCHANGED <<row, leader>> /\ (heard => taken)
    BY <1>0, <1>3, <2>1 DEF CallEnds, Shape, TypeOK, Runs, Pcs
  <2>3. /\ copies[x] \in 0..2 \cup {Excused} /\ copies[x] # 1 /\ copies[x] # 2
        /\ copies'[x] = (IF taken /\ ~heard THEN Excused ELSE IF taken THEN Taken(copies[x]) ELSE copies[x])
        /\ \A r \in Rows \ {x} : copies'[r] = copies[r]
    BY <1>0, <1>3, <2>2 DEF CallEnds, TypeOK, MailInv, Held, DuplicateExcused, Excused
  <2>4. copies'[x] # 2 /\ (copies'[x] = 1 => heard /\ copies[x] = 0) /\ (copies[x] = Excused => copies'[x] = Excused)
    BY <2>2, <2>3 DEF Taken, Excused
  <2>5. \A v \in Drains \ {w}, r \in Rows : r \in Held(v)' => r \in Held(v)
    BY <2>2 DEF Held
  <2>6. x \in Held(w) /\ Held(w)' = Held(w)
    BY <2>2 DEF Held
  <2>. HIDE DEF x
  <2>7. copies'[x] = 1 => leader = w
    BY <2>2, <2>4, <2>6 DEF MailInv, Excused
  <2>8. \A r \in Rows : r \in Held(w)' /\ copies'[r] # Excused =>
            /\ leader' = w /\ AsPicked(w, r)'
            /\ copies'[r] = 1 => drain'[w].at = r /\ drain'[w].pc = "SENT"
    <3>. SUFFICES ASSUME NEW r \in Rows, r \in Held(w), copies'[r] # Excused
                  PROVE  /\ leader' = w /\ AsPicked(w, r)'
                         /\ copies'[r] = 1 => drain'[w].at = r /\ drain'[w].pc = "SENT"
      BY <2>6
    <3>1. leader = w /\ AsPicked(w, r)
      BY <2>3, <2>4 DEF MailInv
    <3>2. r # x => copies[r] # 1
      BY <2>2, <2>3 DEF MailInv, x
    <3>. QED  BY <2>1, <2>2, <2>3, <2>4, <3>1, <3>2 DEF AsPicked
  <2>9. \A v \in Drains \ {w}, r \in Rows : r \in Held(v)' /\ copies'[r] # Excused =>
            /\ leader' = v /\ AsPicked(v, r)'
            /\ copies'[r] = 1 => drain'[v].at = r /\ drain'[v].pc = "SENT"
    <3>. SUFFICES ASSUME NEW v \in Drains \ {w}, NEW r \in Rows, r \in Held(v), copies'[r] # Excused
                  PROVE  /\ leader' = v /\ AsPicked(v, r)'
                         /\ copies'[r] = 1 => drain'[v].at = r /\ drain'[v].pc = "SENT"
      BY <2>5
    <3>1. copies[r] # Excused
      BY <2>3, <2>4
    <3>2. leader = v
      BY <3>1 DEF MailInv
    <3>3. r # x
      BY <2>2, <2>6, <3>1, <3>2 DEF MailInv
    <3>. QED  BY <2>2, <2>3, <3>1, <3>3 DEF AsPicked, MailInv
  <2>10. \A r \in Rows : copies'[r] = 1 =>
           row'[r].status = "SENT" \/ \E v \in Drains : leader' = v /\ drain'[v].at = r
    <3>. SUFFICES ASSUME NEW r \in Rows, copies'[r] = 1, row[r].status # "SENT"
                  PROVE  \E v \in Drains : leader' = v /\ drain'[v].at = r
      BY <2>2
    <3>1. CASE r = x
      BY <2>2, <2>7, <3>1
    <3>2. CASE r # x
      BY <2>2, <2>3, <3>2 DEF MailInv, x
    <3>. QED  BY <3>1, <3>2
  <2>. QED  BY <2>3, <2>4, <2>8, <2>9, <2>10 DEF MailInv, DuplicateExcused
<1>4. CASE Record(w)
  <2>. DEFINE x == drain[w].at
  <2>1. /\ drain[w].pc \in {"SENT", "FAILED"} /\ x \in Rows /\ x \notin drain[w].todo
        /\ drain'[w].at = Nobody /\ drain'[w].todo = drain[w].todo
        /\ \A r \in Rows \ {x} : drain'[w].seen[r] = drain[w].seen[r]
        /\ \A v \in Drains \ {w} : drain'[v] = drain[v]
        /\ UNCHANGED <<leader, copies>>
    BY <1>0, <1>4 DEF Record, Shape, TypeOK, Runs, Pcs
  <2>2. /\ \A r \in Rows \ {x} : row'[r] = row[r]
        /\ ~AsPicked(w, x) => row' = row
        /\ AsPicked(w, x) /\ drain[w].pc = "SENT" => row'[x].status = "SENT"
    BY <1>0, <1>4, <2>1 DEF Record, TypeOK
  <2>3. x \in Held(w) /\ Held(w)' = drain[w].todo \cup {Nobody}
        /\ \A v \in Drains \ {w} : Held(v)' = Held(v)
    BY <2>1 DEF Held
  <2>. HIDE DEF x
  <2>4. ASSUME NEW v \in Drains, NEW r \in Rows, r \in Held(v)', copies'[r] # Excused
        PROVE  /\ leader' = v /\ AsPicked(v, r)'
               /\ copies'[r] = 1 => drain'[v].at = r /\ drain'[v].pc = "SENT"
    <3>1. r \in Held(v) /\ copies[r] # Excused
      BY <2>1, <2>3, <2>4, Constants DEF Held
    <3>2. leader = v /\ AsPicked(v, r) /\ (copies[r] = 1 => drain[v].at = r /\ drain[v].pc = "SENT")
      BY <3>1 DEF MailInv
    <3>3. r # x
      BY <2>1, <2>3, <2>4, <3>1, <3>2, Constants DEF MailInv
    <3>4. v = w => copies[r] # 1
      BY <3>2, <3>3 DEF x
    <3>. QED  BY <2>1, <2>2, <3>2, <3>3, <3>4 DEF AsPicked
  <2>5. ASSUME NEW r \in Rows, copies'[r] = 1
        PROVE  row'[r].status = "SENT" \/ \E v \in Drains : leader' = v /\ drain'[v].at = r
    <3>1. copies[r] = 1 /\ copies[r] # Excused
      BY <2>1, <2>5 DEF Excused
    <3>2. CASE r = x
      <4>1. AsPicked(w, x) /\ drain[w].pc = "SENT"
        BY <2>1, <2>3, <3>1, <3>2 DEF MailInv
      <4>. QED  BY <2>2, <3>2, <4>1
    <3>3. CASE r # x
      BY <2>1, <2>2, <3>1, <3>3 DEF MailInv, x
    <3>. QED  BY <3>2, <3>3
  <2>6. DuplicateExcused'
    BY <2>1 DEF MailInv, DuplicateExcused
  <2>. QED  BY <2>4, <2>5, <2>6 DEF MailInv
<1>5. CASE Finish(w)
  <2>1. drain[w].at = Nobody /\ drain[w].todo = {} /\ drain'[w] = Resting
        /\ \A v \in Drains \ {w} : drain'[v] = drain[v]
    BY <1>0, <1>5 DEF Finish, Shape, TypeOK, Runs, Pcs
  <2>2. \A r \in Rows : r \notin Held(w)' /\ drain[w].at # r
    BY <2>1, Constants DEF Held, Resting
  <2>. QED  BY <1>5, <2>1, <2>2, RunKeepsMail DEF Finish
<1>6. CASE RecordFails(w)
  <2>. DEFINE x == drain[w].at
  <2>0. x \in Rows /\ drain[w].pc \in {"SENT", "FAILED"} /\ row' = row
        /\ \A v \in Drains \ {w} : drain'[v] = drain[v]
    BY <1>0, <1>6 DEF RecordFails, Shape, TypeOK, Runs, Pcs
  <2>1. CASE drain[w].pc = "FAILED"
    <3>1. drain'[w] = Resting /\ leader' = Released(w) /\ UNCHANGED <<row, copies>>
      BY <1>0, <1>6, <2>1 DEF RecordFails, TypeOK
    <3>2. \A r \in Rows : r \notin Held(w)'
      BY <3>1, Constants DEF Held, Resting
    <3>3. \A r \in Rows : drain[w].at = r => copies[r] # 1
      BY <2>1 DEF MailInv, Held, Excused
    <3>. QED  BY <2>0, <3>1, <3>2, <3>3, RunKeepsMail
  <2>2. CASE drain[w].pc = "SENT"
    <3>1. /\ drain'[w].at = x /\ drain'[w].todo = drain[w].todo /\ drain'[w].seen = drain[w].seen
          /\ copies' = [copies EXCEPT ![x] = Excused] /\ leader' = leader
      BY <1>0, <1>6, <2>2 DEF RecordFails, TypeOK, Runs
    <3>2. copies'[x] = Excused /\ \A r \in Rows \ {x} : copies'[r] = copies[r]
      BY <1>0, <2>0, <3>1 DEF TypeOK
    <3>3. \A v \in Drains : Held(v)' = Held(v) /\ drain'[v].at = drain[v].at
                            /\ drain'[v].seen = drain[v].seen
      BY <2>0, <3>1 DEF Held
    <3>4. \A v \in Drains, r \in Rows : r # x /\ copies[r] = 1 /\ r \in Held(v) /\ leader = v => v # w
      BY DEF MailInv, Excused
    <3>. HIDE DEF x
    <3>5. ASSUME NEW v \in Drains, NEW r \in Rows, r \in Held(v)', copies'[r] # Excused
          PROVE  /\ leader' = v /\ AsPicked(v, r)'
                 /\ copies'[r] = 1 => drain'[v].at = r /\ drain'[v].pc = "SENT"
      <4>1. r # x /\ r \in Held(v) /\ copies[r] # Excused /\ copies'[r] = copies[r]
        BY <3>2, <3>3, <3>5
      <4>2. leader = v /\ AsPicked(v, r) /\ (copies[r] = 1 => drain[v].at = r /\ drain[v].pc = "SENT")
        BY <4>1 DEF MailInv
      <4>3. copies[r] = 1 => v # w
        BY <3>4, <4>1, <4>2
      <4>. QED  BY <2>0, <3>1, <3>3, <4>1, <4>2, <4>3 DEF AsPicked
    <3>6. \A r \in Rows : copies'[r] = 1 =>
             row'[r].status = "SENT" \/ \E v \in Drains : leader' = v /\ drain'[v].at = r
      BY <2>0, <3>1, <3>2, <3>3 DEF MailInv, Excused
    <3>7. DuplicateExcused'
      BY <2>0, <3>2 DEF MailInv, DuplicateExcused, Excused
    <3>. QED  BY <3>5, <3>6, <3>7 DEF MailInv
  <2>. QED  BY <2>0, <2>1, <2>2
<1>. QED  BY <1>1, <1>2, <1>3, <1>4, <1>5, <1>6 DEF Step

LEMMA AroundMail ==
    ASSUME Shape, MailInv, Around
    PROVE  MailInv'
<1>0. TypeOK
  BY DEF Shape
<1>1. ASSUME NEW r \in Rows, Enqueue(r) \/ BackoffEnds(r) PROVE MailInv'
  <2>1. /\ row[r].status \in {"NONE", "PENDING"} /\ row'[r].status = "PENDING"
        /\ row'[r].attempts = row[r].attempts /\ \A x \in Rows \ {r} : row'[x] = row[x]
        /\ UNCHANGED <<leader, drain, copies>>
    BY <1>0, <1>1 DEF Enqueue, BackoffEnds, TypeOK
  <2>2. \A w \in Drains : Held(w)' = Held(w)
    BY <2>1 DEF Held
  <2>3. \A w \in Drains, x \in Rows : AsPicked(w, x) => AsPicked(w, x)'
    BY <2>1 DEF AsPicked
  <2>4. \A x \in Rows : row[x].status = "SENT" => row'[x].status = "SENT"
    BY <2>1
  <2>. QED  BY <2>1, <2>2, <2>3, <2>4 DEF MailInv, DuplicateExcused
<1>2. CASE LockExpires
  <2>1. /\ leader \in Drains /\ UNCHANGED <<row, drain>>
        /\ \A r \in Rows : copies'[r] = IF r \in Held(leader) THEN Excused ELSE copies[r]
    BY <1>0, <1>2 DEF LockExpires, TtlEnds, Held, TypeOK
  <2>2. \A w \in Drains : Held(w)' = Held(w)
    BY <2>1 DEF Held
  <2>3. \A w \in Drains, r \in Rows : r \in Held(w) => copies'[r] = Excused
    BY <2>1 DEF MailInv
  <2>4. \A r \in Rows : copies'[r] = 1 => row'[r].status = "SENT"
    BY <2>1 DEF MailInv, Held, Excused
  <2>5. DuplicateExcused'
    BY <2>1 DEF MailInv, DuplicateExcused, Excused
  <2>. QED  BY <2>2, <2>3, <2>4, <2>5 DEF MailInv
<1>3. ASSUME NEW p \in Pods, Crash(p) PROVE MailInv'
  <2>1. /\ \A w \in Drains : drain'[w] = IF podOf[w] = p THEN Resting ELSE drain[w]
        /\ UNCHANGED <<row, leader>>
        /\ \A r \in Rows : copies'[r] = copies[r] \/ copies'[r] = Excused
        /\ \A w \in Drains, r \in Rows :
              podOf[w] = p /\ drain[w].pc # "IDLE" /\ r = drain[w].at => copies'[r] = Excused
    BY <1>0, <1>3 DEF Crash, TypeOK
  <2>2. \A w \in Drains : /\ podOf[w] = p => Held(w)' = {Nobody}
                          /\ podOf[w] # p => Held(w)' = Held(w) /\ drain'[w] = drain[w]
    BY <2>1 DEF Held, Resting
  <2>3. \A w \in Drains, r \in Rows : r \in Held(w)' => podOf[w] # p
    BY <2>2, Constants
  <2>4. ASSUME NEW w \in Drains, NEW r \in Rows, r \in Held(w)', copies'[r] # Excused
        PROVE  /\ leader' = w /\ AsPicked(w, r)'
               /\ copies'[r] = 1 => drain'[w].at = r /\ drain'[w].pc = "SENT"
    BY <2>1, <2>2, <2>3, <2>4 DEF MailInv, AsPicked
  <2>5. ASSUME NEW r \in Rows, copies'[r] = 1
        PROVE  row'[r].status = "SENT" \/ \E w \in Drains : leader' = w /\ drain'[w].at = r
    <3>1. copies[r] = 1
      BY <2>1, <2>5 DEF Excused
    <3>2. \A w \in Drains : drain[w].at = r => drain[w].pc # "IDLE"
      BY Constants DEF Shape
    <3>3. \A w \in Drains : drain[w].at = r => podOf[w] # p
      BY <2>1, <2>5, <3>2 DEF Excused
    <3>. QED  BY <2>1, <3>1, <3>3 DEF MailInv
  <2>6. DuplicateExcused'
    BY <2>1 DEF MailInv, DuplicateExcused, Excused
  <2>. QED  BY <2>4, <2>5, <2>6 DEF MailInv
<1>4. CASE \/ \E o \in Others : OtherStarts(o) \/ \E heard \in BOOLEAN : OtherEnds(o, heard)
           \/ \E p \in Pods : Cools(p)
           \/ UNCHANGED vars
  <2>1. UNCHANGED <<row, leader, drain, copies>>
    BY <1>4 DEF OtherStarts, OtherEnds, Cools, vars
  <2>. QED  BY <2>1 DEF MailInv, Held, AsPicked, DuplicateExcused
<1>. QED  BY <1>1, <1>2, <1>3, <1>4 DEF Around

LEMMA InitMail == Init => MailInv
  BY Constants DEF Init, MailInv, Held, Resting, DuplicateExcused, Excused

LEMMA NextMail == Shape /\ MailInv /\ [Next]_vars => MailInv'
  BY StepMail, AroundMail DEF Next, Around

LEMMA InitProbe == Init => ProbeInv
<1>1. Init => \A p \in Pods : breaker[p].state = "CLOSED"
  BY DEF Init, Closed
<1>. QED  BY <1>1 DEF Init, ProbeInv

-----------------------------------------------------------------------------

\* Each variable keeps its type.
THEOREM TypeCorrect == Spec => []TypeOK
<1>1. Shape => TypeOK
  BY DEF Shape
<1>. QED  BY <1>1, InitShape, NextShape, PTL DEF Spec

\* For any number of pods and drains, crashes, lost answers and database
\* errors: a second message has one of the excuses, and SENT is said of
\* messages that were taken or dropped on purpose (OutboxDrainService).
THEOREM MailIsAccounted == Spec => []MailAccounted
<1>1. Shape /\ MailInv => MailAccounted
  BY DEF Shape, MailInv, MailAccounted
<1>. QED  BY <1>1, InitShape, NextShape, InitMail, NextMail, PTL DEF Spec

\* As long as no call outlasts the time a breaker stays open, one call at a
\* time probes a service that has been failing (CircuitBreaker.run).
THEOREM ProbesAlone == ASSUME ~SlowCalls PROVE Spec => []SingleProbe
<1>1. Shape /\ ProbeInv => SingleProbe
  <2>. SUFFICES ASSUME Shape, ProbeInv, NEW p \in Pods, NEW c \in probes, NEW d \in probes,
                       podOf[c] = p, podOf[d] = p
                PROVE  c = d
    BY DEF SingleProbe
  <2>. QED  BY DEF ProbeInv, Shape, TypeOK
<1>2. Shape /\ ProbeInv /\ [Next]_vars => ProbeInv'
  BY NextProbe
<1>. QED  BY <1>1, <1>2, InitShape, NextShape, InitProbe, PTL DEF Spec

\* A drain with an old snapshot touches no row that is done and takes no
\* attempt back (the where clauses of OutboxDrainService.drain).
THEOREM RowsGoForward == Spec => RowsMoveForward
<1>. DEFINE Forward ==
       \A r \in Rows :
          /\ row[r].status \in {"SENT", "FAILED"} => row'[r] = row[r]
          /\ row'[r] # row[r] /\ ~row'[r].due => row'[r].attempts > row[r].attempts
<1>1. ASSUME Shape, [Next]_vars PROVE [Forward]_row
  <2>0. TypeOK
    BY <1>1 DEF Shape
  <2>1. ASSUME NEW r \in Rows, Enqueue(r) \/ BackoffEnds(r) PROVE Forward
    <3>1. row'[r].due /\ row[r].status \in {"NONE", "PENDING"} /\ \A x \in Rows \ {r} : row'[x] = row[x]
      BY <2>0, <2>1 DEF Enqueue, BackoffEnds, TypeOK
    <3>. QED  BY <3>1
  <2>2. ASSUME NEW w \in Drains, Record(w), row' # row PROVE Forward
    <3>. DEFINE r == drain[w].at
    <3>1. /\ AsPicked(w, r) /\ r \in Rows /\ row'[r].attempts = drain[w].seen[r] + 1
          /\ \A x \in Rows \ {r} : row'[x] = row[x]
      BY <1>1, <2>0, <2>2 DEF Record, Shape, TypeOK
    <3>2. row[r].attempts \in Nat
      BY <2>0, <3>1, Constants DEF TypeOK
    <3>. HIDE DEF r
    <3>. QED  BY <3>1, <3>2 DEF AsPicked
  <2>3. CASE \/ \E w \in Drains : Start(w) \/ Finish(w) \/ RecordFails(w)
             \/ \E w \in Drains, r \in Rows : Dispatch(w, r)
             \/ \E w \in Drains, taken, heard \in BOOLEAN : CallEnds(w, taken, heard)
             \/ LockExpires
             \/ \E o \in Others : OtherStarts(o) \/ \E heard \in BOOLEAN : OtherEnds(o, heard)
             \/ \E p \in Pods : Cools(p) \/ Crash(p)
             \/ UNCHANGED vars
    BY <2>3 DEF Start, Finish, RecordFails, Dispatch, CallEnds, LockExpires, OtherStarts, OtherEnds,
       Cools, Crash, vars
  <2>. QED  BY <1>1, <2>1, <2>2, <2>3 DEF Next, Step
<1>. QED  BY <1>1, InitShape, NextShape, PTL DEF Spec, RowsMoveForward

-----------------------------------------------------------------------------
(* The caches.                                                             *)

(* The strengthening.  Versions are read, never guessed: what a request    *)
(* holds is at most the version, and nothing is stored under a version to  *)
(* come.                                                                   *)
VersionsPast ==
    /\ \A r \in Readers : reader[r].ver <= version /\ reader[r].since <= version
    /\ \A v \in Versions, k \in Keys : v > version => entry[v][k] = Absent
    /\ version + Cardinality(writer) <= MaxWrites

\* A bump tells only of what has been committed.
ToldIsCommitted == \A k \in Keys : told[k] <= data[k]

\* What a request has been promised and what it has read.
RequestsKnow ==
    \A r \in Readers :
        LET q == reader[r] IN
        q.pc # "IDLE" =>
            /\ q.key \in Keys
            /\ q.floor <= told[q.key]
            /\ q.pc \in {"FILL", "STORE"} => q.val >= q.floor
            /\ q.pc = "STORE" => q.since <= q.ver

\* A value that was read under a version holds what was told by then.
ReadsHold ==
    \A r \in Readers :
        reader[r].pc \in {"FILL", "STORE"} /\ reader[r].since = version
            => reader[r].val >= told[reader[r].key]
EntriesHold ==
    \A k \in Keys :
        entry[version][k] # Absent => entry[version][k].val >= told[k] \/ entry[version][k].late

\* A lookup under an older version, and whatever it may find there.
LookupHolds ==
    \A r \in Readers : reader[r].pc = "LOOKUP" =>
        LET q == reader[r]
            e == entry[q.ver][q.key] IN
        /\ q.ver = version => q.floor = told[q.key]
        /\ e # Absent => e.val >= q.floor \/ e.late
        /\ \A s \in Readers :
             reader[s].pc \in {"FILL", "STORE"} /\ reader[s].key = q.key /\ reader[s].since = q.ver
                => reader[s].val >= q.floor

CacheInv ==
    /\ CacheTypeOK /\ VersionsPast /\ ToldIsCommitted /\ RequestsKnow
    /\ ReadsHold /\ EntriesHold /\ LookupHolds /\ ServedRecent

-----------------------------------------------------------------------------

LEMMA CacheStarts == CacheInit => CacheInv
<1>. SUFFICES ASSUME CacheInit PROVE CacheInv
  OBVIOUS
<1>1. Cardinality(writer) = 0
  BY FS_EmptySet DEF CacheInit
<1>. QED
  BY <1>1, CacheAssumption DEF CacheInit, CacheInv, CacheTypeOK, VersionsPast, ToldIsCommitted, RequestsKnow,
     ReadsHold, EntriesHold, LookupHolds, ServedRecent, Versions, Entries, Requests, NoRequest

\* Every step of a request but Store changes what the request holds to some q,
\* and nothing else.
LEMMA RequestChanges ==
    ASSUME CacheInv, NEW r \in Readers, NEW q \in Requests,
           reader' = [reader EXCEPT ![r] = q],
           UNCHANGED <<data, version, entry, writer, told>>,
           q.ver <= version, q.since <= version,
           q.pc # "IDLE" =>
               /\ q.key \in Keys
               /\ q.floor <= told[q.key]
               /\ q.pc \in {"FILL", "STORE"} => q.val >= q.floor
               /\ q.pc = "STORE" => q.since <= q.ver,
           q.pc = "LOOKUP" => q.ver = version /\ q.floor = told[q.key],
           q.pc \in {"FILL", "STORE"} =>
               \/ q.since = version /\ q.val >= told[q.key]
               \/ /\ reader[r].pc \in {"FILL", "STORE"}
                  /\ q.since = reader[r].since /\ q.key = reader[r].key /\ q.val = reader[r].val,
           q.pc = "SERVED" => q.val >= q.floor \/ q.late
    PROVE  CacheInv'
<1>. USE DEF CacheInv
<1>0. /\ reader'[r] = q
      /\ \A s \in Readers : s # r => reader'[s] = reader[s]
  BY DEF CacheTypeOK
<1>1. CacheTypeOK'
  BY DEF CacheTypeOK
<1>2. VersionsPast'
  BY <1>0 DEF VersionsPast
<1>3. ToldIsCommitted'
  BY DEF ToldIsCommitted
<1>4. RequestsKnow'
  BY <1>0 DEF RequestsKnow
<1>5. ReadsHold'
  BY <1>0 DEF ReadsHold
<1>6. EntriesHold'
  BY DEF EntriesHold
<1>7. LookupHolds'
  <2>. SUFFICES ASSUME NEW s \in Readers, reader'[s].pc = "LOOKUP"
                PROVE  LET p == reader'[s]
                           e == entry[p.ver][p.key] IN
                       /\ p.ver = version => p.floor = told[p.key]
                       /\ e # Absent => e.val >= p.floor \/ e.late
                       /\ \A t \in Readers :
                            reader'[t].pc \in {"FILL", "STORE"} /\ reader'[t].key = p.key
                              /\ reader'[t].since = p.ver => reader'[t].val >= p.floor
    BY ZenonT(40) DEF LookupHolds
  <2>1. CASE s = r
    BY <1>0, <2>1 DEF EntriesHold, ReadsHold
  <2>2. CASE s # r
    BY <1>0, <2>2 DEF LookupHolds
  <2>. QED  BY <2>1, <2>2
<1>8. ServedRecent'
  BY <1>0 DEF ServedRecent
<1>. QED  BY <1>1, <1>2, <1>3, <1>4, <1>5, <1>6, <1>7, <1>8

\* set: what was read is stored under the version of the moment.
LEMMA StoreKeeps ==
    ASSUME CacheInv, NEW r \in Readers, Store(r)
    PROVE  CacheInv'
<1>. USE DEF CacheInv
<1>. DEFINE q == reader[r]
            new == [val |-> q.val, late |-> q.ver > q.since]
<1>0. /\ q \in Requests /\ q.pc = "STORE" /\ q.key \in Keys
      /\ q.ver \in Versions /\ q.since \in Nat /\ q.val \in Nat /\ q.ver \in Nat /\ q.floor \in Nat
      /\ q.ver <= version /\ q.since <= q.ver /\ q.val >= q.floor /\ version \in Nat
      /\ version \in Versions
  BY CacheAssumption DEF Store, CacheTypeOK, Requests, RequestsKnow, VersionsPast, Versions
<1>1. /\ reader'[r] = [q EXCEPT !.pc = "SERVED"]
      /\ \A s \in Readers : s # r => reader'[s] = reader[s]
      /\ reader' \in [Readers -> Requests]
      /\ UNCHANGED <<data, version, writer, told>>
  BY <1>0 DEF Store, Go, CacheTypeOK, Requests
<1>2. /\ reader'[r].pc = "SERVED" /\ reader'[r].key = q.key /\ reader'[r].ver = q.ver
      /\ reader'[r].floor = q.floor /\ reader'[r].since = q.since /\ reader'[r].val = q.val
  BY <1>0, <1>1 DEF Requests
<1>3. new \in Entries /\ new.val = q.val /\ (new.late \/ q.ver = q.since)
  <2>1. ~(q.ver > q.since) => q.ver = q.since
    BY <1>0
  <2>2. new \in Entries /\ new.val = q.val /\ new.late = (q.ver > q.since)
    BY <1>0 DEF Entries, Requests
  <2>. QED  BY <2>1, <2>2
<1>4. /\ entry' \in [Versions -> [Keys -> Entries]]
      /\ entry'[q.ver][q.key] = new
      /\ \A v \in Versions, k \in Keys : v # q.ver \/ k # q.key => entry'[v][k] = entry[v][k]
  <2>1. entry' = [entry EXCEPT ![q.ver][q.key] = new]
    BY DEF Store, DataKey
  <2>. HIDE DEF new, q
  <2>. QED  BY <1>0, <1>3, <2>1 DEF CacheTypeOK
<1>41. \A s \in Readers : reader'[s].ver = reader[s].ver /\ reader'[s].since = reader[s].since
  BY <1>1, <1>2
<1>42. reader[r].val = q.val /\ reader[r].since = q.since /\ reader[r].key = q.key
       /\ reader[r].pc = "STORE"
  BY <1>0
<1>. HIDE DEF new, q
<1>5. CacheTypeOK'
  BY <1>1, <1>4 DEF CacheTypeOK
<1>6. VersionsPast'
  BY <1>0, <1>1, <1>41, <1>4 DEF VersionsPast, Versions
<1>7. ToldIsCommitted'
  BY <1>1 DEF ToldIsCommitted
<1>8. RequestsKnow'
  BY <1>0, <1>1, <1>2 DEF RequestsKnow, q
<1>9. ReadsHold' /\ ServedRecent'
  BY <1>0, <1>1, <1>2 DEF ReadsHold, ServedRecent
<1>10. EntriesHold'
  <2>. SUFFICES ASSUME NEW k \in Keys, entry'[version][k] # Absent
                PROVE  entry'[version][k].val >= told[k] \/ entry'[version][k].late
    BY <1>1 DEF EntriesHold
  <2>1. CASE version = q.ver /\ k = q.key
    BY <1>0, <1>3, <1>4, <1>42, <2>1 DEF ReadsHold
  <2>2. CASE ~(version = q.ver /\ k = q.key)
    BY <1>0, <1>4, <2>2 DEF EntriesHold
  <2>. QED  BY <2>1, <2>2
<1>11. LookupHolds'
  <2>. SUFFICES ASSUME NEW s \in Readers, reader'[s].pc = "LOOKUP"
                PROVE  LET p == reader'[s]
                           e == entry'[p.ver][p.key] IN
                       /\ p.ver = version => p.floor = told[p.key]
                       /\ e # Absent => e.val >= p.floor \/ e.late
                       /\ \A t \in Readers :
                            reader'[t].pc \in {"FILL", "STORE"} /\ reader'[t].key = p.key
                              /\ reader'[t].since = p.ver => reader'[t].val >= p.floor
    BY <1>1 DEF LookupHolds
  <2>1. s # r /\ reader'[s] = reader[s] /\ reader[s] \in Requests /\ reader[s].key \in Keys
        /\ reader[s].ver \in Versions
    BY <1>1, <1>2 DEF CacheTypeOK, RequestsKnow, Requests
  <2>2. \A t \in Readers : reader'[t].pc \in {"FILL", "STORE"} => reader'[t] = reader[t]
    BY <1>1, <1>2
  <2>3. entry'[reader[s].ver][reader[s].key] # Absent =>
           \/ entry'[reader[s].ver][reader[s].key].val >= reader[s].floor
           \/ entry'[reader[s].ver][reader[s].key].late
    <3>1. CASE reader[s].ver = q.ver /\ reader[s].key = q.key
      BY <1>0, <1>3, <1>4, <1>42, <2>1, <3>1 DEF LookupHolds
    <3>2. CASE ~(reader[s].ver = q.ver /\ reader[s].key = q.key)
      BY <1>4, <2>1, <3>2 DEF LookupHolds
    <3>. QED  BY <3>1, <3>2
  <2>. QED  BY <2>1, <2>2, <2>3 DEF LookupHolds
<1>. QED  BY <1>5, <1>6, <1>7, <1>8, <1>9, <1>10, <1>11

\* The steps of a request.
LEMMA RequestKeeps ==
    ASSUME CacheInv, NEW r \in Readers, Request(r) \/ \E k \in Keys : GetVersion(r, k)
    PROVE  CacheInv'
<1>. DEFINE q == reader[r]
<1>0. /\ q \in Requests /\ version \in Nat
      /\ data \in [Keys -> Versions] /\ told \in [Keys -> Versions]
      /\ reader \in [Readers -> Requests]
      /\ \A k \in Keys : told[k] <= data[k]
      /\ q.ver <= version /\ q.since <= version
      /\ version \in Versions /\ MaxWrites \in Nat
  BY CacheAssumption DEF CacheInv, CacheTypeOK, Versions, ToldIsCommitted, VersionsPast
<1>02. /\ \A k \in Keys : told[k] \in Nat /\ data[k] \in Nat
       /\ q.ver \in Nat /\ q.since \in Nat /\ q.val \in Nat /\ q.floor \in Nat
       /\ MaxWrites \in Nat /\ 0 \in Versions
  BY <1>0 DEF Versions, Requests
<1>01. q.pc # "IDLE" =>
            /\ q.key \in Keys
            /\ q.floor <= told[q.key]
            /\ q.pc \in {"FILL", "STORE"} => q.val >= q.floor
            /\ q.pc = "STORE" => q.since <= q.ver
  BY DEF CacheInv, RequestsKnow
<1>1. ASSUME NEW k \in Keys, GetVersion(r, k) PROVE CacheInv'
  <2>. DEFINE p == [NoRequest EXCEPT !.pc = "LOOKUP", !.key = k, !.ver = version, !.floor = told[k]]
  <2>1. /\ p \in Requests /\ p.pc = "LOOKUP" /\ p.key = k /\ p.ver = version /\ p.floor = told[k]
        /\ p.since = 0
    BY <1>0, <1>02 DEF NoRequest, Requests
  <2>2. reader' = [reader EXCEPT ![r] = p] /\ UNCHANGED <<data, version, entry, writer, told>>
    BY <1>1 DEF GetVersion
  <2>3. p.ver <= version /\ p.since <= version /\ p.floor <= told[p.key]
    BY <1>0, <1>02, <2>1
  <2>. HIDE DEF p
  <2>. QED  BY <1>0, <2>1, <2>2, <2>3, RequestChanges
<1>2. CASE Hit(r)
  <2>. DEFINE p == [q EXCEPT !.pc = "SERVED", !.val = Found(r).val, !.late = Found(r).late]
  <2>1. /\ q.pc = "LOOKUP" /\ Found(r) # Absent
        /\ reader' = [reader EXCEPT ![r] = p] /\ UNCHANGED <<data, version, entry, writer, told>>
    BY <1>2 DEF Hit
  <2>2. Found(r) \in [val : Versions, late : BOOLEAN] /\ (Found(r).val >= q.floor \/ Found(r).late)
    <3>1. q.ver \in Versions /\ q.key \in Keys /\ entry \in [Versions -> [Keys -> Entries]]
      BY <1>0, <1>01, <1>02, <2>1 DEF CacheInv, CacheTypeOK, Requests
    <3>2. Found(r) = entry[q.ver][q.key]
      BY DEF Found, DataKey
    <3>3. Found(r) \in [val : Versions, late : BOOLEAN]
      BY <2>1, <3>1, <3>2 DEF Entries
    <3>4. Found(r).val >= q.floor \/ Found(r).late
      BY <1>0, <2>1, <3>2 DEF CacheInv, LookupHolds
    <3>. QED  BY <3>3, <3>4
  <2>3. /\ p \in Requests /\ p.pc = "SERVED" /\ p.key = q.key /\ p.ver = q.ver
        /\ p.floor = q.floor /\ p.since = q.since /\ (p.val >= p.floor \/ p.late)
    BY <1>0, <2>2 DEF Requests
  <2>. HIDE DEF p
  <2>. QED  BY <1>0, <1>01, <1>02, <2>1, <2>3, RequestChanges
<1>3. CASE Miss(r)
  <2>. DEFINE p == [q EXCEPT !.pc = "MISSED"]
  <2>1. /\ q.pc = "LOOKUP"
        /\ reader' = [reader EXCEPT ![r] = p] /\ UNCHANGED <<data, version, entry, writer, told>>
    BY <1>3 DEF Miss, Go
  <2>2. /\ p \in Requests /\ p.pc = "MISSED" /\ p.key = q.key /\ p.ver = q.ver
        /\ p.floor = q.floor /\ p.since = q.since /\ p.val = q.val
    BY <1>0 DEF Requests
  <2>. HIDE DEF p
  <2>. QED  BY <1>0, <1>01, <1>02, <2>1, <2>2, RequestChanges
<1>8. CASE StoreFails(r)
  <2>. DEFINE p == [q EXCEPT !.pc = "SERVED"]
  <2>1. /\ q.pc \in {"FILL", "STORE"}
        /\ reader' = [reader EXCEPT ![r] = p] /\ UNCHANGED <<data, version, entry, writer, told>>
    BY <1>8 DEF StoreFails, Go
  <2>2. /\ p \in Requests /\ p.pc = "SERVED" /\ p.key = q.key /\ p.ver = q.ver
        /\ p.floor = q.floor /\ p.since = q.since /\ p.val = q.val
    BY <1>0 DEF Requests
  <2>. HIDE DEF p
  <2>. QED  BY <1>0, <1>01, <1>02, <2>1, <2>2, RequestChanges
<1>4. CASE ReadDatabase(r)
  <2>. DEFINE p == [q EXCEPT !.pc = "FILL", !.val = data[q.key], !.since = version]
  <2>1. /\ q.pc = "MISSED"
        /\ reader' = [reader EXCEPT ![r] = p] /\ UNCHANGED <<data, version, entry, writer, told>>
    BY <1>4 DEF ReadDatabase
  <2>2. /\ p \in Requests /\ p.pc = "FILL" /\ p.key = q.key /\ p.ver = q.ver
        /\ p.floor = q.floor /\ p.since = version /\ p.val = data[q.key]
    BY <1>0, <1>01, <1>02, <2>1 DEF Requests
  <2>3. p.val >= told[q.key] /\ p.val >= p.floor /\ p.ver <= version /\ p.since <= version
    BY <1>0, <1>01, <1>02, <2>1, <2>2
  <2>. HIDE DEF p
  <2>. QED  BY <1>0, <1>01, <2>1, <2>2, <2>3, RequestChanges
<1>5. CASE SetVersion(r)
  <2>. DEFINE p == [q EXCEPT !.pc = "STORE", !.ver = version]
  <2>1. /\ q.pc = "FILL"
        /\ reader' = [reader EXCEPT ![r] = p] /\ UNCHANGED <<data, version, entry, writer, told>>
    BY <1>5 DEF SetVersion
  <2>2. /\ p \in Requests /\ p.pc = "STORE" /\ p.key = q.key /\ p.ver = version
        /\ p.floor = q.floor /\ p.since = q.since /\ p.val = q.val
    BY <1>0 DEF Requests
  <2>3. p.ver <= version /\ p.since <= p.ver
    BY <1>0, <1>02, <2>2
  <2>. HIDE DEF p
  <2>. QED  BY <1>0, <1>01, <2>1, <2>2, <2>3, RequestChanges
<1>6. CASE Store(r)
  BY <1>6, StoreKeeps
<1>7. CASE Abandon(r)
  <2>1. reader' = [reader EXCEPT ![r] = NoRequest] /\ UNCHANGED <<data, version, entry, writer, told>>
    BY <1>7 DEF Abandon
  <2>2. /\ NoRequest \in Requests /\ NoRequest.pc = "IDLE" /\ NoRequest.ver = 0 /\ NoRequest.since = 0
    BY <1>0 DEF Requests, NoRequest, Versions
  <2>3. NoRequest.ver <= version /\ NoRequest.since <= version
    BY <1>0, <1>02, <2>2
  <2>. QED  BY <1>0, <2>1, <2>2, <2>3, RequestChanges
<1>9. CASE \E k \in Keys : GetVersion(r, k)
  BY <1>1, <1>9
<1>10. CASE Request(r)
  BY <1>2, <1>3, <1>4, <1>5, <1>6, <1>7, <1>8, <1>10 DEF Request, Fill
<1>. QED  BY <1>9, <1>10

\* The writers' steps and the end of an entry.
LEMMA WriterKeeps ==
    ASSUME CacheInv, NEW w \in Writers, Bump(w) \/ \E k \in Keys : Commit(w, k)
    PROVE  CacheInv'
<1>. USE DEF CacheInv
<1>0. /\ version \in Nat /\ MaxWrites \in Nat /\ IsFiniteSet(writer) /\ Cardinality(writer) \in Nat
      /\ \A k \in Keys : data[k] \in Nat /\ told[k] \in Nat /\ told[k] <= data[k]
      /\ \A r \in Readers : reader[r] \in Requests
      /\ \A r \in Readers : reader[r].ver \in Nat /\ reader[r].since \in Nat /\ reader[r].val \in Nat
                            /\ reader[r].floor \in Nat
  <2>1. IsFiniteSet(writer)
    BY CacheAssumption, FS_Subset DEF CacheTypeOK
  <2>2. Cardinality(writer) \in Nat
    BY <2>1, FS_CardinalityType
  <2>. QED  BY <2>1, <2>2, CacheAssumption DEF CacheTypeOK, Versions, Requests, ToldIsCommitted
<1>1. CASE InvalidateLost(w)
  <2>1. Cardinality(writer') = Cardinality(writer) - 1
    BY <1>0, <1>1, FS_RemoveElement DEF InvalidateLost
  <2>2. VersionsPast'
    BY <1>0, <1>1, <2>1 DEF VersionsPast, InvalidateLost
  <2>3. CacheTypeOK' /\ ToldIsCommitted' /\ EntriesHold'
    BY <1>1 DEF InvalidateLost, CacheTypeOK, ToldIsCommitted, EntriesHold
  <2>4. RequestsKnow' /\ ReadsHold' /\ ServedRecent'
    BY <1>1 DEF InvalidateLost, RequestsKnow, ReadsHold, ServedRecent
  <2>5. LookupHolds'
    BY <1>1 DEF InvalidateLost, LookupHolds
  <2>. QED  BY <2>2, <2>3, <2>4, <2>5
<1>2. ASSUME NEW k \in Keys, Commit(w, k) PROVE CacheInv'
  <2>1. Cardinality(writer') = Cardinality(writer) + 1
    BY <1>0, <1>2, FS_AddElement DEF Commit
  <2>2. VersionsPast'
    BY <1>0, <1>2, <2>1 DEF VersionsPast, Commit, Room
  <2>3. CacheTypeOK' /\ ToldIsCommitted' /\ EntriesHold'
    BY <1>0, <1>2 DEF Commit, Room, CacheTypeOK, ToldIsCommitted, EntriesHold, Versions
  <2>4. RequestsKnow' /\ ReadsHold' /\ ServedRecent'
    BY <1>2 DEF Commit, RequestsKnow, ReadsHold, ServedRecent
  <2>5. LookupHolds'
    BY <1>2 DEF Commit, LookupHolds
  <2>. QED  BY <2>2, <2>3, <2>4, <2>5
<1>3. CASE Invalidate(w)
  <2>0. /\ version' = version + 1 /\ told' = data /\ writer' = writer \ {w} /\ w \in writer
        /\ UNCHANGED <<data, entry, reader>>
    BY <1>3 DEF Invalidate, Bumped
  <2>1. Cardinality(writer') = Cardinality(writer) - 1
    BY <1>0, <2>0, FS_RemoveElement
  <2>2. VersionsPast' /\ version' \in Versions
    <3>1. version' + Cardinality(writer') <= MaxWrites
      BY <1>0, <2>0, <2>1 DEF VersionsPast
    <3>2. Cardinality(writer') \in Nat
      BY <1>0, <2>0, FS_RemoveElement, FS_CardinalityType
    <3>. QED  BY <1>0, <2>0, <3>1, <3>2 DEF VersionsPast, Versions
  <2>3. CacheTypeOK' /\ ToldIsCommitted'
    BY <1>0, <2>0, <2>2 DEF CacheTypeOK, ToldIsCommitted
  <2>4. EntriesHold'
    BY <1>0, <2>0, <2>2 DEF EntriesHold, VersionsPast, Versions
  <2>5. RequestsKnow'
    BY <1>0, <2>0 DEF RequestsKnow
  <2>6. ReadsHold' /\ ServedRecent'
    BY <1>0, <2>0 DEF ReadsHold, ServedRecent, VersionsPast
  <2>7. LookupHolds'
    BY <1>0, <2>0 DEF LookupHolds, VersionsPast
  <2>. QED  BY <2>2, <2>3, <2>4, <2>5, <2>6, <2>7
<1>. QED  BY <1>1, <1>2, <1>3 DEF Bump

LEMMA ExpireKeeps ==
    ASSUME CacheInv, NEW k \in Keys, NEW v \in Versions, Expire(v, k)
    PROVE  CacheInv'
<1>. USE DEF CacheInv
<1>0. /\ entry' \in [Versions -> [Keys -> Entries]]
      /\ \A u \in Versions, j \in Keys : entry'[u][j] = entry[u][j] \/ entry'[u][j] = Absent
      /\ UNCHANGED <<data, version, reader, writer, told>>
  BY DEF Expire, CacheTypeOK, Entries
<1>1. CacheTypeOK' /\ VersionsPast' /\ ToldIsCommitted'
  BY <1>0 DEF CacheTypeOK, VersionsPast, ToldIsCommitted
<1>2. RequestsKnow' /\ ReadsHold' /\ ServedRecent'
  BY <1>0 DEF RequestsKnow, ReadsHold, ServedRecent
<1>3. EntriesHold'
  BY <1>0 DEF EntriesHold, CacheTypeOK
<1>4. LookupHolds'
  <2>1. \A r \in Readers : reader[r].pc = "LOOKUP" =>
           reader[r].ver \in Versions /\ reader[r].key \in Keys
    BY DEF CacheTypeOK, Requests, RequestsKnow
  <2>. QED  BY <1>0, <2>1 DEF LookupHolds
<1>. QED  BY <1>1, <1>2, <1>3, <1>4

LEMMA StutterKeeps == CacheInv /\ UNCHANGED cacheVars => CacheInv'
<1>. SUFFICES ASSUME CacheInv, UNCHANGED cacheVars PROVE CacheInv'
  OBVIOUS
<1>. USE DEF cacheVars, CacheInv
<1>1. CacheTypeOK' /\ VersionsPast' /\ ToldIsCommitted' /\ EntriesHold'
  BY DEF CacheTypeOK, VersionsPast, ToldIsCommitted, EntriesHold
<1>2. RequestsKnow' /\ ReadsHold' /\ ServedRecent' /\ LookupHolds'
  BY DEF RequestsKnow, ReadsHold, ServedRecent, LookupHolds
<1>. QED  BY <1>1, <1>2

-----------------------------------------------------------------------------

\* However requests, commits, bumps and expiries interleave, an answer holds
\* every change that a bump told of before its request began, or was stored
\* across a bump (AvailabilityCacheService, ReferenceDataCacheService).
THEOREM ServedIsRecent == CacheSpec => []ServedRecent
<1>1. CacheInv /\ [CacheNext]_cacheVars => CacheInv'
  BY RequestKeeps, WriterKeeps, ExpireKeeps, StutterKeeps DEF CacheNext
<1>2. CacheInv => ServedRecent
  BY DEF CacheInv
<1>. QED  BY CacheStarts, <1>1, <1>2, PTL DEF CacheSpec

\* What can be read is what the last bump told, or was stored across a bump.
THEOREM QuietIsFresh == CacheSpec => []QuietMeansFresh
<1>1. CacheInv /\ [CacheNext]_cacheVars => CacheInv'
  BY RequestKeeps, WriterKeeps, ExpireKeeps, StutterKeeps DEF CacheNext
<1>2. CacheInv => QuietMeansFresh
  BY DEF CacheInv, EntriesHold, QuietMeansFresh
<1>. QED  BY CacheStarts, <1>1, <1>2, PTL DEF CacheSpec
=============================================================================
