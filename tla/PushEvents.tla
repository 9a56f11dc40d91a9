----------------------------- MODULE PushEvents -----------------------------
(* The push-event outbox and the dispatcher that drains it: commits write     *)
(* push_events rows, an alarm claims a push_event job row, its slice POSTs    *)
(* the oldest rows one by one and deletes what the receiver acknowledged.     *)
(* Job rows of other kinds never touch these tables; all they do here is wake *)
(* the object (Wake).  RefTable models the span in which an event is written. *)
EXTENDS Naturals, FiniteSets

CONSTANTS
  JobIds,      \* ids of push_event rows; a deleted row's id may come back
  Slices,      \* running instances of run_slice
  Batch,       \* BATCH
  MaxPending,  \* MAX_PENDING
  MaxAttempts, \* failed slices after which a row is dead (8)
  MaxStrands,  \* dead isolates after which a row is dead (64)
  MaxEvents,   \* bound: commits that move a ref
  MaxFaults    \* bound: failed POSTs, killed isolates and slow slices

ASSUME OutboxAssumption ==
  /\ Batch \in Nat \ {0} /\ MaxPending \in Nat /\ MaxEvents \in Nat
  /\ MaxAttempts \in Nat \ {0} /\ MaxStrands \in Nat /\ MaxFaults \in Nat

VARIABLES
  seq,         \* the AUTOINCREMENT counter of push_events
  rows,        \* the seqs in push_events
  dropped,     \* meta.push_events_dropped
  jobs,        \* table jobs, the push_event rows
  alarm,       \* whether the object's alarm is set
  slice,       \* the slices in memory
  late,        \* POSTs of killed isolates still on their way
  arrived,     \* what the receiver has seen
  faults

vars == <<seq, rows, dropped, jobs, alarm, slice, late, arrived, faults>>

NoRow == [state |-> "none", due |-> FALSE, stale |-> FALSE, lease |-> 0,
          attempts |-> 0, strands |-> 0]
Idle == [job |-> 0, batch |-> {}, full |-> FALSE, got |-> FALSE]

ASSUME IdsAssumption == 0 \notin JobIds /\ 0 \notin Slices

-----------------------------------------------------------------------------
\* Mutant: the newest row of the batch is sent first.
Greatest(S) == CHOOSE n \in S : \A m \in S : n >= m

(* The row of a batch that is sent next.                                      *)
Least(S) == CHOOSE n \in S : \A m \in S : n <= m

Queued(js) == {j \in JobIds : js[j].state = "queued"}

(* rearm: the alarm is set while a row is queued, deleted otherwise.          *)
Rearm(js) == alarm' = (Queued(js) # {})

(* heartbeat's fence, as land_outcome uses it: the row is still ours.         *)
Holds(s) ==
  LET j == slice[s].job
  IN  jobs[j].state = "running" /\ jobs[j].lease = s

\* Mutant: a stranded row stays running.
RepairedNever(js) == js

(* repair: running rows older than 60 s go back to the queue, or die of it.   *)
Repaired(js) ==
  [j \in JobIds |->
     IF js[j].state = "running" /\ js[j].stale
       THEN IF js[j].strands >= MaxStrands
              THEN [js[j] EXCEPT !.state = "dead"]
              ELSE [js[j] EXCEPT !.state = "queued", !.due = TRUE, !.stale = FALSE,
                                 !.lease = 0, !.strands = @ + 1]
       ELSE js[j]]

FreshRow == [NoRow EXCEPT !.state = "queued", !.due = TRUE]
Free(js) == {j \in JobIds : js[j].state = "none"}

\* Mutant: a running row also stops a new one from being queued.
EnqueuedUnlessRunning(js) ==
  IF \E j \in JobIds : js[j].state \in {"queued", "running"}
    THEN js
    ELSE [js EXCEPT ![CHOOSE j \in Free(js) : TRUE] = FreshRow]

(* enqueue: a fresh row due now, unless one is queued already.                *)
Enqueued(js) ==
  IF Queued(js) # {}
    THEN js
    ELSE [js EXCEPT ![CHOOSE j \in Free(js) : TRUE] = FreshRow]

(* SELECT ... ORDER BY seq LIMIT BATCH.                                       *)
Oldest == {n \in rows : Cardinality({m \in rows : m <= n}) <= Batch}

-----------------------------------------------------------------------------
Init ==
  /\ seq = 0 /\ rows = {} /\ dropped = 0
  /\ jobs = [j \in JobIds |-> NoRow] /\ alarm = FALSE
  /\ slice = [s \in Slices |-> Idle]
  /\ late = {} /\ arrived = {} /\ faults = 0

(* A commit that moved refs: boot with its repair, the outbox row (or the     *)
(* drop count past the bound) and the job row, then the rearm of the request. *)
CommitEvent ==
  /\ seq + dropped < MaxEvents
  /\ IF Cardinality(rows) >= MaxPending
       THEN /\ dropped' = dropped + 1
            /\ jobs' = Repaired(jobs)
            /\ UNCHANGED <<seq, rows>>
       ELSE /\ seq' = seq + 1 /\ rows' = rows \cup {seq + 1}
            /\ Queued(Repaired(jobs)) # {} \/ Free(jobs) # {}
            /\ jobs' = Enqueued(Repaired(jobs))
            /\ UNCHANGED dropped
  /\ Rearm(jobs')
  /\ UNCHANGED <<slice, late, arrived, faults>>

(* Any other request, or the alarm of another job: boot repairs, then rearm.  *)
Wake ==
  /\ jobs' = Repaired(jobs)
  /\ Rearm(jobs')
  /\ UNCHANGED <<seq, rows, dropped, slice, late, arrived, faults>>

(* The clock reaches run_at of a queued row, or passes 60 s of a running one. *)
(* The slice of such a row is gone, or it is slow: nothing in this job beats. *)
ComeDue(j) ==
  /\ jobs[j].state = "queued" /\ ~jobs[j].due
  /\ jobs' = [jobs EXCEPT ![j].due = TRUE]
  /\ UNCHANGED <<seq, rows, dropped, alarm, slice, late, arrived, faults>>

OwnedBy(j) == {s \in Slices : slice[s].job = j /\ jobs[j].lease = s}

GoStale(j) ==
  /\ jobs[j].state = "running" /\ ~jobs[j].stale
  /\ OwnedBy(j) # {} => faults < MaxFaults
  /\ faults' = IF OwnedBy(j) # {} THEN faults + 1 ELSE faults
  /\ jobs' = [jobs EXCEPT ![j].stale = TRUE]
  /\ UNCHANGED <<seq, rows, dropped, alarm, slice, late, arrived>>

\* Mutant: a slice starts although there is nothing to send.
AlarmFiresEmpty(s, j) ==
  LET js == Repaired(jobs)
  IN
  /\ alarm /\ slice[s] = Idle
  /\ js[j].state = "queued" /\ js[j].due
  /\ jobs' = [js EXCEPT ![j].state = "running", ![j].lease = s, ![j].stale = FALSE]
  /\ slice' = [slice EXCEPT ![s] = [job |-> j, batch |-> Oldest, got |-> FALSE,
                                    full |-> Cardinality(Oldest) = Batch]]
  /\ alarm' = FALSE
  /\ UNCHANGED <<seq, rows, dropped, late, arrived, faults>>

(* alarm: boot, claim of a due row and the slice up to its first POST are one *)
(* span.  With an empty outbox the slice is Done at once.                     *)
AlarmFires(s, j) ==
  LET js == Repaired(jobs)
      claimed == [js EXCEPT ![j].state = "running", ![j].lease = s, ![j].stale = FALSE]
  IN
  /\ alarm /\ slice[s] = Idle
  /\ js[j].state = "queued" /\ js[j].due
  /\ IF rows = {}
       THEN /\ jobs' = [js EXCEPT ![j] = NoRow]
            /\ Rearm(jobs')
            /\ UNCHANGED slice
       ELSE /\ jobs' = claimed
            /\ slice' = [slice EXCEPT ![s] = [job |-> j, batch |-> Oldest, got |-> FALSE,
                                              full |-> Cardinality(Oldest) = Batch]]
            /\ alarm' = FALSE
  /\ UNCHANGED <<seq, rows, dropped, late, arrived, faults>>

(* The POST of the oldest row of the batch reaches the receiver.              *)
Receive(s) ==
  /\ slice[s] # Idle /\ ~slice[s].got
  /\ arrived' = arrived \cup {Least(slice[s].batch)}
  /\ slice' = [slice EXCEPT ![s].got = TRUE]
  /\ UNCHANGED <<seq, rows, dropped, jobs, alarm, late, faults>>

(* land_outcome: Done deletes the row, Continue queues it again; a slice that *)
(* no longer holds the row changes nothing.                                   *)
LandDone(s) ==
  IF Holds(s) THEN [jobs EXCEPT ![slice[s].job] = NoRow] ELSE jobs

LandContinue(s) ==
  IF Holds(s)
    THEN [jobs EXCEPT ![slice[s].job] = [@ EXCEPT !.state = "queued", !.due = TRUE,
                                           !.stale = FALSE, !.lease = 0, !.strands = 0]]
    ELSE jobs

(* An error backs off, or ends the row at the last attempt.                   *)
LandErr(s) ==
  LET r == jobs[slice[s].job]
  IN  IF ~Holds(s) THEN jobs
      ELSE [jobs EXCEPT ![slice[s].job] =
              IF r.attempts + 1 >= MaxAttempts
                THEN [r EXCEPT !.state = "dead"]
                ELSE [r EXCEPT !.state = "queued", !.due = FALSE, !.stale = FALSE,
                               !.lease = 0, !.attempts = r.attempts + 1]]

(* 2xx: the row goes, and the slice sends the next one, runs out of budget    *)
(* (Continue) or out of rows (Done, or Continue after a full batch).          *)
PostOk(s) ==
  LET n == Least(slice[s].batch)
      rest == slice[s].batch \ {n}
  IN
  /\ slice[s] # Idle /\ slice[s].got
  /\ rows' = rows \ {n}
  /\ \/ /\ rest # {}
        /\ slice' = [slice EXCEPT ![s].batch = rest, ![s].got = FALSE]
        /\ UNCHANGED <<jobs, alarm>>
     \/ /\ slice' = [slice EXCEPT ![s] = Idle]
        /\ jobs' = IF rest # {} \/ slice[s].full THEN LandContinue(s) ELSE LandDone(s)
        /\ Rearm(jobs')
  /\ UNCHANGED <<seq, dropped, late, arrived, faults>>

\* Mutant: the row is deleted whatever the receiver answers.
PostErrForgets(s) ==
  /\ slice[s] # Idle /\ faults < MaxFaults
  /\ slice' = [slice EXCEPT ![s] = Idle]
  /\ rows' = rows \ {Least(slice[s].batch)}
  /\ jobs' = LandErr(s)
  /\ Rearm(jobs')
  /\ faults' = faults + 1
  /\ UNCHANGED <<seq, dropped, late, arrived>>

(* A failed send, an error status, or an answer that was lost: the drain      *)
(* stops at this row.                                                         *)
PostErr(s) ==
  /\ slice[s] # Idle /\ faults < MaxFaults
  /\ slice' = [slice EXCEPT ![s] = Idle]
  /\ jobs' = LandErr(s)
  /\ Rearm(jobs')
  /\ faults' = faults + 1
  /\ UNCHANGED <<seq, rows, dropped, late, arrived>>

(* The isolate dies: every slice is gone, no outcome lands, and a POST on its *)
(* way may still arrive.  The platform may or may not fire the alarm again.   *)
Kill ==
  /\ faults < MaxFaults /\ \E s \in Slices : slice[s] # Idle
  /\ slice' = [s \in Slices |-> Idle]
  /\ late' = late \cup {Least(slice[s].batch) : s \in {t \in Slices : slice[t] # Idle}}
  /\ alarm' \in {alarm, TRUE}
  /\ faults' = faults + 1
  /\ UNCHANGED <<seq, rows, dropped, jobs, arrived>>

LateArrival(n) ==
  /\ n \in late
  /\ late' = late \ {n} /\ arrived' = arrived \cup {n}
  /\ UNCHANGED <<seq, rows, dropped, jobs, alarm, slice, faults>>

Next ==
  \/ CommitEvent \/ Wake \/ Kill
  \/ \E j \in JobIds : ComeDue(j) \/ GoStale(j) \/ \E s \in Slices : AlarmFires(s, j)
  \/ \E s \in Slices : Receive(s) \/ PostOk(s) \/ PostErr(s)
  \/ \E n \in late : LateArrival(n)

Spec == Init /\ [][Next]_vars

(* Time passes, a slice in memory goes on, an alarm that is set fires for     *)
(* every due row in turn (run_at order), and the object is woken again: the   *)
(* janitor's own alarm does that every 15 minutes.                            *)
Fairness ==
  /\ WF_vars(Wake)
  /\ \A j \in JobIds : WF_vars(ComeDue(j)) /\ WF_vars(GoStale(j))
  /\ \A j \in JobIds : SF_vars(\E s \in Slices : AlarmFires(s, j))
  /\ \A s \in Slices : WF_vars(Receive(s)) /\ WF_vars(PostOk(s))

LiveSpec == Spec /\ Fairness

-----------------------------------------------------------------------------
TypeOK ==
  /\ seq \in Nat /\ dropped \in Nat /\ faults \in Nat /\ alarm \in BOOLEAN
  /\ rows \subseteq 1..seq /\ late \subseteq 1..seq /\ arrived \subseteq 1..seq
  /\ jobs \in [JobIds -> [state : {"none", "queued", "running", "dead"}, due : BOOLEAN,
                          stale : BOOLEAN, lease : Slices \cup {0},
                          attempts : Nat, strands : Nat]]
  /\ slice \in [Slices -> [job : JobIds \cup {0}, batch : SUBSET (1..seq),
                           full : BOOLEAN, got : BOOLEAN]]
  /\ \A s \in Slices : (slice[s] = Idle) = (slice[s].batch = {})
  /\ \A s \in Slices : (slice[s] = Idle) = (slice[s].job = 0)

(* "In order": what the receiver has seen is always a prefix of the events,   *)
(* so that no event is seen for the first time before an earlier one,         *)
(* whatever is retried, duplicated, late or sent by two slices at once.       *)
InOrder == \A n \in arrived : 1..n \subseteq arrived

(* "At-least-once": an event leaves the outbox only after the receiver saw    *)
(* it.                                                                        *)
NothingLost == 1..seq \subseteq rows \cup arrived

(* No event is left without a job: a row in the outbox is covered by a job    *)
(* row that is queued or dead, by one whose slice is gone (repair finds it),  *)
(* or by a slice that has it in its batch or will ask for another.            *)
EveryEventOwned ==
  \A n \in rows : \E j \in JobIds :
    \/ jobs[j].state \in {"queued", "dead"}
    \/ jobs[j].state = "running" /\ OwnedBy(j) = {}
    \/ jobs[j].state = "running"
         /\ \E s \in OwnedBy(j) : n \in slice[s].batch \/ slice[s].full

(* Every recorded event is delivered and leaves the outbox while the receiver *)
(* fails less often than the row has attempts.                                *)
Delivered == \A n \in 1..MaxEvents : (n \in rows) ~> (n \notin rows)
=============================================================================
