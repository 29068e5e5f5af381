------------------------------- MODULE Outbox -------------------------------
(***************************************************************************)
(* The transactional outbox: src/src/outbox/outbox.service.ts writes one   *)
(* row per event key in the producer's transaction, and every process of   *)
(* the backend runs outbox.dispatcher.ts, which claims one row at a time   *)
(* under a lease, runs the listeners of its type and acknowledges the row. *)
(*                                                                         *)
(* A row's available_at is kept as the number of ticks until it, so time   *)
(* is bounded without an absolute clock: Tick lets it pass for every row.  *)
(* A dispatcher handles one row at a time (currentDispatch, and the await  *)
(* in dispatchBatch), so its in-memory state is the claimed row, the       *)
(* attempt number the claim returned and the listeners that have settled.  *)
(***************************************************************************)
EXTENDS Integers, FiniteSets

CONSTANTS Event,        \* the event keys producers may enqueue
          NoEvent,      \* "no row claimed"
          Dispatcher,   \* the backend processes, one dispatcher in each
          Listener,     \* the registered event listeners
          ListenersOf,  \* the listeners of an event's type
          Malformed,    \* events whose payload assertDomainEventPayload rejects
          Lease,        \* ticks of INTERVAL '60 seconds'
          RetryMin, RetryStep, RetryMax,  \* ticks of 5 s, 10 s and 300 s
          Faults,       \* bound: faults and stop signals in one behaviour
          MaxAttempts   \* bound: larger attempt numbers are not told apart

ASSUME OutboxAssumption ==
    /\ IsFiniteSet(Event) /\ NoEvent \notin Event
    /\ ListenersOf \in [Event -> SUBSET Listener]
    /\ Malformed \subseteq Event
    /\ Lease \in Nat \ {0}
    /\ RetryMin \in Nat /\ RetryStep \in Nat /\ RetryMax \in Nat
    /\ Faults \in Nat /\ MaxAttempts \in Nat \ {0}

VARIABLES
    row,          \* "absent", "pending", "processed" or "purged"
    attempts,     \* domain_outbox.attempts
    availableIn,  \* ticks until domain_outbox.available_at
    createdAt,    \* rank of domain_outbox.created_at, 0 for a row never written
    phase,        \* where a dispatcher is: "down", "idle", "delivering", "failing"
    stopping,     \* the dispatcher's stopping flag
    claimed,      \* the row a dispatcher is delivering
    token,        \* the attempts value its claim returned
    settled,      \* listeners of this delivery that have settled
    rejected,     \* those among them that failed
    handled,      \* history: listeners that ever ran the event to success
    faults        \* faults and stop signals left

rowVars  == <<row, attempts, availableIn, createdAt>>
procVars == <<phase, stopping, claimed, token, settled, rejected>>
vars     == <<rowVars, procVars, handled, faults>>

Phase == {"down", "idle", "delivering", "failing"}
RowState == {"absent", "pending", "processed", "purged"}

Min2(a, b) == IF a <= b THEN a ELSE b
Max2(a, b) == IF a <= b THEN b ELSE a

\* Mutant: no back-off, a failed row is claimable at once.
BugRetryTicks(n) == 0

RetryTicks(n) == Min2(RetryMax, Max2(RetryMin, n * RetryStep))

Deliverable(e) == e \notin Malformed /\ ListenersOf[e] # {}

Init ==
    /\ row = [e \in Event |-> "absent"]
    /\ attempts = [e \in Event |-> 0]
    /\ availableIn = [e \in Event |-> 0]
    /\ createdAt = [e \in Event |-> 0]
    /\ phase = [d \in Dispatcher |-> "idle"]
    /\ stopping = [d \in Dispatcher |-> FALSE]
    /\ claimed = [d \in Dispatcher |-> NoEvent]
    /\ token = [d \in Dispatcher |-> 0]
    /\ settled = [d \in Dispatcher |-> {}]
    /\ rejected = [d \in Dispatcher |-> {}]
    /\ handled = [e \in Event |-> {}]
    /\ faults = Faults

-----------------------------------------------------------------------------
(* The producers and the daily cleanup *)

NextRank == Cardinality({e \in Event : row[e] # "absent"}) + 1

\* Mutant: the upsert re-arms a row that is already there.
BugEnqueue(e) ==
    /\ row[e] # "purged"
    /\ row' = [row EXCEPT ![e] = "pending"]
    /\ createdAt' = [createdAt EXCEPT ![e] = IF row[e] = "absent" THEN NextRank ELSE @]
    /\ UNCHANGED <<attempts, availableIn, procVars, handled, faults>>

\* The upsert by event_key inside the producer's transaction: a key that is
\* already there is left as it is.  Keys name one business fact (a post id, a
\* ledger id), so none comes back after its row was purged.
Enqueue(e) ==
    /\ row[e] # "purged"
    /\ row' = [row EXCEPT ![e] = IF @ = "absent" THEN "pending" ELSE @]
    /\ createdAt' = [createdAt EXCEPT ![e] = IF row[e] = "absent" THEN NextRank ELSE @]
    /\ UNCHANGED <<attempts, availableIn, procVars, handled, faults>>

\* The daily job deletes rows processed more than seven days ago.
Purge(e) ==
    /\ row[e] = "processed"
    /\ row' = [row EXCEPT ![e] = "purged"]
    /\ UNCHANGED <<attempts, availableIn, createdAt, procVars, handled, faults>>

-----------------------------------------------------------------------------
(* One dispatcher *)

\* processed_at IS NULL AND available_at <= NOW(): a row that keeps failing is
\* claimable for ever.
Claimable(e) == row[e] = "pending" /\ availableIn[e] = 0

\* attempts + 1; the column has no limit, the model counts up to MaxAttempts.
NextAttempt(e) == Min2(attempts[e] + 1, MaxAttempts)

\* The claim statement, atomic in the database: the oldest claimable row, with
\* SKIP LOCKED so that two dispatchers never take the same version of a row.
Claim(d, e) ==
    /\ phase[d] = "idle"
    /\ ~stopping[d]
    /\ Claimable(e)
    /\ \A f \in Event : Claimable(f) => createdAt[e] <= createdAt[f]
    /\ attempts' = [attempts EXCEPT ![e] = NextAttempt(e)]
    /\ availableIn' = [availableIn EXCEPT ![e] = Lease]
    /\ phase' = [phase EXCEPT ![d] = "delivering"]
    /\ claimed' = [claimed EXCEPT ![d] = e]
    /\ token' = [token EXCEPT ![d] = NextAttempt(e)]
    /\ settled' = [settled EXCEPT ![d] = {}]
    /\ rejected' = [rejected EXCEPT ![d] = {}]
    /\ UNCHANGED <<row, createdAt, stopping, handled, faults>>

\* A payload of the wrong shape, or a type no listener is registered for,
\* throws before any listener runs.
Reject(d) ==
    /\ phase[d] = "delivering"
    /\ ~Deliverable(claimed[d])
    /\ phase' = [phase EXCEPT ![d] = "failing"]
    /\ UNCHANGED <<rowVars, stopping, claimed, token, settled, rejected, handled, faults>>

Running(d, l) ==
    /\ phase[d] = "delivering"
    /\ Deliverable(claimed[d])
    /\ l \in ListenersOf[claimed[d]] \ settled[d]

ListenerSucceeds(d, l) ==
    /\ Running(d, l)
    /\ settled' = [settled EXCEPT ![d] = @ \union {l}]
    /\ handled' = [handled EXCEPT ![claimed[d]] = @ \union {l}]
    /\ UNCHANGED <<rowVars, phase, stopping, claimed, token, rejected, faults>>

ListenerFails(d, l) ==
    /\ Running(d, l)
    /\ faults > 0
    /\ settled' = [settled EXCEPT ![d] = @ \union {l}]
    /\ rejected' = [rejected EXCEPT ![d] = @ \union {l}]
    /\ faults' = faults - 1
    /\ UNCHANGED <<rowVars, phase, stopping, claimed, token, handled>>

\* Mutant: the first settled listener decides (Promise.race).
BugAllSettled(d) ==
    /\ phase[d] = "delivering"
    /\ Deliverable(claimed[d])
    /\ settled[d] # {}

\* Promise.allSettled: the dispatcher waits for every listener of the delivery.
AllSettled(d) ==
    /\ phase[d] = "delivering"
    /\ Deliverable(claimed[d])
    /\ settled[d] = ListenersOf[claimed[d]]

SomeRejected(d) ==
    /\ AllSettled(d)
    /\ rejected[d] # {}
    /\ phase' = [phase EXCEPT ![d] = "failing"]
    /\ UNCHANGED <<rowVars, stopping, claimed, token, settled, rejected, handled, faults>>

\* Mutant: the guard forgets the attempt number.
BugOwns(d) == row[claimed[d]] = "pending"

\* where: { id, processedAt: null, attempts: row.attempts }
Owns(d) == /\ row[claimed[d]] = "pending"
           /\ attempts[claimed[d]] = token[d]

Release(d) == /\ phase' = [phase EXCEPT ![d] = "idle"]
              /\ claimed' = [claimed EXCEPT ![d] = NoEvent]

MarkProcessed(d) ==
    row' = [row EXCEPT ![claimed[d]] = IF Owns(d) THEN "processed" ELSE @]

\* The acknowledgement; on a row that was claimed again it matches nothing.
Ack(d) ==
    /\ AllSettled(d)
    /\ rejected[d] = {}
    /\ MarkProcessed(d)
    /\ Release(d)
    /\ UNCHANGED <<attempts, availableIn, createdAt, stopping, token, settled,
                   rejected, handled, faults>>

\* The acknowledgement reports an error, with or without having committed; the
\* same catch block then schedules a retry.
AckError(d) ==
    /\ AllSettled(d)
    /\ rejected[d] = {}
    /\ faults > 0
    /\ \/ MarkProcessed(d)
       \/ UNCHANGED row
    /\ phase' = [phase EXCEPT ![d] = "failing"]
    /\ faults' = faults - 1
    /\ UNCHANGED <<attempts, availableIn, createdAt, stopping, claimed, token,
                   settled, rejected, handled>>

\* Mutant: the retry is scheduled for whatever claim holds the row.
BugScheduleRetry(d) ==
    availableIn' = [availableIn EXCEPT ![claimed[d]] =
                      IF row[claimed[d]] = "pending" THEN RetryTicks(token[d]) ELSE @]

ScheduleRetry(d) ==
    availableIn' = [availableIn EXCEPT ![claimed[d]] =
                      IF Owns(d) THEN RetryTicks(token[d]) ELSE @]

\* The catch block: last_error and the back-off, under the same guard.
Fail(d) ==
    /\ phase[d] = "failing"
    /\ ScheduleRetry(d)
    /\ Release(d)
    /\ UNCHANGED <<row, attempts, createdAt, stopping, token, settled, rejected,
                   handled, faults>>

\* The catch block's own write fails: the batch ends and the row keeps its lease.
FailError(d) ==
    /\ phase[d] = "failing"
    /\ faults > 0
    /\ Release(d)
    /\ faults' = faults - 1
    /\ UNCHANGED <<rowVars, stopping, token, settled, rejected, handled>>

-----------------------------------------------------------------------------
(* The process around the dispatcher, and time *)

\* beforeApplicationShutdown: no further claim, the current delivery is awaited.
Stop(d) ==
    /\ phase[d] # "down"
    /\ ~stopping[d]
    /\ faults > 0
    /\ stopping' = [stopping EXCEPT ![d] = TRUE]
    /\ faults' = faults - 1
    /\ UNCHANGED <<rowVars, phase, claimed, token, settled, rejected, handled>>

Exit(d) ==
    /\ phase[d] = "idle"
    /\ stopping[d]
    /\ phase' = [phase EXCEPT ![d] = "down"]
    /\ UNCHANGED <<rowVars, stopping, claimed, token, settled, rejected, handled, faults>>

\* The process dies: what its listeners did stays, its memory is gone.
Crash(d) ==
    /\ phase[d] # "down"
    /\ faults > 0
    /\ phase' = [phase EXCEPT ![d] = "down"]
    /\ claimed' = [claimed EXCEPT ![d] = NoEvent]
    /\ faults' = faults - 1
    /\ UNCHANGED <<rowVars, stopping, token, settled, rejected, handled>>

Start(d) ==
    /\ phase[d] = "down"
    /\ phase' = [phase EXCEPT ![d] = "idle"]
    /\ stopping' = [stopping EXCEPT ![d] = FALSE]
    /\ UNCHANGED <<rowVars, claimed, token, settled, rejected, handled, faults>>

\* The dispatchers whose lease a tick would let expire under a running delivery.
Overrunning == {d \in Dispatcher : /\ phase[d] \in {"delivering", "failing"}
                                  /\ Owns(d)
                                  /\ availableIn[claimed[d]] = 1}

\* A dispatcher is late when it has left a claimable row alone for a whole tick:
\* its interval is one second, a batch goes on at once, and ticks are longer.
Late == \E d \in Dispatcher, e \in Event : phase[d] = "idle" /\ ~stopping[d] /\ Claimable(e)

\* A tick of time for every row.  A delivery that outlives its lease and a late
\* dispatcher are faults; the last attempt number that is told apart is not outlived.
Tick ==
    /\ \E e \in Event : availableIn[e] > 0
    /\ availableIn' = [e \in Event |-> IF availableIn[e] > 0 THEN availableIn[e] - 1 ELSE 0]
    /\ \A d \in Overrunning : token[d] < MaxAttempts
    /\ IF Overrunning # {} \/ Late
       THEN faults > 0 /\ faults' = faults - 1
       ELSE UNCHANGED faults
    /\ UNCHANGED <<row, attempts, createdAt, procVars, handled>>

DispatcherNext(d) ==
    \/ \E e \in Event : Claim(d, e)
    \/ Reject(d)
    \/ \E l \in Listener : ListenerSucceeds(d, l) \/ ListenerFails(d, l)
    \/ SomeRejected(d)
    \/ Ack(d)
    \/ AckError(d)
    \/ Fail(d)
    \/ FailError(d)

ProcessNext(d) == Stop(d) \/ Exit(d) \/ Crash(d) \/ Start(d)

Next == \/ \E e \in Event : Enqueue(e) \/ Purge(e)
        \/ \E d \in Dispatcher : DispatcherNext(d) \/ ProcessNext(d)
        \/ Tick

Spec == Init /\ [][Next]_vars

\* The interval keeps dispatching, promises settle and time passes; nothing
\* obliges a producer, an operator or a fault to act, but a stopped process is
\* started again.
Fairness ==
    /\ WF_vars(Tick)
    /\ \A d \in Dispatcher :
         /\ WF_vars(\E e \in Event : Claim(d, e))
         /\ WF_vars(Reject(d) \/ SomeRejected(d) \/ Ack(d) \/ Fail(d))
         /\ WF_vars(\E l \in Listener : ListenerSucceeds(d, l))
         /\ WF_vars(Exit(d))
         /\ WF_vars(Start(d))

FairSpec == Spec /\ Fairness

-----------------------------------------------------------------------------
(* Properties *)

\* Every variable keeps its type.
TypeOK ==
    /\ row \in [Event -> RowState]
    /\ attempts \in [Event -> Nat]
    /\ availableIn \in [Event -> Nat]
    /\ createdAt \in [Event -> Nat]
    /\ phase \in [Dispatcher -> Phase]
    /\ stopping \in [Dispatcher -> BOOLEAN]
    /\ claimed \in [Dispatcher -> Event \union {NoEvent}]
    /\ token \in [Dispatcher -> Nat]
    /\ settled \in [Dispatcher -> SUBSET Listener]
    /\ rejected \in [Dispatcher -> SUBSET Listener]
    /\ handled \in [Event -> SUBSET Listener]
    /\ faults \in Nat

Busy(d) == phase[d] \in {"delivering", "failing"}

\* However late a delivery is, at most one dispatcher can still acknowledge or
\* reschedule a row: two deliveries of one event never hold the same attempt
\* number (the attempts guard of both updateMany calls in deliver).
OneOwner ==
    \A d1, d2 \in Dispatcher :
        /\ Busy(d1) /\ Busy(d2)
        /\ claimed[d1] = claimed[d2] /\ d1 # d2
        => ~(Owns(d1) /\ Owns(d2))

\* A row is marked processed only if some delivery of it really ran every
\* listener of its type to success; a malformed event or one nobody listens to
\* is never marked (deliver's early throws and Promise.allSettled).
ProcessedMeansHandled ==
    \A e \in Event : row[e] \in {"processed", "purged"} =>
        Deliverable(e) /\ handled[e] = ListenersOf[e]

\* A row under a lease that has not run out, held by a live dispatcher, is
\* moved only by time and by that dispatcher: a late failure of an earlier
\* delivery does not shorten or prolong the lease of the present one.
LeaseUndisturbed ==
    [][\A d \in Dispatcher, e \in Event :
         /\ Busy(d) /\ claimed[d] = e /\ Owns(d) /\ availableIn[e] > 0
         /\ Busy(d)' /\ claimed'[d] = e
         => /\ attempts'[e] = attempts[e]
            /\ availableIn'[e] = availableIn[e] \/ Tick]_vars

\* The outbox as its consumers see it.
Delivery == INSTANCE OutboxDelivery WITH
    published <- {e \in Event : row[e] # "absent"},
    done <- {e \in Event : row[e] \in {"processed", "purged"}}

\* The dispatchers implement at-least-once delivery: nothing is done before
\* every listener has handled it, and done events never become pending again.
AtLeastOnce == Delivery!DSpec

\* Once faults have stopped, every deliverable event that was committed is
\* handled and acknowledged, although the oldest claimable row is always taken
\* first and a malformed row is claimed and fails for ever: its back-off leaves
\* the dispatchers time for the rows behind it (ORDER BY created_at in claim).
EventuallyProcessed ==
    \A e \in Event : (row[e] = "pending" /\ Deliverable(e)) ~> row[e] \in {"processed", "purged"}
=============================================================================
