---------------------------- MODULE OutboxProofs ----------------------------
(***************************************************************************)
(* Proofs about Outbox, for every set of events, listeners and processes   *)
(* and every lease and back-off.  The inductive invariant says what a      *)
(* process that is delivering knows: its attempt number is one the row has *)
(* reached, no other process has the same one (where attempt numbers are   *)
(* no longer told apart, because the lease still runs), and the listeners  *)
(* it saw succeed have indeed handled the event.                           *)
(*                                                                         *)
(* And about two of the listeners it delivers to, PostFanout and           *)
(* ThreadLikes: for all users, posts, contents, workers, loads and bounds  *)
(* that meet the assumptions of those modules.                             *)
(***************************************************************************)
EXTENDS Outbox, PostFanout, ThreadLikes, SequenceTheorems, FiniteSetTheorems, TLAPS

ClaimIsReal ==
    /\ \A e \in Event : attempts[e] <= MaxAttempts
    /\ \A d \in Dispatcher : Busy(d) =>
           /\ claimed[d] \in Event
           /\ row[claimed[d]] # "absent"
           /\ token[d] <= attempts[claimed[d]]

TokensDiffer ==
    \A d1, d2 \in Dispatcher :
        Busy(d1) /\ Busy(d2) /\ d1 # d2 /\ claimed[d1] = claimed[d2]
            => token[d1] # token[d2]

LastIsLeased ==
    \A d \in Dispatcher :
        Busy(d) /\ Owns(d) /\ token[d] = MaxAttempts => availableIn[claimed[d]] > 0

SettledHandled ==
    /\ \A e \in Event : handled[e] \subseteq ListenersOf[e]
    /\ \A d \in Dispatcher : Busy(d) =>
           /\ settled[d] \subseteq ListenersOf[claimed[d]]
           /\ settled[d] \ rejected[d] \subseteq handled[claimed[d]]

IInv == /\ TypeOK
        /\ ClaimIsReal
        /\ TokensDiffer
        /\ LastIsLeased
        /\ SettledHandled
        /\ ProcessedMeansHandled

USE OutboxAssumption

\* Initially every variable has its type.
LEMMA InitType == Init => TypeOK
BY DEF Init, TypeOK, RowState, Phase

\* The back-off is a number of ticks.
LEMMA RetryTicksNat == \A n \in Nat : RetryTicks(n) \in Nat
BY DEF RetryTicks, Min2, Max2

\* The rank given to a new row is a number: there are finitely many rows.
LEMMA NextRankNat == NextRank \in Nat
<1>1. IsFiniteSet({e \in Event : row[e] # "absent"})
  BY FS_Subset, IsFiniteSet(Event) DEF OutboxAssumption
<1>2. Cardinality({e \in Event : row[e] # "absent"}) \in Nat
  BY <1>1, FS_CardinalityType
<1> QED
  BY <1>2 DEF NextRank

\* The number a claim returns is a step up, or the last one there is.
LEMMA NextAttemptUp ==
    ASSUME TypeOK, ClaimIsReal, NEW e \in Event
    PROVE  /\ NextAttempt(e) \in Nat /\ NextAttempt(e) <= MaxAttempts
           /\ attempts[e] <= NextAttempt(e)
           /\ attempts[e] < NextAttempt(e) \/ attempts[e] = MaxAttempts
BY DEF TypeOK, ClaimIsReal, NextAttempt, Min2

-----------------------------------------------------------------------------
(* Type correctness *)

\* Every step of the producers, the dispatchers, the processes and time keeps
\* every variable in its type.
LEMMA NextType == TypeOK /\ [Next]_vars => TypeOK'
<1> SUFFICES ASSUME TypeOK, [Next]_vars
             PROVE  TypeOK'
  OBVIOUS
<1> USE DEF TypeOK, RowState, Phase
<1>1. ASSUME NEW e \in Event, Enqueue(e)
      PROVE  TypeOK'
  BY <1>1, NextRankNat DEF Enqueue, procVars
<1>2. ASSUME NEW e \in Event, Purge(e)
      PROVE  TypeOK'
  BY <1>2 DEF Purge, procVars
<1>3. ASSUME NEW d \in Dispatcher, NEW e \in Event, Claim(d, e)
      PROVE  TypeOK'
  BY <1>3 DEF Claim, NextAttempt, Min2
<1>4. ASSUME NEW d \in Dispatcher, Reject(d)
      PROVE  TypeOK'
  BY <1>4 DEF Reject, rowVars
<1>5. ASSUME NEW d \in Dispatcher, NEW l \in Listener, ListenerSucceeds(d, l)
      PROVE  TypeOK'
  BY <1>5 DEF ListenerSucceeds, rowVars
<1>6. ASSUME NEW d \in Dispatcher, NEW l \in Listener, ListenerFails(d, l)
      PROVE  TypeOK'
  BY <1>6 DEF ListenerFails, rowVars
<1>7. ASSUME NEW d \in Dispatcher, SomeRejected(d)
      PROVE  TypeOK'
  BY <1>7 DEF SomeRejected, rowVars
<1>8. ASSUME NEW d \in Dispatcher, Ack(d)
      PROVE  TypeOK'
  BY <1>8 DEF Ack, MarkProcessed, Release
<1>9. ASSUME NEW d \in Dispatcher, AckError(d)
      PROVE  TypeOK'
  BY <1>9 DEF AckError, MarkProcessed
<1>10. ASSUME NEW d \in Dispatcher, Fail(d)
       PROVE  TypeOK'
  BY <1>10, RetryTicksNat DEF Fail, ScheduleRetry, Release
<1>11. ASSUME NEW d \in Dispatcher, FailError(d)
       PROVE  TypeOK'
  BY <1>11 DEF FailError, Release, rowVars
<1>12. ASSUME NEW d \in Dispatcher, ProcessNext(d)
       PROVE  TypeOK'
  <2>1. CASE Stop(d)
    BY <2>1 DEF Stop, rowVars
  <2>2. CASE Exit(d)
    BY <2>2 DEF Exit, rowVars
  <2>3. CASE Crash(d)
    BY <2>3 DEF Crash, rowVars
  <2>4. CASE Start(d)
    BY <2>4 DEF Start, rowVars
  <2> QED
    BY <1>12, <2>1, <2>2, <2>3, <2>4 DEF ProcessNext
<1>13. CASE Tick
  BY <1>13 DEF Tick, procVars
<1>14. CASE UNCHANGED vars
  BY <1>14 DEF vars, rowVars, procVars
<1> QED
  BY <1>1, <1>2, <1>3, <1>4, <1>5, <1>6, <1>7, <1>8, <1>9, <1>10, <1>11, <1>12,
     <1>13, <1>14 DEF Next, DispatcherNext

\* TypeOK is an invariant of the outbox (OutboxDispatcher and its table).
THEOREM TypeCorrect == Spec => []TypeOK
BY InitType, NextType, PTL DEF Spec

-----------------------------------------------------------------------------
(* One owner per row *)

\* The row and the attempt number a delivery works on stay those of a real claim:
\* attempts only grow.
LEMMA NextClaimIsReal == TypeOK /\ ClaimIsReal /\ [Next]_vars => ClaimIsReal'
<1> SUFFICES ASSUME TypeOK, ClaimIsReal, [Next]_vars
             PROVE  ClaimIsReal'
  OBVIOUS
<1> USE DEF TypeOK, ClaimIsReal, Busy
<1>1. ASSUME NEW e \in Event, Enqueue(e)
      PROVE  ClaimIsReal'
  BY <1>1 DEF Enqueue, procVars
<1>2. ASSUME NEW e \in Event, Purge(e)
      PROVE  ClaimIsReal'
  BY <1>2 DEF Purge, procVars
<1>3. ASSUME NEW d \in Dispatcher, NEW e \in Event, Claim(d, e)
      PROVE  ClaimIsReal'
  BY <1>3, NextAttemptUp DEF Claim, Claimable
<1>4. ASSUME NEW d \in Dispatcher, Reject(d)
      PROVE  ClaimIsReal'
  BY <1>4 DEF Reject, rowVars
<1>5. ASSUME NEW d \in Dispatcher, NEW l \in Listener, ListenerSucceeds(d, l)
      PROVE  ClaimIsReal'
  BY <1>5 DEF ListenerSucceeds, Running, rowVars
<1>6. ASSUME NEW d \in Dispatcher, NEW l \in Listener, ListenerFails(d, l)
      PROVE  ClaimIsReal'
  BY <1>6 DEF ListenerFails, Running, rowVars
<1>7. ASSUME NEW d \in Dispatcher, SomeRejected(d)
      PROVE  ClaimIsReal'
  BY <1>7 DEF SomeRejected, AllSettled, rowVars
<1>8. ASSUME NEW d \in Dispatcher, Ack(d)
      PROVE  ClaimIsReal'
  BY <1>8 DEF Ack, AllSettled, MarkProcessed, Release
<1>9. ASSUME NEW d \in Dispatcher, AckError(d)
      PROVE  ClaimIsReal'
  BY <1>9 DEF AckError, AllSettled, MarkProcessed
<1>10. ASSUME NEW d \in Dispatcher, Fail(d)
       PROVE  ClaimIsReal'
  BY <1>10 DEF Fail, ScheduleRetry, Release
<1>11. ASSUME NEW d \in Dispatcher, FailError(d)
       PROVE  ClaimIsReal'
  BY <1>11 DEF FailError, Release, rowVars
<1>12. ASSUME NEW d \in Dispatcher, Stop(d)
       PROVE  ClaimIsReal'
  BY <1>12 DEF Stop, rowVars
<1>13. ASSUME NEW d \in Dispatcher, Exit(d)
       PROVE  ClaimIsReal'
  BY <1>13 DEF Exit, rowVars
<1>14. ASSUME NEW d \in Dispatcher, Crash(d)
       PROVE  ClaimIsReal'
  BY <1>14 DEF Crash, rowVars
<1>15. ASSUME NEW d \in Dispatcher, Start(d)
       PROVE  ClaimIsReal'
  BY <1>15 DEF Start, rowVars
<1>16. CASE Tick
  BY <1>16 DEF Tick, procVars
<1>17. CASE UNCHANGED vars
  BY <1>17 DEF vars, rowVars, procVars
<1> QED
  BY <1>1, <1>2, <1>3, <1>4, <1>5, <1>6, <1>7, <1>8, <1>9,
     <1>10, <1>11, <1>12, <1>13, <1>14, <1>15, <1>16, <1>17
     DEF Next, DispatcherNext, ProcessNext

\* A claim raises the attempt number above every one in use, so that the
\* deliveries of one row keep different numbers; where it cannot, nobody has the
\* last number, since its lease would still run.
LEMMA NextTokensDiffer == TypeOK /\ ClaimIsReal /\ TokensDiffer /\ LastIsLeased /\ [Next]_vars => TokensDiffer'
<1> SUFFICES ASSUME TypeOK, ClaimIsReal, TokensDiffer, LastIsLeased, [Next]_vars
             PROVE  TokensDiffer'
  OBVIOUS
<1> USE DEF TypeOK, ClaimIsReal, TokensDiffer, Busy
<1>1. ASSUME NEW e \in Event, Enqueue(e)
      PROVE  TokensDiffer'
  BY <1>1 DEF Enqueue, procVars
<1>2. ASSUME NEW e \in Event, Purge(e)
      PROVE  TokensDiffer'
  BY <1>2 DEF Purge, procVars
<1>3. ASSUME NEW d \in Dispatcher, NEW e \in Event, Claim(d, e)
      PROVE  TokensDiffer'
  <2>1. ASSUME NEW c \in Dispatcher, Busy(c), claimed[c] = e
        PROVE  token[c] # NextAttempt(e)
    <3>1. token[c] <= attempts[e] /\ row[e] = "pending" /\ availableIn[e] = 0
      BY <1>3, <2>1 DEF Claim, Claimable
    <3>2. CASE attempts[e] < NextAttempt(e)
      BY <3>1, <3>2, NextAttemptUp
    <3>3. CASE attempts[e] = MaxAttempts
      <4>1. token[c] # MaxAttempts
        BY <2>1, <3>1, <3>3 DEF LastIsLeased, Owns
      <4> QED
        BY <3>1, <3>3, <4>1, NextAttemptUp, MaxAttempts \in Nat DEF OutboxAssumption
    <3> QED
      BY <3>2, <3>3, NextAttemptUp
  <2> QED
    BY <1>3, <2>1 DEF Claim
<1>4. ASSUME NEW d \in Dispatcher, Reject(d)
      PROVE  TokensDiffer'
  BY <1>4 DEF Reject, rowVars
<1>5. ASSUME NEW d \in Dispatcher, NEW l \in Listener, ListenerSucceeds(d, l)
      PROVE  TokensDiffer'
  BY <1>5 DEF ListenerSucceeds, Running, rowVars
<1>6. ASSUME NEW d \in Dispatcher, NEW l \in Listener, ListenerFails(d, l)
      PROVE  TokensDiffer'
  BY <1>6 DEF ListenerFails, Running, rowVars
<1>7. ASSUME NEW d \in Dispatcher, SomeRejected(d)
      PROVE  TokensDiffer'
  BY <1>7 DEF SomeRejected, AllSettled, rowVars
<1>8. ASSUME NEW d \in Dispatcher, Ack(d)
      PROVE  TokensDiffer'
  BY <1>8 DEF Ack, AllSettled, MarkProcessed, Release
<1>9. ASSUME NEW d \in Dispatcher, AckError(d)
      PROVE  TokensDiffer'
  BY <1>9 DEF AckError, AllSettled, MarkProcessed
<1>10. ASSUME NEW d \in Dispatcher, Fail(d)
       PROVE  TokensDiffer'
  BY <1>10 DEF Fail, ScheduleRetry, Release
<1>11. ASSUME NEW d \in Dispatcher, FailError(d)
       PROVE  TokensDiffer'
  BY <1>11 DEF FailError, Release, rowVars
<1>12. ASSUME NEW d \in Dispatcher, Stop(d)
       PROVE  TokensDiffer'
  BY <1>12 DEF Stop, rowVars
<1>13. ASSUME NEW d \in Dispatcher, Exit(d)
       PROVE  TokensDiffer'
  BY <1>13 DEF Exit, rowVars
<1>14. ASSUME NEW d \in Dispatcher, Crash(d)
       PROVE  TokensDiffer'
  BY <1>14 DEF Crash, rowVars
<1>15. ASSUME NEW d \in Dispatcher, Start(d)
       PROVE  TokensDiffer'
  BY <1>15 DEF Start, rowVars
<1>16. CASE Tick
  BY <1>16 DEF Tick, procVars
<1>17. CASE UNCHANGED vars
  BY <1>17 DEF vars, rowVars, procVars
<1> QED
  BY <1>1, <1>2, <1>3, <1>4, <1>5, <1>6, <1>7, <1>8, <1>9,
     <1>10, <1>11, <1>12, <1>13, <1>14, <1>15, <1>16, <1>17
     DEF Next, DispatcherNext, ProcessNext

\* The last attempt number is held only under a lease that still runs: a claim
\* starts one, nobody else's back-off touches it, and time does not let it expire.
LEMMA NextLastIsLeased == TypeOK /\ ClaimIsReal /\ TokensDiffer /\ LastIsLeased /\ [Next]_vars => LastIsLeased'
<1> SUFFICES ASSUME TypeOK, ClaimIsReal, TokensDiffer, LastIsLeased, [Next]_vars
             PROVE  LastIsLeased'
  OBVIOUS
<1>0. MaxAttempts \in Nat /\ Lease \in Nat \ {0}
  BY DEF OutboxAssumption
<1> USE DEF TypeOK, ClaimIsReal, LastIsLeased, Busy, Owns
<1>1. ASSUME NEW e \in Event, Enqueue(e)
      PROVE  LastIsLeased'
  BY <1>1 DEF Enqueue, procVars
<1>2. ASSUME NEW e \in Event, Purge(e)
      PROVE  LastIsLeased'
  BY <1>2 DEF Purge, procVars
<1>3. ASSUME NEW d \in Dispatcher, NEW e \in Event, Claim(d, e)
      PROVE  LastIsLeased'
  <2> SUFFICES ASSUME NEW c \in Dispatcher, Busy(c)', Owns(c)', token'[c] = MaxAttempts
               PROVE  availableIn'[claimed'[c]] > 0
    OBVIOUS
  <2>1. availableIn'[e] = Lease
    BY <1>3 DEF Claim
  <2>2. CASE c = d
    BY <1>0, <1>3, <2>1, <2>2 DEF Claim
  <2>3. CASE c # d
    <3>1. /\ phase'[c] = phase[c] /\ claimed'[c] = claimed[c] /\ token'[c] = token[c] /\ row' = row
          /\ claimed[c] # e => attempts'[claimed[c]] = attempts[claimed[c]]
                                /\ availableIn'[claimed[c]] = availableIn[claimed[c]]
      BY <1>3, <2>3 DEF Claim
    <3>2. CASE claimed[c] = e
      BY <1>0, <2>1, <3>1, <3>2
    <3>3. CASE claimed[c] # e
      BY <3>1, <3>3
    <3> QED
      BY <3>2, <3>3
  <2> QED
    BY <2>2, <2>3
<1>4. ASSUME NEW d \in Dispatcher, Reject(d)
      PROVE  LastIsLeased'
  BY <1>4 DEF Reject, rowVars
<1>5. ASSUME NEW d \in Dispatcher, NEW l \in Listener, ListenerSucceeds(d, l)
      PROVE  LastIsLeased'
  BY <1>5 DEF ListenerSucceeds, Running, rowVars
<1>6. ASSUME NEW d \in Dispatcher, NEW l \in Listener, ListenerFails(d, l)
      PROVE  LastIsLeased'
  BY <1>6 DEF ListenerFails, Running, rowVars
<1>7. ASSUME NEW d \in Dispatcher, SomeRejected(d)
      PROVE  LastIsLeased'
  BY <1>7 DEF SomeRejected, AllSettled, rowVars
<1>8. ASSUME NEW d \in Dispatcher, Ack(d)
      PROVE  LastIsLeased'
  BY <1>8 DEF Ack, AllSettled, MarkProcessed, Release
<1>9. ASSUME NEW d \in Dispatcher, AckError(d)
      PROVE  LastIsLeased'
  BY <1>9 DEF AckError, AllSettled, MarkProcessed
<1>10. ASSUME NEW d \in Dispatcher, Fail(d)
       PROVE  LastIsLeased'
  <2> SUFFICES ASSUME NEW c \in Dispatcher, Busy(c)', Owns(c)', token'[c] = MaxAttempts
               PROVE  availableIn'[claimed'[c]] > 0
    OBVIOUS
  <2>1. c # d /\ UNCHANGED <<row, attempts, token>> /\ phase'[c] = phase[c] /\ claimed'[c] = claimed[c]
    BY <1>10 DEF Fail, Release
  <2>2. Busy(c) /\ Owns(c) /\ token[c] = MaxAttempts /\ availableIn[claimed[c]] > 0
    BY <2>1
  <2>3. claimed[c] = claimed[d] => ~Owns(d)
    BY <1>10, <2>1, <2>2 DEF Fail, TokensDiffer
  <2>4. availableIn'[claimed[c]] = availableIn[claimed[c]]
    BY <1>10, <2>2, <2>3 DEF Fail, ScheduleRetry
  <2> QED
    BY <2>1, <2>2, <2>4
<1>11. ASSUME NEW d \in Dispatcher, FailError(d)
       PROVE  LastIsLeased'
  BY <1>11 DEF FailError, Release, rowVars
<1>12. ASSUME NEW d \in Dispatcher, Stop(d)
       PROVE  LastIsLeased'
  BY <1>12 DEF Stop, rowVars
<1>13. ASSUME NEW d \in Dispatcher, Exit(d)
       PROVE  LastIsLeased'
  BY <1>13 DEF Exit, rowVars
<1>14. ASSUME NEW d \in Dispatcher, Crash(d)
       PROVE  LastIsLeased'
  BY <1>14 DEF Crash, rowVars
<1>15. ASSUME NEW d \in Dispatcher, Start(d)
       PROVE  LastIsLeased'
  BY <1>15 DEF Start, rowVars
<1>16. CASE Tick
  <2> SUFFICES ASSUME NEW c \in Dispatcher, Busy(c)', Owns(c)', token'[c] = MaxAttempts
               PROVE  availableIn'[claimed'[c]] > 0
    OBVIOUS
  <2>1. UNCHANGED <<phase, claimed, token, row, attempts>>
    BY <1>16 DEF Tick, procVars
  <2>2. Busy(c) /\ Owns(c) /\ token[c] = MaxAttempts /\ claimed[c] \in Event
    BY <2>1
  <2>3. availableIn[claimed[c]] > 0
    BY <2>2
  <2>4. availableIn[claimed[c]] # 1
    BY <1>0, <1>16, <2>2 DEF Tick, Overrunning
  <2> QED
    BY <1>16, <2>1, <2>2, <2>3, <2>4 DEF Tick
<1>17. CASE UNCHANGED vars
  BY <1>17 DEF vars, rowVars, procVars
<1> QED
  BY <1>1, <1>2, <1>3, <1>4, <1>5, <1>6, <1>7, <1>8, <1>9,
     <1>10, <1>11, <1>12, <1>13, <1>14, <1>15, <1>16, <1>17
     DEF Next, DispatcherNext, ProcessNext

\* The four facts hold of every reachable state.
LEMMA ClaimInvariants == Spec => [](TypeOK /\ ClaimIsReal /\ TokensDiffer /\ LastIsLeased)
<1>1. Init => TypeOK /\ ClaimIsReal /\ TokensDiffer /\ LastIsLeased
  BY InitType DEF Init, ClaimIsReal, TokensDiffer, LastIsLeased, Busy, OutboxAssumption
<1>2. TypeOK /\ ClaimIsReal /\ TokensDiffer /\ LastIsLeased /\ [Next]_vars
        => (TypeOK /\ ClaimIsReal /\ TokensDiffer /\ LastIsLeased)'
  BY NextType, NextClaimIsReal, NextTokensDiffer, NextLastIsLeased
<1> QED
  BY <1>1, <1>2, PTL DEF Spec

\* At most one delivery of a row can acknowledge or reschedule it: two owners
\* would hold the same attempt number (both updateMany calls of deliver).
THEOREM OneOwnerAlways == Spec => []OneOwner
<1>1. TypeOK /\ ClaimIsReal /\ TokensDiffer => OneOwner
  BY DEF TokensDiffer, OneOwner, Owns
<1> QED
  BY <1>1, ClaimInvariants, PTL

-----------------------------------------------------------------------------
(* Processed rows have been handled *)

\* What a delivery saw succeed has handled its event.
LEMMA NextSettledHandled == TypeOK /\ ClaimIsReal /\ SettledHandled /\ [Next]_vars => SettledHandled'
<1> SUFFICES ASSUME TypeOK, ClaimIsReal, SettledHandled, [Next]_vars
             PROVE  SettledHandled'
  OBVIOUS
<1> USE DEF TypeOK, ClaimIsReal, SettledHandled, Busy
<1>1. ASSUME NEW e \in Event, Enqueue(e)
      PROVE  SettledHandled'
  BY <1>1 DEF Enqueue, procVars
<1>2. ASSUME NEW e \in Event, Purge(e)
      PROVE  SettledHandled'
  BY <1>2 DEF Purge, procVars
<1>3. ASSUME NEW d \in Dispatcher, NEW e \in Event, Claim(d, e)
      PROVE  SettledHandled'
  BY <1>3 DEF Claim
<1>4. ASSUME NEW d \in Dispatcher, Reject(d)
      PROVE  SettledHandled'
  BY <1>4 DEF Reject, rowVars
<1>5. ASSUME NEW d \in Dispatcher, NEW l \in Listener, ListenerSucceeds(d, l)
      PROVE  SettledHandled'
  BY <1>5 DEF ListenerSucceeds, Running, rowVars
<1>6. ASSUME NEW d \in Dispatcher, NEW l \in Listener, ListenerFails(d, l)
      PROVE  SettledHandled'
  BY <1>6 DEF ListenerFails, Running, rowVars
<1>7. ASSUME NEW d \in Dispatcher, SomeRejected(d)
      PROVE  SettledHandled'
  BY <1>7 DEF SomeRejected, AllSettled, rowVars
<1>8. ASSUME NEW d \in Dispatcher, Ack(d)
      PROVE  SettledHandled'
  BY <1>8 DEF Ack, AllSettled, MarkProcessed, Release
<1>9. ASSUME NEW d \in Dispatcher, AckError(d)
      PROVE  SettledHandled'
  BY <1>9 DEF AckError, AllSettled, MarkProcessed
<1>10. ASSUME NEW d \in Dispatcher, Fail(d)
       PROVE  SettledHandled'
  BY <1>10 DEF Fail, ScheduleRetry, Release
<1>11. ASSUME NEW d \in Dispatcher, FailError(d)
       PROVE  SettledHandled'
  BY <1>11 DEF FailError, Release, rowVars
<1>12. ASSUME NEW d \in Dispatcher, Stop(d)
       PROVE  SettledHandled'
  BY <1>12 DEF Stop, rowVars
<1>13. ASSUME NEW d \in Dispatcher, Exit(d)
       PROVE  SettledHandled'
  BY <1>13 DEF Exit, rowVars
<1>14. ASSUME NEW d \in Dispatcher, Crash(d)
       PROVE  SettledHandled'
  BY <1>14 DEF Crash, rowVars
<1>15. ASSUME NEW d \in Dispatcher, Start(d)
       PROVE  SettledHandled'
  BY <1>15 DEF Start, rowVars
<1>16. CASE Tick
  BY <1>16 DEF Tick, procVars
<1>17. CASE UNCHANGED vars
  BY <1>17 DEF vars, rowVars, procVars
<1> QED
  BY <1>1, <1>2, <1>3, <1>4, <1>5, <1>6, <1>7, <1>8, <1>9,
     <1>10, <1>11, <1>12, <1>13, <1>14, <1>15, <1>16, <1>17
     DEF Next, DispatcherNext, ProcessNext

\* Only an acknowledgement marks a row, and it follows the success of every
\* listener.
LEMMA NextProcessed == TypeOK /\ ClaimIsReal /\ SettledHandled /\ ProcessedMeansHandled /\ [Next]_vars => ProcessedMeansHandled'
<1> SUFFICES ASSUME TypeOK, ClaimIsReal, SettledHandled, ProcessedMeansHandled, [Next]_vars
             PROVE  ProcessedMeansHandled'
  OBVIOUS
<1> USE DEF TypeOK, ClaimIsReal, SettledHandled, ProcessedMeansHandled, Busy, Deliverable
<1>1. ASSUME NEW e \in Event, Enqueue(e)
      PROVE  ProcessedMeansHandled'
  BY <1>1 DEF Enqueue, procVars
<1>2. ASSUME NEW e \in Event, Purge(e)
      PROVE  ProcessedMeansHandled'
  BY <1>2 DEF Purge, procVars
<1>3. ASSUME NEW d \in Dispatcher, NEW e \in Event, Claim(d, e)
      PROVE  ProcessedMeansHandled'
  BY <1>3 DEF Claim
<1>4. ASSUME NEW d \in Dispatcher, Reject(d)
      PROVE  ProcessedMeansHandled'
  BY <1>4 DEF Reject, rowVars
<1>5. ASSUME NEW d \in Dispatcher, NEW l \in Listener, ListenerSucceeds(d, l)
      PROVE  ProcessedMeansHandled'
  BY <1>5 DEF ListenerSucceeds, Running, rowVars
<1>6. ASSUME NEW d \in Dispatcher, NEW l \in Listener, ListenerFails(d, l)
      PROVE  ProcessedMeansHandled'
  BY <1>6 DEF ListenerFails, Running, rowVars
<1>7. ASSUME NEW d \in Dispatcher, SomeRejected(d)
      PROVE  ProcessedMeansHandled'
  BY <1>7 DEF SomeRejected, AllSettled, rowVars
<1>8. ASSUME NEW d \in Dispatcher, Ack(d)
      PROVE  ProcessedMeansHandled'
  BY <1>8 DEF Ack, AllSettled, MarkProcessed, Release
<1>9. ASSUME NEW d \in Dispatcher, AckError(d)
      PROVE  ProcessedMeansHandled'
  BY <1>9 DEF AckError, AllSettled, MarkProcessed
<1>10. ASSUME NEW d \in Dispatcher, Fail(d)
       PROVE  ProcessedMeansHandled'
  BY <1>10 DEF Fail, ScheduleRetry, Release
<1>11. ASSUME NEW d \in Dispatcher, FailError(d)
       PROVE  ProcessedMeansHandled'
  BY <1>11 DEF FailError, Release, rowVars
<1>12. ASSUME NEW d \in Dispatcher, Stop(d)
       PROVE  ProcessedMeansHandled'
  BY <1>12 DEF Stop, rowVars
<1>13. ASSUME NEW d \in Dispatcher, Exit(d)
       PROVE  ProcessedMeansHandled'
  BY <1>13 DEF Exit, rowVars
<1>14. ASSUME NEW d \in Dispatcher, Crash(d)
       PROVE  ProcessedMeansHandled'
  BY <1>14 DEF Crash, rowVars
<1>15. ASSUME NEW d \in Dispatcher, Start(d)
       PROVE  ProcessedMeansHandled'
  BY <1>15 DEF Start, rowVars
<1>16. CASE Tick
  BY <1>16 DEF Tick, procVars
<1>17. CASE UNCHANGED vars
  BY <1>17 DEF vars, rowVars, procVars
<1> QED
  BY <1>1, <1>2, <1>3, <1>4, <1>5, <1>6, <1>7, <1>8, <1>9,
     <1>10, <1>11, <1>12, <1>13, <1>14, <1>15, <1>16, <1>17
     DEF Next, DispatcherNext, ProcessNext

\* The inductive invariant holds of every reachable state.
LEMMA IInvAlways == Spec => []IInv
<1>1. Init => IInv
  BY InitType DEF Init, IInv, ClaimIsReal, TokensDiffer, LastIsLeased, SettledHandled,
                  ProcessedMeansHandled, Busy, OutboxAssumption
<1>2. IInv /\ [Next]_vars => IInv'
  BY NextType, NextClaimIsReal, NextTokensDiffer, NextLastIsLeased, NextSettledHandled, NextProcessed
     DEF IInv
<1> QED
  BY <1>1, <1>2, PTL DEF Spec

\* A row is processed only after every listener of its type ran it to success,
\* for any number of processes, listeners, faults and overrun leases.
THEOREM ProcessedMeansHandledAlways == Spec => []ProcessedMeansHandled
<1>1. IInv => ProcessedMeansHandled
  BY DEF IInv
<1> QED
  BY <1>1, IInvAlways, PTL

-----------------------------------------------------------------------------
(* The lease of a live owner *)

LeaseStep ==
    \A d \in Dispatcher, e \in Event :
        /\ Busy(d) /\ claimed[d] = e /\ Owns(d) /\ availableIn[e] > 0
        /\ Busy(d)' /\ claimed'[d] = e
        => /\ attempts'[e] = attempts[e]
           /\ availableIn'[e] = availableIn[e] \/ Tick

\* No step but time moves the lease of a live owner: a claim needs it to have run
\* out, and another delivery's failure has a smaller attempt number.
LEMMA NextLease == TypeOK /\ ClaimIsReal /\ TokensDiffer /\ [Next]_vars => LeaseStep
<1> SUFFICES ASSUME TypeOK, ClaimIsReal, TokensDiffer, [Next]_vars
             PROVE  LeaseStep
  OBVIOUS
<1> USE DEF TypeOK, ClaimIsReal, TokensDiffer, LeaseStep, Busy
<1>1. ASSUME NEW e \in Event, Enqueue(e)
      PROVE  LeaseStep
  BY <1>1 DEF Enqueue, procVars
<1>2. ASSUME NEW e \in Event, Purge(e)
      PROVE  LeaseStep
  BY <1>2 DEF Purge, procVars
<1>3. ASSUME NEW d \in Dispatcher, NEW e \in Event, Claim(d, e)
      PROVE  LeaseStep
  BY <1>3 DEF Claim, Claimable, Owns
<1>4. ASSUME NEW d \in Dispatcher, Reject(d)
      PROVE  LeaseStep
  BY <1>4 DEF Reject, rowVars
<1>5. ASSUME NEW d \in Dispatcher, NEW l \in Listener, ListenerSucceeds(d, l)
      PROVE  LeaseStep
  BY <1>5 DEF ListenerSucceeds, Running, rowVars
<1>6. ASSUME NEW d \in Dispatcher, NEW l \in Listener, ListenerFails(d, l)
      PROVE  LeaseStep
  BY <1>6 DEF ListenerFails, Running, rowVars
<1>7. ASSUME NEW d \in Dispatcher, SomeRejected(d)
      PROVE  LeaseStep
  BY <1>7 DEF SomeRejected, AllSettled, rowVars
<1>8. ASSUME NEW d \in Dispatcher, Ack(d)
      PROVE  LeaseStep
  BY <1>8 DEF Ack, AllSettled, MarkProcessed, Release
<1>9. ASSUME NEW d \in Dispatcher, AckError(d)
      PROVE  LeaseStep
  BY <1>9 DEF AckError, AllSettled, MarkProcessed
<1>10. ASSUME NEW d \in Dispatcher, Fail(d)
       PROVE  LeaseStep
  BY <1>10 DEF Fail, ScheduleRetry, Release, Owns
<1>11. ASSUME NEW d \in Dispatcher, FailError(d)
       PROVE  LeaseStep
  BY <1>11 DEF FailError, Release, rowVars
<1>12. ASSUME NEW d \in Dispatcher, Stop(d)
       PROVE  LeaseStep
  BY <1>12 DEF Stop, rowVars
<1>13. ASSUME NEW d \in Dispatcher, Exit(d)
       PROVE  LeaseStep
  BY <1>13 DEF Exit, rowVars
<1>14. ASSUME NEW d \in Dispatcher, Crash(d)
       PROVE  LeaseStep
  BY <1>14 DEF Crash, rowVars
<1>15. ASSUME NEW d \in Dispatcher, Start(d)
       PROVE  LeaseStep
  BY <1>15 DEF Start, rowVars
<1>16. CASE Tick
  BY <1>16 DEF Tick, procVars
<1>17. CASE UNCHANGED vars
  BY <1>17 DEF vars, rowVars, procVars
<1> QED
  BY <1>1, <1>2, <1>3, <1>4, <1>5, <1>6, <1>7, <1>8, <1>9,
     <1>10, <1>11, <1>12, <1>13, <1>14, <1>15, <1>16, <1>17
     DEF Next, DispatcherNext, ProcessNext

\* A late failure never shortens or prolongs the lease of the present owner (the
\* attempts guard in the catch block of deliver).
THEOREM LeaseUndisturbedAlways == Spec => LeaseUndisturbed
<1>1. TypeOK /\ ClaimIsReal /\ TokensDiffer /\ [Next]_vars => LeaseStep
  BY NextLease
<1>2. LeaseStep => [LeaseStep]_vars
  OBVIOUS
<1>3. Spec => [][LeaseStep]_vars
  BY <1>1, ClaimInvariants, PTL DEF Spec
<1> QED
  BY <1>3 DEF LeaseUndisturbed, LeaseStep

-----------------------------------------------------------------------------
(* The dispatchers implement at-least-once delivery *)

\* A successful acknowledgement is the abstract Finish, or nothing at all when the
\* row has been claimed again.
LEMMA MarkIsFinish ==
    ASSUME TypeOK, ClaimIsReal, SettledHandled, NEW d \in Dispatcher,
           AllSettled(d), rejected[d] = {}, MarkProcessed(d), handled' = handled
    PROVE  [Delivery!DNext]_(Delivery!dvars)
<1> USE DEF TypeOK, Delivery!dvars
<1>1. PICK e \in Event : /\ e = claimed[d]
                         /\ handled[e] = ListenersOf[e]
                         /\ Deliverable(e)
  BY DEF ClaimIsReal, SettledHandled, AllSettled, Busy
<1>2. CASE Owns(d)
  <2>1. row[e] = "pending" /\ row' = [row EXCEPT ![e] = "processed"]
    BY <1>1, <1>2 DEF MarkProcessed, Owns
  <2>2. {f \in Event : row'[f] # "absent"} = {f \in Event : row[f] # "absent"}
    BY <2>1
  <2>3. {f \in Event : row'[f] \in {"processed", "purged"}}
          = {f \in Event : row[f] \in {"processed", "purged"}} \union {e}
    BY <2>1
  <2>4. Delivery!Finish(e)
    BY <1>1, <2>1, <2>2, <2>3 DEF Delivery!Finish, Delivery!Deliverable, Deliverable
  <2> QED
    BY <2>4 DEF Delivery!DNext
<1>3. CASE ~Owns(d)
  <2>1. row' = row
    BY <1>1, <1>3 DEF MarkProcessed
  <2> QED
    BY <2>1
<1> QED
  BY <1>2, <1>3

\* Every step is a step of OutboxDelivery or leaves its variables alone.
LEMMA NextImplements == TypeOK /\ ClaimIsReal /\ SettledHandled /\ [Next]_vars => [Delivery!DNext]_(Delivery!dvars)
<1> SUFFICES ASSUME TypeOK, ClaimIsReal, SettledHandled, [Next]_vars
             PROVE  [Delivery!DNext]_(Delivery!dvars)
  OBVIOUS
<1> USE DEF TypeOK, ClaimIsReal, SettledHandled, Busy, Delivery!dvars
<1>1. ASSUME NEW e \in Event, Enqueue(e)
      PROVE  [Delivery!DNext]_(Delivery!dvars)
  <2>1. CASE row[e] = "absent"
    <3>1. {f \in Event : row'[f] # "absent"} = {f \in Event : row[f] # "absent"} \union {e}
      BY <1>1, <2>1 DEF Enqueue
    <3>2. {f \in Event : row'[f] \in {"processed", "purged"}}
            = {f \in Event : row[f] \in {"processed", "purged"}}
      BY <1>1, <2>1 DEF Enqueue
    <3>3. Delivery!Publish(e)
      BY <1>1, <2>1, <3>1, <3>2 DEF Enqueue, Delivery!Publish
    <3> QED
      BY <3>3 DEF Delivery!DNext
  <2>2. CASE row[e] # "absent"
    <3>1. row' = row /\ handled' = handled
      BY <1>1, <2>2 DEF Enqueue
    <3> QED
      BY <3>1
  <2> QED
    BY <2>1, <2>2
<1>2. ASSUME NEW e \in Event, Purge(e)
      PROVE  [Delivery!DNext]_(Delivery!dvars)
  <2>1. {f \in Event : row'[f] # "absent"} = {f \in Event : row[f] # "absent"}
    BY <1>2 DEF Purge
  <2>2. {f \in Event : row'[f] \in {"processed", "purged"}}
          = {f \in Event : row[f] \in {"processed", "purged"}}
    BY <1>2 DEF Purge
  <2> QED
    BY <1>2, <2>1, <2>2 DEF Purge
<1>3. ASSUME NEW d \in Dispatcher, NEW e \in Event, Claim(d, e)
      PROVE  [Delivery!DNext]_(Delivery!dvars)
  BY <1>3 DEF Claim
<1>4. ASSUME NEW d \in Dispatcher, Reject(d)
      PROVE  [Delivery!DNext]_(Delivery!dvars)
  BY <1>4 DEF Reject, rowVars
<1>5. ASSUME NEW d \in Dispatcher, NEW l \in Listener, ListenerSucceeds(d, l)
      PROVE  [Delivery!DNext]_(Delivery!dvars)
  <2>1. PICK e \in Event : e = claimed[d] /\ row[e] # "absent"
    BY <1>5 DEF ListenerSucceeds, Running
  <2>2. Delivery!Handle(e, l)
    BY <1>5, <2>1 DEF ListenerSucceeds, Running, rowVars, Deliverable,
                      Delivery!Handle, Delivery!Deliverable
  <2> QED
    BY <2>2 DEF Delivery!DNext
<1>6. ASSUME NEW d \in Dispatcher, NEW l \in Listener, ListenerFails(d, l)
      PROVE  [Delivery!DNext]_(Delivery!dvars)
  BY <1>6 DEF ListenerFails, Running, rowVars
<1>7. ASSUME NEW d \in Dispatcher, SomeRejected(d)
      PROVE  [Delivery!DNext]_(Delivery!dvars)
  BY <1>7 DEF SomeRejected, AllSettled, rowVars
<1>8. ASSUME NEW d \in Dispatcher, Ack(d)
      PROVE  [Delivery!DNext]_(Delivery!dvars)
  BY <1>8, MarkIsFinish DEF Ack
<1>9. ASSUME NEW d \in Dispatcher, AckError(d)
      PROVE  [Delivery!DNext]_(Delivery!dvars)
  <2>1. CASE MarkProcessed(d)
    BY <1>9, <2>1, MarkIsFinish DEF AckError
  <2>2. CASE row' = row
    BY <1>9, <2>2 DEF AckError
  <2> QED
    BY <1>9, <2>1, <2>2 DEF AckError
<1>10. ASSUME NEW d \in Dispatcher, Fail(d)
       PROVE  [Delivery!DNext]_(Delivery!dvars)
  BY <1>10 DEF Fail, ScheduleRetry, Release
<1>11. ASSUME NEW d \in Dispatcher, FailError(d)
       PROVE  [Delivery!DNext]_(Delivery!dvars)
  BY <1>11 DEF FailError, Release, rowVars
<1>12. ASSUME NEW d \in Dispatcher, Stop(d)
       PROVE  [Delivery!DNext]_(Delivery!dvars)
  BY <1>12 DEF Stop, rowVars
<1>13. ASSUME NEW d \in Dispatcher, Exit(d)
       PROVE  [Delivery!DNext]_(Delivery!dvars)
  BY <1>13 DEF Exit, rowVars
<1>14. ASSUME NEW d \in Dispatcher, Crash(d)
       PROVE  [Delivery!DNext]_(Delivery!dvars)
  BY <1>14 DEF Crash, rowVars
<1>15. ASSUME NEW d \in Dispatcher, Start(d)
       PROVE  [Delivery!DNext]_(Delivery!dvars)
  BY <1>15 DEF Start, rowVars
<1>16. CASE Tick
  BY <1>16 DEF Tick, procVars
<1>17. CASE UNCHANGED vars
  BY <1>17 DEF vars, rowVars, procVars
<1> QED
  BY <1>1, <1>2, <1>3, <1>4, <1>5, <1>6, <1>7, <1>8, <1>9,
     <1>10, <1>11, <1>12, <1>13, <1>14, <1>15, <1>16, <1>17
     DEF Next, DispatcherNext, ProcessNext

\* The dispatchers with their leases, retries and faults implement OutboxDelivery:
\* an event is done only when every listener has handled it, and stays done.
THEOREM AtLeastOnceHolds == Spec => AtLeastOnce
<1>1. Init => Delivery!DInit
  BY DEF Init, Delivery!DInit
<1>2. IInv /\ [Next]_vars => [Delivery!DNext]_(Delivery!dvars)
  BY NextImplements DEF IInv
<1> QED
  BY <1>1, <1>2, IInvAlways, PTL DEF Spec, AtLeastOnce, Delivery!DSpec

-----------------------------------------------------------------------------
(* The handler of post.created (PostFanout)                                *)
(*                                                                         *)
(* What it has told belongs to the sections of the post that are behind    *)
(* it; and while nobody has changed anything, an attempt that has not      *)
(* failed knows whom each section is for, and has told all of them.        *)

HIDE OutboxAssumption

\* The sections of a post, and those an attempt that is at stage s has behind it
Told == CASE post.kind = "floor" -> {"mention", "new-post", "reply"}
          [] post.kind = "body" -> {"mention", "new-post"}
          [] post.kind = "nested" -> {"mention", "reply", "new-reply"}

Behind(s) ==
    CASE s \in {"target", "new-post"} -> {"mention"}
      [] s = "reply" -> Told \ {"reply", "new-reply"}
      [] s = "new-reply" -> {"mention", "reply"}
      [] s = "end" -> Told
      [] OTHER -> {}

\* Only nested posts look up a target and tell observers of a reply.
Placed(w) ==
    /\ stage[w] = "new-post" => post.kind # "nested"
    /\ stage[w] = "reply" => post.kind # "body"
    /\ stage[w] \in {"target", "new-reply"} => post.kind = "nested"
    /\ pending[w] # {} => stage[w] \in Keys \union {"edited"}

\* Whoever was told belongs to the section that told him.
SentBySection(w) ==
    /\ stage[w] \in {"idle", "load", "parse"} => sent[w] = {}
    /\ stage[w] \in {"mention", "target"} => \A s \in sent[w] : s[1] = "mention"
    /\ \A s \in sent[w] : s[2] \in Recipients(w, s[1]) /\ s[1] \in Told
    /\ pending[w] \subseteq Recipients(w, stage[w])

\* Nobody has changed anything yet.
Quiet == changes = Changes

Answered ==
    CASE post.kind = "floor" -> post.owner
      [] post.kind = "nested" -> post.target
      [] OTHER -> NoUser

Unchanged == live /\ blocked = {} /\ updates = {} /\ Group(rows) \in {{}, marked}

\* What an attempt that has not failed knows, and whom it has told
Informed(w) ==
    /\ stage[w] # "edited"
    /\ ~failed[w] /\ stage[w] \notin {"idle", "load"} =>
        /\ loaded[w] = [blocked |-> {}, observers |-> post.managers \union Subscribers]
        /\ stage[w] # "parse" => explicit[w] = Named(Desired(post.content, TRUE))
        /\ post.kind # "nested" \/ stage[w] \in {"reply", "new-reply", "end"} => target[w] = Answered
        /\ pending[w] # {} => pending[w] = Recipients(w, stage[w])
        /\ \A key \in Behind(stage[w]) : {key} \X Recipients(w, key) \subseteq notes

FanoutInv ==
    /\ FanoutTypeOK
    /\ \A w \in Worker : Placed(w) /\ SentBySection(w)
    /\ Quiet => Unchanged /\ \A w \in Worker : Informed(w)
    /\ AckedMeansNotified

-----------------------------------------------------------------------------
(* Types *)

\* The recipients of a section are users.
LEMMA RecipientsAreUsers ==
    ASSUME FanoutTypeOK, NEW w \in Worker, NEW key PROVE Recipients(w, key) \subseteq User
BY DEF Recipients, FanoutTypeOK

\* A content names users.
LEMMA DesiredIsOfUsers ==
    ASSUME FanoutTypeOK, NEW c \in Tokens, NEW kept \in BOOLEAN
    PROVE  Desired(c, kept) \subseteq User \X Source
<1>1. Mentionable(c) \subseteq User  BY DEF Mentionable, FanoutTypeOK, Tokens
<1>2. GroupUsers(c, kept) \subseteq User  BY DEF GroupUsers, Group, FanoutTypeOK
<1>. QED  BY <1>1, <1>2 DEF Desired, Source

\* Every section is followed by one.
LEMMA AfterIsStage == \A s : After(s) \in Stages
BY DEF After, Stages, Keys

\* In the beginning every variable has its type.
LEMMA InitTyped == FanoutInit => FanoutTypeOK
<1> SUFFICES ASSUME FanoutInit PROVE FanoutTypeOK  OBVIOUS
<1> PICK s \in Scenarios : post = s.post /\ content = s.post.content /\ follows = s.follows /\ marked = s.marked
                           /\ subscribed = s.subscribed
  BY DEF FanoutInit
<1>1. s \in Scenario  BY FanoutAssumption
<1>2. /\ post \in Post /\ content \in Tokens /\ follows \subseteq User /\ marked \subseteq User
      /\ subscribed \subseteq User \X {"THREAD", "USER"}
  BY <1>1 DEF Scenario, Post
<1>3. fanoutFaults \in 0 .. FanoutFaults /\ changes \in 0 .. Changes  BY FanoutAssumption DEF FanoutInit
<1>. QED  BY <1>2, <1>3 DEF FanoutInit, FanoutTypeOK, NothingLoaded, Stages

\* A step of a worker keeps every variable in its type.
LEMMA WorkerTyped == ASSUME FanoutTypeOK, NEW w \in Worker, Placed(w), WorkerStep(w) PROVE FanoutTypeOK'
<1> USE DEF GoTo, worldVars, eventVars, localVars
<1>0. Fault => fanoutFaults' \in 0 .. FanoutFaults
  <2>1. fanoutFaults \in 0 .. FanoutFaults  BY DEF FanoutTypeOK
  <2>. QED  BY <2>1, FanoutAssumption DEF Fault
<1>1. CASE ClaimPost(w)  BY <1>1 DEF ClaimPost, FanoutTypeOK, Stages
<1>2. CASE Load(w)
  <2>1. Subscribers \subseteq User  BY DEF Subscribers
  <2>2. post.managers \subseteq User /\ post.owner \in User \union {NoUser}  BY DEF FanoutTypeOK, Post
  <2>3. [blocked |-> blocked, observers |-> post.managers \union Subscribers]
          \in [blocked : SUBSET User, observers : SUBSET User]
    BY <2>1, <2>2 DEF FanoutTypeOK
  <2>4. loaded' \in [Worker -> [blocked : SUBSET User, observers : SUBSET User]]
    BY <1>2, <2>3 DEF Load, FanoutTypeOK
  <2>5. target' \in [Worker -> User \union {NoUser}] /\ stage' \in [Worker -> Stages]
    BY <1>2, <2>2 DEF Load, FanoutTypeOK, Stages
  <2>. QED  BY <1>2, <2>4, <2>5 DEF Load, FanoutTypeOK
<1>3. CASE LoadFail(w)  BY <1>0, <1>3 DEF LoadFail, FanoutTypeOK, Stages
<1>4. CASE Parse(w)
  <2>1. post.content \in Tokens  BY DEF FanoutTypeOK, Post
  <2>2. rows' \subseteq User \X Source  BY <1>4, <2>1, DesiredIsOfUsers DEF Parse
  <2>3. explicit' \in [Worker -> SUBSET User]  BY <1>4 DEF Parse, FanoutTypeOK, Named
  <2>4. stage' \in [Worker -> Stages]  BY <1>4, AfterIsStage DEF Parse, FanoutTypeOK
  <2>. QED  BY <1>4, <2>2, <2>3, <2>4 DEF Parse, FanoutTypeOK
<1>5. CASE ParseFail(w)  BY <1>0, <1>5, AfterIsStage DEF ParseFail, FanoutTypeOK
<1>6. CASE Target(w)
  <2>1. post.target \in User \union {NoUser}  BY DEF FanoutTypeOK, Post
  <2>. QED  BY <1>6, <2>1, AfterIsStage DEF Target, FanoutTypeOK
<1>7. CASE TargetFail(w)  BY <1>0, <1>7, AfterIsStage DEF TargetFail, FanoutTypeOK
<1>8. CASE Filter(w)
  <2>1. Eligible(Recipients(w, stage[w])) \subseteq User  BY RecipientsAreUsers DEF Eligible
  <2>2. stage' \in [Worker -> Stages]  BY <1>8, AfterIsStage DEF Filter, FanoutTypeOK
  <2>. QED  BY <1>8, <2>1, <2>2 DEF Filter, FanoutTypeOK
<1>9. CASE Store(w)
  <2> DEFINE key == IF stage[w] = "edited" THEN "mention" ELSE stage[w]
  <2>1. key \in Keys => {key} \X pending[w] \subseteq Keys \X User  BY DEF FanoutTypeOK
  <2>2. notes' = notes \union ({key} \X pending[w]) /\ sent' = [sent EXCEPT ![w] = @ \union ({key} \X pending[w])]
    BY <1>9 DEF Store
  <2>3. key \in Keys  BY <1>9 DEF Store, Placed, Keys
  <2>4. notes' \subseteq Keys \X User /\ sent' \in [Worker -> SUBSET (Keys \X User)]
    <3> HIDE DEF key
    <3>. QED  BY <2>1, <2>2, <2>3 DEF FanoutTypeOK
  <2>5. stage' \in [Worker -> Stages]  BY <1>9, AfterIsStage DEF Store, FanoutTypeOK
  <2>6. failed' \in [Worker -> BOOLEAN] /\ fanoutFaults' \in 0 .. FanoutFaults
    BY <1>0, <1>9 DEF Store, FanoutTypeOK
  <2>7. pending' \in [Worker -> SUBSET User]  BY <1>9 DEF Store, FanoutTypeOK
  <2>. QED  BY <1>9, <2>4, <2>5, <2>6, <2>7 DEF Store, FanoutTypeOK
<1>10. CASE NotifyFail(w)  BY <1>0, <1>10, AfterIsStage DEF NotifyFail, FanoutTypeOK
<1>11. CASE Finish(w) \/ StopWorker(w)
  <2>1. Leave(w)  BY <1>11 DEF Finish, StopWorker
  <2>2. /\ task' \in [Worker -> Update \union {Created, NoTask}]
        /\ loaded' \in [Worker -> [blocked : SUBSET User, observers : SUBSET User]]
        /\ explicit' \in [Worker -> SUBSET User] /\ target' \in [Worker -> User \union {NoUser}]
        /\ pending' \in [Worker -> SUBSET User] /\ failed' \in [Worker -> BOOLEAN]
        /\ sent' \in [Worker -> SUBSET (Keys \X User)] /\ stage' \in [Worker -> Stages]
    BY <2>1 DEF Leave, FanoutTypeOK, NothingLoaded, Stages
  <2>3. processed' \in BOOLEAN /\ updates' \subseteq Update /\ fanoutFaults' \in 0 .. FanoutFaults
    BY <1>0, <1>11 DEF Finish, StopWorker, FanoutTypeOK
  <2>. QED  BY <1>11, <2>2, <2>3 DEF Finish, StopWorker, FanoutTypeOK
<1>12. CASE TakeUpdate(w)
  <2>1. PICK u \in updates : task' = [task EXCEPT ![w] = u] /\ explicit' = [explicit EXCEPT ![w] = u.to]
    BY <1>12 DEF TakeUpdate
  <2>2. u \in Update /\ u.to \subseteq User  BY DEF FanoutTypeOK, Update
  <2>3. task' \in [Worker -> Update \union {Created, NoTask}] /\ explicit' \in [Worker -> SUBSET User]
    BY <2>1, <2>2 DEF FanoutTypeOK
  <2>4. stage' \in [Worker -> Stages]  BY <1>12 DEF TakeUpdate, FanoutTypeOK, Stages
  <2>. QED  BY <1>12, <2>3, <2>4 DEF TakeUpdate, FanoutTypeOK
<1>. QED
  BY <1>1, <1>2, <1>3, <1>4, <1>5, <1>6, <1>7, <1>8, <1>9, <1>10, <1>11, <1>12 DEF WorkerStep

\* So does a step of somebody else.
Elsewhere == \/ \E c \in Contents : Edit(c)
             \/ \E u \in User : Block(u) \/ Follow(u) \/ MarkPlayer(u)
             \/ UnmarkAuthor
             \/ \E s \in subscribed : Unsubscribe(s)
             \/ Delete

\* It keeps every type, too.
LEMMA ElsewhereTyped == ASSUME FanoutTypeOK, Elsewhere PROVE FanoutTypeOK'
<1> USE DEF handlerVars, localVars
<1>0. Change => changes' \in 0 .. Changes /\ changes \in 1 .. Changes
  <2>1. changes \in 0 .. Changes  BY DEF FanoutTypeOK
  <2>. QED  BY <2>1, FanoutAssumption DEF Change
<1>1. ASSUME NEW c \in Contents, Edit(c) PROVE FanoutTypeOK'
  <2> DEFINE added == Named(Desired(c, content.all) \ rows)
  <2>1. c \in Tokens /\ content.all \in BOOLEAN  BY FanoutAssumption DEF FanoutTypeOK, Tokens
  <2>2. rows' \subseteq User \X Source  BY <1>1, <2>1, DesiredIsOfUsers DEF Edit
  <2>3. added \subseteq User  BY DEF Named
  <2>4. changes' \in 0 .. Changes /\ changes \in 1 .. Changes  BY <1>0, <1>1 DEF Edit
  <2>5. updates' \subseteq Update
    <3>1. updates' = updates \union (IF added = {} THEN {} ELSE {[to |-> added, version |-> changes]})
      BY <1>1 DEF Edit
    <3>2. [to |-> added, version |-> changes] \in Update
      <4> HIDE DEF added
      <4>. QED  BY <2>3, <2>4 DEF Update
    <3>. QED  BY <3>1, <3>2 DEF FanoutTypeOK
  <2>. QED  BY <1>1, <2>1, <2>2, <2>4, <2>5 DEF Edit, FanoutTypeOK
<1>2. ASSUME NEW u \in User, Block(u) \/ Follow(u) \/ MarkPlayer(u) PROVE FanoutTypeOK'
  BY <1>0, <1>2 DEF Block, Follow, MarkPlayer, FanoutTypeOK
<1>3. ASSUME NEW s \in subscribed, Unsubscribe(s) PROVE FanoutTypeOK'
  BY <1>0, <1>3 DEF Unsubscribe, FanoutTypeOK
<1>4. CASE UnmarkAuthor  BY <1>0, <1>4 DEF UnmarkAuthor, FanoutTypeOK
<1>5. CASE Delete  BY <1>0, <1>5 DEF Delete, FanoutTypeOK
<1>. QED  BY <1>1, <1>2, <1>3, <1>4, <1>5 DEF Elsewhere

-----------------------------------------------------------------------------
(* One attempt, one reason                                                 *)

\* The attempt of w stands where it stood.
AttemptStays(w) == /\ stage'[w] = stage[w] /\ loaded'[w] = loaded[w] /\ explicit'[w] = explicit[w]
                   /\ target'[w] = target[w] /\ pending'[w] = pending[w] /\ failed'[w] = failed[w] /\ sent'[w] = sent[w]

\* A worker moves its own attempt alone, and nobody ever moves the post.
LEMMA OwnAttempt ==
    ASSUME FanoutTypeOK, NEW w \in Worker, WorkerStep(w)
    PROVE  post' = post /\ \A v \in Worker : v # w => AttemptStays(v)
<1> SUFFICES ASSUME NEW v \in Worker, v # w PROVE post' = post /\ AttemptStays(v)
  <2>1. post' = post
    BY DEF WorkerStep, ClaimPost, Load, LoadFail, Parse, ParseFail, Target, TargetFail, Filter, Store,
      NotifyFail, Finish, StopWorker, TakeUpdate
  <2>. QED  BY <2>1
<1> USE DEF FanoutTypeOK, AttemptStays, GoTo, localVars
<1>1. CASE ClaimPost(w) \/ Load(w) \/ LoadFail(w)  BY <1>1 DEF ClaimPost, Load, LoadFail
<1>2. CASE Parse(w) \/ ParseFail(w) \/ Target(w) \/ TargetFail(w)
  BY <1>2 DEF Parse, ParseFail, Target, TargetFail
<1>3. CASE Filter(w)  BY <1>3 DEF Filter
<1>4. CASE Store(w)  BY <1>4 DEF Store
<1>5. CASE NotifyFail(w) \/ TakeUpdate(w)  BY <1>5 DEF NotifyFail, TakeUpdate
<1>6. CASE Finish(w) \/ StopWorker(w)  BY <1>6 DEF Finish, StopWorker, Leave
<1>. QED  BY <1>1, <1>2, <1>3, <1>4, <1>5, <1>6 DEF WorkerStep

\* An attempt that does not move still stands in a section of its post.
LEMMA KeptSections ==
    ASSUME NEW w \in Worker, post' = post, AttemptStays(w), Placed(w), SentBySection(w)
    PROVE  Placed(w)' /\ SentBySection(w)'
BY DEF AttemptStays, Placed, SentBySection, Recipients, Told

\* Where the handler goes, a post of that kind has a section.
LEMMA Onward ==
    ASSUME FanoutTypeOK, NEW s, s = "new-post" => post.kind # "nested", s = "target" => post.kind = "nested"
    PROVE  /\ After(s) \notin {"idle", "load", "parse"}
           /\ After(s) = "new-post" => post.kind # "nested"
           /\ After(s) = "reply" => post.kind # "body"
           /\ After(s) \in {"target", "new-reply"} => post.kind = "nested"
           /\ After(s) = "target" => s = "mention"
           /\ After(s) = "mention" => s = "parse"
BY DEF After

\* An attempt tells whom its sections are for, and no section changes whom an earlier one was for.
LEMMA SectionStep ==
    ASSUME FanoutTypeOK, NEW w \in Worker, WorkerStep(w), Placed(w), SentBySection(w)
    PROVE  Placed(w)' /\ SentBySection(w)'
<1>0. post' = post  BY OwnAttempt
<1>a. stage[w] \in Stages /\ sent[w] \subseteq Keys \X User /\ pending[w] \subseteq User  BY DEF FanoutTypeOK
<1>b. /\ After(stage[w]) \notin {"idle", "load", "parse"}
      /\ After(stage[w]) = "new-post" => post.kind # "nested"
      /\ After(stage[w]) = "reply" => post.kind # "body"
      /\ After(stage[w]) \in {"target", "new-reply"} => post.kind = "nested"
      /\ After(stage[w]) = "target" => stage[w] = "mention"
      /\ After(stage[w]) = "mention" => stage[w] = "parse"
  BY Onward DEF Placed
<1>1. CASE sent'[w] = {} /\ pending'[w] = {} /\ stage'[w] \in {"idle", "load", "parse", "end", "mention", "edited"}
  BY <1>1 DEF Placed, SentBySection
<1>2. CASE ClaimPost(w) \/ Load(w) \/ LoadFail(w) \/ TakeUpdate(w)
  <2>1. stage[w] \in {"idle", "load"} /\ sent'[w] = {} /\ pending'[w] = {}
    <3>1. stage[w] \in {"idle", "load"} /\ pending[w] = {} /\ sent[w] = {}
      BY <1>2 DEF ClaimPost, Load, LoadFail, TakeUpdate, Placed, SentBySection, Keys
    <3>. QED  BY <1>2, <3>1 DEF ClaimPost, Load, LoadFail, TakeUpdate, localVars
  <2>2. stage'[w] \in {"load", "parse", "end", "edited"}
    BY <1>2 DEF ClaimPost, Load, LoadFail, TakeUpdate, GoTo, FanoutTypeOK
  <2>. QED  BY <1>1, <2>1, <2>2
<1>3. CASE Parse(w) \/ ParseFail(w)
  <2>1. stage[w] = "parse" /\ sent'[w] = {} /\ pending'[w] = {}
    <3>1. stage[w] = "parse" /\ pending[w] = {} /\ sent[w] = {}
      BY <1>3 DEF Parse, ParseFail, Placed, SentBySection, Keys
    <3>. QED  BY <1>3, <3>1 DEF Parse, ParseFail, localVars
  <2>2. stage'[w] = "mention"  BY <1>3 DEF Parse, ParseFail, GoTo, FanoutTypeOK, After
  <2>. QED  BY <1>1, <2>1, <2>2
<1>4. CASE Target(w) \/ TargetFail(w)
  <2>1. stage[w] = "target" /\ pending[w] = {} /\ post.kind = "nested"
    BY <1>4 DEF Target, TargetFail, Placed, Keys
  <2>2. stage'[w] = "reply"  BY <1>4, <2>1 DEF Target, TargetFail, GoTo, FanoutTypeOK, After
  <2>3. sent'[w] = sent[w] /\ pending'[w] = {} /\ explicit'[w] = explicit[w]
    BY <1>4, <2>1 DEF Target, TargetFail, localVars
  <2>4. \A s \in sent[w] : s[1] = "mention" /\ s[2] \in explicit[w]  BY <2>1 DEF SentBySection, Recipients
  <2>5. \A s \in sent'[w] : s[2] \in Recipients(w, s[1])' /\ s[1] \in Told'
    BY <1>0, <2>1, <2>3, <2>4 DEF Recipients, Told
  <2>. QED  BY <1>0, <2>1, <2>2, <2>3, <2>5 DEF Placed, SentBySection
<1>5. ASSUME UNCHANGED <<loaded, explicit, target>>,
             stage'[w] = After(stage[w]) \/ stage'[w] = stage[w],
             sent'[w] \subseteq sent[w] \union ({IF stage[w] = "edited" THEN "mention" ELSE stage[w]} \X pending[w]),
             pending'[w] \subseteq Recipients(w, stage[w]),
             stage'[w] # stage[w] => pending'[w] = {},
             stage[w] \in Keys \union {"edited"}
      PROVE  Placed(w)' /\ SentBySection(w)'
  <2>1. \A key : Recipients(w, key)' = Recipients(w, key)  BY <1>5 DEF Recipients
  <2>2. Told' = Told  BY <1>0 DEF Told
  <2>3. \A s \in sent'[w] : s[2] \in Recipients(w, s[1]) /\ s[1] \in Told
    <3> SUFFICES ASSUME NEW s \in sent'[w], s \notin sent[w] PROVE s[2] \in Recipients(w, s[1]) /\ s[1] \in Told
      BY DEF SentBySection
    <3>1. s[2] \in Recipients(w, stage[w]) /\ s[1] = IF stage[w] = "edited" THEN "mention" ELSE stage[w]
      BY <1>5 DEF SentBySection
    <3>2. s[2] \in Recipients(w, s[1])  BY <3>1 DEF Recipients
    <3>3. s[1] \in Told
      <4>1. post.kind \in Kind  BY DEF FanoutTypeOK, Post
      <4>. QED  BY <1>5, <3>1, <4>1 DEF Placed, Told, Kind, Keys
    <3>. QED  BY <3>2, <3>3
  <2>4. stage'[w] \in {"mention", "target"} => \A s \in sent'[w] : s[1] = "mention"
    <3> SUFFICES ASSUME stage'[w] \in {"mention", "target"}, NEW s \in sent'[w] PROVE s[1] = "mention"  OBVIOUS
    <3>1. stage[w] = "mention"  BY <1>5, <1>b DEF Keys
    <3>2. sent'[w] \subseteq sent[w] \union ({"mention"} \X pending[w])  BY <1>5, <3>1
    <3>. QED  BY <3>1, <3>2 DEF SentBySection
  <2>5. Placed(w)'  BY <1>0, <1>5, <1>b DEF Placed, Keys
  <2>6. stage'[w] \notin {"idle", "load", "parse"}  BY <1>5, <1>b DEF Keys
  <2>7. pending'[w] \subseteq Recipients(w, stage'[w])  BY <1>5
  <2>. QED  BY <2>1, <2>2, <2>3, <2>4, <2>5, <2>6, <2>7 DEF SentBySection
<1>6. CASE Filter(w) \/ Store(w) \/ NotifyFail(w)
  <2>1. stage[w] \in Keys \union {"edited"} /\ UNCHANGED <<loaded, explicit, target>>
    BY <1>6 DEF Filter, Store, NotifyFail, Placed, localVars
  <2>2. pending'[w] \subseteq Recipients(w, stage[w])
    BY <1>6 DEF Filter, Store, NotifyFail, Eligible, FanoutTypeOK
  <2>3. stage'[w] = After(stage[w]) \/ stage'[w] = stage[w]
    BY <1>6 DEF Filter, Store, NotifyFail, GoTo, FanoutTypeOK
  <2>4. stage'[w] # stage[w] => pending'[w] = {}
    BY <1>6 DEF Filter, Store, NotifyFail, GoTo, FanoutTypeOK
  <2>5. sent'[w] \subseteq sent[w] \union ({IF stage[w] = "edited" THEN "mention" ELSE stage[w]} \X pending[w])
    BY <1>6 DEF Filter, Store, NotifyFail, FanoutTypeOK
  <2>. QED  BY <1>5, <2>1, <2>2, <2>3, <2>4, <2>5
<1>7. CASE Finish(w) \/ StopWorker(w)
  <2>1. sent'[w] = {} /\ pending'[w] = {} /\ stage'[w] = "idle"
    BY <1>7 DEF Finish, StopWorker, Leave, GoTo, FanoutTypeOK
  <2>. QED  BY <1>1, <2>1
<1>. QED  BY <1>2, <1>3, <1>4, <1>6, <1>7 DEF WorkerStep

\* No two sections of a post are for the same user.
LEMMA SectionsApart ==
    ASSUME NEW w \in Worker, NEW k \in Told, NEW l \in Told, NEW u, u \in Recipients(w, k), u \in Recipients(w,
           l),
           post.kind \in Kind
    PROVE  k = l
BY DEF Told, Recipients, Kind

\* So nobody is told for two of them.
LEMMA AttemptTellsOnce == ASSUME FanoutTypeOK, \A w \in Worker : SentBySection(w) PROVE OnePerAttempt
<1> SUFFICES ASSUME NEW w \in Worker, NEW u \in User PROVE Cardinality(Reasons(sent[w], u)) <= 1
  BY DEF OnePerAttempt
<1>1. post.kind \in Kind  BY DEF FanoutTypeOK, Post
<1>2. \A k, l \in Reasons(sent[w], u) : k = l
  <2> SUFFICES ASSUME NEW k \in Reasons(sent[w], u), NEW l \in Reasons(sent[w], u) PROVE k = l  OBVIOUS
  <2>1. <<k, u>> \in sent[w] /\ <<l, u>> \in sent[w]  BY DEF Reasons
  <2>2. k \in Told /\ l \in Told /\ u \in Recipients(w, k) /\ u \in Recipients(w, l)  BY <2>1 DEF SentBySection
  <2>. QED  BY <1>1, <2>2, SectionsApart
<1>3. CASE Reasons(sent[w], u) = {}  BY <1>3, FS_EmptySet
<1>4. CASE Reasons(sent[w], u) # {}
  <2>1. PICK k \in Reasons(sent[w], u) : TRUE  BY <1>4
  <2>2. Reasons(sent[w], u) = {k}  BY <1>2, <2>1
  <2>3. Cardinality({k}) = 1  BY FS_Singleton
  <2>. QED  BY <2>2, <2>3
<1>. QED  BY <1>3, <1>4

-----------------------------------------------------------------------------
(* Acknowledged means notified                                             *)

\* The group a mention of all players is expanded to, while nobody changes anything
Players == IF post.content.all /\ post.role \in Manager THEN marked ELSE {}

\* What the stored content of a post is expanded to then
LEMMA Expansion ==
    ASSUME FanoutTypeOK, Unchanged
    PROVE  /\ Desired(post.content, TRUE) = ((post.content.direct \intersect (follows \union marked \union post.managers))
                                               \X {"DIRECT"}) \union (Players \X {"ALL_PLAYERS"})
           /\ Group(Desired(post.content, TRUE)) = Players
<1>1. GroupUsers(post.content, TRUE) = Players  BY DEF Unchanged, GroupUsers, Players
<1>2. Desired(post.content, TRUE) = ((post.content.direct \intersect (follows \union marked \union post.managers))
                                       \X {"DIRECT"}) \union (Players \X {"ALL_PLAYERS"})
  BY <1>1 DEF Desired, Mentionable, Unchanged
<1>3. Players \subseteq User  BY DEF Players, FanoutTypeOK
<1>4. \A u : <<u, "ALL_PLAYERS">> \in Desired(post.content, TRUE) <=> u \in Players
  BY <1>2
<1>. QED  BY <1>2, <1>3, <1>4 DEF Group

\* A worker changes nothing of the world.
LEMMA WorldStays ==
    ASSUME NEW w \in Worker, WorkerStep(w)
    PROVE  /\ UNCHANGED <<post, live, content, blocked, follows, marked, subscribed, changes>>
           /\ rows' = rows \/ rows' = Desired(post.content, TRUE)
           /\ updates' \subseteq updates /\ notes \subseteq notes'
BY DEF WorkerStep, ClaimPost, Load, LoadFail, Parse, ParseFail, Target, TargetFail, Filter, Store,
      NotifyFail, Finish, StopWorker, TakeUpdate, worldVars, eventVars

\* While nobody changes anything, the post concerns the same users.
LEMMA QuietStep ==
    ASSUME FanoutTypeOK, FanoutTypeOK', Unchanged, NEW w \in Worker, WorkerStep(w)
    PROVE  /\ Unchanged'
           /\ Desired(post.content, TRUE)' = Desired(post.content, TRUE)
           /\ Subscribers' = Subscribers /\ Concerned' = Concerned /\ Answered' = Answered /\ Told' = Told
<1>0. /\ UNCHANGED <<post, live, content, blocked, follows, marked, subscribed, changes>>
      /\ rows' = rows \/ rows' = Desired(post.content, TRUE)
      /\ updates' \subseteq updates
  BY WorldStays
<1>1. Group(rows') \in {{}, marked}  BY <1>0, Expansion DEF Players, Unchanged
<1>2. Unchanged'  BY <1>0, <1>1 DEF Unchanged, Group
<1>3. Players' = Players  BY <1>0 DEF Players
<1>4. Desired(post.content, TRUE)' = ((post'.content.direct \intersect (follows' \union marked' \union post'.managers))
                                               \X {"DIRECT"}) \union (Players' \X {"ALL_PLAYERS"})
  <2>1. GroupUsers(post.content, TRUE)' = Players'  BY <1>2 DEF Unchanged, GroupUsers, Players
  <2>. QED  BY <1>2, <2>1 DEF Desired, Mentionable, Unchanged
<1>5. Desired(post.content, TRUE)' = Desired(post.content, TRUE)  BY <1>0, <1>3, <1>4, Expansion
<1>6. Subscribers' = Subscribers /\ Answered' = Answered /\ Told' = Told
  BY <1>0 DEF Subscribers, Answered, Told
<1>7. Concerned' = Concerned
  <2>1. Named(Desired(post.content, TRUE)') = Named(Desired(post.content, TRUE))  BY <1>5
  <2>. QED  BY <1>0, <1>6, <2>1 DEF Concerned, Named
<1>. QED  BY <1>2, <1>5, <1>6, <1>7

\* What an attempt knows stays true while the post concerns the same users.
LEMMA StillInformed ==
    ASSUME NEW v \in Worker, AttemptStays(v), post' = post, notes \subseteq notes', Informed(v),
           Named(Desired(post.content, TRUE))' = Named(Desired(post.content, TRUE)),
           Subscribers' = Subscribers, Answered' = Answered, Told' = Told
    PROVE  Informed(v)'
<1>1. AttemptStays(v)  OBVIOUS
<1>2. /\ Named(Desired(post.content, TRUE))' = Named(Desired(post.content, TRUE))
      /\ Subscribers' = Subscribers /\ Answered' = Answered /\ Told' = Told
  OBVIOUS
<1>3. post' = post /\ notes \subseteq notes'  OBVIOUS
<1>4. \A key : Recipients(v, key)' = Recipients(v, key)  BY <1>1 DEF AttemptStays, Recipients
<1>5. Behind(stage[v])' = Behind(stage[v])  BY <1>1, <1>2 DEF AttemptStays, Behind
<1>. SUFFICES ASSUME ~failed[v], stage[v] \notin {"idle", "load"} PROVE Informed(v)'
  BY <1>1 DEF Informed, AttemptStays
<1>6. \A key \in Behind(stage[v])' : {key} \X Recipients(v, key)' \subseteq notes'
  BY <1>3, <1>4, <1>5 DEF Informed
<1>7. stage'[v] # "parse" => explicit'[v] = Named(Desired(post.content, TRUE))'
  BY <1>1, <1>2 DEF Informed, AttemptStays
<1>8. pending'[v] # {} => pending'[v] = Recipients(v, stage[v])'
  <2>1. Recipients(v, stage[v])' = Recipients(v, stage[v])  BY <1>1 DEF AttemptStays, Recipients
  <2>. QED  BY <1>1, <2>1 DEF Informed, AttemptStays
<1>. QED  BY <1>1, <1>2, <1>3, <1>6, <1>7, <1>8 DEF Informed, AttemptStays

\* A worker that moves leaves what the others know.
LEMMA OthersInformed ==
    ASSUME FanoutTypeOK, FanoutTypeOK', Unchanged, NEW w \in Worker, WorkerStep(w), NEW v \in Worker, v # w,
           Informed(v)
    PROVE  Informed(v)'
<1>1. AttemptStays(v)  BY OwnAttempt
<1>2. /\ Named(Desired(post.content, TRUE))' = Named(Desired(post.content, TRUE))
      /\ Subscribers' = Subscribers /\ Answered' = Answered /\ Told' = Told
  BY QuietStep DEF Named
<1>3. post' = post /\ notes \subseteq notes'  BY WorldStays
<1>. QED  BY <1>1, <1>2, <1>3, StillInformed

\* A section that is left is behind.
LEMMA BehindNext ==
    ASSUME post.kind \in Kind, NEW k \in Keys, k = "new-post" => post.kind # "nested",
           k = "reply" => post.kind # "body", k = "new-reply" => post.kind = "nested"
    PROVE  Behind(After(k)) \subseteq Behind(k) \union {k}
BY DEF Behind, After, Keys, Kind, Told

\* What a worker knows and has told grows by the section it leaves.
LEMMA InformedStep ==
    ASSUME FanoutTypeOK, FanoutTypeOK', Unchanged, NEW w \in Worker, WorkerStep(w), Placed(w),
           SentBySection(w), Informed(w)
    PROVE  Informed(w)'
<1>0. /\ Named(Desired(post.content, TRUE))' = Named(Desired(post.content, TRUE))
      /\ Subscribers' = Subscribers /\ Answered' = Answered /\ Told' = Told
  BY QuietStep DEF Named
<1>a. /\ UNCHANGED <<post, live, content, blocked, follows, marked, subscribed, changes>> /\ notes \subseteq notes'
      /\ post.kind \in Kind /\ stage[w] \in Stages /\ post.content \in Tokens
  BY WorldStays DEF FanoutTypeOK, Post
<1>1. CASE stage'[w] \in {"idle", "load"} \/ (failed'[w] /\ stage'[w] # "edited")  BY <1>1 DEF Informed
<1>2. CASE ClaimPost(w) \/ LoadFail(w) \/ ParseFail(w) \/ TargetFail(w) \/ NotifyFail(w)
  <2>1. stage'[w] # "edited"
    BY <1>2 DEF ClaimPost, LoadFail, ParseFail, TargetFail, NotifyFail, GoTo, FanoutTypeOK, After
  <2>2. stage'[w] = "load" \/ failed'[w]
    BY <1>2 DEF ClaimPost, LoadFail, ParseFail, TargetFail, NotifyFail, GoTo, FanoutTypeOK
  <2>. QED  BY <1>1, <2>1, <2>2
<1>3. CASE Load(w)
  <2>1. /\ stage'[w] = "parse" /\ pending'[w] = pending[w] /\ pending[w] = {}
        /\ loaded'[w] = [blocked |-> {}, observers |-> post.managers \union Subscribers]
        /\ post.kind # "nested" => target'[w] = Answered
    BY <1>3, <1>a DEF Load, GoTo, FanoutTypeOK, Unchanged, Placed, Keys, Answered, Kind
  <2>. QED  BY <1>0, <1>a, <2>1 DEF Informed, Behind
<1>4. CASE Parse(w)
  <2>1. /\ stage[w] = "parse" /\ stage'[w] = "mention" /\ pending'[w] = {} /\ failed'[w] = failed[w]
        /\ loaded'[w] = loaded[w] /\ target'[w] = target[w]
        /\ explicit'[w] = Named(Desired(post.content, TRUE)) \ loaded[w].blocked
    BY <1>4 DEF Parse, GoTo, FanoutTypeOK, Placed, After, Keys
  <2>2. ~failed[w] => explicit'[w] = Named(Desired(post.content, TRUE))
    <3>1. ~failed[w] => loaded[w].blocked = {}  BY <2>1 DEF Informed
    <3>. QED  BY <2>1, <3>1
  <2>. QED  BY <1>0, <1>a, <2>1, <2>2 DEF Informed, Behind
<1>5. CASE Target(w)
  <2>1. /\ stage[w] = "target" /\ post.kind = "nested" /\ pending[w] = {}  BY <1>5 DEF Target, Placed, Keys
  <2>2. /\ stage'[w] = "reply" /\ target'[w] = Answered /\ pending'[w] = {} /\ failed'[w] = failed[w]
        /\ loaded'[w] = loaded[w] /\ explicit'[w] = explicit[w] /\ notes' = notes
    BY <1>5, <2>1 DEF Target, GoTo, FanoutTypeOK, After, Answered
  <2>3. Recipients(w, "mention")' = Recipients(w, "mention")  BY <2>2 DEF Recipients
  <2>4. Behind(stage[w]) = {"mention"}  BY <2>1 DEF Behind
  <2>5. Behind(stage[w])' = {"mention"}
    <3>1. Told' \ {"reply", "new-reply"} = {"mention"}  BY <1>a, <2>1 DEF Told
    <3>. QED  BY <2>2, <3>1 DEF Behind
  <2>. QED  BY <1>0, <1>a, <2>1, <2>2, <2>3, <2>4, <2>5 DEF Informed
<1>6. CASE Filter(w) \/ Store(w)
  <2>1. /\ stage[w] \in Keys /\ UNCHANGED <<loaded, explicit, target>>
        /\ stage'[w] \in {stage[w], After(stage[w])}
        /\ failed[w] => failed'[w]
    BY <1>6 DEF Filter, Store, Placed, Informed, localVars, GoTo, FanoutTypeOK
  <2>2. \A key : Recipients(w, key)' = Recipients(w, key)  BY <2>1 DEF Recipients
  <2>3. stage'[w] \notin {"edited", "idle", "load", "parse"}  BY <2>1 DEF After, Keys
  <2> SUFFICES ASSUME ~failed[w] PROVE Informed(w)'  BY <1>1, <2>1, <2>3
  <2>4. Behind(stage[w])' \subseteq Behind(stage[w]) \union (IF stage'[w] = stage[w] THEN {} ELSE {stage[w]})
    <3>1. Behind(stage[w])' = Behind(stage'[w])  BY <1>0 DEF Behind
    <3>2. CASE stage'[w] = stage[w]  BY <3>1, <3>2
    <3>3. CASE stage'[w] # stage[w]  BY <2>1, <3>1, <3>3, <1>a, BehindNext DEF Placed
    <3>. QED  BY <3>2, <3>3
  <2>a. pending[w] # {} => pending[w] = Recipients(w, stage[w])  BY <2>1 DEF Informed, Keys
  <2>b. Eligible(Recipients(w, stage[w])) = Recipients(w, stage[w])  BY DEF Eligible, Unchanged
  <2>5. stage'[w] # stage[w] => {stage[w]} \X Recipients(w, stage[w]) \subseteq notes'
    <3>1. CASE Filter(w)  BY <2>b, <3>1 DEF Filter
    <3>2. CASE Store(w)  BY <2>1, <2>a, <3>2 DEF Store, Keys
    <3>. QED  BY <1>6, <3>1, <3>2
  <2>6. \A key \in Behind(stage[w])' : {key} \X Recipients(w, key)' \subseteq notes'
    BY <1>a, <2>1, <2>2, <2>4, <2>5 DEF Informed, Keys
  <2>7. pending'[w] # {} => pending'[w] = Recipients(w, stage[w])'
    <3>1. CASE Filter(w)
      <4>1. pending'[w] # {} => pending'[w] = Recipients(w, stage[w]) /\ stage' = stage
        BY <2>b, <3>1 DEF Filter, FanoutTypeOK
      <4>. QED  BY <2>2, <4>1
    <3>2. CASE Store(w)  BY <3>2 DEF Store, FanoutTypeOK
    <3>. QED  BY <1>6, <3>1, <3>2
  <2>8. post.kind # "nested" \/ stage'[w] \in {"reply", "new-reply", "end"} => target'[w] = Answered
    <3>1. stage[w] \notin {"idle", "load"}  BY <2>1 DEF Keys
    <3>2. post.kind = "nested" /\ stage'[w] \in {"reply", "new-reply", "end"} => stage[w] \in {"reply", "new-reply", "end"}
      BY <2>1, Placed(w) DEF Placed, After, Keys
    <3>. QED  BY <2>1, <3>1, <3>2 DEF Informed
  <2>9. explicit'[w] = Named(Desired(post.content, TRUE)) /\ loaded'[w] = [blocked |-> {}, observers |-> post.managers \union Subscribers]
    BY <2>1 DEF Informed, Keys
  <2>. QED  BY <1>0, <1>a, <2>3, <2>6, <2>7, <2>8, <2>9 DEF Informed
<1>7. CASE Finish(w) \/ StopWorker(w)
  <2>1. stage'[w] = "idle"  BY <1>7 DEF Finish, StopWorker, Leave, GoTo, FanoutTypeOK
  <2>. QED  BY <1>1, <2>1
<1>8. CASE TakeUpdate(w)  BY <1>8 DEF TakeUpdate, Unchanged
<1>. QED  BY <1>2, <1>3, <1>4, <1>5, <1>6, <1>7, <1>8 DEF WorkerStep

\* An attempt that is over and did not fail has told everybody it concerns.
LEMMA AllTold ==
    ASSUME FanoutTypeOK, Unchanged, NEW w \in Worker, Informed(w), stage[w] = "end", ~failed[w]
    PROVE  \A u \in Concerned : Reasons(notes, u) # {}
<1>1. post.kind \in Kind  BY DEF FanoutTypeOK, Post
<1>2. /\ loaded[w] = [blocked |-> {}, observers |-> post.managers \union Subscribers]
      /\ explicit[w] = Named(Desired(post.content, TRUE)) /\ target[w] = Answered
      /\ \A key \in Told : {key} \X Recipients(w, key) \subseteq notes
  BY DEF Informed, Behind
<1>a. loaded[w].blocked = {} /\ loaded[w].observers = post.managers \union Subscribers  BY <1>2
<1>3. Told \subseteq Keys  BY <1>1 DEF Told, Kind, Keys
<1>4. ASSUME NEW u, NEW key \in Told, u \in Recipients(w, key) PROVE Reasons(notes, u) # {}
  BY <1>2, <1>3, <1>4 DEF Reasons
<1> SUFFICES ASSUME NEW u \in Concerned PROVE \E key \in Told : u \in Recipients(w, key)  BY <1>4
<1>5. u # NoUser /\ (u \in explicit[w] \/ u \in loaded[w].observers \/ (u = Answered /\ post.kind # "body"))
  <2>1. u # NoUser /\ (u \in explicit[w] \/ u \in loaded[w].observers
                       \/ u \in CASE post.kind = "floor" -> {post.owner} [] post.kind = "nested" -> {post.target} [] OTHER -> {})
    BY <1>2, <1>a DEF Concerned
  <2>2. CASE post.kind = "floor"  BY <2>1, <2>2 DEF Answered
  <2>3. CASE post.kind = "nested"  BY <2>1, <2>3 DEF Answered
  <2>4. CASE post.kind = "body"  BY <2>1, <2>4 DEF Answered
  <2>. QED  BY <1>1, <2>2, <2>3, <2>4 DEF Kind
<1>6. CASE u \in explicit[w]
  <2>1. "mention" \in Told  BY <1>1 DEF Told, Kind
  <2>. QED  BY <1>6, <2>1 DEF Recipients
<1>7. CASE u \notin explicit[w] /\ u = Answered /\ post.kind # "body"
  <2>1. "reply" \in Told  BY <1>1, <1>7 DEF Told, Kind
  <2>2. u \in Recipients(w, "reply")
    <3>1. Recipients(w, "reply") = {target[w]} \ ({NoUser} \union explicit[w] \union {})  BY <1>a DEF Recipients
    <3>. QED  BY <1>2, <1>5, <1>7, <3>1
  <2>. QED  BY <2>1, <2>2
<1>8. CASE u \notin explicit[w] /\ u # Answered /\ u \in loaded[w].observers
  <2>1. PICK key \in {"new-post", "new-reply"} : key \in Told  BY <1>1 DEF Told, Kind
  <2>2. u \in Recipients(w, key)
    <3>1. Recipients(w, key) = loaded[w].observers \ ({target[w]} \union explicit[w] \union {})
      BY <1>a DEF Recipients
    <3>. QED  BY <1>2, <1>8, <3>1
  <2>. QED  BY <2>1, <2>2
<1>9. CASE u = Answered /\ post.kind = "body"  BY <1>5, <1>9 DEF Answered
<1>. QED  BY <1>5, <1>6, <1>7, <1>8, <1>9

\* The event is acknowledged by an attempt that told everybody, and the notifications stay.
LEMMA AckStep ==
    ASSUME FanoutTypeOK, FanoutTypeOK', AckedMeansNotified, Quiet, Unchanged, NEW w \in Worker, WorkerStep(w),
           Informed(w)
    PROVE  AckedMeansNotified'
<1> SUFFICES ASSUME processed' PROVE \A u \in Concerned : Reasons(notes', u) # {}
  <2>1. Concerned' = Concerned  BY QuietStep
  <2>. QED  BY <2>1 DEF AckedMeansNotified, Reasons
<1>1. notes \subseteq notes'  BY WorldStays
<1>2. \A u \in Concerned : Reasons(notes, u) # {}
  <2>1. CASE processed  BY <2>1 DEF AckedMeansNotified, Quiet
  <2>2. CASE ~processed
    <3>1. Finish(w)
      BY <2>2 DEF WorkerStep, ClaimPost, Load, LoadFail, Parse, ParseFail, Target, TargetFail, Filter, Store,
      NotifyFail, StopWorker, TakeUpdate, eventVars
    <3>2. stage[w] = "end" /\ ~failed[w]  BY <2>2, <3>1 DEF Finish
    <3>. QED  BY <3>2, AllTold
  <2>. QED  BY <2>1, <2>2
<1>. QED  BY <1>1, <1>2 DEF Reasons

\* In the beginning nobody was told, and nothing was acknowledged.
LEMMA FanoutBeginnings == FanoutInit => FanoutInv
<1> SUFFICES ASSUME FanoutInit PROVE FanoutInv  OBVIOUS
<1>1. FanoutTypeOK  BY InitTyped
<1>2. /\ stage = [w \in Worker |-> "idle"] /\ sent = [w \in Worker |-> {}] /\ pending = [w \in Worker |-> {}]
      /\ live = TRUE /\ blocked = {} /\ rows = {} /\ updates = {} /\ processed = FALSE
  BY DEF FanoutInit
<1>3. \A w \in Worker : Placed(w) /\ SentBySection(w) /\ Informed(w)
  BY <1>2 DEF Placed, SentBySection, Informed
<1>4. Unchanged  BY <1>2 DEF Unchanged, Group
<1>5. AckedMeansNotified  BY <1>2 DEF AckedMeansNotified
<1>. QED  BY <1>1, <1>3, <1>4, <1>5 DEF FanoutInv

\* Every step keeps the invariant: once somebody has changed something, only the types and the sections matter.
LEMMA FanoutSteps == FanoutInv /\ [FanoutNext]_fanoutVars => FanoutInv'
<1> SUFFICES ASSUME FanoutInv, [FanoutNext]_fanoutVars PROVE FanoutInv'  OBVIOUS
<1>0. FanoutTypeOK /\ AckedMeansNotified /\ \A w \in Worker : Placed(w) /\ SentBySection(w)  BY DEF FanoutInv
<1>1. ASSUME NEW w \in Worker, WorkerStep(w) PROVE FanoutInv'
  <2>1. FanoutTypeOK'  BY <1>0, <1>1, WorkerTyped
  <2>2. \A v \in Worker : Placed(v)' /\ SentBySection(v)'
    <3> SUFFICES ASSUME NEW v \in Worker PROVE Placed(v)' /\ SentBySection(v)'  OBVIOUS
    <3>1. CASE v = w  BY <1>0, <1>1, <3>1, SectionStep
    <3>2. CASE v # w
      <4>1. post' = post /\ AttemptStays(v)  BY <1>0, <1>1, <3>2, OwnAttempt
      <4>. QED  BY <1>0, <4>1, KeptSections
    <3>. QED  BY <3>1, <3>2
  <2>3. Quiet' = Quiet
    <3>1. changes' = changes  BY <1>1, WorldStays
    <3>. QED  BY <3>1 DEF Quiet
  <2>4. CASE ~Quiet  BY <2>1, <2>2, <2>3, <2>4 DEF FanoutInv, AckedMeansNotified, Quiet
  <2>5. CASE Quiet
    <3>1. Unchanged /\ \A v \in Worker : Informed(v)  BY <2>5 DEF FanoutInv
    <3>2. Unchanged'  BY <1>0, <1>1, <2>1, <3>1, QuietStep
    <3>3. \A v \in Worker : Informed(v)'
      <4> SUFFICES ASSUME NEW v \in Worker PROVE Informed(v)'  OBVIOUS
      <4>1. CASE v = w  BY <1>0, <1>1, <2>1, <3>1, <4>1, InformedStep
      <4>2. CASE v # w  BY <1>0, <1>1, <2>1, <3>1, <4>2, OthersInformed
      <4>. QED  BY <4>1, <4>2
    <3>4. AckedMeansNotified'  BY <1>0, <1>1, <2>1, <2>5, <3>1, AckStep
    <3>. QED  BY <2>1, <2>2, <3>2, <3>3, <3>4 DEF FanoutInv
  <2>. QED  BY <2>4, <2>5
<1>2. CASE Elsewhere
  <2>1. FanoutTypeOK'  BY <1>0, <1>2, ElsewhereTyped
  <2>2. UNCHANGED handlerVars /\ changes > 0 /\ changes' = changes - 1
    BY <1>2 DEF Elsewhere, Edit, Block, Follow, MarkPlayer, UnmarkAuthor, Unsubscribe, Delete, Change, handlerVars
  <2>3. changes' # Changes
    <3>1. changes \in 0 .. Changes  BY <1>0 DEF FanoutTypeOK
    <3>. QED  BY <2>2, <3>1, FanoutAssumption
  <2>4. \A v \in Worker : Placed(v)' /\ SentBySection(v)'
    <3>1. post' = post /\ \A v \in Worker : AttemptStays(v)  BY <2>2 DEF handlerVars, localVars, AttemptStays
    <3>. QED  BY <1>0, <3>1, KeptSections
  <2>. QED  BY <2>1, <2>3, <2>4 DEF FanoutInv, Quiet, AckedMeansNotified
<1>3. CASE UNCHANGED fanoutVars
  <2>1. UNCHANGED <<post, worldVars, rows, notes, eventVars, localVars, stage, pending, failed, sent, fanoutFaults, changes>>
    BY <1>3 DEF fanoutVars
  <2> USE <2>1 DEF worldVars, eventVars, localVars
  <2>2. FanoutTypeOK'  BY <1>0 DEF FanoutTypeOK
  <2>3. \A v \in Worker : AttemptStays(v)  BY DEF AttemptStays
  <2>4. \A v \in Worker : Placed(v)' /\ SentBySection(v)'  BY <1>0, <2>3, KeptSections
  <2>5. Unchanged' = Unchanged  BY DEF Unchanged, Group
  <2>6. Concerned' = Concerned  BY DEF Concerned, Named, Desired, Mentionable, GroupUsers, Group, Subscribers
  <2>7. AckedMeansNotified'  BY <1>0, <2>6 DEF AckedMeansNotified, Reasons
  <2>8. /\ Named(Desired(post.content, TRUE))' = Named(Desired(post.content, TRUE))
        /\ Subscribers' = Subscribers /\ Answered' = Answered /\ Told' = Told
    BY DEF Named, Desired, Mentionable, GroupUsers, Group, Subscribers, Answered, Told
  <2>9. \A v \in Worker : Informed(v) => Informed(v)'  BY <2>3, <2>8, StillInformed
  <2>. QED  BY <2>2, <2>4, <2>5, <2>7, <2>9 DEF FanoutInv, Quiet
<1>. QED  BY <1>1, <1>2, <1>3 DEF FanoutNext, Elsewhere

\* So it holds for ever.
LEMMA FanoutInvariance == FanoutSpec => []FanoutInv
BY FanoutBeginnings, FanoutSteps, PTL DEF FanoutSpec

\* The state of the handler of post.created (post-events.listener.ts handlePostCreated) keeps its types.
THEOREM FanoutTypes == FanoutSpec => []FanoutTypeOK
<1>1. FanoutInv => FanoutTypeOK  BY DEF FanoutInv
<1>. QED  BY <1>1, FanoutInvariance, PTL

\* One attempt of the handler notifies a user of the post for at most one reason, however the attempts, the
\* retries, the edits and the changes of relations interleave: the mention excludes the answer, and both exclude
\* the news for observers (post-events.listener.ts handlePostCreated).
THEOREM AttemptsTellOnce == FanoutSpec => []OnePerAttempt
<1>1. FanoutInv => OnePerAttempt  BY AttemptTellsOnce DEF FanoutInv
<1>. QED  BY <1>1, FanoutInvariance, PTL

\* When post.created is acknowledged and nobody has changed anything, everybody the post concerns has a
\* notification of it, whatever failed and was tried again, and whoever tried (post-events.listener.ts,
\* outbox.dispatcher.ts): an attempt that did not fail has told every section it has behind it.
THEOREM AcknowledgedIsNotified == FanoutSpec => []AckedMeansNotified
<1>1. FanoutInv => AckedMeansNotified  BY DEF FanoutInv
<1>. QED  BY <1>1, FanoutInvariance, PTL

-----------------------------------------------------------------------------
(* The handlers of the likes of a thread (ThreadLikes)                     *)
(*                                                                         *)
(* The total of a notification is the number of events counted into it,    *)
(* the keys it remembers are among them, in the row and in every snapshot  *)
(* a delivery has read; and a like whose aggregation is done was counted,  *)
(* or the owner cannot be told.                                            *)

NoteRow == [status : {"none", "live", "deleted"}, read : BOOLEAN, total : Nat, keys : Seq(Events)]
LikeEvents == [kind : {"liked", "unliked"}, user : Users, state : {"pending", "acked"}]
Counts == 0..Cardinality(Users)
Jobs == [event : Events \union {None}, notify : ListenerStages, cache : ListenerStages, snap : [Notes -> NoteRow] \union {None},
         stale : BOOLEAN, tries : Nat, seen : Counts]

Shaped ==
    /\ likes \subseteq Users /\ blockedLikers \subseteq Users /\ likeCount = Cardinality(likes)
    /\ event \in [Events -> LikeEvents \union {NoLike}]
    /\ note \in [Notes -> NoteRow]
    /\ counted \in [Notes -> Seq(Events)]
    /\ job \in [Workers -> Jobs]
    /\ cached \in Counts \union {None} /\ rebuild \in Counts \union {None}

Remembered(keys, events) == \A i \in 1..Len(keys) : Has(events, keys[i])

\* What a notification says of what was counted into it
Counted ==
    \A n \in Notes :
        /\ Len(note[n].keys) <= KeptKeys
        /\ note[n].status = "none" => counted[n] = <<>>
        /\ note[n].status = "live" => note[n].total = Len(counted[n])
        /\ Remembered(note[n].keys, counted[n])

\* A like has reached the owner, or need not.
Reached(e) == (\E n \in Notes : Has(counted[n], e)) \/ removed \/ Occurs("block")
Meant(e) == event[e].kind = "liked" /\ "notify" \in load.listeners

\* What a delivery that has read the notifications, or is done with them, says of what was counted
DeliveredBy(w) ==
    /\ job[w].event # None => Pushed(job[w].event)
    /\ job[w].notify = "read" => /\ job[w].event # None /\ job[w].snap \in [Notes -> NoteRow]
                                 /\ \A n \in Notes : /\ Len(job[w].snap[n].keys) <= KeptKeys
                                                     /\ Remembered(job[w].snap[n].keys, counted[n])
    /\ job[w].event # None /\ Meant(job[w].event) /\ job[w].notify = "done" => Reached(job[w].event)

Delivered == \A w \in Workers : DeliveredBy(w)

LikesInv ==
    /\ Shaped
    /\ Counted
    /\ Delivered
    /\ blockedLikers # {} => Occurs("block")
    /\ AckedMeansCounted

-----------------------------------------------------------------------------
(* The last keys of a list                                                 *)

\* They are at most n, and all of them are of the list (slice(-100)).
LEMMA LastOf ==
    ASSUME NEW s \in Seq(Events), NEW n \in Nat \ {0}
    PROVE  /\ Last(s, n) \in Seq(Events) /\ Len(Last(s, n)) <= n
           /\ \A i \in 1..Len(Last(s, n)) : \E k \in 1..Len(s) : Last(s, n)[i] = s[k]
<1>1. CASE Len(s) <= n  BY <1>1 DEF Last
<1>2. CASE ~(Len(s) <= n)
  <2> DEFINE m == Len(s) - n + 1
  <2>1. Len(s) \in Nat /\ m \in 1..Len(s) + 1 /\ Len(s) \in (m - 1)..Len(s)  BY <1>2, LenProperties
  <2>2. Last(s, n) = SubSeq(s, m, Len(s))  BY <1>2 DEF Last
  <2>3. /\ SubSeq(s, m, Len(s)) \in Seq(Events) /\ Len(SubSeq(s, m, Len(s))) = Len(s) - m + 1
        /\ \A i \in 1..(Len(s) - m + 1) : SubSeq(s, m, Len(s))[i] = s[m + i - 1]
    <3> HIDE DEF m
    <3>. QED  BY <2>1, SubSeqProperties
  <2>4. Len(s) - m + 1 = n  BY <2>1
  <2>5. \A i \in 1..n : m + i - 1 \in 1..Len(s)  BY <1>2, <2>1
  <2>. QED
    <3> HIDE DEF m
    <3>1. Last(s, n) \in Seq(Events) /\ Len(Last(s, n)) = n  BY <2>2, <2>3, <2>4
    <3>2. \A i \in 1..n : Last(s, n)[i] = s[m + i - 1]  BY <2>2, <2>3, <2>4
    <3>3. ASSUME NEW i \in 1..n PROVE \E k \in 1..Len(s) : Last(s, n)[i] = s[k]
      <4>1. m + i - 1 \in 1..Len(s) /\ Last(s, n)[i] = s[m + i - 1]  BY <2>5, <3>2
      <4>. QED  BY <4>1
    <3>. QED  BY <3>1, <3>3
<1>. QED  BY <1>1, <1>2

\* What was counted stays counted.
LEMMA CountedStays ==
    ASSUME NEW c \in Seq(Events), NEW e \in Events
    PROVE  /\ Append(c, e) \in Seq(Events) /\ Len(Append(c, e)) = Len(c) + 1 /\ Has(Append(c, e), e)
           /\ \A d : Has(c, d) => Has(Append(c, e), d)
<1>1. /\ Append(c, e) \in Seq(Events) /\ Len(Append(c, e)) = Len(c) + 1 /\ Append(c, e)[Len(c) + 1] = e
      /\ \A i \in 1..Len(c) : Append(c, e)[i] = c[i]
  BY AppendProperties
<1>2. Len(c) \in Nat  BY LenProperties
<1>. QED  BY <1>1, <1>2 DEF Has

\* Keys that are remembered after one more was appended
LEMMA KeysRemembered ==
    ASSUME NEW keys \in Seq(Events), NEW c \in Seq(Events), NEW e \in Events, Remembered(keys, c)
    PROVE  /\ Last(Append(keys, e), KeptKeys) \in Seq(Events)
           /\ Len(Last(Append(keys, e), KeptKeys)) <= KeptKeys
           /\ Remembered(Last(Append(keys, e), KeptKeys), Append(c, e))
<1>1. /\ Append(keys, e) \in Seq(Events) /\ Len(Append(keys, e)) = Len(keys) + 1 /\ Append(keys, e)[Len(keys) + 1] = e
      /\ \A i \in 1..Len(keys) : Append(keys, e)[i] = keys[i]
  BY AppendProperties
<1>2. KeptKeys \in Nat \ {0}  BY LikesAssumption
<1>3. \A k \in 1..Len(Append(keys, e)) : Has(Append(c, e), Append(keys, e)[k])
  <2> SUFFICES ASSUME NEW k \in 1..Len(Append(keys, e)) PROVE Has(Append(c, e), Append(keys, e)[k])  OBVIOUS
  <2>1. Len(keys) \in Nat  BY LenProperties
  <2>2. CASE k \in 1..Len(keys)  BY <1>1, <2>2, CountedStays DEF Remembered
  <2>3. CASE k = Len(keys) + 1  BY <1>1, <2>3, CountedStays
  <2>. QED  BY <1>1, <2>1, <2>2, <2>3
<1>4. /\ Last(Append(keys, e), KeptKeys) \in Seq(Events) /\ Len(Last(Append(keys, e), KeptKeys)) <= KeptKeys
      /\ \A i \in 1..Len(Last(Append(keys, e), KeptKeys)) :
           \E k \in 1..Len(Append(keys, e)) : Last(Append(keys, e), KeptKeys)[i] = Append(keys, e)[k]
  BY <1>1, <1>2, LastOf
<1>. QED  BY <1>3, <1>4 DEF Remembered

\* What is remembered stays among what was counted.
LEMMA StillRemembered ==
    ASSUME NEW keys, NEW c \in Seq(Events), NEW e \in Events, Remembered(keys, c)
    PROVE  Remembered(keys, Append(c, e))
BY CountedStays DEF Remembered

-----------------------------------------------------------------------------
(* Types                                                                   *)

\* Users can be counted.
LEMMA NumberOfUsers ==
    ASSUME NEW S, S \subseteq Users PROVE IsFiniteSet(S) /\ Cardinality(S) \in Counts
<1>1. IsFiniteSet(Users)  BY LikesAssumption
<1>2. IsFiniteSet(S) /\ Cardinality(S) <= Cardinality(Users)  BY <1>1, FS_Subset
<1>3. Cardinality(S) \in Nat /\ Cardinality(Users) \in Nat  BY <1>1, <1>2, FS_CardinalityType
<1>. QED  BY <1>2, <1>3 DEF Counts

\* In the beginning every variable has its type.
LEMMA InitShaped == LikesInit => Shaped
<1> SUFFICES ASSUME LikesInit PROVE Shaped  OBVIOUS
<1>1. 0 \in Counts /\ Cardinality({}) = 0  BY NumberOfUsers, FS_EmptySet
<1>2. NoNote \in NoteRow /\ <<>> \in Seq(Events) /\ NoJob \in Jobs
  BY <1>1 DEF NoNote, NoteRow, NoJob, Jobs, ListenerStages
<1>. QED  BY <1>1, <1>2 DEF LikesInit, Shaped

\* The rows of likes and events, which the transactions of like and unlike write
LEMMA TableShaped ==
    ASSUME Shaped, NEW u \in Users, Like(u) \/ Unlike(u)
    PROVE  /\ likes' \subseteq Users /\ likeCount' = Cardinality(likes')
           /\ event' \in [Events -> LikeEvents \union {NoLike}]
<1>1. likes' \subseteq Users  BY DEF Like, Unlike, Shaped
<1>2. likeCount' = Cardinality(likes')
  <2>1. IsFiniteSet(likes)  BY NumberOfUsers DEF Shaped
  <2>2. CASE Like(u)  BY <2>1, <2>2, FS_AddElement DEF Like, Shaped
  <2>3. CASE Unlike(u)  BY <2>1, <2>3, FS_RemoveElement DEF Unlike, Shaped
  <2>. QED  BY <2>2, <2>3
<1>3. PICK kind \in {"liked", "unliked"} : EnqueueLike(kind, u)  BY DEF Like, Unlike
<1>4. [kind |-> kind, user |-> u, state |-> "pending"] \in LikeEvents  BY DEF LikeEvents
<1>. QED  BY <1>1, <1>2, <1>3, <1>4 DEF EnqueueLike, Shaped

-----------------------------------------------------------------------------
(* What an aggregation does                                                *)

\* It finds the event counted already, or what it read changed, and leaves the notifications alone,
Passes(w) ==
    /\ UNCHANGED <<note, counted>>
    /\ \E after \in {"done", "eligible", "failed"}, tries \in {job[w].tries, job[w].tries + 1} :
         /\ job' = [job EXCEPT ![w] = [@ EXCEPT !.notify = after, !.tries = tries, !.snap = None, !.stale = FALSE]]
         /\ after = "done" => Processed(job[w].snap, job[w].event)

\* or it counts the event into a notification, of which it has read the present row, and the others find theirs stale.
JobsAfter(w) == [x \in Workers |-> IF x = w THEN [job[w] EXCEPT !.notify = "done", !.snap = None, !.stale = FALSE]
                                   ELSE [job[x] EXCEPT !.stale = @ \/ job[x].notify = "read"]]

CountsInto(w, n) ==
    /\ job' = JobsAfter(w) /\ job[w].event \in Events
    /\ counted' = [counted EXCEPT ![n] = Append(@, job[w].event)]
    /\ \E written \in NoteRow :
         /\ note' = [note EXCEPT ![n] = written]
         /\ written.status = "live" /\ written.total = Len(counted[n]) + 1
         /\ Len(written.keys) <= KeptKeys /\ Remembered(written.keys, Append(counted[n], job[w].event))

\* An aggregation does one of the two: the row it writes back counts one event more, and remembers only what was counted.
LEMMA CommitEffect ==
    ASSUME Shaped, Counted, Delivered, NEW w \in Workers, AggregateCommit(w)
    PROVE  Passes(w) \/ \E n \in Notes : CountsInto(w, n)
<1> DEFINE e == job[w].event
           snap == job[w].snap
<1>0. /\ job[w] \in Jobs /\ job[w].notify = "read" /\ e \in Events /\ snap \in [Notes -> NoteRow]
      /\ \A n \in Notes : Len(snap[n].keys) <= KeptKeys /\ Remembered(snap[n].keys, counted[n])
  BY DEF Shaped, Delivered, DeliveredBy, AggregateCommit, At, Jobs
<1>1. CASE Processed(snap, e) /\ UNCHANGED <<note, counted>>
           /\ job' = [job EXCEPT ![w].notify = "done", ![w].snap = None, ![w].stale = FALSE]
  <2>1. job' = [job EXCEPT ![w] = [@ EXCEPT !.notify = "done", !.tries = job[w].tries, !.snap = None, !.stale = FALSE]]
    BY <1>0, <1>1 DEF Shaped, Jobs
  <2>. QED  BY <1>1, <2>1 DEF Passes
<1>2. ASSUME NEW n \in Notes, NEW written, Write(w, n, written), Conflict(w, n) PROVE Passes(w)
  <2>1. AfterConflict(w) \in {"eligible", "failed"}  BY DEF AfterConflict
  <2>2. /\ UNCHANGED <<note, counted>>
        /\ job' = [job EXCEPT ![w].tries = @ + 1, ![w].snap = None, ![w].stale = FALSE, ![w].notify = AfterConflict(w)]
    BY <1>2 DEF Write
  <2>3. job' = [job EXCEPT ![w] = [@ EXCEPT !.notify = AfterConflict(w), !.tries = job[w].tries + 1, !.snap = None, !.stale = FALSE]]
    BY <1>0, <2>2 DEF Shaped, Jobs
  <2>. QED  BY <2>1, <2>2, <2>3 DEF Passes
<1>3. ASSUME NEW n \in Notes, NEW written \in NoteRow, Write(w, n, written), ~Conflict(w, n),
             written.status = "live", written.total = Len(counted[n]) + 1,
             Len(written.keys) <= KeptKeys, Remembered(written.keys, Append(counted[n], e))
      PROVE  CountsInto(w, n)
  BY <1>0, <1>3 DEF CountsInto, JobsAfter, Write
<1>4. CASE \E n \in Unread(snap) : Write(w, n, Aggregated(snap[n], e))
  <2>1. PICK n \in Unread(snap) : Write(w, n, Aggregated(snap[n], e))  BY <1>4
  <2>2. n \in Notes /\ snap[n].status = "live"  BY <2>1 DEF Unread, Rows
  <2>3. CASE ~Conflict(w, n)
    <3>1. snap[n] = note[n]  BY <2>3 DEF Conflict
    <3>2. snap[n] \in NoteRow /\ counted[n] \in Seq(Events)  BY <1>0, <2>2 DEF Shaped
    <3>3. snap[n].total = Len(counted[n])  BY <2>2, <3>1 DEF Counted
    <3>4. snap[n].keys \in Seq(Events) /\ snap[n].total \in Nat  BY <3>2 DEF NoteRow
    <3> DEFINE written == Aggregated(snap[n], e)
    <3>5. /\ written.status = "live" /\ written.total = snap[n].total + 1 /\ written.keys = Last(Append(snap[n].keys, e), KeptKeys)
      BY <2>2, <3>2 DEF Aggregated, NoteRow
    <3>6. /\ written.keys \in Seq(Events) /\ Len(written.keys) <= KeptKeys /\ Remembered(written.keys, Append(counted[n], e))
      BY <1>0, <2>2, <3>2, <3>4, <3>5, KeysRemembered
    <3>7. written \in NoteRow
      <4>1. Last(Append(snap[n].keys, e), KeptKeys) \in Seq(Events)  BY <3>5, <3>6
      <4>2. ASSUME NEW r \in NoteRow, NEW t \in Nat, NEW k \in Seq(Events)
            PROVE  [r EXCEPT !.total = t, !.keys = k] \in NoteRow
        <5> DEFINE K == Seq(Events)
        <5>1. r \in [status : {"none", "live", "deleted"}, read : BOOLEAN, total : Nat, keys : K] /\ k \in K
          BY DEF NoteRow
        <5>2. [r EXCEPT !.total = t, !.keys = k] \in [status : {"none", "live", "deleted"}, read : BOOLEAN, total : Nat, keys : K]
          <6> HIDE DEF K
          <6>. QED  BY <5>1
        <5>. QED  BY <5>2 DEF NoteRow
      <4>3. snap[n].total + 1 \in Nat  BY <3>4
      <4>. QED  BY <3>2, <4>1, <4>2, <4>3 DEF Aggregated
    <3>. QED  BY <1>3, <2>1, <2>2, <2>3, <3>3, <3>5, <3>6, <3>7
  <2>. QED  BY <1>2, <2>1, <2>2, <2>3
<1>5. CASE \E n \in Unused : Write(w, n, NewRow(e))
  <2>1. PICK n \in Unused : Write(w, n, NewRow(e))  BY <1>5
  <2>2. n \in Notes /\ counted[n] = <<>>  BY <2>1 DEF Unused, Counted
  <2>3. NewRow(e) \in NoteRow /\ NewRow(e).status = "live" /\ NewRow(e).total = 1 /\ NewRow(e).keys = <<e>>
    BY <1>0 DEF NewRow, NoteRow
  <2>4. Len(<<>>) = 0 /\ Append(<<>>, e) = <<e>> /\ Len(<<e>>) = 1 /\ <<e>>[1] = e  BY <1>0
  <2>5. Len(NewRow(e).keys) <= KeptKeys  BY <2>3, <2>4, LikesAssumption
  <2>6. Remembered(NewRow(e).keys, Append(counted[n], e))  BY <2>2, <2>3, <2>4 DEF Remembered, Has
  <2>7. NewRow(e).total = Len(counted[n]) + 1  BY <2>2, <2>3, <2>4
  <2>8. CASE ~Conflict(w, n)  BY <1>3, <2>1, <2>2, <2>3, <2>5, <2>6, <2>7, <2>8
  <2>9. CASE Conflict(w, n)  BY <1>2, <2>1, <2>2, <2>9
  <2>. QED  BY <2>2, <2>8, <2>9
<1>. QED  BY <1>1, <1>4, <1>5 DEF AggregateCommit

\* Deliveries keep their type in both cases.
LEMMA PassesShaped == ASSUME Shaped, NEW w \in Workers, Passes(w) PROVE job' \in [Workers -> Jobs]
<1>1. PICK after \in {"done", "eligible", "failed"}, tries \in {job[w].tries, job[w].tries + 1} :
         job' = [job EXCEPT ![w] = [@ EXCEPT !.notify = after, !.tries = tries, !.snap = None, !.stale = FALSE]]
  BY DEF Passes
<1>2. job[w] \in Jobs  BY DEF Shaped
<1>3. tries \in Nat  BY <1>2 DEF Jobs
<1>4. [job[w] EXCEPT !.notify = after, !.tries = tries, !.snap = None, !.stale = FALSE] \in Jobs
  BY <1>2, <1>3 DEF Jobs, ListenerStages
<1>. QED  BY <1>1, <1>4 DEF Shaped

\* In the second too.
LEMMA JobsAfterShaped == ASSUME Shaped, NEW w \in Workers PROVE JobsAfter(w) \in [Workers -> Jobs]
<1>1. \A x \in Workers : job[x] \in Jobs  BY DEF Shaped
<1>2. [job[w] EXCEPT !.notify = "done", !.snap = None, !.stale = FALSE] \in Jobs
  BY <1>1 DEF Jobs, ListenerStages
<1>3. \A x \in Workers : [job[x] EXCEPT !.stale = @ \/ job[x].notify = "read"] \in Jobs
  <2> SUFFICES ASSUME NEW x \in Workers
      PROVE  [job[x] EXCEPT !.stale = @ \/ job[x].notify = "read"] \in Jobs  OBVIOUS
  <2>1. job[x] \in Jobs /\ (job[x].stale \/ job[x].notify = "read") \in BOOLEAN  BY <1>1
  <2>. QED  BY <2>1 DEF Jobs
<1>. QED  BY <1>2, <1>3 DEF JobsAfter

\* A delivery keeps its type.
LEMMA DeliverShaped ==
    ASSUME Shaped, Counted, Delivered, NEW w \in Workers, Deliver(w) \/ \E l \in Listeners : Throw(w, l)
    PROVE  Shaped'
<1> USE DEF table, projections
<1>0. job[w] \in Jobs /\ \A v \in Workers : job[v] \in Jobs  BY DEF Shaped
<1>1. ASSUME NEW e \in Events, ClaimLike(w, e) PROVE Shaped'
  <2>1. [NoJob EXCEPT !.event = e, !.notify = Stage("notify", e), !.cache = Stage("cache", e)] \in Jobs
    <3>1. 0 \in Counts  BY NumberOfUsers, FS_EmptySet
    <3>. QED  BY <3>1 DEF NoJob, Jobs, ListenerStages, Stage
  <2>. QED  BY <1>1, <2>1 DEF ClaimLike, Shaped
<1>2. CASE CheckEligible(w)
  <2>1. [job[w] EXCEPT !.notify = IF removed \/ Author(w) \in blockedLikers THEN "done" ELSE "eligible"] \in Jobs
    BY <1>0 DEF Jobs, ListenerStages
  <2>. QED  BY <1>2, <2>1 DEF CheckEligible, Shaped
<1>3. CASE AggregateRead(w)
  <2>1. [job[w] EXCEPT !.notify = "read", !.snap = note, !.stale = FALSE] \in Jobs
    BY <1>0 DEF Jobs, ListenerStages, Shaped
  <2>. QED  BY <1>3, <2>1 DEF AggregateRead, Shaped
<1>5. CASE CacheRead(w)
  <2>1. likeCount \in Counts  BY NumberOfUsers DEF Shaped
  <2>2. [job[w] EXCEPT !.cache = "read", !.seen = likeCount] \in Jobs  BY <1>0, <2>1 DEF Jobs, ListenerStages
  <2>. QED  BY <1>5, <2>2 DEF CacheRead, Shaped
<1>6. CASE CacheWrite(w)
  <2>1. job[w].seen \in Counts /\ 0 \in Counts  BY <1>0, NumberOfUsers, FS_EmptySet DEF Jobs
  <2>2. [job[w] EXCEPT !.cache = "done", !.seen = 0] \in Jobs  BY <1>0, <2>1 DEF Jobs, ListenerStages
  <2>. QED  BY <1>6, <2>1, <2>2 DEF CacheWrite, Shaped
<1>7. CASE Settle(w)
  <2>1. NoJob \in Jobs
    <3>1. 0 \in Counts  BY NumberOfUsers, FS_EmptySet
    <3>. QED  BY <3>1 DEF NoJob, Jobs, ListenerStages
  <2>2. job' \in [Workers -> Jobs]  BY <1>7, <2>1 DEF Settle, Shaped
  <2>3. event' \in [Events -> LikeEvents \union {NoLike}]
    <3>1. job[w].event \in Events /\ Pushed(job[w].event)
      BY <1>0, <1>7 DEF Settle, Jobs, Delivered, DeliveredBy
    <3>2. event[job[w].event] \in LikeEvents  BY <3>1 DEF Pushed, NoLike, Shaped
    <3>3. [event[job[w].event] EXCEPT !.state = "acked"] \in LikeEvents  BY <3>2 DEF LikeEvents
    <3>. QED  BY <1>7, <3>3 DEF Settle, Shaped
  <2>. QED  BY <1>7, <2>2, <2>3 DEF Settle, Shaped
<1>8. ASSUME NEW l \in Listeners, Throw(w, l) PROVE Shaped'
  <2>1. [job[w] EXCEPT ![l] = "failed"] \in Jobs  BY <1>0 DEF Jobs, ListenerStages, Listeners
  <2>2. job' = [job EXCEPT ![w] = [job[w] EXCEPT ![l] = "failed"]]  BY <1>8 DEF Throw
  <2>. QED  BY <1>8, <2>1, <2>2 DEF Throw, Shaped
<1>4. CASE AggregateCommit(w)
  <2>1. CASE Passes(w)  BY <1>4, <2>1, PassesShaped DEF AggregateCommit, Passes, Shaped
  <2>2. CASE \E n \in Notes : CountsInto(w, n)
    <3>1. PICK n \in Notes : CountsInto(w, n)  BY <2>2
    <3>2. note' \in [Notes -> NoteRow]  BY <3>1 DEF CountsInto, Shaped
    <3>3. counted' \in [Notes -> Seq(Events)]  BY <3>1, CountedStays DEF CountsInto, Shaped
    <3>4. job' \in [Workers -> Jobs]
      <4>1. job' = JobsAfter(w)  BY <3>1 DEF CountsInto
      <4>. QED  BY <4>1, JobsAfterShaped
    <3>. QED  BY <1>4, <3>2, <3>3, <3>4 DEF AggregateCommit, Shaped
  <2>. QED  BY <1>4, <2>1, <2>2, CommitEffect
<1>. QED  BY <1>1, <1>2, <1>3, <1>4, <1>5, <1>6, <1>7, <1>8 DEF Deliver

-----------------------------------------------------------------------------
(* Everybody but the deliveries                                            *)

\* The owner, the cleanup and the removal of the thread change notifications, but not what they count.
NoteKept(r, s) ==
    /\ s \in NoteRow /\ Len(s.keys) <= KeptKeys
    /\ s.status = "none" => r.status = "none"
    /\ s.status = "live" => r.status = "live" /\ s.total = r.total
    /\ s.keys = r.keys \/ s.keys = <<>>

\* To mark as read or unread, to delete, and to do nothing are such changes.
LEMMA ReadKeeps ==
    ASSUME NEW r \in NoteRow, Len(r.keys) <= KeptKeys, NEW b \in BOOLEAN
    PROVE  NoteKept(r, [r EXCEPT !.read = b]) /\ NoteKept(r, r) /\ NoteKept(r, [NoNote EXCEPT !.status = "deleted"])
<1>1. /\ [r EXCEPT !.read = b].status = r.status /\ [r EXCEPT !.read = b].total = r.total
      /\ [r EXCEPT !.read = b].keys = r.keys
  BY DEF NoteRow
<1>2. [r EXCEPT !.read = b] \in NoteRow  BY DEF NoteRow
<1>3. NoteKept(r, [r EXCEPT !.read = b]) /\ NoteKept(r, r)  BY <1>1, <1>2 DEF NoteKept
<1>4. <<>> \in Seq(Events) /\ Len(<<>>) = 0 /\ NoNote.keys = <<>>  BY DEF NoNote
<1>5. NoNote \in NoteRow  BY <1>4 DEF NoNote, NoteRow
<1>6. [NoNote EXCEPT !.status = "deleted"] \in NoteRow  BY <1>5 DEF NoteRow
<1>7. [NoNote EXCEPT !.status = "deleted"].status = "deleted" /\ [NoNote EXCEPT !.status = "deleted"].keys = <<>>
  BY <1>4, <1>5 DEF NoteRow
<1>8. NoteKept(r, [NoNote EXCEPT !.status = "deleted"])  BY <1>4, <1>6, <1>7, LikesAssumption DEF NoteKept
<1>. QED  BY <1>3, <1>8

Delivers == \E w \in Workers : Deliver(w) \/ \E l \in Listeners : Throw(w, l)

\* Everybody but the deliveries changes notifications in these ways alone.
LEMMA NotesKept ==
    ASSUME Shaped, Counted, [LikesNext]_likesVars, ~Delivers
    PROVE  /\ UNCHANGED <<counted, job>>
           /\ note' \in [Notes -> NoteRow] /\ \A n \in Notes : NoteKept(note[n], note'[n])
<1>0. \A n \in Notes : note[n] \in NoteRow /\ Len(note[n].keys) <= KeptKeys  BY DEF Shaped, Counted
<1>1. UNCHANGED <<counted, job>>
  BY DEF LikesNext, Delivers, likesVars, projections, Like, Unlike, BlockLiker, RemoveThread, LateWrite,
     MarkAllAsRead, MarkUnread,
     Reading, RemoveNote, RebuildRead, RebuildWrite
<1>2. note' \in [Notes -> NoteRow] /\ \A n \in Notes : NoteKept(note[n], note'[n])
  <2>1. CASE note' = note  BY <1>0, <2>1, ReadKeeps DEF Shaped
  <2>2. CASE note' = [n \in Notes |-> [note[n] EXCEPT !.read = @ \/ note[n].status = "live"]]
    <3>1. \A n \in Notes : note'[n] = [note[n] EXCEPT !.read = note[n].read \/ note[n].status = "live"]  BY <2>2
    <3>2. \A n \in Notes : (note[n].read \/ note[n].status = "live") \in BOOLEAN  OBVIOUS
    <3>3. \A n \in Notes : NoteKept(note[n], note'[n])  BY <1>0, <3>1, <3>2, ReadKeeps
    <3>4. \A n \in Notes : note'[n] \in NoteRow  BY <3>3 DEF NoteKept
    <3>. QED  BY <2>2, <3>3, <3>4
  <2>3. ASSUME NEW n \in Notes, note' = [note EXCEPT ![n].read = FALSE]
        PROVE  note' \in [Notes -> NoteRow] /\ \A m \in Notes : NoteKept(note[m], note'[m])
    <3>1. note'[n] = [note[n] EXCEPT !.read = FALSE] /\ \A m \in Notes \ {n} : note'[m] = note[m]
      BY <2>3 DEF Shaped
    <3>2. \A m \in Notes : NoteKept(note[m], note'[m])  BY <1>0, <3>1, ReadKeeps
    <3>3. \A m \in Notes : note'[m] \in NoteRow  BY <3>2 DEF NoteKept
    <3>. QED  BY <2>3, <3>2, <3>3 DEF Shaped
  <2>4. ASSUME NEW n \in Notes, note' = [note EXCEPT ![n] = [NoNote EXCEPT !.status = "deleted"]]
        PROVE  note' \in [Notes -> NoteRow] /\ \A m \in Notes : NoteKept(note[m], note'[m])
    <3>1. note'[n] = [NoNote EXCEPT !.status = "deleted"] /\ \A m \in Notes \ {n} : note'[m] = note[m]
      BY <2>4 DEF Shaped
    <3>2. \A m \in Notes : NoteKept(note[m], note'[m])  BY <1>0, <3>1, ReadKeeps
    <3>3. \A m \in Notes : note'[m] \in NoteRow  BY <3>2 DEF NoteKept
    <3>. QED  BY <2>4, <3>2, <3>3 DEF Shaped
  <2>5. \/ note' = note \/ note' = [n \in Notes |-> [note[n] EXCEPT !.read = @ \/ note[n].status = "live"]]
        \/ \E n \in Notes : \/ note' = [note EXCEPT ![n].read = FALSE]
                            \/ note' = [note EXCEPT ![n] = [NoNote EXCEPT !.status = "deleted"]]
    BY DEF LikesNext, Delivers, likesVars, projections, Like, Unlike, BlockLiker, RemoveThread, LateWrite,
       MarkAllAsRead, MarkUnread,
       Reading, RemoveNote, RebuildRead, RebuildWrite
  <2>. QED  BY <2>1, <2>2, <2>3, <2>4, <2>5
<1>. QED  BY <1>1, <1>2

\* They keep every type.
LEMMA OthersShaped == ASSUME Shaped, Counted, [LikesNext]_likesVars, ~Delivers PROVE Shaped'
<1> USE DEF table, projections
<1>0. UNCHANGED <<counted, job>> /\ note' \in [Notes -> NoteRow]  BY NotesKept
<1>1. ASSUME NEW u \in Users, Like(u) \/ Unlike(u) PROVE Shaped'
  BY <1>0, <1>1, TableShaped DEF Like, Unlike, Shaped
<1>2. ASSUME NEW u \in Users, BlockLiker(u) PROVE Shaped'  BY <1>0, <1>2 DEF BlockLiker, Shaped
<1>3. CASE RemoveThread  BY <1>0, <1>3 DEF RemoveThread, Shaped
<1>4. ASSUME NEW write \in {"publish", "remove"}, LateWrite(write) PROVE Shaped'
  <2>1. 0 \in Counts  BY NumberOfUsers, FS_EmptySet
  <2>. QED  BY <1>0, <1>4, <2>1 DEF LateWrite, Shaped
<1>5. CASE MarkAllAsRead  BY <1>0, <1>5 DEF MarkAllAsRead, Reading, Shaped
<1>6. ASSUME NEW n \in Notes, MarkUnread(n) \/ RemoveNote(n) PROVE Shaped'
  BY <1>0, <1>6 DEF MarkUnread, Reading, RemoveNote, Shaped
<1>7. CASE RebuildRead
  <2>1. likeCount \in Counts  BY NumberOfUsers DEF Shaped
  <2>. QED  BY <1>0, <1>7, <2>1 DEF RebuildRead, Shaped
<1>8. CASE RebuildWrite  BY <1>0, <1>8 DEF RebuildWrite, Rebuilt, Shaped
<1>9. CASE UNCHANGED likesVars  BY <1>9 DEF likesVars, Shaped
<1>. QED  BY <1>1, <1>2, <1>3, <1>4, <1>5, <1>6, <1>7, <1>8, <1>9 DEF LikesNext, Delivers

-----------------------------------------------------------------------------
(* What is counted                                                         *)

\* A step keeps the totals and remembers only what it counted.
LEMMA CountedStep == ASSUME Shaped, Counted, Delivered, [LikesNext]_likesVars PROVE Counted'
<1>1. CASE ~Delivers
  <2>1. counted' = counted /\ \A n \in Notes : NoteKept(note[n], note'[n])  BY <1>1, NotesKept
  <2>2. Len(<<>>) = 0  OBVIOUS
  <2>. QED  BY <2>1, <2>2 DEF Counted, NoteKept, Remembered
<1>2. CASE UNCHANGED <<note, counted>>  BY <1>2 DEF Counted
<1>3. ASSUME NEW w \in Workers, NEW m \in Notes, CountsInto(w, m) PROVE Counted'
  <2>1. PICK written \in NoteRow : /\ note' = [note EXCEPT ![m] = written]
                                   /\ written.status = "live" /\ written.total = Len(counted[m]) + 1
                                   /\ Len(written.keys) <= KeptKeys /\ Remembered(written.keys, Append(counted[m], job[w].event))
    BY <1>3 DEF CountsInto
  <2>2. /\ job[w].event \in Events /\ counted[m] \in Seq(Events)
        /\ counted' = [counted EXCEPT ![m] = Append(@, job[w].event)]
    BY <1>3 DEF CountsInto, Shaped
  <2>3. Len(Append(counted[m], job[w].event)) = Len(counted[m]) + 1  BY <2>2, CountedStays
  <2>4. /\ note'[m] = written /\ counted'[m] = Append(counted[m], job[w].event)
        /\ \A n \in Notes \ {m} : note'[n] = note[n] /\ counted'[n] = counted[n]
    BY <2>1, <2>2 DEF Shaped
  <2>. QED  BY <2>1, <2>3, <2>4 DEF Counted
<1>4. CASE Delivers
  <2>1. PICK w \in Workers : Deliver(w) \/ \E l \in Listeners : Throw(w, l)  BY <1>4 DEF Delivers
  <2>2. CASE AggregateCommit(w)  BY <1>2, <1>3, <2>2, CommitEffect DEF Passes
  <2>3. CASE ~AggregateCommit(w)
    <3>1. UNCHANGED <<note, counted>>
      BY <2>1, <2>3
         DEF Deliver, ClaimLike, CheckEligible, AggregateRead, CacheRead, CacheWrite, Settle, Throw, projections
    <3>. QED  BY <1>2, <3>1
  <2>. QED  BY <2>2, <2>3
<1>. QED  BY <1>1, <1>4

\* What was counted stays counted, what was pushed stays pushed, and what excused a like excuses it for ever.
Lasts ==
    /\ \A n \in Notes : \A d : Has(counted[n], d) => Has(counted'[n], d)
    /\ \A e \in Events : Pushed(e) => Pushed(e)' /\ event'[e].kind = event[e].kind
    /\ load' = load /\ (removed => removed')

\* Only a like, an unlike and an acknowledgement write the outbox.
LEMMA EventSteps ==
    ASSUME [LikesNext]_likesVars
    PROVE  \/ event' = event \/ (\E u \in Users, kind \in {"liked", "unliked"} : EnqueueLike(kind, u))
           \/ \E w \in Workers : Settle(w)
<1>1. ASSUME NEW u \in Users, Like(u) \/ Unlike(u) PROVE \E kind \in {"liked", "unliked"} : EnqueueLike(kind, u)
  BY <1>1 DEF Like, Unlike
<1>2. ASSUME NEW u \in Users, BlockLiker(u) PROVE event' = event  BY <1>2 DEF BlockLiker
<1>3. CASE Delivers
  <2>1. PICK w \in Workers : Deliver(w) \/ \E l \in Listeners : Throw(w, l)  BY <1>3 DEF Delivers
  <2>. QED
    BY <2>1
       DEF Deliver, table, ClaimLike, CheckEligible, AggregateRead, AggregateCommit, CacheRead, CacheWrite, Throw
<1>4. CASE \/ RemoveThread \/ \E write \in {"publish", "remove"} : LateWrite(write)
           \/ MarkAllAsRead \/ (\E n \in Notes : MarkUnread(n) \/ RemoveNote(n)) \/ RebuildRead \/ RebuildWrite
           \/ UNCHANGED likesVars
  BY <1>4 DEF likesVars, table, RemoveThread, LateWrite, MarkAllAsRead, MarkUnread, Reading, RemoveNote,
     RebuildRead, RebuildWrite
<1>. QED  BY <1>1, <1>2, <1>3, <1>4 DEF LikesNext, Delivers

\* Every step does so.
LEMMA LastingStep == ASSUME Shaped, Counted, Delivered, [LikesNext]_likesVars PROVE Lasts
<1>1. \A n \in Notes : \A d : Has(counted[n], d) => Has(counted'[n], d)
  <2>1. CASE ~Delivers  BY <2>1, NotesKept
  <2>2. CASE counted' = counted  BY <2>2
  <2>3. ASSUME NEW w \in Workers, NEW m \in Notes, CountsInto(w, m)
        PROVE  \A n \in Notes : \A d : Has(counted[n], d) => Has(counted'[n], d)
    <3>1. /\ job[w].event \in Events /\ counted[m] \in Seq(Events)
          /\ counted'[m] = Append(counted[m], job[w].event) /\ \A n \in Notes \ {m} : counted'[n] = counted[n]
      BY <2>3 DEF CountsInto, Shaped
    <3>. QED  BY <3>1, CountedStays
  <2>4. CASE Delivers
    <3>1. PICK w \in Workers : Deliver(w) \/ \E l \in Listeners : Throw(w, l)  BY <2>4 DEF Delivers
    <3>2. CASE AggregateCommit(w)  BY <2>2, <2>3, <3>2, CommitEffect DEF Passes
    <3>3. CASE ~AggregateCommit(w)
      <4>1. counted' = counted
        BY <3>1, <3>3
           DEF Deliver, ClaimLike, CheckEligible, AggregateRead, CacheRead, CacheWrite, Settle, Throw, projections
      <4>. QED  BY <2>2, <4>1
    <3>. QED  BY <3>2, <3>3
  <2>. QED  BY <2>1, <2>4
<1>2. \A e \in Events : Pushed(e) => Pushed(e)' /\ event'[e].kind = event[e].kind
  <2>1. CASE event' = event  BY <2>1 DEF Pushed
  <2>2. ASSUME NEW u \in Users, NEW kind \in {"liked", "unliked"}, EnqueueLike(kind, u)
        PROVE  \A e \in Events : Pushed(e) => Pushed(e)' /\ event'[e].kind = event[e].kind
    <3>1. PICK e \in Events : ~Pushed(e) /\ event' = [event EXCEPT ![e] = [kind |-> kind, user |-> u, state |-> "pending"]]
      BY <2>2 DEF EnqueueLike
    <3>2. \A d \in Events \ {e} : event'[d] = event[d]  BY <3>1 DEF Shaped
    <3>. QED  BY <3>1, <3>2 DEF Pushed
  <2>3. ASSUME NEW w \in Workers, Settle(w)
        PROVE  \A e \in Events : Pushed(e) => Pushed(e)' /\ event'[e].kind = event[e].kind
    <3>1. job[w].event \in Events  BY <2>3 DEF Settle, Shaped, Jobs
    <3>2. event' = event \/ event' = [event EXCEPT ![job[w].event].state = "acked"]  BY <2>3 DEF Settle
    <3>3. CASE event' = [event EXCEPT ![job[w].event].state = "acked"]
      <4>1. Pushed(job[w].event)  BY <2>3, <3>1 DEF Delivered, DeliveredBy, Settle
      <4>2. event[job[w].event] \in LikeEvents  BY <3>1, <4>1 DEF Shaped, Pushed, NoLike
      <4>3. event'[job[w].event] = [event[job[w].event] EXCEPT !.state = "acked"]  BY <3>1, <3>3 DEF Shaped
      <4>4. event'[job[w].event].state = "acked" /\ event'[job[w].event].kind = event[job[w].event].kind
        BY <4>2, <4>3 DEF LikeEvents
      <4>5. \A d \in Events \ {job[w].event} : event'[d] = event[d]  BY <3>3 DEF Shaped
      <4>. QED  BY <4>4, <4>5 DEF Pushed
    <3>. QED  BY <2>1, <3>2, <3>3
  <2>4. \/ event' = event \/ (\E u \in Users, kind \in {"liked", "unliked"} : EnqueueLike(kind, u))
        \/ \E w \in Workers : Settle(w)
    BY EventSteps
  <2>. QED  BY <2>1, <2>2, <2>3, <2>4
<1>3. load' = load /\ (removed => removed')
  <2> USE DEF table
  <2>1. ASSUME NEW u \in Users, Like(u) \/ Unlike(u) \/ BlockLiker(u) PROVE load' = load /\ removed' = removed
    BY <2>1 DEF Like, Unlike, BlockLiker
  <2>2. CASE Delivers
    <3>1. PICK w \in Workers : Deliver(w) \/ \E l \in Listeners : Throw(w, l)  BY <2>2 DEF Delivers
    <3>2. load' = load /\ removed' = removed
      BY <3>1
         DEF Deliver, ClaimLike, CheckEligible, AggregateRead, AggregateCommit, CacheRead, CacheWrite, Settle, Throw
    <3>. QED  BY <3>2
  <2>3. CASE \/ RemoveThread \/ (\E write \in {"publish", "remove"} : LateWrite(write))
             \/ MarkAllAsRead \/ (\E n \in Notes : MarkUnread(n) \/ RemoveNote(n)) \/ RebuildRead \/ RebuildWrite
             \/ UNCHANGED likesVars
    BY <2>3 DEF likesVars, RemoveThread, LateWrite, MarkAllAsRead, MarkUnread, Reading, RemoveNote,
       RebuildRead, RebuildWrite
  <2>. QED  BY <2>1, <2>2, <2>3 DEF LikesNext, Delivers
<1>. QED  BY <1>1, <1>2, <1>3 DEF Lasts

\* A like that has reached the owner, or need not, stays so.
LEMMA ReachedStays == ASSUME Lasts, NEW e, Reached(e) PROVE Reached(e)'
BY DEF Lasts, Reached, Occurs

\* What a delivery says stays true while it does not move.
LEMMA StillDelivered ==
    ASSUME Shaped, Lasts, NEW v \in Workers, DeliveredBy(v),
           job'[v].event = job[v].event, job'[v].notify = job[v].notify, job'[v].snap = job[v].snap
    PROVE  DeliveredBy(v)'
<1>0. job[v].event \in Events \union {None}  BY DEF Shaped, Jobs
<1>1. job[v].event # None => Pushed(job[v].event)'  BY <1>0 DEF DeliveredBy, Lasts
<1>2. ASSUME job[v].notify = "read"
      PROVE  /\ job[v].event # None /\ job[v].snap \in [Notes -> NoteRow]
             /\ \A n \in Notes : Len(job[v].snap[n].keys) <= KeptKeys /\ Remembered(job[v].snap[n].keys, counted'[n])
  BY <1>2 DEF DeliveredBy, Lasts, Remembered
<1>3. ASSUME job[v].event # None, Meant(job[v].event)', job[v].notify = "done" PROVE Reached(job[v].event)'
  <2>1. Meant(job[v].event)
    <3>1. Pushed(job[v].event)  BY <1>3 DEF DeliveredBy
    <3>. QED  BY <1>0, <1>3, <3>1 DEF Lasts, Meant
  <2>. QED  BY <1>3, <2>1, ReachedStays DEF DeliveredBy
<1>. QED  BY <1>1, <1>2, <1>3 DEF DeliveredBy

-----------------------------------------------------------------------------
(* What the deliveries know                                                *)

\* A step of one delivery leaves what the others say of the notifications alone.
LEMMA OtherDeliveries ==
    ASSUME Shaped, Counted, Delivered, NEW w \in Workers, Deliver(w) \/ \E l \in Listeners : Throw(w, l),
           NEW v \in Workers, v # w
    PROVE  job'[v].event = job[v].event /\ job'[v].notify = job[v].notify /\ job'[v].snap = job[v].snap
<1>0. job[v] \in Jobs  BY DEF Shaped
<1>1. CASE AggregateCommit(w)
  <2>1. CASE Passes(w)  BY <2>1 DEF Passes, Shaped
  <2>2. CASE \E n \in Notes : CountsInto(w, n)
    <3>1. job'[v] = [job[v] EXCEPT !.stale = @ \/ job[v].notify = "read"]  BY <2>2 DEF CountsInto, JobsAfter
    <3>. QED  BY <1>0, <3>1 DEF Jobs
  <2>. QED  BY <1>1, <2>1, <2>2, CommitEffect
<1>2. CASE ~AggregateCommit(w)
  <2>1. \E j : job' = [job EXCEPT ![w] = j]
    <3>1. ASSUME NEW e \in Events, ClaimLike(w, e) PROVE \E j : job' = [job EXCEPT ![w] = j]
      BY <3>1 DEF ClaimLike
    <3>2. ASSUME CheckEligible(w) PROVE \E j : job' = [job EXCEPT ![w] = j]  BY <3>2 DEF CheckEligible
    <3>3. ASSUME AggregateRead(w) PROVE \E j : job' = [job EXCEPT ![w] = j]  BY <3>3 DEF AggregateRead
    <3>4. ASSUME CacheRead(w) PROVE \E j : job' = [job EXCEPT ![w] = j]  BY <3>4 DEF CacheRead
    <3>5. ASSUME CacheWrite(w) PROVE \E j : job' = [job EXCEPT ![w] = j]  BY <3>5 DEF CacheWrite
    <3>6. ASSUME Settle(w) PROVE \E j : job' = [job EXCEPT ![w] = j]  BY <3>6 DEF Settle
    <3>7. ASSUME NEW l \in Listeners, Throw(w, l) PROVE \E j : job' = [job EXCEPT ![w] = j]  BY <3>7 DEF Throw
    <3>. QED  BY <1>2, <3>1, <3>2, <3>3, <3>4, <3>5, <3>6, <3>7 DEF Deliver
  <2>. QED  BY <2>1 DEF Shaped
<1>. QED  BY <1>1, <1>2

\* An event whose aggregation is done, because it was counted or was counted before, has reached the owner.
LEMMA CommitDelivers ==
    ASSUME LikesInv, NEW w \in Workers, AggregateCommit(w), Lasts PROVE DeliveredBy(w)'
<1> PICK e \in Events : job[w].event = e  BY LikesAssumption DEF LikesInv, Shaped, AggregateCommit, At, Jobs
<1>0. /\ job[w] \in Jobs /\ job[w].notify = "read" /\ Pushed(e)
      /\ job[w].snap \in [Notes -> NoteRow]
      /\ \A n \in Notes : Remembered(job[w].snap[n].keys, counted[n])
  BY DEF LikesInv, Shaped, Delivered, DeliveredBy, AggregateCommit, At, Jobs
<1>1. Pushed(e)'  BY <1>0 DEF Lasts
<1>2. CASE Passes(w)
  <2>1. PICK after \in {"done", "eligible", "failed"}, tries \in {job[w].tries, job[w].tries + 1} :
           /\ job' = [job EXCEPT ![w] = [@ EXCEPT !.notify = after, !.tries = tries, !.snap = None, !.stale = FALSE]]
           /\ after = "done" => Processed(job[w].snap, job[w].event)
    BY <1>2 DEF Passes
  <2>2. job'[w].event = e /\ job'[w].notify = after  BY <1>0, <2>1 DEF LikesInv, Shaped, Jobs
  <2>3. ASSUME after = "done" PROVE Reached(e)'
    <3>1. PICK n \in Notes : Has(job[w].snap[n].keys, e)  BY <2>1, <2>3 DEF Processed, Rows
    <3>2. Has(counted[n], e)  BY <1>0, <3>1 DEF Remembered, Has
    <3>. QED  BY <3>2 DEF Reached, Lasts
  <2>. QED  BY <1>1, <2>2, <2>3 DEF DeliveredBy
<1>3. ASSUME NEW n \in Notes, CountsInto(w, n) PROVE DeliveredBy(w)'
  <2>1. job'[w] = [job[w] EXCEPT !.notify = "done", !.snap = None, !.stale = FALSE]
    BY <1>3 DEF CountsInto, JobsAfter
  <2>2. job'[w].event = e /\ job'[w].notify = "done"  BY <1>0, <2>1 DEF Jobs
  <2>3. counted[n] \in Seq(Events) /\ counted'[n] = Append(counted[n], e)
    BY <1>3 DEF CountsInto, LikesInv, Shaped
  <2>4. Has(counted'[n], e)  BY <1>0, <2>3, CountedStays
  <2>5. Reached(e)'  BY <2>4 DEF Reached
  <2>. QED  BY <1>1, <2>2, <2>5 DEF DeliveredBy
<1>. QED  BY <1>2, <1>3, CommitEffect DEF LikesInv

\* So is what a delivery says of its own steps.
LEMMA OwnDelivery ==
    ASSUME LikesInv, NEW w \in Workers, Deliver(w) \/ \E l \in Listeners : Throw(w, l), Lasts
    PROVE  DeliveredBy(w)'
<1>0. /\ Shaped /\ DeliveredBy(w) /\ job[w] \in Jobs /\ job \in [Workers -> Jobs]
      /\ None \notin Events
  BY LikesAssumption DEF LikesInv, Shaped, Delivered, Events
<1>1. ASSUME NEW e \in Events, ClaimLike(w, e) PROVE DeliveredBy(w)'
  <2>1. job'[w] = [NoJob EXCEPT !.event = e, !.notify = Stage("notify", e), !.cache = Stage("cache", e)]
    BY <1>0, <1>1 DEF ClaimLike
  <2>2. job'[w].event = e /\ job'[w].notify = Stage("notify", e)  BY <2>1 DEF NoJob
  <2>3. Pushed(e) /\ event' = event /\ load' = load  BY <1>1 DEF ClaimLike, Pushed
  <2>4. Meant(e) => Stage("notify", e) = "start"  BY DEF Stage, Addressed, Listeners, Meant
  <2>5. Stage("notify", e) \in {"start", "done"}  BY DEF Stage
  <2>6. Meant(e)' => Meant(e)  BY <2>3 DEF Meant
  <2>7. Pushed(e)'  BY <2>3 DEF Pushed
  <2>. QED  BY <2>2, <2>4, <2>5, <2>6, <2>7 DEF DeliveredBy
<1>2. CASE CheckEligible(w)
  <2> PICK e \in Events : job[w].event = e  BY <1>0, <1>2 DEF CheckEligible, At, Jobs
  <2>1. job'[w].event = job[w].event
        /\ job'[w].notify = (IF removed \/ Author(w) \in blockedLikers THEN "done" ELSE "eligible")
    BY <1>0, <1>2 DEF CheckEligible, Jobs
  <2>2. Pushed(e)'  BY <1>0, <1>2 DEF CheckEligible, At, DeliveredBy, Lasts, Jobs
  <2>3. removed \/ Author(w) \in blockedLikers => Reached(e)
    BY DEF LikesInv, Reached
  <2>4. Reached(e) => Reached(e)'  BY ReachedStays
  <2>. QED  BY <2>1, <2>2, <2>3, <2>4 DEF DeliveredBy
<1>3. CASE AggregateRead(w)
  <2> PICK e \in Events : job[w].event = e  BY <1>0, <1>3 DEF AggregateRead, At, Jobs
  <2>1. job'[w].event = job[w].event /\ job'[w].notify = "read" /\ job'[w].snap = note
    BY <1>0, <1>3 DEF AggregateRead, Jobs
  <2>2. e # None /\ counted' = counted  BY <1>3 DEF AggregateRead, At, projections
  <2>3. Pushed(e)'  BY <1>0, <2>2 DEF DeliveredBy, Lasts, Jobs
  <2>4. note \in [Notes -> NoteRow] /\ \A n \in Notes : Len(note[n].keys) <= KeptKeys /\ Remembered(note[n].keys, counted[n])
    BY DEF LikesInv, Shaped, Counted
  <2>. QED  BY <2>1, <2>2, <2>3, <2>4 DEF DeliveredBy
<1>4. CASE AggregateCommit(w)  BY <1>4, CommitDelivers
<1>5. CASE CacheRead(w)
  <2>1. job'[w].event = job[w].event /\ job'[w].notify = job[w].notify /\ job'[w].snap = job[w].snap
    BY <1>0, <1>5 DEF CacheRead, Jobs
  <2>. QED  BY <1>0, <2>1, StillDelivered
<1>6. CASE CacheWrite(w)
  <2>1. job'[w].event = job[w].event /\ job'[w].notify = job[w].notify /\ job'[w].snap = job[w].snap
    BY <1>0, <1>6 DEF CacheWrite, Jobs
  <2>. QED  BY <1>0, <2>1, StillDelivered
<1>7. CASE Settle(w)
  <2>1. job'[w] = NoJob  BY <1>0, <1>7 DEF Settle
  <2>. QED  BY <2>1 DEF NoJob, DeliveredBy
<1>8. ASSUME NEW l \in Listeners, Throw(w, l) PROVE DeliveredBy(w)'
  <2> PICK e \in Events : job[w].event = e  BY <1>0, <1>8 DEF Throw, Jobs
  <2>1. job'[w] = [job[w] EXCEPT ![l] = "failed"] /\ job[w].event # None  BY <1>0, <1>8 DEF Throw
  <2>2. CASE l = "notify"
    <3>1. job'[w].event = job[w].event /\ job'[w].notify = "failed"  BY <1>0, <2>1, <2>2 DEF Jobs
    <3>2. Pushed(e)'  BY <1>0, <2>1 DEF DeliveredBy, Lasts, Jobs
    <3>. QED  BY <3>1, <3>2 DEF DeliveredBy
  <2>3. CASE l = "cache"
    <3>1. job'[w].event = job[w].event /\ job'[w].notify = job[w].notify /\ job'[w].snap = job[w].snap
      BY <1>0, <2>1, <2>3 DEF Jobs
    <3>. QED  BY <1>0, <3>1, StillDelivered
  <2>. QED  BY <2>2, <2>3 DEF Listeners
<1>. QED  BY <1>1, <1>2, <1>3, <1>4, <1>5, <1>6, <1>7, <1>8 DEF Deliver

\* Every step keeps what the deliveries know.
LEMMA DeliveredStep == ASSUME LikesInv, [LikesNext]_likesVars PROVE Delivered'
<1>0. Shaped /\ Counted /\ Delivered  BY DEF LikesInv
<1>1. Lasts  BY <1>0, LastingStep
<1> SUFFICES ASSUME NEW v \in Workers PROVE DeliveredBy(v)'  BY DEF Delivered
<1>2. CASE ~Delivers
  <2>1. job' = job  BY <1>0, <1>2, NotesKept
  <2>. QED  BY <1>0, <1>1, <2>1, StillDelivered DEF Delivered
<1>3. CASE Delivers
  <2>1. PICK w \in Workers : Deliver(w) \/ \E l \in Listeners : Throw(w, l)  BY <1>3 DEF Delivers
  <2>2. CASE v = w  BY <1>1, <2>1, <2>2, OwnDelivery
  <2>3. CASE v # w
    <3>1. job'[v].event = job[v].event /\ job'[v].notify = job[v].notify /\ job'[v].snap = job[v].snap
      BY <1>0, <2>1, <2>3, OtherDeliveries
    <3>. QED  BY <1>0, <1>1, <3>1, StillDelivered DEF Delivered
  <2>. QED  BY <2>2, <2>3
<1>. QED  BY <1>2, <1>3

-----------------------------------------------------------------------------
(* Acknowledgements                                                        *)

\* Every event that becomes acknowledged was acknowledged by a delivery all of whose listeners succeeded.
LEMMA AckedStep == ASSUME LikesInv, [LikesNext]_likesVars PROVE AckedMeansCounted'
<1>0. Shaped /\ Counted /\ Delivered /\ AckedMeansCounted /\ None \notin Events
  BY LikesAssumption DEF LikesInv, Events
<1>1. Lasts  BY <1>0, LastingStep
<1>2. \A e \in Events : event[e].state = "acked" => Pushed(e)  BY DEF Pushed
<1>3. ASSUME NEW e \in Events, event'[e].state = "acked", event[e].state # "acked", Meant(e)'
      PROVE  Reached(e)'
  <2>1. ASSUME NEW u \in Users, NEW kind \in {"liked", "unliked"}, EnqueueLike(kind, u) PROVE FALSE
    <3>1. PICK d \in Events : event' = [event EXCEPT ![d] = [kind |-> kind, user |-> u, state |-> "pending"]]
      BY <2>1 DEF EnqueueLike
    <3>. QED  BY <1>0, <1>3, <3>1 DEF Shaped
  <2>2. PICK w \in Workers : Settle(w)  BY <1>3, <2>1, EventSteps
  <2>3. event' = event \/ (event' = [event EXCEPT ![job[w].event].state = "acked"] /\ \A l \in Listeners : job[w][l] = "done")
    BY <2>2 DEF Settle
  <2>4. job[w].event = e /\ job[w].notify = "done"
    BY <1>0, <1>3, <2>3 DEF Shaped, Listeners
  <2>5. Pushed(e)  BY <1>0, <2>4 DEF Delivered, DeliveredBy
  <2>6. Meant(e)  BY <1>1, <1>3, <2>5 DEF Lasts, Meant
  <2>7. Reached(e)  BY <1>0, <2>4, <2>6 DEF Delivered, DeliveredBy
  <2>. QED  BY <1>1, <2>7, ReachedStays
<1>4. ASSUME NEW e \in Events, event[e].state = "acked", Meant(e)' PROVE Reached(e)'
  <2>1. Meant(e)  BY <1>1, <1>2, <1>4 DEF Lasts, Meant
  <2>2. Reached(e)  BY <1>0, <1>4, <2>1 DEF AckedMeansCounted, Meant, Reached
  <2>. QED  BY <1>1, <2>2, ReachedStays
<1>. QED  BY <1>3, <1>4 DEF AckedMeansCounted, Meant, Reached

\* Blocks occur only where they are among the load.
LEMMA BlockedStep == ASSUME LikesInv, [LikesNext]_likesVars PROVE (blockedLikers # {} => Occurs("block"))'
<1> USE DEF table
<1>0. load' = load  BY LastingStep DEF Lasts, LikesInv
<1>1. blockedLikers' = blockedLikers \/ Occurs("block")
  <2>1. ASSUME NEW u \in Users, Like(u) \/ Unlike(u) \/ BlockLiker(u)
        PROVE  blockedLikers' = blockedLikers \/ Occurs("block")
    BY <2>1 DEF Like, Unlike, BlockLiker
  <2>2. CASE Delivers
    <3>1. PICK w \in Workers : Deliver(w) \/ \E l \in Listeners : Throw(w, l)  BY <2>2 DEF Delivers
    <3>. QED
      BY <3>1
         DEF Deliver, ClaimLike, CheckEligible, AggregateRead, AggregateCommit, CacheRead, CacheWrite, Settle, Throw
  <2>3. CASE \/ RemoveThread \/ (\E write \in {"publish", "remove"} : LateWrite(write))
             \/ MarkAllAsRead \/ (\E n \in Notes : MarkUnread(n) \/ RemoveNote(n)) \/ RebuildRead \/ RebuildWrite
             \/ UNCHANGED likesVars
    BY <2>3 DEF likesVars, RemoveThread, LateWrite, MarkAllAsRead, MarkUnread, Reading, RemoveNote,
       RebuildRead, RebuildWrite
  <2>. QED  BY <2>1, <2>2, <2>3 DEF LikesNext, Delivers
<1>. QED  BY <1>0, <1>1 DEF LikesInv, Occurs

-----------------------------------------------------------------------------
(* The theorems                                                            *)

\* In the beginning nothing was counted or acknowledged.
LEMMA LikesBeginnings == LikesInit => LikesInv
<1> SUFFICES ASSUME LikesInit PROVE LikesInv  OBVIOUS
<1>1. Shaped  BY InitShaped
<1>2. \A n \in Notes : note[n] = NoNote /\ counted[n] = <<>>  BY DEF LikesInit
<1>3. Len(<<>>) = 0 /\ NoNote.keys = <<>> /\ NoNote.status = "none"  BY DEF NoNote
<1>4. Counted  BY <1>2, <1>3, LikesAssumption DEF Counted, Remembered
<1>5. Delivered  BY DEF LikesInit, Delivered, DeliveredBy, NoJob
<1>6. AckedMeansCounted  BY DEF LikesInit, AckedMeansCounted, NoLike
<1>. QED  BY <1>1, <1>4, <1>5, <1>6 DEF LikesInit, LikesInv

\* Every step keeps the invariant, so it holds for ever.
LEMMA LikesInvariance == LikesSpec => []LikesInv
<1>1. LikesInit => LikesInv  BY LikesBeginnings
<1>2. LikesInv /\ [LikesNext]_likesVars => LikesInv'
  <2> SUFFICES ASSUME LikesInv, [LikesNext]_likesVars PROVE LikesInv'  OBVIOUS
  <2>1. Shaped'
    <3>1. CASE Delivers
      <4>1. PICK w \in Workers : Deliver(w) \/ \E l \in Listeners : Throw(w, l)  BY <3>1 DEF Delivers
      <4>. QED  BY <4>1, DeliverShaped DEF LikesInv
    <3>. QED  BY <3>1, OthersShaped DEF LikesInv
  <2>2. Counted'  BY CountedStep DEF LikesInv
  <2>. QED  BY <2>1, <2>2, DeliveredStep, BlockedStep, AckedStep DEF LikesInv
<1>. QED  BY <1>1, <1>2, PTL DEF LikesSpec

\* like_count is the number of rows of thread_likes, a notification remembers at most its last KeptKeys events,
\* and every variable keeps its type (thread-reaction.service.ts, notification-delivery.service.ts).
THEOREM LikesTypes == LikesSpec => []LikesTypeOK
<1>1. LikesInv => LikesTypeOK
  <2> SUFFICES ASSUME LikesInv PROVE LikesTypeOK  OBVIOUS
  <2>1. \A e \in Events : event[e] = NoLike \/ event[e] \in LikeEvents  BY DEF LikesInv, Shaped
  <2>2. \A n \in Notes : note[n] \in NoteRow /\ Len(note[n].keys) <= KeptKeys  BY DEF LikesInv, Shaped, Counted
  <2>3. \A n \in Notes : /\ note[n].status \in {"none", "live", "deleted"}
                         /\ \A i \in DOMAIN note[n].keys : note[n].keys[i] \in Events
    BY <2>2 DEF NoteRow
  <2>4. \A w \in Workers : job[w].event \in Events \union {None} /\ {job[w].notify, job[w].cache} \subseteq ListenerStages
    BY DEF LikesInv, Shaped, Jobs
  <2>. QED  BY <2>1, <2>2, <2>3, <2>4 DEF LikesTypeOK, LikesInv, Shaped, LikeEvents, Counts
<1>. QED  BY <1>1, LikesInvariance, PTL

\* No count is lost however many workers aggregate likes at the same time: the total of a notification is the
\* number of times an aggregation counted into it (notification-delivery.service.ts aggregateLikeForUser), because
\* the row that is written is the present one plus one.
THEOREM NoLikeIsLost == LikesSpec => []TotalsMatch
<1>1. LikesInv => TotalsMatch  BY DEF LikesInv, Counted, TotalsMatch, Rows
<1>. QED  BY <1>1, LikesInvariance, PTL

\* An acknowledged like was counted into a notification of the owner, or the thread was removed or a block can
\* have excluded him, whatever failed, conflicted or was delivered twice (outbox.dispatcher.ts,
\* notification-delivery.service.ts aggregateLikeForUser).
THEOREM AcknowledgedLikes == LikesSpec => []AckedMeansCounted
<1>1. LikesInv => AckedMeansCounted  BY DEF LikesInv
<1>. QED  BY <1>1, LikesInvariance, PTL
=============================================================================
