--------------------------- MODULE OutboxDelivery ---------------------------
(***************************************************************************)
(* What the transactional outbox promises to the rest of the program,      *)
(* whatever leases, retries, crashes and duplicated deliveries happen      *)
(* underneath: an event written by a committed business transaction is     *)
(* handled at least once by every listener of its type, it is marked done  *)
(* only after that, and done is for ever.  A listener may be run again,    *)
(* also after the event is done: consumers have to be idempotent.          *)
(***************************************************************************)
CONSTANTS Event,        \* the event keys
          Listener,     \* the registered listeners
          ListenersOf,  \* the listeners of an event's type
          Malformed     \* the events whose payload the dispatcher rejects

VARIABLES published,    \* events a committed transaction has enqueued
          handled,      \* listeners that have run an event to success
          done          \* events that will never be delivered again by claim

dvars == <<published, handled, done>>

Deliverable(e) == e \notin Malformed /\ ListenersOf[e] # {}

DInit == /\ published = {}
         /\ handled = [e \in Event |-> {}]
         /\ done = {}

Publish(e) == /\ e \notin published
              /\ published' = published \union {e}
              /\ UNCHANGED <<handled, done>>

Handle(e, l) == /\ e \in published
                /\ Deliverable(e)
                /\ l \in ListenersOf[e]
                /\ handled' = [handled EXCEPT ![e] = @ \union {l}]
                /\ UNCHANGED <<published, done>>

Finish(e) == /\ e \in published \ done
             /\ Deliverable(e)
             /\ handled[e] = ListenersOf[e]
             /\ done' = done \union {e}
             /\ UNCHANGED <<published, handled>>

DNext == \E e \in Event : \/ Publish(e)
                          \/ Finish(e)
                          \/ \E l \in Listener : Handle(e, l)

DSpec == DInit /\ [][DNext]_dvars
=============================================================================
