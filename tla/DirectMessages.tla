--------------------------- MODULE DirectMessages ---------------------------
(***************************************************************************)
(* The conversation of two users (src/src/direct-messages).                *)
(*                                                                         *)
(* A call reads outside any transaction, then runs one READ COMMITTED      *)
(* transaction that takes no lock before it writes: a transition is an     *)
(* UPDATE ... WHERE status = <what was read>, which locks the row of the   *)
(* conversation until COMMIT, so it is one action; a message sent into an  *)
(* accepted conversation gets its time of creation when it is inserted and *)
(* is seen by others when the transaction commits, in two actions.  A      *)
(* message is numbered by its time of creation.                            *)
(***************************************************************************)
EXTENDS Naturals, FiniteSets

CONSTANTS Users,        \* the two users
          Handlers,     \* requests that may run at the same time
          Reqs,         \* values of clientRequestId
          None,
          Loads,        \* bound: what occurs in one behaviour, [ops, messages]
          MaxMessages   \* bound: messages ever inserted

ASSUME DirectMessagesAssumption ==
    None \notin Users /\ MaxMessages \in Nat /\ \A l \in Loads : l.messages \in 0..MaxMessages

VARIABLES conv,      \* [status, from, last]: requesterId and lastMessageAt (0 is null)
          msg,       \* message -> [state, from, req, read]
          clock,     \* the time of the last insertion
          archived,  \* users whose participant row has archivedAt
          mutual,    \* the two follow each other
          met,       \* history: they did at some time
          blocked,   \* a block between the two, either way, or a deactivated account
          call,      \* handler -> the request it runs and what it has read
          load       \* the operations and the number of messages of this behaviour

rows == <<conv, msg, clock, archived>>
relations == <<mutual, met, blocked>>
vars == <<conv, msg, clock, archived, mutual, met, blocked, call, load>>

Messages == 1..MaxMessages
NoMessage == [state |-> "none", from |-> None, req |-> None, read |-> FALSE]
Idle == [op |-> "idle", user |-> None, req |-> None, seen |-> "NEW", next |-> "NEW",
         msg |-> 0, flag |-> FALSE]

Kept == {m \in Messages : msg[m].state \in {"live", "recalled"}}
KeyUsed(u, req) == \E m \in Kept : msg[m].from = u /\ msg[m].req = req

Init == /\ conv = [status |-> "NEW", from |-> None, last |-> 0]
        /\ msg = [m \in Messages |-> NoMessage]
        /\ clock = 0 /\ archived = {} /\ blocked = FALSE
        /\ mutual \in BOOLEAN /\ met = mutual
        /\ call = [c \in Handlers |-> Idle]
        /\ load \in Loads

Occurs(op) == op \in load.ops /\ UNCHANGED load
Running(c, op) == call[c].op = op /\ UNCHANGED <<relations, load>>
Go(c, k) == call' = [call EXCEPT ![c] = k]
Done(c) == Go(c, Idle)
Reads == UNCHANGED <<conv, msg, clock, archived>>
Begin(c, op, k) == call[c] = Idle /\ Occurs(op) /\ Go(c, k) /\ Reads /\ UNCHANGED relations

\* A refused check, a full rate limit, an error or a lost connection before COMMIT
Refuse(c) == call[c] # Idle /\ Done(c) /\ Reads /\ UNCHANGED <<relations, load>>

---------------------------------------------------------------------------
(* Sending *)

\* initiate: findDuplicate, the recipient and the block
BeginInitiate(c) == \E u \in Users, req \in Reqs :
    /\ ~KeyUsed(u, req) /\ ~blocked
    /\ Begin(c, "initiate", [Idle EXCEPT !.op = "route", !.user = u, !.req = req])

\* The second try after a unique conflict
Retry(c) == LET k == call[c] IN
    /\ Running(c, "again") /\ Reads
    /\ ~KeyUsed(k.user, k.req) /\ ~blocked /\ Go(c, [k EXCEPT !.op = "route"])

\* requestPending, requestDeclined
Waiting(u) == conv.status \in {"PENDING", "DECLINED"} /\ conv.from = u
\* Who answers is accepted at once, as who is followed back
NextStatus(u) == IF conv.from \notin {None, u} \/ mutual THEN "ACCEPTED" ELSE "PENDING"
Path == CASE conv.status = "NEW" -> "create" [] conv.status = "ACCEPTED" -> "send"
          [] OTHER -> "transition"

Route(c) == LET k == call[c] IN
    /\ Running(c, "route") /\ Reads /\ ~Waiting(k.user)
    /\ Go(c, [k EXCEPT !.op = Path, !.seen = conv.status, !.next = NextStatus(k.user)])

\* assertPairWritable inside the transaction
Check(c) == LET k == call[c] IN
    /\ \E op \in {"create", "transition", "accept"} :
          /\ Running(c, op)
          /\ Go(c, [k EXCEPT !.op = CASE op = "create" -> "creating" [] op = "accept" -> "accepting"
                                      [] OTHER -> "changing"])
    /\ ~blocked /\ Reads

NewMessage(k) == [state |-> "live", from |-> k.user, req |-> k.req, read |-> FALSE]
ReadBy(u, through) == [m \in Messages |-> IF msg[m].state # "none" /\ msg[m].from # u /\ m <= through
                                          THEN [msg[m] EXCEPT !.read = TRUE] ELSE msg[m]]
Deleted == [m \in Messages |-> IF m \in Kept THEN [NoMessage EXCEPT !.state = "deleted"] ELSE msg[m]]

\* The conversation, its participants and the first message; or the unique index refuses
Create(c) == LET k == call[c] IN
    /\ Running(c, "creating")
    /\ IF conv.status = "NEW"
       THEN /\ clock < load.messages /\ clock' = clock + 1 /\ Done(c)
            /\ conv' = [status |-> k.next, from |-> k.user, last |-> clock + 1]
            /\ msg' = [msg EXCEPT ![clock + 1] = NewMessage(k)]
            /\ UNCHANGED archived
       ELSE ~k.flag /\ Go(c, [k EXCEPT !.op = "again", !.flag = TRUE]) /\ Reads

\* transitionAndSend: the status is still the one that was read
BugUnchanged(k) == conv.status # "ACCEPTED"
StillSeen(k) == conv.status = k.seen

Transition(c) == LET k == call[c] IN
    /\ Running(c, "changing") /\ StillSeen(k) /\ ~KeyUsed(k.user, k.req)
    /\ clock < load.messages /\ clock' = clock + 1 /\ Done(c) /\ archived' = {}
    /\ conv' = [status |-> k.next, from |-> k.user, last |-> clock + 1]
    /\ msg' = [(IF k.seen = "PENDING" THEN ReadBy(k.user, MaxMessages) ELSE msg)
                 EXCEPT ![clock + 1] = NewMessage(k)]

BeginSend(c) == \E u \in Users, req \in Reqs :
    /\ ~KeyUsed(u, req) /\ conv.status = "ACCEPTED"
    /\ Begin(c, "send", [Idle EXCEPT !.op = "send", !.user = u, !.req = req, !.seen = "ACCEPTED"])

\* sendAccepted: the checks and the insertion; an insertion of the same key waits for the first
Insert(c) == LET k == call[c] IN
    /\ Running(c, "send") /\ ~blocked /\ conv.status = "ACCEPTED" /\ ~KeyUsed(k.user, k.req)
    /\ \A d \in Handlers : call[d].op = "inserted" => <<call[d].user, call[d].req>> # <<k.user, k.req>>
    /\ clock < load.messages /\ clock' = clock + 1
    /\ Go(c, [k EXCEPT !.op = "inserted", !.msg = clock + 1])
    /\ UNCHANGED <<conv, msg, archived>>

CommitSend(c) == LET k == call[c] IN
    /\ Running(c, "inserted") /\ Done(c) /\ archived' = {} /\ UNCHANGED clock
    /\ conv' = [conv EXCEPT !.last = k.msg]
    /\ msg' = [msg EXCEPT ![k.msg] = NewMessage(k)]

---------------------------------------------------------------------------
(* Answering and recalling *)

BeginHandle(c) == \E u \in Users, answer \in {"accept", "decline"} :
    /\ conv.status = "PENDING" /\ conv.from # u
    /\ Begin(c, answer, [Idle EXCEPT !.op = answer, !.user = u])

\* UPDATE ... WHERE status = 'PENDING' AND recipient_id = <the actor>
Pending(from) == conv.status = "PENDING" /\ conv.from = from
Received(u) == \E v \in Users \ {u} : Pending(v)

AcceptRequest(c) == LET u == call[c].user IN
    /\ Running(c, "accepting") /\ Received(u) /\ Done(c)
    /\ conv' = [conv EXCEPT !.status = "ACCEPTED"]
    /\ msg' = ReadBy(u, MaxMessages)
    /\ UNCHANGED <<clock, archived>>

DeclineRequest(c) ==
    /\ Running(c, "decline") /\ Received(call[c].user) /\ Done(c)
    /\ conv' = [conv EXCEPT !.status = "DECLINED", !.last = 0]
    /\ msg' = Deleted
    /\ UNCHANGED <<clock, archived>>

\* recall: the message is read, later the conversation inside the transaction
BeginRecall(c) == \E m \in Messages :
    /\ msg[m].state = "live"
    /\ Begin(c, "recall", [Idle EXCEPT !.op = "recall", !.user = msg[m].from, !.msg = m])

RecallRead(c) == LET k == call[c] IN
    /\ Running(c, "recall") /\ Reads
    /\ \/ Pending(k.user) /\ Go(c, [k EXCEPT !.op = "cancel"])
       \/ conv.status = "ACCEPTED" /\ Go(c, [k EXCEPT !.op = "blank"])

\* UPDATE ... WHERE status = 'PENDING' AND requester_id = <the actor>
BugStillRequested(u) == conv.from = u
StillRequested(u) == Pending(u)

CancelRequest(c) ==
    /\ Running(c, "cancel") /\ StillRequested(call[c].user) /\ Done(c)
    /\ conv' = [conv EXCEPT !.status = "CANCELED", !.last = 0]
    /\ msg' = Deleted
    /\ UNCHANGED <<clock, archived>>

Blank(c) == LET m == call[c].msg IN
    /\ Running(c, "blank") /\ msg[m].state = "live" /\ Done(c)
    /\ msg' = [msg EXCEPT ![m].state = "recalled"]
    /\ UNCHANGED <<conv, clock, archived>>

---------------------------------------------------------------------------
(* Archive, read state and the relation of the two *)

BugMayArchive(u) == conv.status \in {"ACCEPTED", "PENDING"}
MayArchive(u) == conv.status = "ACCEPTED" \/ Pending(u)

BeginArchive(c) == \E u \in Users, value \in BOOLEAN :
    MayArchive(u) /\ Begin(c, "archive", [Idle EXCEPT !.op = "archive", !.user = u, !.flag = value])

CommitArchive(c) == LET k == call[c] IN
    /\ Running(c, "archive") /\ Done(c)
    /\ archived' = IF k.flag THEN archived \union {k.user} ELSE archived \ {k.user}
    /\ UNCHANGED <<conv, msg, clock>>

MarkRead == /\ Occurs("read") /\ ~blocked /\ UNCHANGED <<relations, call>>
            /\ \E u \in Users, through \in Kept : msg' = ReadBy(u, through)
            /\ UNCHANGED <<conv, clock, archived>>

Follow == /\ Occurs("follow") /\ ~blocked /\ mutual' = ~mutual /\ met' = (met \/ mutual')
          /\ UNCHANGED <<rows, blocked, call>>
Block == /\ Occurs("block") /\ blocked' = ~blocked /\ mutual' = FALSE
         /\ UNCHANGED <<rows, met, call>>

---------------------------------------------------------------------------

Sending(c) == \/ BeginInitiate(c) \/ Retry(c) \/ Route(c) \/ Check(c) \/ Create(c)
              \/ Transition(c) \/ BeginSend(c) \/ Insert(c) \/ CommitSend(c)
Answer(c) == \/ BeginHandle(c) \/ AcceptRequest(c) \/ DeclineRequest(c)
             \/ BeginRecall(c) \/ RecallRead(c) \/ CancelRequest(c) \/ Blank(c)

Next == \/ \E c \in Handlers : Sending(c) \/ Answer(c) \/ BeginArchive(c) \/ CommitArchive(c) \/ Refuse(c)
        \/ MarkRead \/ Follow \/ Block

Spec == Init /\ [][Next]_vars

---------------------------------------------------------------------------
(* Properties *)

Statuses == {"NEW", "PENDING", "ACCEPTED", "DECLINED", "CANCELED"}
Steps == {"idle", "route", "again", "create", "creating", "transition", "changing", "send", "inserted",
          "accept", "accepting", "decline", "recall", "cancel", "blank", "archive"}

Conversation == [status : Statuses, from : Users \union {None}, last : Messages \union {0}]
Message == [state : {"none", "live", "recalled", "deleted"}, from : Users \union {None},
            req : Reqs \union {None}, read : BOOLEAN]
Request == [op : Steps, user : Users \union {None}, req : Reqs \union {None}, seen : Statuses,
            next : Statuses, msg : Messages \union {0}, flag : BOOLEAN]

\* Every variable has its type.
TypeOK ==
    /\ conv \in Conversation
    /\ msg \in [Messages -> Message]
    /\ clock \in Messages \union {0} /\ archived \subseteq Users
    /\ mutual \in BOOLEAN /\ met \in BOOLEAN /\ blocked \in BOOLEAN
    /\ call \in [Handlers -> Request]
    /\ load \in Loads

Protocol == INSTANCE MessageRequest WITH
    Stamps <- Messages, Nobody <- None, status <- conv.status, requester <- conv.from,
    letters <- {[from |-> msg[m].from, stamp |-> m] : m \in Kept}

\* However initiations, answers, recalls and blocks of the two sides interleave, the conversation
\* goes through the states of the module's diagram: only the other side accepts or declines, a
\* stranger is connected only by an answer or by having been followed back, an accepted
\* conversation never loses a message or its status.
FollowsProtocol == Protocol!RequestSpec

\* A pending request is exactly one message, of its requester; a conversation that was declined or
\* cancelled keeps none; and lastMessageAt is null exactly when there is no message.
OneLetterPerRequest ==
    /\ conv.status = "PENDING" => \E m \in Kept : Kept = {m} /\ msg[m].from = conv.from
    /\ conv.status \in {"NEW", "DECLINED", "CANCELED"} => Kept = {}
    /\ conv.last = 0 <=> Kept = {}
    /\ conv.last # 0 => conv.last \in Kept

\* The receiver of a pending request has not archived the conversation, so that the list of
\* requests, which leaves archived ones out, shows it.
RequestReaches == conv.status = "PENDING" => archived \subseteq {conv.from}
=============================================================================
