------------------------ MODULE DirectMessageProofs ------------------------
(***************************************************************************)
(* Theorems about DirectMessages, for any number of handlers, messages and *)
(* request ids.  The inductive invariant says what a conversation holds in *)
(* each of its states (Kinds), and that what a request has read before its *)
(* transaction stays true until the conversation is accepted (TrueIn): the *)
(* two only exchange their roles in the step that accepts, and an accepted *)
(* conversation stays accepted.  That is why an UPDATE conditioned on the  *)
(* status alone is enough.                                                 *)
(***************************************************************************)
EXTENDS DirectMessages, TLAPS

USE DirectMessagesAssumption

Rows ==
    /\ \A m \in Messages : m > clock => msg[m] = NoMessage
    /\ \A m \in Kept : msg[m].from \in Users
    /\ conv.from = None <=> conv.status = "NEW"
    /\ mutual => met

Kinds ==
    /\ conv.status = "PENDING" => \E m \in Kept : Kept = {m} /\ msg[m].from = conv.from
    /\ conv.status \in {"NEW", "DECLINED", "CANCELED"} => Kept = {}
    /\ conv.status = "ACCEPTED" => Kept # {}
    /\ conv.last = 0 <=> Kept = {}
    /\ conv.last # 0 => conv.last \in Kept

\* Only the requester has archived a conversation that is not accepted.
Shelved == conv.status # "ACCEPTED" => archived \subseteq {conv.from}

\* What the request k relies on, in a conversation v with messages M at time t.
TrueIn(k, v, M, t, f) ==
    /\ k.op # "idle" => k.user \in Users
    /\ k.op \in {"create", "creating"} =>
          k.next \in {"PENDING", "ACCEPTED"} /\ (k.next = "ACCEPTED" => f)
    /\ k.op \in {"transition", "changing"} =>
          v.status # "NEW" /\ k.seen \in {"PENDING", "DECLINED", "CANCELED"}
    /\ k.op \in {"transition", "changing"} /\ v.status # "ACCEPTED" =>
          /\ k.next \in {"PENDING", "ACCEPTED"}
          /\ k.next = "PENDING" => k.seen = "CANCELED" /\ v.from = k.user
          /\ k.next = "ACCEPTED" => v.from # k.user \/ (f /\ k.seen = "CANCELED")
    /\ k.op \in {"send", "inserted", "blank"} => v.status = "ACCEPTED"
    /\ k.op = "inserted" => k.msg \in Messages /\ k.msg <= t /\ M[k.msg] = NoMessage
    /\ k.op \in {"recall", "cancel", "blank"} => k.msg \in Messages
    /\ k.op = "archive" => v.status = "ACCEPTED" \/ v.from = k.user

CallTrue(k) == TrueIn(k, conv, msg, clock, met)

\* Two insertions under way have numbers of their own.
Apart == \A c, d \in Handlers :
            c # d /\ call[c].op = "inserted" /\ call[d].op = "inserted" => call[c].msg # call[d].msg

Inv == TypeOK /\ Rows /\ Kinds /\ Shelved /\ Apart /\ \A c \in Handlers : CallTrue(call[c])

---------------------------------------------------------------------------
(* Frames *)

\* The conversation only goes forward: accepted for good, and roles exchanged only by accepting.
Forward(v, w) ==
    /\ v.status = "ACCEPTED" => w.status = "ACCEPTED"
    /\ v.status # "NEW" => w.status # "NEW"
    /\ v.status # "NEW" /\ w.status # "ACCEPTED" => w.from = v.from
    /\ v.from = None <=> v.status = "NEW"

\* What a request relies on survives every step forward that leaves its own message alone.
LEMMA Steady ==
    ASSUME NEW k, NEW v, NEW M, NEW t \in Nat, NEW f, NEW w, NEW N, NEW s \in Nat, NEW g,
           TrueIn(k, v, M, t, f), Forward(v, w), f => g, t <= s,
           k.op = "inserted" => N[k.msg] = M[k.msg]
    PROVE  TrueIn(k, w, N, s, g)
<1>1. k.op = "inserted" => k.msg <= s
  BY DEF TrueIn, Messages
<1>2. k.op = "archive" => w.status = "ACCEPTED" \/ w.from = k.user
  BY DEF TrueIn, Forward
<1>3. k.op \in {"transition", "changing"} /\ w.status # "ACCEPTED"
         => v.status \notin {"NEW", "ACCEPTED"} /\ w.from = v.from
  BY DEF TrueIn, Forward
<1> QED
  BY <1>1, <1>2, <1>3 DEF TrueIn, Forward

\* One handler moves on, the others keep what they rely on.
LEMMA Others ==
    ASSUME Inv, NEW c \in Handlers, NEW k \in Request, call' = [call EXCEPT ![c] = k],
           TrueIn(k, conv', msg', clock', met'), Forward(conv, conv'), met => met',
           clock' \in Nat, clock <= clock',
           \A d \in Handlers \ {c} : call[d].op = "inserted" => msg'[call[d].msg] = msg[call[d].msg]
    PROVE  /\ call' \in [Handlers -> Request]
           /\ \A d \in Handlers : TrueIn(call'[d], conv', msg', clock', met')
<1>1. call' \in [Handlers -> Request]
  BY DEF Inv, TypeOK
<1>2. clock \in Nat
  BY DEF Inv, TypeOK, Messages
<1>3. ASSUME NEW d \in Handlers \ {c} PROVE TrueIn(call'[d], conv', msg', clock', met')
  <2>1. call'[d] = call[d] /\ TrueIn(call[d], conv, msg, clock, met)
    BY <1>3 DEF Inv, TypeOK, CallTrue
  <2> QED
    BY <1>2, <1>3, <2>1, Steady
<1>4. call'[c] = k
  BY DEF Inv, TypeOK
<1> QED
  BY <1>1, <1>3, <1>4

\* A step that only reads.
LEMMA ReadStep ==
    ASSUME Inv, NEW c \in Handlers, NEW k \in Request, Go(c, k), k.op # "inserted", CallTrue(k),
           Reads, UNCHANGED <<relations, load>>
    PROVE  Inv'
<1> USE DEF Reads, relations
<1>1. Forward(conv, conv')
  BY DEF Inv, Rows, Forward
<1>2. /\ call' \in [Handlers -> Request]
      /\ \A d \in Handlers : TrueIn(call'[d], conv', msg', clock', met')
  <2>1. clock' \in Nat /\ clock <= clock'
    BY DEF Inv, TypeOK, Messages
  <2> QED
    BY <1>1, <2>1, Others DEF Go, CallTrue
<1>3. TypeOK' /\ Rows' /\ Kinds' /\ Shelved'
  BY <1>2 DEF Inv, TypeOK, Rows, Kinds, Shelved, Kept
<1>4. Apart'
  <2>1. \A d \in Handlers : call'[d] = IF d = c THEN k ELSE call[d]
    BY DEF Inv, TypeOK, Go
  <2> QED
    BY <2>1 DEF Inv, Apart
<1> QED
  BY <1>2, <1>3, <1>4 DEF Inv, CallTrue

\* A transaction that commits.
LEMMA CommitStep ==
    ASSUME Inv, NEW c \in Handlers, Done(c), UNCHANGED <<relations, load>>,
           conv' \in Conversation, msg' \in [Messages -> Message], clock' \in Messages \union {0},
           clock <= clock', archived' \subseteq Users, Forward(conv, conv'),
           \A d \in Handlers \ {c} : call[d].op = "inserted" => msg'[call[d].msg] = msg[call[d].msg],
           Rows', Kinds', Shelved'
    PROVE  Inv'
<1>1. Idle \in Request /\ Idle.op = "idle"
  BY DEF Idle, Request, Steps, Statuses
<1>2. TrueIn(Idle, conv', msg', clock', met')
  BY DEF TrueIn, Idle
<1>3. /\ call' \in [Handlers -> Request]
      /\ \A d \in Handlers : TrueIn(call'[d], conv', msg', clock', met')
  <2>1. clock' \in Nat
    BY DEF Messages
  <2>2. met => met'
    BY DEF relations
  <2> QED
    BY <1>1, <1>2, <2>1, <2>2, Others DEF Done, Go
<1>4. TypeOK'
  BY <1>3 DEF Inv, TypeOK, relations
<1>5. Apart'
  <2>1. \A d \in Handlers : call'[d] = IF d = c THEN Idle ELSE call[d]
    BY DEF Inv, TypeOK, Done, Go
  <2> QED
    BY <1>1, <2>1 DEF Inv, Apart
<1> QED
  BY <1>3, <1>4, <1>5 DEF Inv, CallTrue

---------------------------------------------------------------------------
(* Each action *)

LEMMA InitInv == Init => Inv
<1> SUFFICES ASSUME Init PROVE Inv
  OBVIOUS
<1> USE DEF Init
<1>1. TypeOK
  BY DEF TypeOK, Conversation, Message, Request, NoMessage, Idle, Statuses, Steps, Messages
<1>2. Kept = {}
  BY DEF Kept, NoMessage
<1>3. Rows /\ Kinds /\ Shelved /\ Apart
  BY <1>2 DEF Rows, Kinds, Shelved, Apart, Idle
<1>4. \A c \in Handlers : CallTrue(call[c])
  BY DEF CallTrue, TrueIn, Idle
<1> QED
  BY <1>1, <1>3, <1>4 DEF Inv

\* The requests begin, read and are refused.
LEMMA ReadSteps ==
    ASSUME Inv, NEW c \in Handlers,
           BeginInitiate(c) \/ Retry(c) \/ Route(c) \/ Check(c) \/ BeginSend(c) \/ BeginHandle(c)
             \/ BeginRecall(c) \/ RecallRead(c) \/ BeginArchive(c) \/ Refuse(c)
    PROVE  Inv'
<1>1. call[c] \in Request /\ CallTrue(call[c])
  BY DEF Inv, TypeOK
<1> USE DEF CallTrue, TrueIn, Request, Statuses, Steps, Idle, Begin, Running, Occurs, Reads, relations
<1>2. CASE BeginInitiate(c)
  <2>1. PICK u \in Users, req \in Reqs :
           Begin(c, "initiate", [Idle EXCEPT !.op = "route", !.user = u, !.req = req])
    BY <1>2 DEF BeginInitiate
  <2> DEFINE k == [Idle EXCEPT !.op = "route", !.user = u, !.req = req]
  <2>2. k \in Request /\ k.op # "inserted" /\ CallTrue(k)
    OBVIOUS
  <2> QED
    BY <2>1, <2>2, ReadStep
<1>3. CASE Retry(c)
  <2> DEFINE k == [call[c] EXCEPT !.op = "route"]
  <2>1. k \in Request /\ k.op # "inserted" /\ CallTrue(k)
    BY <1>1, <1>3 DEF Retry
  <2> QED
    BY <1>3, <2>1, ReadStep DEF Retry
<1>4. CASE Route(c)
  <2> DEFINE k == [call[c] EXCEPT !.op = Path, !.seen = conv.status, !.next = NextStatus(call[c].user)]
  <2>1. k \in Request
    BY <1>1 DEF Path, NextStatus, Inv, TypeOK, Conversation
  <2>2. k.user \in Users /\ ~Waiting(k.user) /\ conv.status \in Statuses
    BY <1>1, <1>4 DEF Route, Inv, TypeOK, Conversation
  <2>3. k.op # "inserted" /\ CallTrue(k)
    BY <1>1, <2>2 DEF Path, NextStatus, Waiting, Inv, Rows
  <2> QED
    BY <1>4, <2>1, <2>3, ReadStep DEF Route
<1>5. CASE Check(c)
  <2>1. PICK op \in {"create", "transition", "accept"} :
           /\ Running(c, op)
           /\ Go(c, [call[c] EXCEPT !.op = CASE op = "create" -> "creating" [] op = "accept" -> "accepting"
                                             [] OTHER -> "changing"])
    BY <1>5 DEF Check
  <2> DEFINE k == [call[c] EXCEPT !.op = CASE op = "create" -> "creating" [] op = "accept" -> "accepting"
                                             [] OTHER -> "changing"]
  <2>2. k \in Request /\ k.op # "inserted" /\ CallTrue(k)
    BY <1>1, <2>1
  <2> QED
    BY <1>5, <2>1, <2>2, ReadStep DEF Check
<1>6. CASE BeginSend(c)
  <2>1. PICK u \in Users, req \in Reqs :
           Begin(c, "send", [Idle EXCEPT !.op = "send", !.user = u, !.req = req, !.seen = "ACCEPTED"])
    BY <1>6 DEF BeginSend
  <2> DEFINE k == [Idle EXCEPT !.op = "send", !.user = u, !.req = req, !.seen = "ACCEPTED"]
  <2>2. k \in Request /\ k.op # "inserted" /\ CallTrue(k)
    BY <1>6 DEF BeginSend
  <2> QED
    BY <2>1, <2>2, ReadStep
<1>7. CASE BeginHandle(c)
  <2>1. PICK u \in Users, answer \in {"accept", "decline"} :
           Begin(c, answer, [Idle EXCEPT !.op = answer, !.user = u])
    BY <1>7 DEF BeginHandle
  <2> DEFINE k == [Idle EXCEPT !.op = answer, !.user = u]
  <2>2. k \in Request /\ k.op # "inserted" /\ CallTrue(k)
    OBVIOUS
  <2> QED
    BY <2>1, <2>2, ReadStep
<1>8. CASE BeginRecall(c)
  <2>1. PICK m \in Messages :
           /\ msg[m].state = "live"
           /\ Begin(c, "recall", [Idle EXCEPT !.op = "recall", !.user = msg[m].from, !.msg = m])
    BY <1>8 DEF BeginRecall
  <2> DEFINE k == [Idle EXCEPT !.op = "recall", !.user = msg[m].from, !.msg = m]
  <2>2. msg[m].from \in Users
    BY <2>1 DEF Inv, Rows, Kept
  <2>3. k \in Request /\ k.op # "inserted" /\ CallTrue(k)
    BY <2>2
  <2> QED
    BY <2>1, <2>3, ReadStep
<1>9. CASE RecallRead(c)
  <2>1. CASE Pending(call[c].user) /\ Go(c, [call[c] EXCEPT !.op = "cancel"])
    <3> DEFINE k == [call[c] EXCEPT !.op = "cancel"]
    <3>1. k \in Request /\ k.op # "inserted" /\ CallTrue(k)
      BY <1>1, <1>9 DEF RecallRead
    <3> QED
      BY <1>9, <2>1, <3>1, ReadStep DEF RecallRead
  <2>2. CASE conv.status = "ACCEPTED" /\ Go(c, [call[c] EXCEPT !.op = "blank"])
    <3> DEFINE k == [call[c] EXCEPT !.op = "blank"]
    <3>1. k \in Request /\ k.op # "inserted" /\ CallTrue(k)
      BY <1>1, <1>9, <2>2 DEF RecallRead
    <3> QED
      BY <1>9, <2>2, <3>1, ReadStep DEF RecallRead
  <2> QED
    BY <1>9, <2>1, <2>2 DEF RecallRead
<1>10. CASE BeginArchive(c)
  <2>1. PICK u \in Users, value \in BOOLEAN :
           MayArchive(u) /\ Begin(c, "archive", [Idle EXCEPT !.op = "archive", !.user = u, !.flag = value])
    BY <1>10 DEF BeginArchive
  <2> DEFINE k == [Idle EXCEPT !.op = "archive", !.user = u, !.flag = value]
  <2>2. k \in Request /\ k.op # "inserted" /\ CallTrue(k)
    BY <2>1 DEF MayArchive, Pending
  <2> QED
    BY <2>1, <2>2, ReadStep
<1>11. CASE Refuse(c)
  <2>1. Idle \in Request /\ Idle.op # "inserted" /\ CallTrue(Idle)
    OBVIOUS
  <2> QED
    BY <1>11, <2>1, ReadStep DEF Refuse, Done
<1> QED
  BY <1>2, <1>3, <1>4, <1>5, <1>6, <1>7, <1>8, <1>9, <1>10, <1>11

\* An insertion numbers a message after every other.
LEMMA Fresh ==
    ASSUME Inv, load.messages \in Nat, load.messages <= MaxMessages, clock < load.messages
    PROVE  /\ clock + 1 \in Messages /\ clock \in Nat
           /\ msg[clock + 1] = NoMessage /\ clock + 1 \notin Kept
           /\ \A c \in Handlers : call[c].op = "inserted" => call[c].msg # clock + 1
<1>1. clock \in Nat /\ clock + 1 \in Messages
  BY DEF Inv, TypeOK, Messages
<1>2. msg[clock + 1] = NoMessage
  BY <1>1 DEF Inv, Rows
<1>3. clock + 1 \notin Kept
  BY <1>2 DEF Kept, NoMessage
<1>4. ASSUME NEW c \in Handlers, call[c].op = "inserted" PROVE call[c].msg # clock + 1
  <2>1. call[c].msg <= clock
    BY <1>4 DEF Inv, CallTrue, TrueIn
  <2>2. call[c].msg \in Nat
    BY <1>4 DEF Inv, CallTrue, TrueIn, Messages
  <2> QED
    BY <1>1, <2>1, <2>2
<1> QED
  BY <1>1, <1>2, <1>3, <1>4

LEMMA Bounds == ASSUME Inv PROVE load.messages \in Nat /\ load.messages <= MaxMessages
  BY DEF Inv, TypeOK

\* A message a handler has inserted and not committed is no row of the others.
LEMMA Reserved ==
    ASSUME Inv, NEW d \in Handlers, call[d].op = "inserted"
    PROVE  call[d].msg \in Messages /\ msg[call[d].msg] = NoMessage /\ call[d].msg \notin Kept
           /\ conv.status = "ACCEPTED"
<1>1. CallTrue(call[d])
  BY DEF Inv
<1> QED
  BY <1>1 DEF CallTrue, TrueIn, Kept, NoMessage

LEMMA CreateStep == ASSUME Inv, NEW c \in Handlers, Create(c) PROVE Inv'
<1> DEFINE k == call[c]
<1>1. k \in Request /\ CallTrue(k) /\ k.op = "creating"
  BY DEF Inv, TypeOK, Create, Running
<1>2. k.user \in Users /\ k.next \in {"PENDING", "ACCEPTED"} /\ k.req \in Reqs \union {None}
  BY <1>1 DEF CallTrue, TrueIn, Request
<1>3. UNCHANGED <<relations, load>>
  BY DEF Create, Running
<1>4. CASE conv.status = "NEW"
  <2>1. /\ clock < load.messages /\ clock' = clock + 1 /\ Done(c)
        /\ conv' = [status |-> k.next, from |-> k.user, last |-> clock + 1]
        /\ msg' = [msg EXCEPT ![clock + 1] = NewMessage(k)]
        /\ archived' = archived
    BY <1>4 DEF Create
  <2>2. /\ clock + 1 \in Messages /\ clock \in Nat
        /\ \A d \in Handlers : call[d].op = "inserted" => call[d].msg # clock + 1
    BY <2>1, Fresh, Bounds
  <2>3. NewMessage(k) \in Message
    BY <1>2 DEF NewMessage, Message
  <2>4. Kept = {} /\ archived = {}
    BY <1>4 DEF Inv, Kinds, Shelved, Rows, TypeOK, DirectMessagesAssumption
  <2>5. Kept' = {clock + 1}
    BY <2>1, <2>2, <2>4 DEF Kept, NewMessage, Inv, TypeOK
  <2>6. Rows'
    BY <1>2, <1>3, <2>1, <2>2, <2>5 DEF Rows, Inv, TypeOK, NewMessage, relations, Messages
  <2>7. Kinds' /\ Shelved'
    BY <1>2, <2>1, <2>2, <2>4, <2>5 DEF Kinds, Shelved, NewMessage, Inv, TypeOK
  <2>8. Forward(conv, conv')
    BY <1>2, <1>4, <2>1 DEF Forward, Inv, Rows
  <2>9. /\ conv' \in Conversation /\ msg' \in [Messages -> Message] /\ clock' \in Messages \union {0}
        /\ clock <= clock' /\ archived' \subseteq Users
    BY <1>2, <2>1, <2>2, <2>3, <2>4 DEF Conversation, Statuses, Inv, TypeOK
  <2>10. \A d \in Handlers \ {c} : call[d].op = "inserted" => msg'[call[d].msg] = msg[call[d].msg]
    BY <2>1, <2>2, Reserved DEF Inv, TypeOK
  <2> QED
    BY <1>3, <2>1, <2>6, <2>7, <2>8, <2>9, <2>10, CommitStep
<1>5. CASE conv.status # "NEW"
  <2> DEFINE j == [k EXCEPT !.op = "again", !.flag = TRUE]
  <2>1. j \in Request /\ j.op # "inserted" /\ CallTrue(j)
    BY <1>1 DEF Request, Steps, CallTrue, TrueIn
  <2>2. Go(c, j) /\ Reads
    BY <1>5 DEF Create
  <2> QED
    BY <1>3, <2>1, <2>2, ReadStep
<1> QED
  BY <1>4, <1>5

\* Marking messages as read changes nothing else of them.
LEMMA ReadOnly ==
    ASSUME TypeOK, NEW u, NEW through
    PROVE  /\ ReadBy(u, through) \in [Messages -> Message]
           /\ \A m \in Messages : /\ ReadBy(u, through)[m].state = msg[m].state
                                  /\ ReadBy(u, through)[m].from = msg[m].from
                                  /\ msg[m] = NoMessage => ReadBy(u, through)[m] = NoMessage
<1>1. ASSUME NEW m \in Messages PROVE
        /\ ReadBy(u, through)[m] \in Message
        /\ ReadBy(u, through)[m].state = msg[m].state
        /\ ReadBy(u, through)[m].from = msg[m].from
        /\ msg[m] = NoMessage => ReadBy(u, through)[m] = NoMessage
  <2>1. msg[m] \in Message
    BY <1>1 DEF TypeOK
  <2>2. CASE msg[m].state # "none" /\ msg[m].from # u /\ m <= through
    <3>1. ReadBy(u, through)[m] = [msg[m] EXCEPT !.read = TRUE]
      BY <1>1, <2>2 DEF ReadBy
    <3>2. msg[m] # NoMessage
      BY <2>2 DEF NoMessage
    <3>3. [msg[m] EXCEPT !.read = TRUE] \in Message
      BY <2>1 DEF Message
    <3>4. /\ [msg[m] EXCEPT !.read = TRUE].state = msg[m].state
          /\ [msg[m] EXCEPT !.read = TRUE].from = msg[m].from
      BY <2>1 DEF Message
    <3> QED
      BY <3>1, <3>2, <3>3, <3>4
  <2>3. CASE ~(msg[m].state # "none" /\ msg[m].from # u /\ m <= through)
    <3>1. ReadBy(u, through)[m] = msg[m]
      BY <1>1, <2>3 DEF ReadBy
    <3> QED
      BY <2>1, <3>1
  <2> QED
    BY <2>2, <2>3
<1> QED
  BY <1>1 DEF ReadBy

\* A transition changes the roles as its route decided and adds one message.
LEMMA TransitionEffect ==
    ASSUME Inv, NEW c \in Handlers, Transition(c), NEW k, k = call[c]
    PROVE  /\ UNCHANGED <<relations, load>> /\ Done(c) /\ archived' = {} /\ clock' = clock + 1
           /\ conv' = [status |-> k.next, from |-> k.user, last |-> clock + 1]
           /\ k.user \in Users /\ conv.status = k.seen
           /\ k.seen \in {"PENDING", "DECLINED", "CANCELED"} /\ k.next \in {"PENDING", "ACCEPTED"}
           /\ k.next = "PENDING" => k.seen = "CANCELED" /\ conv.from = k.user
           /\ k.next = "ACCEPTED" => conv.from # k.user \/ (met /\ k.seen = "CANCELED")
           /\ clock + 1 \in Messages /\ clock \in Nat /\ clock + 1 \notin Kept
           /\ msg' \in [Messages -> Message] /\ Kept' = Kept \union {clock + 1}
           /\ msg'[clock + 1].from = k.user /\ msg'[clock + 1] # NoMessage
           /\ \A m \in Messages \ {clock + 1} : /\ msg'[m].from = msg[m].from
                                                /\ msg[m] = NoMessage => msg'[m] = NoMessage
           /\ \A d \in Handlers : call[d].op = "inserted" => call[d].msg # clock + 1
<1> DEFINE before == IF k.seen = "PENDING" THEN ReadBy(k.user, MaxMessages) ELSE msg
<1>1. /\ k \in Request /\ CallTrue(k) /\ k.op = "changing" /\ conv.status = k.seen
      /\ UNCHANGED <<relations, load>>
  BY DEF Inv, TypeOK, Transition, Running, StillSeen
<1>2. /\ clock < load.messages /\ clock' = clock + 1 /\ Done(c) /\ archived' = {}
      /\ conv' = [status |-> k.next, from |-> k.user, last |-> clock + 1]
      /\ msg' = [before EXCEPT ![clock + 1] = NewMessage(k)]
  BY DEF Transition
<1>3. /\ clock + 1 \in Messages /\ clock \in Nat
      /\ \A d \in Handlers : call[d].op = "inserted" => call[d].msg # clock + 1
      /\ clock + 1 \notin Kept
  BY <1>2, Fresh, Bounds
<1>4. k.user \in Users /\ k.req \in Reqs \union {None} /\ conv.status # "NEW"
  BY <1>1 DEF CallTrue, TrueIn, Request
<1>5. /\ k.seen \in {"PENDING", "DECLINED", "CANCELED"} /\ k.next \in {"PENDING", "ACCEPTED"}
      /\ k.next = "PENDING" => k.seen = "CANCELED" /\ conv.from = k.user
      /\ k.next = "ACCEPTED" => conv.from # k.user \/ (met /\ k.seen = "CANCELED")
  BY <1>1 DEF CallTrue, TrueIn
<1>6. /\ before \in [Messages -> Message]
      /\ \A m \in Messages : /\ before[m].state = msg[m].state /\ before[m].from = msg[m].from
                             /\ msg[m] = NoMessage => before[m] = NoMessage
  BY <1>4, ReadOnly DEF Inv, TypeOK
<1>7. NewMessage(k) \in Message
  BY <1>4 DEF NewMessage, Message
<1>8. msg' \in [Messages -> Message] /\ Kept' = Kept \union {clock + 1}
  BY <1>2, <1>3, <1>6, <1>7 DEF Kept, NewMessage
<1>9. msg'[clock + 1] = NewMessage(k) /\ \A m \in Messages \ {clock + 1} : msg'[m] = before[m]
  BY <1>2, <1>3, <1>6
<1>10. NewMessage(k).from = k.user /\ NewMessage(k) # NoMessage
  BY DEF NewMessage, NoMessage
<1> QED
  BY <1>1, <1>2, <1>3, <1>4, <1>5, <1>6, <1>8, <1>9, <1>10

LEMMA TransitionStep == ASSUME Inv, NEW c \in Handlers, Transition(c) PROVE Inv'
<1> DEFINE m == clock + 1
<1>1. PICK k : k = call[c]
  OBVIOUS
<1>2. /\ UNCHANGED <<relations, load>> /\ Done(c) /\ archived' = {} /\ clock' = m
      /\ conv' = [status |-> k.next, from |-> k.user, last |-> m]
      /\ k.user \in Users /\ conv.status = k.seen
      /\ k.seen \in {"PENDING", "DECLINED", "CANCELED"} /\ k.next \in {"PENDING", "ACCEPTED"}
      /\ k.next = "PENDING" => k.seen = "CANCELED" /\ conv.from = k.user
      /\ m \in Messages /\ clock \in Nat
      /\ msg' \in [Messages -> Message] /\ Kept' = Kept \union {m}
      /\ msg'[m].from = k.user
      /\ \A n \in Messages \ {m} : /\ msg'[n].from = msg[n].from
                                   /\ msg[n] = NoMessage => msg'[n] = NoMessage
      /\ \A d \in Handlers : call[d].op = "inserted" => call[d].msg # m
  BY <1>1, TransitionEffect
<1>3. Rows'
  <2>1. \A n \in Messages : n > clock' => msg'[n] = NoMessage
    BY <1>2 DEF Inv, Rows, Messages
  <2>2. \A n \in Kept' : msg'[n].from \in Users
    BY <1>2 DEF Inv, Rows, Kept
  <2> QED
    BY <1>2, <2>1, <2>2 DEF Inv, Rows, relations
<1>4. Kinds' /\ Shelved'
  <2>1. k.next = "PENDING" => Kept' = {m}
    BY <1>2 DEF Inv, Kinds
  <2> QED
    BY <1>2, <2>1 DEF Kinds, Shelved
<1>5. Forward(conv, conv')
  BY <1>2 DEF Forward, Inv, Rows
<1>6. /\ conv' \in Conversation /\ clock' \in Messages \union {0}
      /\ clock <= clock' /\ archived' \subseteq Users
  BY <1>2 DEF Conversation, Statuses
<1>7. \A d \in Handlers \ {c} : call[d].op = "inserted" => msg'[call[d].msg] = msg[call[d].msg]
  BY <1>2, Reserved
<1> QED
  BY <1>2, <1>3, <1>4, <1>5, <1>6, <1>7, CommitStep

LEMMA CommitSendStep == ASSUME Inv, NEW c \in Handlers, CommitSend(c) PROVE Inv'
<1> DEFINE k == call[c]
<1>1. /\ k \in Request /\ k.op = "inserted" /\ CallTrue(k)
      /\ UNCHANGED <<relations, load, clock>> /\ Done(c) /\ archived' = {}
      /\ conv' = [conv EXCEPT !.last = k.msg] /\ msg' = [msg EXCEPT ![k.msg] = NewMessage(k)]
  BY DEF Inv, TypeOK, CommitSend, Running
<1>2. /\ k.msg \in Messages /\ k.msg <= clock /\ msg[k.msg] = NoMessage /\ conv.status = "ACCEPTED"
      /\ k.user \in Users /\ k.req \in Reqs \union {None}
  BY <1>1 DEF CallTrue, TrueIn, Request
<1>3. NewMessage(k) \in Message
  BY <1>2 DEF NewMessage, Message
<1>4. msg' \in [Messages -> Message] /\ Kept' = Kept \union {k.msg}
  BY <1>1, <1>2, <1>3 DEF Kept, NewMessage, Inv, TypeOK
<1>5. /\ conv' \in Conversation /\ conv'.status = "ACCEPTED" /\ conv'.from = conv.from
      /\ conv'.last = k.msg
  BY <1>1, <1>2 DEF Inv, TypeOK, Conversation
<1>6. Rows'
  <2>1. \A m \in Messages : m > clock' => msg'[m] = NoMessage
    BY <1>1, <1>2 DEF Inv, TypeOK, Rows, Messages
  <2>2. \A m \in Kept' : msg'[m].from \in Users
    BY <1>1, <1>2, <1>4 DEF Inv, Rows, TypeOK, NewMessage, Kept
  <2> QED
    BY <1>1, <1>2, <1>5, <2>1, <2>2 DEF Inv, Rows, relations
<1>7. Kinds' /\ Shelved'
  BY <1>1, <1>2, <1>4, <1>5 DEF Kinds, Shelved, Messages
<1>8. Forward(conv, conv')
  BY <1>2, <1>5 DEF Forward, Inv, Rows
<1>9. \A d \in Handlers \ {c} : call[d].op = "inserted" => msg'[call[d].msg] = msg[call[d].msg]
  BY <1>1, <1>2, Reserved DEF Inv, TypeOK, Apart
<1>10. clock' \in Messages \union {0} /\ clock <= clock' /\ archived' \subseteq Users
  BY <1>1 DEF Inv, TypeOK, Messages
<1> QED
  BY <1>1, <1>4, <1>5, <1>6, <1>7, <1>8, <1>9, <1>10, CommitStep

LEMMA AcceptStep == ASSUME Inv, NEW c \in Handlers, AcceptRequest(c) PROVE Inv'
<1> DEFINE u == call[c].user
<1>1. /\ UNCHANGED <<relations, load, clock, archived>> /\ Done(c)
      /\ conv' = [conv EXCEPT !.status = "ACCEPTED"] /\ msg' = ReadBy(u, MaxMessages)
      /\ conv.status = "PENDING"
  BY DEF AcceptRequest, Running, Received, Pending
<1>2. /\ msg' \in [Messages -> Message]
      /\ \A m \in Messages : /\ msg'[m].state = msg[m].state /\ msg'[m].from = msg[m].from
                             /\ msg[m] = NoMessage => msg'[m] = NoMessage
  BY <1>1, ReadOnly DEF Inv
<1>3. Kept' = Kept
  BY <1>2 DEF Kept
<1>4. /\ conv' \in Conversation /\ conv'.status = "ACCEPTED" /\ conv'.from = conv.from
      /\ conv'.last = conv.last
  BY <1>1 DEF Inv, TypeOK, Conversation, Statuses
<1>5. Rows'
  BY <1>1, <1>2, <1>3, <1>4 DEF Inv, Rows, relations, Kept
<1>6. Kinds' /\ Shelved'
  BY <1>1, <1>3, <1>4 DEF Inv, Kinds, Shelved
<1>7. Forward(conv, conv')
  BY <1>1, <1>4 DEF Forward, Inv, Rows
<1>8. \A d \in Handlers \ {c} : call[d].op = "inserted" => msg'[call[d].msg] = msg[call[d].msg]
  BY <1>1, Reserved
<1>9. clock' \in Messages \union {0} /\ clock <= clock' /\ archived' \subseteq Users
  BY <1>1 DEF Inv, TypeOK, Messages
<1> QED
  BY <1>1, <1>2, <1>4, <1>5, <1>6, <1>7, <1>8, <1>9, CommitStep

\* A request that is declined or cancelled loses its message.
LEMMA EndStep ==
    ASSUME Inv, NEW c \in Handlers, DeclineRequest(c) \/ CancelRequest(c)
    PROVE  Inv'
<1>1. PICK s \in {"DECLINED", "CANCELED"} :
         /\ conv' = [conv EXCEPT !.status = s, !.last = 0]
         /\ UNCHANGED <<relations, load, clock, archived>> /\ Done(c) /\ msg' = Deleted
         /\ conv.status = "PENDING"
  BY DEF DeclineRequest, CancelRequest, Running, Received, Pending, StillRequested
<1>2. \A m \in Messages : msg'[m] = IF m \in Kept THEN [NoMessage EXCEPT !.state = "deleted"] ELSE msg[m]
  BY <1>1 DEF Deleted
<1>3. msg' \in [Messages -> Message] /\ Kept' = {}
  BY <1>1, <1>2 DEF Kept, Deleted, NoMessage, Message, Inv, TypeOK
<1>4. /\ conv' \in Conversation /\ conv'.status = s /\ conv'.from = conv.from /\ conv'.last = 0
  BY <1>1 DEF Inv, TypeOK, Conversation, Statuses
<1>5. Rows'
  <2>1. \A m \in Messages : msg[m] = NoMessage => msg'[m] = NoMessage
    BY <1>2 DEF Kept, NoMessage
  <2> QED
    BY <1>1, <1>3, <1>4, <2>1 DEF Inv, Rows, relations
<1>6. Kinds' /\ Shelved'
  BY <1>1, <1>3, <1>4 DEF Inv, Kinds, Shelved
<1>7. Forward(conv, conv')
  BY <1>1, <1>4 DEF Forward, Inv, Rows
<1>8. \A d \in Handlers \ {c} : call[d].op = "inserted" => msg'[call[d].msg] = msg[call[d].msg]
  BY <1>1, Reserved
<1>9. clock' \in Messages \union {0} /\ clock <= clock' /\ archived' \subseteq Users
  BY <1>1 DEF Inv, TypeOK, Messages
<1> QED
  BY <1>1, <1>3, <1>4, <1>5, <1>6, <1>7, <1>8, <1>9, CommitStep

LEMMA BlankStep == ASSUME Inv, NEW c \in Handlers, Blank(c) PROVE Inv'
<1> DEFINE m == call[c].msg
<1>1. /\ UNCHANGED <<relations, load, conv, clock, archived>> /\ Done(c) /\ msg[m].state = "live"
      /\ msg' = [msg EXCEPT ![m].state = "recalled"] /\ conv.status = "ACCEPTED"
      /\ m \in Messages /\ msg \in [Messages -> Message]
  BY DEF Blank, Running, Inv, CallTrue, TrueIn, TypeOK
<1>2. ASSUME NEW n \in Messages
      PROVE  /\ msg'[n] \in Message /\ msg'[n].from = msg[n].from
             /\ msg[n] = NoMessage => msg'[n] = NoMessage
             /\ msg'[n].state \in {"live", "recalled"} <=> msg[n].state \in {"live", "recalled"}
  <2>1. CASE n # m
    BY <1>1, <2>1
  <2>2. CASE n = m
    <3>1. msg'[n] = [msg[n] EXCEPT !.state = "recalled"] /\ msg[n] \in Message /\ msg[n].state = "live"
      BY <1>1, <2>2
    <3>2. msg[n] # NoMessage
      BY <3>1 DEF NoMessage
    <3> QED
      BY <3>1, <3>2 DEF Message
  <2> QED
    BY <2>1, <2>2
<1>3. msg' \in [Messages -> Message]
  BY <1>1, <1>2
<1>4. Kept' = Kept
  BY <1>2 DEF Kept
<1>5. Rows'
  BY <1>1, <1>2, <1>4 DEF Inv, Rows, relations, Kept
<1>6. Kinds' /\ Shelved' /\ Forward(conv, conv')
  BY <1>1, <1>4 DEF Inv, Kinds, Shelved, Forward, Rows
<1>7. \A d \in Handlers \ {c} : call[d].op = "inserted" => msg'[call[d].msg] = msg[call[d].msg]
  BY <1>2, Reserved
<1>8. conv' \in Conversation /\ clock' \in Messages \union {0} /\ clock <= clock' /\ archived' \subseteq Users
  BY <1>1 DEF Inv, TypeOK, Messages
<1> QED
  BY <1>1, <1>3, <1>5, <1>6, <1>7, <1>8, CommitStep

LEMMA ArchiveStep == ASSUME Inv, NEW c \in Handlers, CommitArchive(c) PROVE Inv'
<1> DEFINE k == call[c]
<1>1. /\ UNCHANGED <<relations, load, conv, msg, clock>> /\ Done(c)
      /\ archived' = IF k.flag THEN archived \union {k.user} ELSE archived \ {k.user}
      /\ k.user \in Users /\ (conv.status = "ACCEPTED" \/ conv.from = k.user)
  BY DEF CommitArchive, Running, Inv, CallTrue, TrueIn
<1>2. Rows' /\ Kinds' /\ Forward(conv, conv') /\ Kept' = Kept
  BY <1>1 DEF Inv, Rows, Kinds, Forward, relations, Kept
<1>3. Shelved'
  BY <1>1 DEF Inv, Shelved
<1>4. /\ conv' \in Conversation /\ msg' \in [Messages -> Message]
      /\ clock' \in Messages \union {0} /\ clock <= clock' /\ archived' \subseteq Users
  BY <1>1 DEF Inv, TypeOK, Messages
<1> QED
  BY <1>1, <1>2, <1>3, <1>4, CommitStep

\* The message gets its number; nobody else sees it before COMMIT.
LEMMA InsertStep == ASSUME Inv, NEW c \in Handlers, Insert(c) PROVE Inv'
<1>0. PICK k : k = [call[c] EXCEPT !.op = "inserted", !.msg = clock + 1]
  OBVIOUS
<1>1. /\ UNCHANGED <<relations, load, conv, msg, archived>> /\ Go(c, k)
      /\ clock < load.messages /\ clock' = clock + 1 /\ conv.status = "ACCEPTED"
      /\ call[c] \in Request /\ CallTrue(call[c]) /\ call[c].op = "send"
  BY <1>0 DEF Insert, Running, Inv, TypeOK
<1>2. /\ clock + 1 \in Messages /\ clock \in Nat /\ msg[clock + 1] = NoMessage
      /\ \A d \in Handlers : call[d].op = "inserted" => call[d].msg # clock + 1
  BY <1>1, Fresh, Bounds
<1>3. k \in Request /\ k.op = "inserted" /\ k.msg = clock + 1 /\ k.user \in Users
  BY <1>0, <1>1, <1>2 DEF Request, Steps, CallTrue, TrueIn
<1>4. TrueIn(k, conv', msg', clock', met')
  BY <1>0, <1>1, <1>2, <1>3 DEF TrueIn
<1>5. Rows' /\ Kinds' /\ Shelved' /\ Forward(conv, conv')
  BY <1>1, <1>2 DEF Inv, Rows, Kinds, Shelved, Forward, relations, Kept, Messages
<1>6. /\ call' \in [Handlers -> Request]
      /\ \A d \in Handlers : TrueIn(call'[d], conv', msg', clock', met')
  <2>1. call' = [call EXCEPT ![c] = k]
    BY <1>1 DEF Go
  <2>2. /\ met => met'
        /\ clock' \in Nat /\ clock <= clock'
        /\ \A d \in Handlers \ {c} : call[d].op = "inserted" => msg'[call[d].msg] = msg[call[d].msg]
    BY <1>1, <1>2 DEF relations
  <2> QED
    BY <1>3, <1>4, <1>5, <2>1, <2>2, Others
<1>7. TypeOK'
  BY <1>1, <1>2, <1>6 DEF Inv, TypeOK, relations
<1>8. Apart'
  <2>1. \A d \in Handlers : call'[d] = IF d = c THEN k ELSE call[d]
    BY <1>1 DEF Inv, TypeOK, Go
  <2> QED
    BY <1>2, <1>3, <2>1 DEF Inv, Apart
<1> QED
  BY <1>5, <1>6, <1>7, <1>8 DEF Inv, CallTrue

\* The steps that are no request of a handler.
LEMMA OutsideStep == ASSUME Inv, MarkRead \/ Follow \/ Block PROVE Inv'
<1>1. UNCHANGED <<conv, clock, archived, call, load>>
  BY DEF MarkRead, Follow, Block, Occurs, rows, relations
<1>2. /\ msg' \in [Messages -> Message]
      /\ \A m \in Messages : /\ msg'[m].state = msg[m].state /\ msg'[m].from = msg[m].from
                             /\ msg[m] = NoMessage => msg'[m] = NoMessage
  <2>1. CASE msg' = msg
    BY <2>1 DEF Inv, TypeOK
  <2>2. CASE MarkRead
    <3>1. PICK u \in Users, through \in Kept : msg' = ReadBy(u, through)
      BY <2>2 DEF MarkRead
    <3> QED
      BY <3>1, ReadOnly DEF Inv
  <2> QED
    BY <2>1, <2>2 DEF Follow, Block, rows
<1>3. Kept' = Kept
  BY <1>2 DEF Kept
<1>4. /\ mutual' \in BOOLEAN /\ met' \in BOOLEAN /\ blocked' \in BOOLEAN
      /\ (mutual' => met') /\ (met => met')
  <2>1. mutual \in BOOLEAN /\ met \in BOOLEAN /\ blocked \in BOOLEAN /\ (mutual => met)
    BY DEF Inv, TypeOK, Rows
  <2>2. CASE MarkRead
    BY <2>1, <2>2 DEF MarkRead, relations
  <2>3. CASE Follow
    <3>1. mutual' = ~mutual /\ met' = (met \/ mutual') /\ blocked' = blocked
      BY <2>3 DEF Follow
    <3> QED
      BY <2>1, <3>1, Zenon
  <2>4. CASE Block
    <3>1. blocked' = ~blocked /\ mutual' = FALSE /\ met' = met
      BY <2>4 DEF Block
    <3> QED
      BY <2>1, <3>1, Zenon
  <2> QED
    BY <2>2, <2>3, <2>4
<1>5. TypeOK'
  BY <1>1, <1>2, <1>4 DEF Inv, TypeOK
<1>6. Rows' /\ Kinds' /\ Shelved' /\ Forward(conv, conv')
  BY <1>1, <1>2, <1>3, <1>4 DEF Inv, Rows, Kinds, Shelved, Forward, Kept
<1>7. Apart'
  BY <1>1 DEF Inv, Apart
<1>8. ASSUME NEW d \in Handlers PROVE CallTrue(call[d])'
  <2>1. CallTrue(call[d]) /\ clock \in Nat
    BY <1>8 DEF Inv, TypeOK, Messages
  <2>2. call[d].op = "inserted" => msg'[call[d].msg] = msg[call[d].msg]
    BY <1>2, Reserved, <1>8
  <2> QED
    BY <1>1, <1>4, <1>6, <2>1, <2>2, Steady DEF CallTrue
<1> QED
  BY <1>5, <1>6, <1>7, <1>8 DEF Inv

LEMMA InvHolds == Spec => []Inv
<1>1. Inv /\ [Next]_vars => Inv'
  <2> SUFFICES ASSUME Inv, [Next]_vars PROVE Inv'
    OBVIOUS
  <2>1. CASE UNCHANGED vars
    BY <2>1 DEF vars, Inv, TypeOK, Rows, Kinds, Shelved, Apart, CallTrue, Kept
  <2>2. ASSUME NEW c \in Handlers,
               Sending(c) \/ Answer(c) \/ BeginArchive(c) \/ CommitArchive(c) \/ Refuse(c)
        PROVE  Inv'
    BY <2>2, ReadSteps, CreateStep, TransitionStep, InsertStep, CommitSendStep, AcceptStep, EndStep,
       BlankStep, ArchiveStep DEF Sending, Answer
  <2> QED
    BY <2>1, <2>2, OutsideStep DEF Next
<1> QED
  BY InitInv, <1>1, PTL DEF Spec

---------------------------------------------------------------------------
(* What it gives *)

\* Every variable has its type.
THEOREM Typed == Spec => []TypeOK
  BY InvHolds, PTL DEF Inv

\* A pending request is one message of its requester, an ended one none, and lastMessageAt is
\* null exactly when the conversation has no message.
THEOREM OneLetter == Spec => []OneLetterPerRequest
<1>1. Inv => OneLetterPerRequest
  BY DEF Inv, Kinds, OneLetterPerRequest
<1> QED
  BY <1>1, InvHolds, PTL

\* The receiver of a pending request finds it in the list of requests.
THEOREM RequestIsListed == Spec => []RequestReaches
<1>1. Inv => RequestReaches
  BY DEF Inv, Shelved, RequestReaches
<1> QED
  BY <1>1, InvHolds, PTL

---------------------------------------------------------------------------
(* The detailed specification implements MessageRequest *)

\* The messages kept, as the protocol sees them.
Shown == {[from |-> msg[m].from, stamp |-> m] : m \in Kept}
Letter(u, m) == [from |-> u, stamp |-> m]

\* A message added to those kept is a letter added to the letters.
LEMMA OneMore ==
    ASSUME NEW m \in Messages, NEW u, Kept' = Kept \union {m}, m \notin Kept, msg'[m].from = u,
           \A n \in Kept : msg'[n].from = msg[n].from
    PROVE  Shown' = Shown \union {Letter(u, m)}
  BY DEF Shown, Letter

\* Nothing kept changes its sender.
LEMMA SameLetters ==
    ASSUME Kept' = Kept, \A n \in Kept : msg'[n].from = msg[n].from
    PROVE  Shown' = Shown
  BY DEF Shown

\* The first message of the two, or one after an ended request, asks or connects.
LEMMA CreateImplements ==
    ASSUME Inv, NEW c \in Handlers, Create(c), conv.status = "NEW"
    PROVE  Protocol!RequestNext
<1> DEFINE k == call[c]
           l == Letter(k.user, clock + 1)
<1>1. /\ k.op = "creating" /\ CallTrue(k) /\ UNCHANGED relations
      /\ clock < load.messages
      /\ conv' = [status |-> k.next, from |-> k.user, last |-> clock + 1]
      /\ msg' = [msg EXCEPT ![clock + 1] = NewMessage(k)]
  BY DEF Inv, Create, Running
<1>2. /\ k.user \in Users /\ k.next \in {"PENDING", "ACCEPTED"} /\ (k.next = "ACCEPTED" => met)
      /\ met' = met
  BY <1>1 DEF CallTrue, TrueIn, relations
<1>3. clock + 1 \in Messages /\ Kept = {}
  BY <1>1, Fresh, Bounds DEF Inv, Kinds
<1>4. Kept' = Kept \union {clock + 1} /\ msg'[clock + 1].from = k.user
  BY <1>1, <1>3 DEF Kept, NewMessage, Inv, TypeOK
<1>5. Shown' = Shown \union {l} /\ Shown = {}
  BY <1>3, <1>4, OneMore DEF Shown
<1>6. l \in Protocol!Letters /\ l.from = k.user
  BY <1>2, <1>3 DEF Protocol!Letters, Letter
<1>7. CASE k.next = "PENDING"
  <2>1. Protocol!Ask(k.user, l)
    BY <1>1, <1>2, <1>5, <1>7 DEF Protocol!Ask, Protocol!Asking, Protocol!Becomes, Shown
  <2> QED
    BY <1>2, <1>6, <2>1 DEF Protocol!RequestNext
<1>8. CASE k.next = "ACCEPTED"
  <2>1. Protocol!Connect(k.user, l)
    BY <1>1, <1>2, <1>5, <1>8 DEF Protocol!Connect, Protocol!Asking, Protocol!Becomes, Shown
  <2> QED
    BY <1>2, <1>6, <2>1 DEF Protocol!RequestNext
<1> QED
  BY <1>2, <1>7, <1>8

LEMMA TransitionImplements ==
    ASSUME Inv, NEW c \in Handlers, Transition(c)
    PROVE  Protocol!RequestNext
<1>1. PICK k : k = call[c]
  OBVIOUS
<1> DEFINE m == clock + 1
           l == Letter(k.user, m)
<1>2. /\ UNCHANGED relations
      /\ conv' = [status |-> k.next, from |-> k.user, last |-> m]
      /\ k.user \in Users /\ conv.status = k.seen
      /\ k.seen \in {"PENDING", "DECLINED", "CANCELED"} /\ k.next \in {"PENDING", "ACCEPTED"}
      /\ k.next = "PENDING" => k.seen = "CANCELED" /\ conv.from = k.user
      /\ k.next = "ACCEPTED" => conv.from # k.user \/ (met /\ k.seen = "CANCELED")
      /\ m \in Messages /\ m \notin Kept /\ Kept' = Kept \union {m} /\ msg'[m].from = k.user
      /\ \A n \in Messages \ {m} : msg'[n].from = msg[n].from
  BY <1>1, TransitionEffect
<1>3. met' = met /\ \A n \in Kept : msg'[n].from = msg[n].from
  BY <1>2 DEF relations, Kept
<1>4. Shown' = Shown \union {l}
  BY <1>2, <1>3, OneMore
<1>5. l \in Protocol!Letters /\ l.from = k.user
  BY <1>2 DEF Protocol!Letters, Letter
<1>6. CASE k.next = "PENDING"
  <2>1. Shown = {}
    BY <1>2, <1>6 DEF Inv, Kinds, Shown
  <2>2. Protocol!Ask(k.user, l)
    BY <1>2, <1>3, <1>4, <1>6, <2>1 DEF Protocol!Ask, Protocol!Asking, Protocol!Becomes, Shown
  <2> QED
    BY <1>2, <1>5, <2>2 DEF Protocol!RequestNext
<1>7. CASE k.next = "ACCEPTED"
  <2>1. Protocol!Answering(k.user) \/ (met /\ Protocol!Asking(k.user))
    BY <1>2, <1>7 DEF Protocol!Answering, Protocol!Asking
  <2>2. Protocol!Connect(k.user, l)
    BY <1>2, <1>3, <1>4, <1>7, <2>1 DEF Protocol!Connect, Protocol!Becomes, Shown
  <2> QED
    BY <1>2, <1>5, <2>2 DEF Protocol!RequestNext
<1> QED
  BY <1>2, <1>6, <1>7

LEMMA CommitSendImplements ==
    ASSUME Inv, NEW c \in Handlers, CommitSend(c)
    PROVE  Protocol!RequestNext
<1> DEFINE k == call[c]
           l == Letter(k.user, k.msg)
<1>1. /\ k.op = "inserted" /\ CallTrue(k) /\ UNCHANGED relations
      /\ conv' = [conv EXCEPT !.last = k.msg] /\ msg' = [msg EXCEPT ![k.msg] = NewMessage(k)]
  BY DEF Inv, CommitSend, Running
<1>2. /\ k.user \in Users /\ k.msg \in Messages /\ k.msg \notin Kept
      /\ conv.status = "ACCEPTED" /\ met' = met
  BY <1>1, Reserved DEF CallTrue, TrueIn, relations
<1>3. /\ Kept' = Kept \union {k.msg} /\ msg'[k.msg].from = k.user
      /\ \A n \in Kept : msg'[n].from = msg[n].from
  BY <1>1, <1>2 DEF Kept, NewMessage, Inv, TypeOK
<1>4. Shown' = Shown \union {l}
  BY <1>2, <1>3, OneMore
<1>5. l \in Protocol!Letters
  BY <1>2 DEF Protocol!Letters, Letter
<1>6. conv'.status = conv.status /\ conv'.from = conv.from
  BY <1>1 DEF Inv, TypeOK, Conversation
<1>7. Protocol!Talk(l)
  BY <1>2, <1>4, <1>6 DEF Protocol!Talk, Protocol!Becomes, Shown
<1> QED
  BY <1>5, <1>7 DEF Protocol!RequestNext

LEMMA AcceptImplements ==
    ASSUME Inv, NEW c \in Handlers, AcceptRequest(c)
    PROVE  Protocol!RequestNext
<1> DEFINE u == call[c].user
<1>1. /\ UNCHANGED relations /\ conv' = [conv EXCEPT !.status = "ACCEPTED"] /\ CallTrue(call[c])
      /\ msg' = ReadBy(u, MaxMessages) /\ conv.status = "PENDING" /\ conv.from # u
      /\ call[c].op = "accepting"
  BY DEF Inv, AcceptRequest, Running, Received, Pending
<1>2. u \in Users /\ met' = met
  BY <1>1 DEF CallTrue, TrueIn, relations
<1>3. Kept' = Kept /\ \A n \in Kept : msg'[n].from = msg[n].from
  BY <1>1, ReadOnly DEF Inv, Kept
<1>4. conv'.status = "ACCEPTED" /\ conv'.from = conv.from
  BY <1>1 DEF Inv, TypeOK, Conversation
<1>5. Protocol!Accept(u)
  BY <1>1, <1>2, <1>3, <1>4, SameLetters DEF Protocol!Accept, Protocol!Becomes, Shown
<1> QED
  BY <1>2, <1>5 DEF Protocol!RequestNext

LEMMA EndImplements ==
    ASSUME Inv, NEW c \in Handlers, DeclineRequest(c) \/ CancelRequest(c)
    PROVE  Protocol!RequestNext
<1> DEFINE u == call[c].user
<1>1. /\ UNCHANGED relations /\ CallTrue(call[c]) /\ conv.status = "PENDING" /\ msg' = Deleted
      /\ call[c].op \in {"decline", "cancel"}
  BY DEF Inv, DeclineRequest, CancelRequest, Running, Received, Pending, StillRequested
<1>2. u \in Users /\ met' = met
  BY <1>1 DEF CallTrue, TrueIn, relations
<1>3. Kept' = {} /\ Shown' = {}
  BY <1>1 DEF Kept, Shown, Deleted, NoMessage
<1>4. CASE DeclineRequest(c)
  <2>1. conv' = [conv EXCEPT !.status = "DECLINED", !.last = 0] /\ conv.from # u
    BY <1>4 DEF DeclineRequest, Received, Pending
  <2>2. conv'.status = "DECLINED" /\ conv'.from = conv.from
    BY <2>1 DEF Inv, TypeOK, Conversation
  <2>3. Protocol!Decline(u)
    BY <1>1, <1>2, <1>3, <2>1, <2>2 DEF Protocol!Decline, Protocol!Becomes, Shown
  <2> QED
    BY <1>2, <2>3 DEF Protocol!RequestNext
<1>5. CASE CancelRequest(c)
  <2>1. conv' = [conv EXCEPT !.status = "CANCELED", !.last = 0] /\ conv.from = u
    BY <1>5 DEF CancelRequest, StillRequested, Pending
  <2>2. conv'.status = "CANCELED" /\ conv'.from = u
    BY <2>1 DEF Inv, TypeOK, Conversation
  <2>3. Protocol!Cancel(u)
    BY <1>1, <1>2, <1>3, <2>1, <2>2 DEF Protocol!Cancel, Protocol!Becomes, Shown
  <2> QED
    BY <1>2, <2>3 DEF Protocol!RequestNext
<1> QED
  BY <1>4, <1>5

\* Every other step changes nothing the protocol sees, or lets the two meet.
LEMMA NextImplements == ASSUME Inv, [Next]_vars PROVE [Protocol!RequestNext]_(Protocol!protocol)
<1> DEFINE stutter == UNCHANGED <<conv.status, conv.from, Shown, met>>
<1>1. stutter => [Protocol!RequestNext]_(Protocol!protocol)
  BY DEF Shown, Protocol!protocol
<1>2. UNCHANGED <<conv, msg, met>> => stutter
  BY DEF Shown, Kept
<1>3. ASSUME NEW c \in Handlers,
             Sending(c) \/ Answer(c) \/ BeginArchive(c) \/ CommitArchive(c) \/ Refuse(c)
      PROVE  [Protocol!RequestNext]_(Protocol!protocol)
  <2>1. CASE Create(c)
    <3>1. CASE conv.status # "NEW"
      BY <1>1, <1>2, <2>1, <3>1 DEF Create, Running, Reads, relations
    <3> QED
      BY <2>1, <3>1, CreateImplements
  <2>2. CASE Blank(c)
    <3> DEFINE m == call[c].msg
    <3>1. /\ UNCHANGED <<conv, relations>> /\ msg' = [msg EXCEPT ![m].state = "recalled"]
          /\ msg[m].state = "live" /\ m \in Messages /\ msg \in [Messages -> Message]
      BY <2>2 DEF Blank, Running, Inv, CallTrue, TrueIn, TypeOK
    <3>2. ASSUME NEW n \in Messages
          PROVE  /\ msg'[n].from = msg[n].from
                 /\ msg'[n].state \in {"live", "recalled"} <=> msg[n].state \in {"live", "recalled"}
      <4>1. CASE n # m
        BY <3>1, <4>1
      <4>2. CASE n = m
        BY <3>1, <4>2 DEF Message
      <4> QED
        BY <4>1, <4>2
    <3>3. Kept' = Kept
      BY <3>2 DEF Kept
    <3>4. \A n \in Kept : msg'[n].from = msg[n].from
      BY <3>2 DEF Kept
    <3> QED
      BY <1>1, <3>1, <3>3, <3>4, SameLetters DEF relations
  <2>3. CASE \/ BeginInitiate(c) \/ Retry(c) \/ Route(c) \/ Check(c) \/ BeginSend(c) \/ Insert(c)
             \/ BeginHandle(c) \/ BeginRecall(c) \/ RecallRead(c) \/ BeginArchive(c)
             \/ CommitArchive(c) \/ Refuse(c)
    <3>1. UNCHANGED <<conv, msg, met>>
      BY <2>3 DEF BeginInitiate, Retry, Route, Check, BeginSend, Insert, BeginHandle, BeginRecall,
                  RecallRead, BeginArchive, CommitArchive, Refuse, Begin, Running, Reads, relations
    <3> QED
      BY <1>1, <1>2, <3>1
  <2> QED
    BY <1>3, <2>1, <2>2, <2>3, TransitionImplements, CommitSendImplements, AcceptImplements,
       EndImplements DEF Sending, Answer
<1>4. CASE MarkRead
  <2>1. PICK u \in Users, through \in Kept : msg' = ReadBy(u, through)
    BY <1>4 DEF MarkRead
  <2>2. Kept' = Kept /\ \A n \in Kept : msg'[n].from = msg[n].from
    BY <2>1, ReadOnly DEF Inv, Kept
  <2> QED
    BY <1>1, <1>4, <2>2, SameLetters DEF MarkRead, relations
<1>5. CASE Follow
  <2>1. UNCHANGED <<conv, msg>> /\ met' = (met \/ mutual')
    BY <1>5 DEF Follow, rows
  <2>2. Shown' = Shown
    BY <2>1 DEF Shown, Kept
  <2>3. met' = met \/ met' = TRUE
    BY <2>1 DEF Inv, TypeOK
  <2>4. CASE met' = TRUE
    <3>1. Protocol!Meet
      BY <2>1, <2>2, <2>4 DEF Protocol!Meet, Shown
    <3> QED
      BY <3>1 DEF Protocol!RequestNext
  <2> QED
    BY <1>1, <1>2, <2>1, <2>3, <2>4
<1>6. CASE Block
  BY <1>1, <1>2, <1>6 DEF Block, rows
<1>7. CASE UNCHANGED vars
  BY <1>1, <1>2, <1>7 DEF vars
<1> QED
  BY <1>3, <1>4, <1>5, <1>6, <1>7 DEF Next

\* The requests of the two sides, whatever their interleaving, follow the protocol's diagram.
THEOREM Refines == Spec => FollowsProtocol
<1>1. Init => Protocol!RequestInit
  BY DEF Init, Protocol!RequestInit, Kept, NoMessage
<1>2. Inv /\ [Next]_vars => [Protocol!RequestNext]_(Protocol!protocol)
  BY NextImplements
<1> QED
  BY <1>1, <1>2, InvHolds, PTL DEF Spec, FollowsProtocol, Protocol!RequestSpec
=============================================================================
