--------------------------- MODULE MessageRequest ---------------------------
(***************************************************************************)
(* What the direct messages of two users promise: the diagram of           *)
(* docs/modules/direct-messages.md (状态与请求规则).  A stranger may leave   *)
(* one letter and then waits for an answer; only the other side accepts or *)
(* declines; a declined stranger never writes again unless the other side  *)
(* does; who is connected stays connected.                                 *)
(***************************************************************************)
CONSTANTS Users, Stamps, Nobody

VARIABLES status,     \* NEW, PENDING, ACCEPTED, DECLINED or CANCELED
          requester,  \* who asked last
          letters,    \* the messages kept: [from, stamp]
          met         \* the two have followed each other at some time

protocol == <<status, requester, letters, met>>

Letters == [from : Users, stamp : Stamps]
Becomes(s, u, kept) == status' = s /\ requester' = u /\ letters' = kept /\ UNCHANGED met
Asking(u) == status = "NEW" \/ (status = "CANCELED" /\ requester = u)
Answering(u) == status \in {"PENDING", "DECLINED", "CANCELED"} /\ requester # u

RequestInit == status = "NEW" /\ requester = Nobody /\ letters = {} /\ met \in BOOLEAN

Ask(u, l) == Asking(u) /\ Becomes("PENDING", u, {l})
Connect(u, l) == (Answering(u) \/ (met /\ Asking(u))) /\ Becomes("ACCEPTED", u, letters \union {l})
Accept(u) == status = "PENDING" /\ requester # u /\ Becomes("ACCEPTED", requester, letters)
Decline(u) == status = "PENDING" /\ requester # u /\ Becomes("DECLINED", requester, {})
Cancel(u) == status = "PENDING" /\ requester = u /\ Becomes("CANCELED", u, {})
Talk(l) == status = "ACCEPTED" /\ Becomes("ACCEPTED", requester, letters \union {l})
Meet == met' = TRUE /\ UNCHANGED <<status, requester, letters>>

RequestNext ==
    \/ \E u \in Users : \/ Accept(u) \/ Decline(u) \/ Cancel(u)
                        \/ \E l \in Letters : l.from = u /\ (Ask(u, l) \/ Connect(u, l))
    \/ \E l \in Letters : Talk(l)
    \/ Meet

RequestSpec == RequestInit /\ [][RequestNext]_protocol
=============================================================================
