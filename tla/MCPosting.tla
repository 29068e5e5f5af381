----------------------------- MODULE MCPosting -----------------------------
(* The owner o on two devices, and a guest.  Each load is a set of         *)
(* operations that disturb each other; a behaviour runs one of them.       *)
EXTENDS Posting, TLC

CONSTANTS o, guest, r

Handlers == Permutations(Calls)

\* The draft and its publication
Draft == [ops |-> {"create", "edit", "body", "publish", "save", "remove-thread", "cleanup"},
          users |-> {o}, texts |-> {"plain", "dice"}, reqs |-> {NoReq}, posts |-> 2]
\* Requests sent again, numbers of deleted floors
Retry == [ops |-> {"create", "remove", "remove-thread"},
          users |-> {o}, texts |-> {"plain"}, reqs |-> {r, NoReq}, posts |-> 3]
\* Pins and subthreads
Floors == [ops |-> {"create", "remove", "pin", "create-sub", "remove-sub", "publish"},
          users |-> {o}, texts |-> {"plain"}, reqs |-> {NoReq}, posts |-> 2]
\* Membership, policies and blocks
Members == [ops |-> {"create", "remove", "body", "publish", "pin", "join", "member", "exit", "block", "policy"},
          users |-> {o, guest}, texts |-> {"plain"}, reqs |-> {NoReq}, posts |-> 2]
\* A private thread and its deletion
Private == [ops |-> {"create", "edit", "remove", "publish", "invite", "visibility", "remove-thread", "block"},
          users |-> {o, guest}, texts |-> {"plain"}, reqs |-> {NoReq}, posts |-> 2]

AllLoads == {Draft, Retry, Floors, Members, Private}
DraftLoad == {Draft}
=============================================================================
