--------------------------- MODULE UserRelations ---------------------------
(***************************************************************************)
(* Follow and block relations, src/src/users/user-relations.service.ts on  *)
(* the user locks of src/src/access/block-visibility.where.ts.  Every      *)
(* operation locks the two users in the order of their ids and then acts   *)
(* on what is committed (READ COMMITTED).  Other components take the same  *)
(* locks: Holder is the set of all transactions that may hold one.         *)
(***************************************************************************)
EXTENDS Naturals, FiniteSets

CONSTANTS User,      \* user ids: numbers, so that they have the order of ORDER BY id
          Relation,  \* the relation requests of one behaviour
          RelOf,     \* what each of them asks: [op, actor, target]
          Holder,    \* every transaction that locks users, the requests among them
          NoTxn      \* "nobody holds the lock"

RelOp == {"follow", "unfollow", "block", "unblock"}

ASSUME RelationsAssumption ==
    /\ User \subseteq Nat
    /\ Relation \subseteq Holder
    /\ NoTxn \notin Holder
    /\ RelOf \in [Relation -> [op : RelOp, actor : User, target : User]]
    /\ \A b \in Relation : RelOf[b].actor # RelOf[b].target

VARIABLES active,     \* users whose deleted_at is null
          blocks,     \* pairs <<blocker, blocked>> of user_blocks
          follows,    \* pairs <<follower, followed>> of user_follows
          followed,   \* requests whose user.followed outbox row is committed
          userLock,   \* the transaction that holds a user row
          relPhase,   \* "new", "open", "decided" or "done"
          permitted   \* what a request read under its locks lets it write

relVars == <<active, blocks, follows, followed, userLock, relPhase, permitted>>

Blocked(B, u, v) == <<u, v>> \in B \/ <<v, u>> \in B

\* Mutant: rows are locked in no particular order.
BugLeastFree(rows, lock, t, u) == u \in rows /\ lock[u] # t

\* The next row of a set to lock when rows are locked in the order of their ids.
LeastFree(rows, lock, t, u) ==
    /\ u \in rows
    /\ lock[u] # t
    /\ \A v \in rows : lock[v] # t => u <= v

HoldsAll(rows, lock, t) == \A u \in rows : lock[u] = t

LockUser(t, rows, u) ==
    /\ LeastFree(rows, userLock, t, u)
    /\ userLock[u] = NoTxn
    /\ userLock' = [userLock EXCEPT ![u] = t]

ReleaseUsers(t) ==
    userLock' = [u \in User |-> IF userLock[u] = t THEN NoTxn ELSE userLock[u]]

\* Mutant: only the acting user is locked.
BugPair(b) == {RelOf[b].actor}

Pair(b) == {RelOf[b].actor, RelOf[b].target}

\* Of the requests, only those in made are ever sent.
RelInit(made) ==
    /\ active = User
    /\ blocks = {}
    /\ follows = {}
    /\ followed = {}
    /\ userLock = [u \in User |-> NoTxn]
    /\ relPhase = [b \in Relation |-> IF b \in made THEN "new" ELSE "done"]
    /\ permitted = [b \in Relation |-> FALSE]

\* follow looks for the target before its transaction; the others go straight in.
RelBegin(b) ==
    /\ relPhase[b] = "new"
    /\ relPhase' = [relPhase EXCEPT ![b] =
          IF RelOf[b].op = "follow" /\ RelOf[b].target \notin active THEN "done" ELSE "open"]
    /\ UNCHANGED <<active, blocks, follows, followed, userLock, permitted>>

RelLock(b) ==
    /\ relPhase[b] = "open"
    /\ \E u \in Pair(b) : LockUser(b, Pair(b), u)
    /\ UNCHANGED <<active, blocks, follows, followed, relPhase, permitted>>

\* Under the locks: follow looks for a block in either direction, block for the
\* target's account; the other two ask nothing.
RelRead(b) ==
    /\ relPhase[b] = "open"
    /\ HoldsAll(Pair(b), userLock, b)
    /\ relPhase' = [relPhase EXCEPT ![b] = "decided"]
    /\ permitted' = [permitted EXCEPT ![b] =
          /\ RelOf[b].op = "follow" => ~Blocked(blocks, RelOf[b].actor, RelOf[b].target)
          /\ RelOf[b].op = "block" => RelOf[b].target \in active]
    /\ UNCHANGED <<active, blocks, follows, followed, userLock>>

\* The write and the commit, or the rollback of a refused request.
RelCommit(b) ==
    LET edge == <<RelOf[b].actor, RelOf[b].target>>
        does(op) == permitted[b] /\ RelOf[b].op = op
    IN  /\ relPhase[b] = "decided"
        /\ blocks' = CASE does("block") -> blocks \union {edge}
                       [] does("unblock") -> blocks \ {edge}
                       [] OTHER -> blocks
        /\ follows' = CASE does("follow") -> follows \union {edge}
                        [] does("unfollow") -> follows \ {edge}
                        [] OTHER -> follows
        /\ followed' = IF does("follow") /\ edge \notin follows
                       THEN followed \union {b} ELSE followed
        /\ ReleaseUsers(b)
        /\ relPhase' = [relPhase EXCEPT ![b] = "done"]
        /\ UNCHANGED <<active, permitted>>

\* deactivate: one update of the user row, which waits for whoever holds it.
Deactivate(u) ==
    /\ u \in active
    /\ userLock[u] = NoTxn
    /\ active' = active \ {u}
    /\ UNCHANGED <<blocks, follows, followed, userLock, relPhase, permitted>>

RelNext == \E b \in Relation : RelBegin(b) \/ RelLock(b) \/ RelRead(b) \/ RelCommit(b)

RelTypeOK ==
    /\ active \subseteq User
    /\ blocks \subseteq User \X User
    /\ follows \subseteq User \X User
    /\ followed \subseteq Relation
    /\ userLock \in [User -> Holder \union {NoTxn}]
    /\ relPhase \in [Relation -> {"new", "open", "decided", "done"}]
    /\ permitted \in [Relation -> BOOLEAN]
=============================================================================
