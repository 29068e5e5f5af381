------------------------------ MODULE Posting ------------------------------
(***************************************************************************)
(* One thread from draft to deletion: posts, subthreads, the aggregate     *)
(* save, publication and members (src/src/posts, src/src/subthreads,       *)
(* src/src/threads, src/src/access).                                       *)
(*                                                                         *)
(* A call first reads outside any transaction (its Begin action keeps what *)
(* it saw), then runs one READ COMMITTED transaction.  Every transaction   *)
(* that writes the thread's content starts with SELECT ... FROM threads    *)
(* WHERE id FOR UPDATE, so it is one action here: what it reads after the  *)
(* lock is current, what it kept from Begin may be stale.  A refused call  *)
(* changes nothing.  The words of a content are "plain" or "dice" (it has  *)
(* a dice node); rolled says that its DiceRoll rows exist.                 *)
(***************************************************************************)
EXTENDS Naturals, FiniteSets

CONSTANTS Owner,       \* the user who owns the thread
          Others,      \* the other users
          Calls,       \* request handlers that may run at the same time
          Reqs,        \* values of clientRequestId
          NoReq,       \* a request that carries none
          Policies,    \* the posting policies subthreads are given
          Texts,       \* the contents written
          Loads,       \* bound: what occurs in one behaviour, [ops, users, texts, reqs, posts]
          MaxPosts, MaxSubs,    \* bounds: rows ever created
          MaxVersion,           \* bound: versions a client edits or saves over
          MaxPinned             \* MAX_PINNED_FLOORS

ASSUME PostingAssumption ==
    /\ Owner \notin Others
    /\ NoReq \notin Reqs
    /\ Policies \subseteq {"PARTICIPANTS", "COLLABORATORS", "PLAYERS"}
    /\ "PARTICIPANTS" \in Policies
    /\ Texts \subseteq {"plain", "dice"}
    /\ MaxPosts \in Nat /\ MaxSubs \in Nat \ {0} /\ MaxVersion \in Nat /\ MaxPinned \in Nat

VARIABLES thread,   \* [status, published, private, version]; "gone" is a hard delete
          sub,      \* subthread id -> [status, policy]; 1 is the default one
          post,     \* post id -> its row; number is floor_number or reply_number
          member,   \* user -> role, "none" without a row
          player,   \* users whose playerMarked is set
          blocked,  \* users with a block between them and the owner, either way
          call,     \* handler -> the request it runs and what it read before its transaction
          load      \* the operations, users and inputs that occur in this behaviour

data == <<thread, sub, post, member, player, blocked>>
vars == <<thread, sub, post, member, player, blocked, call, load>>

Users == Others \union {Owner}
Posts == 1..MaxPosts
Subs == 1..MaxSubs

NoPost == [status |-> "none", kind |-> "FLOOR", sub |-> 1, parent |-> 0, number |-> 0,
           author |-> Owner, req |-> NoReq, text |-> "plain", rolled |-> FALSE, version |-> 0,
           pinned |-> FALSE, announced |-> 0]
NoSub == [status |-> "none", policy |-> "PARTICIPANTS"]
Idle == [op |-> "idle", user |-> Owner, sub |-> 1, post |-> 0, req |-> NoReq, text |-> "plain",
         flag |-> FALSE, published |-> FALSE, version |-> 0, was |-> "plain", bodyVersion |-> 0]

Created == {p \in Posts : post[p].status # "none"}
Live(p) == p \in Posts /\ post[p].status = "live"
LiveSub(s) == sub[s].status = "live"
Fresh(p) == p \in Posts \ Created /\ p <= load.posts /\ \A q \in Posts \ Created : p <= q
FreshSub(s) == s \in Subs /\ sub[s].status = "none" /\ \A t \in Subs : t < s => sub[t].status # "none"
Bodies(s) == {p \in Posts : Live(p) /\ post[p].kind = "BODY" /\ post[p].sub = s}
Dice(text) == text = "dice"

\* The scope of a floor number is its subthread, of a reply number its parent post.
Scope(s, parent) == {p \in Created : /\ post[p].kind = "FLOOR"
                                     /\ post[p].sub = s
                                     /\ post[p].parent = parent}

BlockedPair(u, v) == (u = Owner /\ v \in blocked) \/ (v = Owner /\ u \in blocked)

\* assertAccessible with interaction = true
Accessible(u) ==
    /\ thread.status = "live"
    /\ u \notin blocked
    /\ ~thread.published => u = Owner
    /\ thread.published /\ thread.private => member[u] # "none"

Manages(u) == member[u] \in {"OWNER", "COLLABORATOR"}
CanManage(u) == Accessible(u) /\ Manages(u)

CanPost(u, s) ==
    /\ u \notin blocked
    /\ \/ u = Owner \/ Manages(u)
       \/ sub[s].policy = "PARTICIPANTS"
       \/ sub[s].policy = "PLAYERS" /\ u \in player

----------------------------------------------------------------------------
Init ==
    /\ load \in Loads
    /\ thread \in [status : {"live"}, published : {FALSE}, private : {FALSE, "invite" \in load.ops}, version : {1}]
    /\ sub = [s \in Subs |-> IF s = 1 THEN [NoSub EXCEPT !.status = "live"] ELSE NoSub]
    /\ post \in {[p \in Posts |-> NoPost]} \union
                 {[p \in Posts |-> IF p = 1 THEN [NoPost EXCEPT !.status = "live", !.kind = "BODY",
                                                   !.text = t, !.version = 1] ELSE NoPost] : t \in Texts}
    /\ member = [u \in Users |-> IF u = Owner THEN "OWNER" ELSE "none"]
    /\ player = {Owner}
    /\ blocked = {}
    /\ call = [c \in Calls |-> Idle]

Begin(c, k) == /\ call[c] = Idle
               /\ k.op \in load.ops /\ k.user \in load.users
               /\ k.text \in load.texts /\ k.req \in load.reqs
               /\ call' = [call EXCEPT ![c] = k]
               /\ UNCHANGED <<data, load>>
Occurs(op) == op \in load.ops /\ UNCHANGED <<call, load>>
Running(c, op) == call[c].op = op /\ UNCHANGED load
Done(c) == call' = [call EXCEPT ![c] = Idle]
Ask(op, u) == [Idle EXCEPT !.op = op, !.user = u]

\* A transaction that may write posts and nothing else.
Write(c, allowed, rows) == /\ Done(c)
                           /\ post' = IF allowed THEN rows ELSE post
                           /\ UNCHANGED <<thread, sub, member, player, blocked>>

----------------------------------------------------------------------------
(* posts.service.ts: create, update, remove; post-pin.service.ts           *)

BeginCreate(c) ==
    \E u \in Users, s \in Subs, parent \in Created \union {0}, r \in Reqs \union {NoReq}, t \in Texts :
        /\ LiveSub(s) /\ Accessible(u) /\ CanPost(u, s)
        /\ ~\E p \in Posts : /\ r # NoReq /\ Live(p) /\ post[p].author = u /\ post[p].req = r
                             /\ post[p].parent # 0 => Live(post[p].parent)
        /\ Begin(c, [Ask("create", u) EXCEPT !.sub = s, !.post = parent, !.req = r, !.text = t])

\* Mutant: what Begin checked is not checked again after the lock.
BugAdmitted(k) == thread.status = "live"

\* lockAndValidatePostCreate
Admitted(k) ==
    /\ Accessible(k.user) /\ LiveSub(k.sub) /\ CanPost(k.user, k.sub)
    /\ k.post # 0 => /\ Live(k.post) /\ ~BlockedPair(k.user, post[k.post].author)
                     /\ post[k.post].sub = k.sub /\ post[k.post].parent = 0

\* Mutant: the maximum leaves soft-deleted posts out.
BugNextNumber(n, s, parent) ==
    LET S == {post[p].number : p \in {q \in Scope(s, parent) : Live(q)}}
    IN  (\A m \in S : m < n) /\ n - 1 \in S \union {0}

\* MAX(number) + 1, soft-deleted posts included
NextNumber(n, s, parent) ==
    LET S == {post[p].number : p \in Scope(s, parent)}
    IN  (\A m \in S : m < n) /\ n - 1 \in S \union {0}

\* One of the unique indexes of posts refuses the row.
Duplicate(k, n) ==
    \/ \E p \in Scope(k.sub, k.post) : post[p].number = n
    \/ k.req # NoReq /\ \E p \in Created : post[p].author = k.user /\ post[p].req = k.req

NewRow(k, n) ==
    [NoPost EXCEPT !.status = "live", !.sub = k.sub, !.parent = k.post, !.number = n,
                   !.author = k.user, !.req = k.req, !.text = k.text, !.version = 1,
                   !.rolled = thread.published /\ Dice(k.text),
                   !.announced = IF thread.published THEN 1 ELSE 0]

CommitCreate(c) ==
    /\ Running(c, "create")
    /\ \/ /\ ~Admitted(call[c])
          /\ Done(c) /\ UNCHANGED data
       \/ \E p \in Posts, n \in 1..MaxPosts :
             /\ Fresh(p)
             /\ Admitted(call[c]) /\ NextNumber(n, call[c].sub, call[c].post)
             /\ IF Duplicate(call[c], n)
                THEN call' = [call EXCEPT ![c].op = "replay"] /\ UNCHANGED data
                ELSE /\ Done(c)
                     /\ post' = [post EXCEPT ![p] = NewRow(call[c], n)]
                     /\ member' = [member EXCEPT ![call[c].user] = IF @ = "none" THEN "PARTICIPANT" ELSE @]
                     /\ UNCHANGED <<thread, sub, player, blocked>>

\* P2002: answer with the first post of this clientRequestId, or with the error.
Replay(c) == Running(c, "replay") /\ Done(c) /\ UNCHANGED data

BeginEdit(c) ==
    \E p \in Created, t \in Texts :
        /\ Live(p) /\ LiveSub(post[p].sub) /\ post[p].version < MaxVersion
        /\ post[p].parent # 0 => Live(post[p].parent)
        /\ Accessible(post[p].author)
        /\ Begin(c, [Ask("edit", post[p].author) EXCEPT !.post = p, !.text = t, !.was = post[p].text,
                           !.published = thread.published, !.version = post[p].version])

\* Mutant: the update does not name the version and the content it read.
BugUnchangedSince(k) == Live(k.post)

UnchangedSince(k) == /\ Live(k.post)
                     /\ post[k.post].version = k.version

\* The update, and reconcilePublishedDice when the thread counts as published.
Edited(row, text, published) ==
    [row EXCEPT !.text = text, !.version = @ + 1, !.rolled = IF published THEN Dice(text) ELSE @]

CommitEdit(c) ==
    LET k == call[c] IN
    /\ Running(c, "edit")
    /\ Write(c, /\ thread.status # "gone" /\ k.user \notin blocked /\ UnchangedSince(k)
                /\ post[k.post].text = k.was,
                [post EXCEPT ![k.post] = Edited(@, k.text, k.published)])

BeginRemove(c) ==
    \E p \in Created, u \in Users :
        /\ Live(p) /\ LiveSub(post[p].sub) /\ post[p].kind = "FLOOR"
        /\ post[p].parent # 0 => Live(post[p].parent)
        /\ u = post[p].author \/ CanManage(u)
        /\ Begin(c, [Ask("remove", u) EXCEPT !.post = p])

Removed(row) == [row EXCEPT !.status = "deleted", !.pinned = FALSE]

CommitRemove(c) ==
    LET k == call[c] IN
    /\ Running(c, "remove")
    /\ Write(c, Live(k.post) /\ (k.user = post[k.post].author \/ CanManage(k.user)),
                [post EXCEPT ![k.post] = Removed(@)])

BeginPin(c) ==
    \E p \in Created, u \in Users, pin \in BOOLEAN :
        /\ Live(p) /\ LiveSub(post[p].sub) /\ CanManage(u)
        /\ post[p].kind = "FLOOR" /\ post[p].parent = 0
        /\ Begin(c, [Ask("pin", u) EXCEPT !.post = p, !.flag = pin])

Pinned(s) == {p \in Posts : Live(p) /\ post[p].pinned /\ post[p].sub = s /\ post[p].parent = 0}

MayPin(p) == Cardinality(Pinned(post[p].sub)) < MaxPinned

CommitPin(c) ==
    LET k == call[c] IN
    /\ Running(c, "pin")
    /\ Write(c, /\ CanManage(k.user) /\ Live(k.post) /\ LiveSub(post[k.post].sub)
                /\ k.flag => ~BlockedPair(k.user, post[k.post].author)
                /\ k.flag # post[k.post].pinned
                /\ k.flag => MayPin(k.post),
                [post EXCEPT ![k.post].pinned = k.flag])

----------------------------------------------------------------------------
(* posts.service.ts: upsertBody; subthreads.service.ts                     *)

BodyRow(k, s, published) ==
    [NoPost EXCEPT !.status = "live", !.kind = "BODY", !.sub = s, !.author = k.user, !.text = k.text,
                   !.version = 1, !.rolled = published /\ Dice(k.text),
                   !.announced = IF published THEN 1 ELSE 0]

BeginBody(c) ==
    \E s \in Subs, u \in Users, t \in Texts, p \in Posts \union {0} :
        /\ LiveSub(s) /\ CanManage(u)
        /\ IF Bodies(s) = {} THEN p = 0 ELSE p \in Bodies(s) /\ post[p].version < MaxVersion
        /\ Begin(c, [Ask("body", u) EXCEPT !.sub = s, !.post = p, !.text = t, !.published = thread.published,
                           !.version = IF p = 0 THEN 0 ELSE post[p].version])

\* concurrentlyCreated, read after the lock
Bodyless(s) == Bodies(s) = {}

\* The rows after upsertBody; none when it is refused.
BodyRows(k) ==
    IF ~CanManage(k.user) THEN {}
    ELSE IF k.post # 0
    THEN IF UnchangedSince(k) THEN {[post EXCEPT ![k.post] = Edited(@, k.text, k.published)]} ELSE {}
    ELSE {[post EXCEPT ![p] = BodyRow(k, k.sub, k.published)] : p \in {q \in Posts : Fresh(q) /\ Bodyless(k.sub)}}

CommitBody(c) ==
    /\ Running(c, "body")
    /\ IF BodyRows(call[c]) = {} THEN Write(c, FALSE, post)
       ELSE \E rows \in BodyRows(call[c]) : Write(c, TRUE, rows)

BeginCreateSub(c) ==
    \E u \in Users, pol \in Policies, t \in Texts, withBody \in BOOLEAN :
        /\ CanManage(u)
        /\ Begin(c, [Ask("create-sub", u) EXCEPT !.text = t, !.flag = withBody, !.was = pol,
                                                !.published = thread.published])

CommitCreateSub(c) ==
    LET k == call[c] IN
    /\ Running(c, "create-sub")
    /\ Done(c)
    /\ UNCHANGED <<thread, member, player, blocked>>
    /\ IF ~CanManage(k.user) THEN UNCHANGED <<sub, post>>
       ELSE \E s \in Subs :
               /\ FreshSub(s)
               /\ sub' = [sub EXCEPT ![s] = [status |-> "live", policy |-> k.was]]
               /\ IF k.flag THEN \E p \in Posts : Fresh(p) /\ post' = [post EXCEPT ![p] = BodyRow(k, s, k.published)]
                            ELSE UNCHANGED post

BeginRemoveSub(c) ==
    \E u \in Users, s \in Subs \ {1} :
        /\ LiveSub(s) /\ CanManage(u)
        /\ Begin(c, [Ask("remove-sub", u) EXCEPT !.sub = s])

CommitRemoveSub(c) ==
    LET k == call[c] IN
    /\ Running(c, "remove-sub")
    /\ Done(c)
    /\ UNCHANGED <<thread, member, player, blocked>>
    /\ IF CanManage(k.user) /\ LiveSub(k.sub)
       THEN /\ sub' = [sub EXCEPT ![k.sub].status = "deleted"]
            /\ post' = [p \in Posts |-> IF post[p].sub = k.sub THEN [post[p] EXCEPT !.pinned = FALSE] ELSE post[p]]
       ELSE UNCHANGED <<sub, post>>

\* SubthreadsService.update, under lockManagement; its version only refuses more.
SetPolicy ==
    /\ Occurs("policy")
    /\ \E u \in Users, s \in Subs, pol \in Policies :
           /\ CanManage(u) /\ LiveSub(s)
           /\ sub' = [sub EXCEPT ![s].policy = pol]
    /\ UNCHANGED <<thread, post, member, player, blocked>>

----------------------------------------------------------------------------
(* threads.service.ts: update, publish, remove; thread-aggregate.service.ts *)

Publishable(u, version) == CanManage(u) /\ ~thread.published /\ thread.version = version

\* Mutant: only the bodies are announced and rolled.
BugSettled(rows) ==
    [p \in Posts |->
        IF rows[p].status = "live" /\ LiveSub(rows[p].sub) /\ rows[p].kind = "BODY"
        THEN [rows[p] EXCEPT !.announced = @ + 1, !.rolled = Dice(rows[p].text)]
        ELSE rows[p]]

\* Every live post of a live subthread gets its event and its dice.
Settled(rows) ==
    [p \in Posts |->
        IF rows[p].status = "live" /\ LiveSub(rows[p].sub)
        THEN [rows[p] EXCEPT !.announced = @ + 1, !.rolled = Dice(rows[p].text),
                             !.version = IF Dice(rows[p].text) THEN @ + 1 ELSE @]
        ELSE rows[p]]

BeginPublish(c) ==
    /\ CanManage(Owner) /\ thread.version < MaxVersion
    /\ Begin(c, [Ask("publish", Owner) EXCEPT !.version = thread.version])

CommitPublish(c) ==
    LET k == call[c]
        ok == Publishable(k.user, k.version) /\ Bodies(1) # {}
    IN  /\ Running(c, "publish")
        /\ Done(c)
        /\ thread' = IF ok THEN [thread EXCEPT !.published = TRUE, !.version = @ + 1] ELSE thread
        /\ post' = IF ok THEN Settled(post) ELSE post
        /\ UNCHANGED <<sub, member, player, blocked>>

BeginSave(c) ==
    \E u \in Users, t \in Texts, publishing \in BOOLEAN, p \in Posts \union {0} :
        /\ CanManage(u) /\ thread.version < MaxVersion
        /\ publishing => u = Owner
        /\ IF Bodies(1) = {} THEN p = 0 ELSE p \in Bodies(1)
        /\ Begin(c, [Ask("save", u) EXCEPT !.post = p, !.text = t, !.flag = publishing,
                         !.version = thread.version, !.bodyVersion = IF p = 0 THEN 0 ELSE post[p].version])

\* The body after the save: edited if its content changes, created if there is none.
SavedRows(k) ==
    IF Bodies(1) = {}
    THEN {[post EXCEPT ![p] = BodyRow(k, 1, thread.published)] : p \in {q \in Posts : Fresh(q)}}
    ELSE {[post EXCEPT ![p] = IF @.text = k.text THEN @ ELSE Edited(@, k.text, thread.published)] : p \in Bodies(1)}

SaveAllowed(k) ==
    /\ CanManage(k.user) /\ thread.version = k.version
    /\ k.flag => ~thread.published
    /\ IF Bodies(1) = {} THEN k.post = 0
                         ELSE \A p \in Bodies(1) : p = k.post /\ post[p].version = k.bodyVersion

CommitSave(c) ==
    LET k == call[c] IN
    /\ Running(c, "save")
    /\ Done(c)
    /\ UNCHANGED <<sub, member, player, blocked>>
    /\ IF ~SaveAllowed(k) THEN UNCHANGED <<thread, post>>
       ELSE \E rows \in SavedRows(k) :
               /\ post' = IF k.flag THEN Settled(rows) ELSE rows
               /\ thread' = [thread EXCEPT !.version = @ + 1, !.published = @ \/ k.flag]

\* ThreadsService.update of the visibility, by the owner
SetVisibility ==
    /\ Occurs("visibility")
    /\ CanManage(Owner) /\ thread.version < MaxVersion
    /\ thread' = [thread EXCEPT !.private = ~@, !.version = @ + 1]
    /\ UNCHANGED <<sub, post, member, player, blocked>>

BeginRemoveThread(c) ==
    /\ Accessible(Owner)
    /\ Begin(c, [Ask("remove-thread", Owner) EXCEPT !.published = thread.published])

\* DELETE FROM threads; subthreads, posts and members go with it.
Erase == /\ thread' = [thread EXCEPT !.status = "gone"]
         /\ sub' = [s \in Subs |-> NoSub]
         /\ post' = [p \in Posts |-> NoPost]
         /\ member' = [u \in Users |-> "none"]
         /\ player' = {}
         /\ UNCHANGED blocked

CommitRemoveThread(c) ==
    LET k == call[c] IN
    /\ Running(c, "remove-thread")
    /\ Done(c)
    /\ \/ ~k.published /\ thread.status # "gone" /\ Erase
       \/ /\ k.published /\ thread.status = "live"
          /\ thread' = [thread EXCEPT !.status = "removed"]
          /\ post' = [p \in Posts |-> [post[p] EXCEPT !.pinned = FALSE]]
          /\ UNCHANGED <<sub, member, player, blocked>>
       \/ /\ thread.status # "live" /\ (k.published \/ thread.status = "gone")
          /\ UNCHANGED data

\* cleanup.task.ts: a draft of seven days; one DELETE that tests published
Cleanup == Occurs("cleanup") /\ ~thread.published /\ thread.status # "gone" /\ Erase

----------------------------------------------------------------------------
(* thread-members.service.ts, thread-invite.service.ts, blocks             *)

Join ==
    /\ Occurs("join")
    /\ \E u \in Others :
           /\ Accessible(u) /\ thread.published /\ ~thread.private /\ member[u] = "none"
           /\ member' = [member EXCEPT ![u] = "PARTICIPANT"]
    /\ UNCHANGED <<thread, sub, post, player, blocked>>

\* The link is checked before the transaction, the block inside it.
BeginInvite(c) == \E u \in Others : /\ thread.status = "live" /\ thread.published /\ thread.private
                                    /\ Begin(c, Ask("invite", u))

CommitInvite(c) ==
    LET u == call[c].user IN
    /\ Running(c, "invite")
    /\ Done(c)
    /\ member' = [member EXCEPT ![u] = IF @ = "none" /\ u \notin blocked /\ thread.status # "gone"
                                       THEN "PARTICIPANT" ELSE @]
    /\ UNCHANGED <<thread, sub, post, player, blocked>>

UpdateMember ==
    /\ Occurs("member")
    /\ \E a \in Users, u \in Others :
           /\ CanManage(a) /\ ~BlockedPair(a, u) /\ member[u] # "none"
           /\ \/ /\ member[a] = "OWNER"
                 /\ \E r \in {"COLLABORATOR", "PARTICIPANT"} : member' = [member EXCEPT ![u] = r]
                 /\ UNCHANGED player
              \/ player' \in {player \union {u}, player \ {u}} /\ UNCHANGED member
    /\ UNCHANGED <<thread, sub, post, blocked>>

ExitMember ==
    /\ Occurs("exit")
    /\ \E u \in Others : member[u] # "none" /\ player' = player \ {u}
    /\ UNCHANGED <<thread, sub, post, member, blocked>>

Block ==
    /\ Occurs("block")
    /\ \E u \in Others : blocked' \in {blocked \union {u}, blocked \ {u}}
    /\ UNCHANGED <<thread, sub, post, member, player>>

Next ==
    \/ \E c \in Calls :
        \/ BeginCreate(c) \/ CommitCreate(c) \/ Replay(c) \/ BeginEdit(c) \/ CommitEdit(c)
        \/ BeginRemove(c) \/ CommitRemove(c) \/ BeginPin(c) \/ CommitPin(c)
        \/ BeginBody(c) \/ CommitBody(c)
        \/ BeginCreateSub(c) \/ CommitCreateSub(c) \/ BeginRemoveSub(c) \/ CommitRemoveSub(c)
        \/ BeginPublish(c) \/ CommitPublish(c) \/ BeginSave(c) \/ CommitSave(c)
        \/ BeginRemoveThread(c) \/ CommitRemoveThread(c) \/ BeginInvite(c) \/ CommitInvite(c)
    \/ SetPolicy \/ SetVisibility \/ Cleanup \/ Join \/ UpdateMember \/ ExitMember \/ Block

Spec == Init /\ [][Next]_vars

----------------------------------------------------------------------------
(* Properties                                                              *)

Roles == {"OWNER", "COLLABORATOR", "PARTICIPANT", "none"}
Row == [status : {"none", "live", "deleted"}, kind : {"FLOOR", "BODY"}, sub : Subs,
        parent : Posts \union {0}, number : 0..MaxPosts, author : Users, req : Reqs \union {NoReq},
        text : Texts \union {"plain"}, rolled : BOOLEAN, version : Nat, pinned : BOOLEAN, announced : Nat]
Ops == {"idle", "create", "replay", "edit", "remove", "pin", "body", "create-sub", "remove-sub",
        "publish", "save", "remove-thread", "invite"}
Request == [op : Ops, user : Users, sub : Subs, post : Posts \union {0}, req : Reqs \union {NoReq},
            text : Texts \union {"plain"}, flag : BOOLEAN, published : BOOLEAN, version : Nat,
            was : Texts \union Policies \union {"plain"}, bodyVersion : Nat]

\* The shape of the rows and requests; what is deleted is never pinned, in no order of remove and pin
\* (posts.service.ts remove sets pinnedAt to null, post-pin.service.ts reads deletedAt under the lock).
TypeOK ==
    /\ thread \in [status : {"live", "removed", "gone"}, published : BOOLEAN, private : BOOLEAN, version : Nat]
    /\ sub \in [Subs -> [status : {"none", "live", "deleted"}, policy : Policies]]
    /\ post \in [Posts -> Row]
    /\ member \in [Users -> Roles]
    /\ player \subseteq Users /\ blocked \subseteq Others
    /\ call \in [Calls -> Request]
    /\ \A p \in Posts : post[p].pinned => post[p].status = "live" /\ post[p].kind = "FLOOR"

\* A unique index refuses a new post only when its author already sent this clientRequestId: the number
\* taken as maximum + 1 under the lock of the thread is never taken, deleted floors included
\* (posts.service.ts create: whoever gets P2002 answers with that earlier post or fails).
ConflictsAreRetries ==
    \A c \in Calls : call[c].op = "replay" /\ thread.status # "gone" =>
        \E p \in Created : call[c].req # NoReq /\ post[p].req = call[c].req /\ post[p].author = call[c].user

\* A floor or reply enters only a live thread and subthread, under a live floor of the same subthread,
\* from a user who at that moment is let in and may post, whatever changed since the request was checked
\* (post-create-guard.ts lockAndValidatePostCreate).
PostsAdmitted ==
    [][\A p \in Posts :
          post[p].status = "none" /\ post'[p].status = "live" /\ post'[p].kind = "FLOOR" =>
              LET row == post'[p] IN
              /\ thread.status = "live" /\ sub[row.sub].status = "live"
              /\ row.author \notin blocked
              /\ thread.published \/ row.author = Owner
              /\ thread.private => member[row.author] # "none"
              /\ sub[row.sub].policy = "PLAYERS" => row.author \in player \/ Manages(row.author) \/ row.author = Owner
              /\ row.parent # 0 => /\ post[row.parent].status = "live" /\ post[row.parent].parent = 0
                                   /\ post[row.parent].sub = row.sub]_vars

\* In a published thread every live floor of a live subthread has put its post.created event in the outbox
\* exactly once, whether publication or its own creation did it, and nothing is ever announced twice
\* (posts.service.ts create, thread-aggregate.service.ts settleDraftPosts).
FloorsAnnounced ==
    \A p \in Posts :
        /\ post[p].announced <= 1
        /\ thread.published /\ post[p].kind = "FLOOR" /\ Live(p) /\ LiveSub(post[p].sub) => post[p].announced = 1

\* No subthread shows more pinned floors than the limit, under concurrent pins and deletions
\* (post-pin.service.ts counts under the lock of the thread).
PinnedWithinLimit == \A s \in Subs : Cardinality(Pinned(s)) <= MaxPinned

\* A subthread never has two live bodies, although upsertBody, a new subthread and the aggregate save can
\* each create one (posts.service.ts upsertBody, thread-aggregate.service.ts save).
OneBodyEach ==
    \A p, q \in Posts :
        Live(p) /\ Live(q) /\ post[p].kind = "BODY" /\ post[q].kind = "BODY" /\ post[p].sub = post[q].sub => p = q

\* Nobody overwrites a content he has not seen: a post's words change only by a request that read the
\* version it replaces (posts.service.ts update and upsertBody, thread-aggregate.service.ts save).
NoLostUpdate ==
    [][\A p \in Posts :
          post[p].status = "live" /\ post'[p].status = "live" /\ post'[p].text # post[p].text =>
              \E c \in Calls : /\ call[c].post = p
                               /\ \/ call[c].op \in {"edit", "body"} /\ call[c].version = post[p].version
                                  \/ call[c].op = "save" /\ call[c].bodyVersion = post[p].version]_vars

\* docs/modules/threads.md: a published thread is deleted softly, never with its posts.
PublishedNeverErased == [][thread.published /\ thread.status = "live" => thread'.status # "gone"]_vars
=============================================================================
