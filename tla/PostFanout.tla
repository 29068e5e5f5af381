----------------------------- MODULE PostFanout -----------------------------
(***************************************************************************)
(* Notifications of one new post: PostEventsListener                       *)
(* (src/src/post-activity/post-events.listener.ts), the mention rows of    *)
(* MentionsService and the rows NotificationDeliveryService stores.        *)
(*                                                                         *)
(* The outbox delivers post.created at least once: an attempt may fail     *)
(* half way, the process may stop, and after an expired lease two          *)
(* dispatchers run the handler side by side.  Relations, players,          *)
(* subscriptions and the post itself change meanwhile.                     *)
(*                                                                         *)
(* Left out: Redis counters, texts, push jobs, private threads, deleted    *)
(* accounts and target posts, blocks between a recipient and the author    *)
(* of the parent post, and the limit of ten direct mentions.               *)
(***************************************************************************)
EXTENDS Naturals, FiniteSets

CONSTANTS User,          \* everybody but the author of the post
          Worker,        \* dispatchers
          Scenarios,     \* posts, with the relations at that time; Init picks one
          Contents,      \* what the author may edit the post to
          FanoutFaults,  \* bound: failed statements and stopped processes
          Changes,       \* bound: edits and changes of relations
          NoTask, NoUser

\* A worker's task is post.created or an update, which names its recipients and
\* the version of the post; versions count down from Changes here.
Created == [to |-> {}, version |-> 0]

Kind == {"floor", "body", "nested"}
Manager == {"OWNER", "COLLABORATOR"}
Source == {"DIRECT", "ALL_PLAYERS"}

\* What extractMentionTokens finds: users named one by one, and "all players".
Tokens == [direct : SUBSET User, all : BOOLEAN]

\* The post.created event and the thread's owner and collaborators (the author
\* left out of managers, and owner = NoUser when the author owns the thread).
\* Of an event from before the upgrade the target has to be looked up.
Post == [kind : Kind, content : Tokens, role : Manager \union {"PARTICIPANT"}, player : BOOLEAN,
         owner : User \union {NoUser}, managers : SUBSET User,
         target : User \union {NoUser}, carried : BOOLEAN]

Scenario == [post : Post, follows : SUBSET User, marked : SUBSET User,
             subscribed : SUBSET (User \X {"THREAD", "USER"})]

ASSUME FanoutAssumption ==
    /\ Scenarios \subseteq Scenario
    /\ Contents \subseteq Tokens
    /\ NoUser \notin User
    /\ FanoutFaults \in Nat /\ Changes \in Nat

VARIABLES
    post,        \* constant after Init
    live,        \* the post is not deleted
    content,     \* tokens of the stored content
    blocked,     \* users with a block between them and the author
    follows,     \* users the author follows
    marked,      \* thread members with player_marked
    subscribed,  \* subscriptions of the thread, those of type USER to the author
    rows,        \* post_mentions: <<user, source>>
    notes,       \* notifications of the post: <<event key, user>>
    processed,   \* post.created is acknowledged
    claimedBy,   \* whoever claimed post.created last (the attempts it read are current)
    updates,     \* unprocessed post.mentions.updated events
    task,        \* what a worker handles: Created, an update, or NoTask
    stage,       \* where it is
    loaded,      \* what it preloaded: blocked users and observers
    explicit,    \* explicitMentionRecipientIds
    target,      \* replyTarget
    pending,     \* recipients past the eligibility filter, about to be stored
    failed,      \* failures.length > 0
    sent,        \* notifications stored by the current attempt (history)
    fanoutFaults, changes

worldVars == <<live, content, blocked, follows, marked, subscribed>>
eventVars == <<processed, claimedBy, updates>>
localVars == <<task, loaded, explicit, target>>
fanoutVars == <<post, worldVars, rows, notes, eventVars, localVars, stage, pending, failed, sent, fanoutFaults, changes>>

Keys == {"mention", "new-post", "reply", "new-reply"}
Stages == {"idle", "load", "parse", "target", "edited", "end"} \union Keys

NothingLoaded == [blocked |-> {}, observers |-> {}]

FanoutInit ==
    /\ \E s \in Scenarios :
         /\ post = s.post
         /\ content = s.post.content
         /\ follows = s.follows
         /\ marked = s.marked
         /\ subscribed = s.subscribed
    /\ live = TRUE
    /\ blocked = {}
    /\ rows = {}
    /\ notes = {}
    /\ processed = FALSE
    /\ claimedBy = NoTask
    /\ updates = {}
    /\ task = [w \in Worker |-> NoTask]
    /\ stage = [w \in Worker |-> "idle"]
    /\ loaded = [w \in Worker |-> NothingLoaded]
    /\ explicit = [w \in Worker |-> {}]
    /\ target = [w \in Worker |-> NoUser]
    /\ pending = [w \in Worker |-> {}]
    /\ failed = [w \in Worker |-> FALSE]
    /\ sent = [w \in Worker |-> {}]
    /\ fanoutFaults = FanoutFaults
    /\ changes = Changes

-----------------------------------------------------------------------------
(* MentionsService *)

Group(R) == {u \in User : <<u, "ALL_PLAYERS">> \in R}

\* filterDirectCandidates in a public thread.
Mentionable(tokens) == (tokens.direct \intersect (follows \union marked \union post.managers)) \ blocked

\* The group an earlier expansion left is kept when it is not empty.
GroupUsers(tokens, kept) ==
    IF tokens.all /\ post.role \in Manager
    THEN (IF kept /\ Group(rows) # {} THEN Group(rows) ELSE marked) \ blocked
    ELSE {}

\* syncMentionsInTransaction: the rows of a post for a content; kept says whether
\* the caller wants the persisted group.
Desired(tokens, kept) ==
    (Mentionable(tokens) \X {"DIRECT"}) \union (GroupUsers(tokens, kept) \X {"ALL_PLAYERS"})

Named(R) == {u \in User : \E s \in Source : <<u, s>> \in R}

-----------------------------------------------------------------------------
(* The handler *)

\* Mutant: observers of a nested reply include its direct target.
BugRecipients(w, key) ==
    CASE key \in {"mention", "edited"} -> explicit[w]
      [] key = "reply" -> {target[w]} \ ({NoUser} \union explicit[w] \union loaded[w].blocked)
      [] OTHER -> loaded[w].observers \ (explicit[w] \union loaded[w].blocked)

\* Who a notification is meant for.  A floor answers the thread's owner, a nested
\* reply its target; observers are the others who follow the thread.
Recipients(w, key) ==
    CASE key \in {"mention", "edited"} -> explicit[w]
      [] key = "reply" -> {target[w]} \ ({NoUser} \union explicit[w] \union loaded[w].blocked)
      [] OTHER -> loaded[w].observers \ ({target[w]} \union explicit[w] \union loaded[w].blocked)

\* The order of the sections of handlePostCreated.
After(s) ==
    CASE s = "parse" -> "mention"
      [] s = "mention" /\ post.kind = "nested" -> "target"
      [] s = "mention" /\ post.kind # "nested" -> "new-post"
      [] s = "new-post" /\ post.kind = "floor" -> "reply"
      [] s = "target" -> "reply"
      [] s = "reply" /\ post.kind = "nested" -> "new-reply"
      [] OTHER -> "end"

GoTo(w, s) == stage' = [stage EXCEPT ![w] = s]

Fault == fanoutFaults > 0 /\ fanoutFaults' = fanoutFaults - 1

\* The dispatcher claims the event, anew when an earlier attempt failed or its
\* lease ran out.
ClaimPost(w) ==
    /\ stage[w] = "idle"
    /\ ~processed
    /\ claimedBy' = w
    /\ task' = [task EXCEPT ![w] = Created]
    /\ GoTo(w, "load")
    /\ UNCHANGED <<post, worldVars, rows, notes, processed, updates, loaded, explicit, target,
                   pending, failed, sent, fanoutFaults, changes>>

\* THREAD subscribers hear of owner and collaborators, USER subscribers of players.
Subscribers ==
    {u \in User : \/ <<u, "THREAD">> \in subscribed /\ post.role \in Manager
                  \/ <<u, "USER">> \in subscribed /\ post.role = "PARTICIPANT" /\ post.player}

\* The check of the source post and the preloaded sets.  A floor's target is the
\* owner, known from the managers.
Load(w) ==
    /\ stage[w] = "load"
    /\ loaded' = [loaded EXCEPT ![w] = [blocked |-> blocked,
                                        observers |-> post.managers \union Subscribers]]
    /\ target' = [target EXCEPT ![w] = IF post.kind = "floor" THEN post.owner ELSE NoUser]
    /\ GoTo(w, IF live THEN "parse" ELSE "end")
    /\ UNCHANGED <<post, worldVars, rows, notes, eventVars, task, explicit, pending, failed, sent, fanoutFaults, changes>>

\* A failure here leaves the handler at once.
LoadFail(w) ==
    /\ stage[w] = "load"
    /\ Fault
    /\ failed' = [failed EXCEPT ![w] = TRUE]
    /\ GoTo(w, "end")
    /\ UNCHANGED <<post, worldVars, rows, notes, eventVars, localVars, pending, sent,
                   changes>>

\* parseAndCreate on the content of the event, whatever the content is by now.
\* The recipients are remembered before they are notified.
Parse(w) ==
    /\ stage[w] = "parse"
    /\ rows' = Desired(post.content, TRUE)
    /\ explicit' = [explicit EXCEPT ![w] = Named(Desired(post.content, TRUE)) \ loaded[w].blocked]
    /\ GoTo(w, After("parse"))
    /\ UNCHANGED <<post, worldVars, notes, eventVars, task, loaded, target, pending, failed, sent, fanoutFaults, changes>>

\* Mutant: the failure is logged and not remembered.
BugParseFail(w) ==
    /\ stage[w] = "parse"
    /\ Fault
    /\ GoTo(w, After("parse"))
    /\ UNCHANGED <<post, worldVars, rows, notes, eventVars, localVars, pending, failed, sent,
                   changes>>

ParseFail(w) ==
    /\ stage[w] = "parse"
    /\ Fault
    /\ failed' = [failed EXCEPT ![w] = TRUE]
    /\ GoTo(w, After("parse"))
    /\ UNCHANGED <<post, worldVars, rows, notes, eventVars, localVars, pending, sent, changes>>

Target(w) ==
    /\ stage[w] = "target"
    /\ target' = [target EXCEPT ![w] = post.target]
    /\ GoTo(w, After("target"))
    /\ UNCHANGED <<post, worldVars, rows, notes, eventVars, task, loaded, explicit, pending, failed,
                   sent, fanoutFaults, changes>>

\* Only the lookup of an old event can fail; the observers are then served
\* without knowing the target.
TargetFail(w) ==
    /\ stage[w] = "target"
    /\ ~post.carried
    /\ Fault
    /\ failed' = [failed EXCEPT ![w] = TRUE]
    /\ GoTo(w, After("target"))
    /\ UNCHANGED <<post, worldVars, rows, notes, eventVars, localVars, pending, sent, changes>>

\* NotificationEligibilityService.filterRecipients
Eligible(S) == IF live THEN S \ blocked ELSE {}

Filter(w) ==
    /\ stage[w] \in Keys \union {"edited"}
    /\ pending[w] = {}
    /\ pending' = [pending EXCEPT ![w] = Eligible(Recipients(w, stage[w]))]
    /\ IF Eligible(Recipients(w, stage[w])) = {} THEN GoTo(w, After(stage[w])) ELSE UNCHANGED stage
    /\ UNCHANGED <<post, worldVars, rows, notes, eventVars, localVars, failed, sent,
                   fanoutFaults, changes>>

\* createNotifications: one row per key and user.  A failure after the rows are
\* stored fails the section all the same.
Store(w) ==
    LET key == IF stage[w] = "edited" THEN "mention" ELSE stage[w] IN
    /\ pending[w] # {}
    /\ notes' = notes \union ({key} \X pending[w])
    /\ sent' = [sent EXCEPT ![w] = @ \union ({key} \X pending[w])]
    /\ pending' = [pending EXCEPT ![w] = {}]
    /\ \/ UNCHANGED <<failed, fanoutFaults>>
       \/ Fault /\ failed' = [failed EXCEPT ![w] = TRUE]
    /\ GoTo(w, After(stage[w]))
    /\ UNCHANGED <<post, worldVars, rows, eventVars, localVars, changes>>

\* notify throws before anything is stored; the later sections still run.
NotifyFail(w) ==
    /\ stage[w] \in Keys \union {"edited"}
    /\ Recipients(w, stage[w]) # {}
    /\ Fault
    /\ failed' = [failed EXCEPT ![w] = TRUE]
    /\ pending' = [pending EXCEPT ![w] = {}]
    /\ GoTo(w, After(stage[w]))
    /\ UNCHANGED <<post, worldVars, rows, notes, eventVars, localVars, sent, changes>>

\* The attempt is over; its local variables go.
Leave(w) ==
    /\ task' = [task EXCEPT ![w] = NoTask]
    /\ loaded' = [loaded EXCEPT ![w] = NothingLoaded]
    /\ explicit' = [explicit EXCEPT ![w] = {}]
    /\ target' = [target EXCEPT ![w] = NoUser]
    /\ pending' = [pending EXCEPT ![w] = {}]
    /\ failed' = [failed EXCEPT ![w] = FALSE]
    /\ sent' = [sent EXCEPT ![w] = {}]
    /\ GoTo(w, "idle")

\* The dispatcher acknowledges what did not fail, if its claim is still the last.
Finish(w) ==
    /\ stage[w] = "end"
    /\ processed' = (processed \/ (task[w] = Created /\ ~failed[w] /\ claimedBy = w))
    /\ updates' = IF failed[w] THEN updates ELSE updates \ {task[w]}
    /\ Leave(w)
    /\ UNCHANGED <<post, worldVars, rows, notes, claimedBy, fanoutFaults, changes>>

StopWorker(w) ==
    /\ stage[w] # "idle"
    /\ Fault
    /\ Leave(w)
    /\ UNCHANGED <<post, worldVars, rows, notes, eventVars, changes>>

\* handlePostMentionsUpdated: the recipients were decided by the edit.
TakeUpdate(w) ==
    /\ stage[w] = "idle"
    /\ \E u \in updates : /\ task' = [task EXCEPT ![w] = u]
                          /\ explicit' = [explicit EXCEPT ![w] = u.to]
    /\ GoTo(w, "edited")
    /\ UNCHANGED <<post, worldVars, rows, notes, eventVars, loaded, target, pending, failed, sent, fanoutFaults, changes>>

WorkerStep(w) ==
    \/ ClaimPost(w) \/ Load(w) \/ LoadFail(w) \/ Parse(w) \/ ParseFail(w) \/ Target(w) \/ TargetFail(w)
    \/ Filter(w) \/ Store(w) \/ NotifyFail(w) \/ Finish(w) \/ StopWorker(w) \/ TakeUpdate(w)

-----------------------------------------------------------------------------
(* Everybody else *)

handlerVars == <<post, notes, processed, claimedBy, localVars, stage, pending, failed, sent, fanoutFaults>>

Change == changes > 0 /\ changes' = changes - 1

\* An edit, refused when it names a blocked user or the owner is one, stores content
\* and mention rows in one transaction and enqueues an event for the users it adds.
Edit(c) ==
    LET added == Named(Desired(c, content.all) \ rows) IN
    /\ Change
    /\ live /\ c # content
    /\ (c.direct \union {post.owner}) \intersect blocked = {}
    /\ content' = c
    /\ rows' = Desired(c, content.all)
    /\ updates' = updates \union (IF added = {} THEN {} ELSE {[to |-> added, version |-> changes]})
    /\ UNCHANGED <<handlerVars, live, blocked, follows, marked, subscribed>>

Block(u) ==
    /\ Change
    /\ u \notin blocked
    /\ blocked' = blocked \union {u}
    /\ UNCHANGED <<handlerVars, rows, updates, live, content, follows, marked, subscribed>>

Follow(u) ==
    /\ Change
    /\ u \notin blocked \union follows
    /\ follows' = follows \union {u}
    /\ UNCHANGED <<handlerVars, rows, updates, live, content, blocked, marked, subscribed>>

\* A member other than the owner, whose mark stays, becomes or ceases to be a player.
MarkPlayer(u) ==
    /\ Change
    /\ u # post.owner
    /\ marked' = IF u \in marked THEN marked \ {u} ELSE marked \union {u}
    /\ UNCHANGED <<handlerVars, rows, updates, live, content, blocked, follows, subscribed>>

\* When the author ceases to be a player, the subscriptions to him go with his mark.
UnmarkAuthor ==
    /\ Change
    /\ post.role # "OWNER"
    /\ \E s \in subscribed : s[2] = "USER"
    /\ subscribed' = {s \in subscribed : s[2] # "USER"}
    /\ UNCHANGED <<handlerVars, rows, updates, live, content, blocked, follows, marked>>

Unsubscribe(s) ==
    /\ Change
    /\ s \in subscribed
    /\ subscribed' = subscribed \ {s}
    /\ UNCHANGED <<handlerVars, rows, updates, live, content, blocked, follows, marked>>

Delete ==
    /\ Change
    /\ live
    /\ live' = FALSE
    /\ UNCHANGED <<handlerVars, rows, updates, content, blocked, follows, marked, subscribed>>

FanoutNext == \/ \E w \in Worker : WorkerStep(w)
              \/ \E c \in Contents : Edit(c)
              \/ \E u \in User : Block(u) \/ Follow(u) \/ MarkPlayer(u)
              \/ UnmarkAuthor
              \/ \E s \in subscribed : Unsubscribe(s)
              \/ Delete

FanoutSpec == FanoutInit /\ [][FanoutNext]_fanoutVars

-----------------------------------------------------------------------------
(* Properties *)

Update == [to : SUBSET User, version : 1 .. Changes]

\* Every variable keeps its type.
FanoutTypeOK ==
    /\ post \in Post
    /\ live \in BOOLEAN
    /\ content \in Tokens
    /\ blocked \subseteq User /\ follows \subseteq User /\ marked \subseteq User
    /\ subscribed \subseteq User \X {"THREAD", "USER"}
    /\ rows \subseteq User \X Source
    /\ notes \subseteq Keys \X User
    /\ processed \in BOOLEAN
    /\ claimedBy \in Worker \union {NoTask}
    /\ updates \subseteq Update
    /\ task \in [Worker -> Update \union {Created, NoTask}]
    /\ stage \in [Worker -> Stages]
    /\ loaded \in [Worker -> [blocked : SUBSET User, observers : SUBSET User]]
    /\ explicit \in [Worker -> SUBSET User]
    /\ target \in [Worker -> User \union {NoUser}]
    /\ pending \in [Worker -> SUBSET User]
    /\ failed \in [Worker -> BOOLEAN]
    /\ sent \in [Worker -> SUBSET (Keys \X User)]
    /\ fanoutFaults \in 0 .. FanoutFaults /\ changes \in 0 .. Changes

Reasons(N, u) == {key \in Keys : <<key, u>> \in N}

\* One attempt never tells a user of the post for two reasons, whichever of its
\* sections fail and whatever changes while it runs.
OnePerAttempt == \A w \in Worker, u \in User : Cardinality(Reasons(sent[w], u)) <= 1

\* Whom the post concerns.
Concerned ==
    (Named(Desired(post.content, TRUE)) \union post.managers \union Subscribers
       \union CASE post.kind = "floor" -> {post.owner}
                 [] post.kind = "nested" -> {post.target}
                 [] OTHER -> {}) \ (blocked \union {NoUser})

\* The event is acknowledged only when everybody it concerns has a notification:
\* a failed section is not forgotten by the sections after it.
AckedMeansNotified ==
    processed /\ changes = Changes => \A u \in Concerned : Reasons(notes, u) # {}
=============================================================================
