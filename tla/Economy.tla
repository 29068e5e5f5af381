------------------------------ MODULE Economy ------------------------------
(***************************************************************************)
(* Tips and daily check-ins, src/src/economy/economy.service.ts, against   *)
(* the relations of UserRelations.                                         *)
(*                                                                         *)
(* A check-in runs READ COMMITTED.  A tip runs SERIALIZABLE: everything it *)
(* reads comes from the snapshot of its first read, which precedes its     *)
(* locks, and locking or updating a row that another transaction has       *)
(* committed since that snapshot fails with 40001 (the row is "stale").    *)
(* Such a failure is retried, three tries in all.                          *)
(***************************************************************************)
EXTENDS UserRelations, FiniteSetsExt

CONSTANTS Platform,     \* the platform wallet
          WalletRank,   \* the order of the wallet ids, unrelated to that of the users
          Content,      \* threads and moments that can be tipped
          KindOf,       \* "THREAD" or "MOMENT"
          OwnerOf,      \* thread owner or moment author
          Tip, Visit,   \* the tip and check-in requests of one behaviour
          Scenarios,    \* which requests are made and what the tips ask for; Init picks one
          VisitorOf,    \* the user of a check-in
          Funds,        \* initial balances
          Rewards,      \* randomInt(1, 4)
          CheckInExperience,  \* EXPERIENCE_RULES.DAILY_CHECK_IN.delta
          MaxTries,     \* 3 transactions for one tip request
          Changes,      \* bound: closings, exclusions and deactivations
          LastDay,      \* bound: days
          NoRow

Wallet == User \union {Platform}
NoContent == NoRow

\* A tip request: content is NoContent when a user is tipped directly.
TipRequest == [sender : User, recipient : User, content : Content \union {NoContent},
               amount : Nat, key : Nat]

ASSUME EconomyAssumption ==
    /\ Platform \notin User
    /\ IsFiniteSet(User)
    /\ WalletRank \in [Wallet -> Nat]
    /\ \A v, w \in Wallet : v # w => WalletRank[v] # WalletRank[w]
    /\ NoRow \notin Content \union Tip
    /\ KindOf \in [Content -> {"THREAD", "MOMENT"}]
    /\ OwnerOf \in [Content -> User]
    /\ Holder = Relation \union Tip \union Visit
    /\ Relation \intersect Tip = {} /\ Relation \intersect Visit = {} /\ Tip \intersect Visit = {}
    /\ Scenarios \subseteq [made : SUBSET Holder, tips : [Tip -> TipRequest]]
    /\ \A s \in Scenarios, r \in Tip : s.tips[r].amount >= 2
    /\ VisitorOf \in [Visit -> User]
    /\ Funds \in [Wallet -> Nat]
    /\ Rewards \subseteq Nat
    /\ CheckInExperience \in Nat
    /\ MaxTries \in Nat \ {0} /\ Changes \in Nat /\ LastDay \in Nat

VARIABLES
    tips,          \* the tip requests
    balance,       \* wallets.balance
    received,      \* wallets.received_tip_total
    receivedCount, \* wallets.received_tip_count
    tipTotal,      \* threads.tip_total and moments.tip_total
    ledger,        \* wallet_transactions
    tipEvents,     \* tip.completed outbox rows
    checkIns,      \* daily_check_ins, as <<user, day>>
    experience,    \* users.experience
    activeDays,    \* experience_daily_stats with check_in_count = 1, as <<user, day>>
    open,          \* contents that are published and not deleted
    audience,      \* users the access check of a content lets in
    walletLock,    \* the transaction that holds a wallet row
    phase,         \* of a tip or check-in: "new", "ready", "open", "decided" or "done"
    snap,          \* what an open tip transaction reads
    staleUsers, staleWallets, staleContent,  \* rows committed by others since then
    tries,         \* transactions a tip request has begun
    dayOf,         \* the date key a check-in computed
    result, answer,  \* outcome of a request and the ledger row it reports
    day, changes

moneyVars == <<balance, received, receivedCount, tipTotal, ledger, tipEvents>>
reqVars   == <<tips, phase, tries, dayOf, result, answer>>
txnVars   == <<snap, staleUsers, staleWallets, staleContent>>
vars == <<relVars, moneyVars, reqVars, txnVars, checkIns, experience, activeDays, open, audience,
          walletLock, day, changes>>

Result == {"none", "paid", "replayed", "reused", "self", "gone", "closed", "blocked",
           "insufficient", "conflict", "claimed"}

\* grossAmount * 85n / 100n, and the rest for the platform.
RecipientShare(gross) == (gross * 85) \div 100

TipRows(L) == {x \in L : x.type = "TIP"}

\* walletTransaction.findUnique by (senderWalletId, clientRequestId)
Earlier(L, r) == {x \in TipRows(L) : x.from = tips[r].sender /\ x.key = tips[r].key}

\* assertReplayHash: target type, target and amount
SamePayload(x, r) == /\ x.content = tips[r].content
                     /\ x.gross = tips[r].amount
                     /\ x.content = NoContent => x.to = tips[r].recipient

Snapshot == [ledger |-> ledger, blocks |-> blocks, open |-> open, audience |-> audience,
             active |-> active]
EmptySnapshot == [ledger |-> {}, blocks |-> {}, open |-> {}, audience |-> [c \in Content |-> {}],
                  active |-> {}]

Init ==
    /\ \E s \in Scenarios :
         /\ tips = s.tips
         /\ RelInit(s.made)
         /\ phase = [t \in Tip \union Visit |-> IF t \in s.made THEN "new" ELSE "done"]
    /\ balance = Funds
    /\ received = [w \in Wallet |-> 0]
    /\ receivedCount = [w \in Wallet |-> 0]
    /\ tipTotal = [c \in Content |-> 0]
    /\ ledger = {}
    /\ tipEvents = {}
    /\ checkIns = {}
    /\ experience = [u \in User |-> 0]
    /\ activeDays = {}
    /\ open = Content
    /\ audience = [c \in Content |-> User]
    /\ walletLock = [w \in Wallet |-> NoTxn]
    /\ snap = [r \in Tip |-> EmptySnapshot]
    /\ staleUsers = [r \in Tip |-> {}]
    /\ staleWallets = [r \in Tip |-> {}]
    /\ staleContent = [r \in Tip |-> {}]
    /\ tries = [r \in Tip |-> 0]
    /\ dayOf = [v \in Visit |-> 0]
    /\ result = [t \in Tip \union Visit |-> "none"]
    /\ answer = [r \in Tip |-> NoRow]
    /\ day = 1
    /\ changes = Changes

-----------------------------------------------------------------------------
(* Tips *)

Sender(r) == tips[r].sender
Recipient(r) == IF tips[r].content = NoContent THEN tips[r].recipient
                ELSE OwnerOf[tips[r].content]
UsersOf(r) == {Sender(r), Recipient(r)}
WalletsOf(r) == {Sender(r), Recipient(r), Platform}
ContentsOf(r) == {tips[r].content} \ {NoContent}

Reachable(r, opened, let) ==
    \A c \in ContentsOf(r) :
        /\ c \in opened
        /\ KindOf[c] = "THREAD" => Sender(r) \in let[c]

Finish(t, res) == /\ phase' = [phase EXCEPT ![t] = "done"]
                  /\ result' = [result EXCEPT ![t] = res]

\* Mutant: the request hash of an earlier tip is not compared.
BugPrepareOutcome(r) ==
    IF Sender(r) = Recipient(r) THEN "self"
    ELSE IF Earlier(ledger, r) # {} THEN "replayed"
    ELSE IF ~Reachable(r, open, audience) THEN "closed"
    ELSE "none"

\* The replay lookup and the checks of tipThread, tipUser and tipMoment, outside
\* of any transaction.
PrepareOutcome(r) ==
    IF tips[r].content = NoContent /\ Sender(r) = Recipient(r) THEN "self"
    ELSE IF \E x \in Earlier(ledger, r) : SamePayload(x, r) THEN "replayed"
    ELSE IF Earlier(ledger, r) # {} THEN "reused"
    ELSE IF /\ \E c \in ContentsOf(r) : KindOf[c] = "THREAD"
            /\ Blocked(blocks, Sender(r), Recipient(r))
         THEN "blocked"
    ELSE IF ~Reachable(r, open, audience) THEN "closed"
    ELSE IF /\ Recipient(r) \notin active
            /\ (\A c \in ContentsOf(r) : KindOf[c] = "MOMENT")
         THEN "gone"
    ELSE IF Sender(r) = Recipient(r) THEN "self"
    ELSE "none"

Report(r, L, res) ==
    answer' = IF res = "replayed"
              THEN [answer EXCEPT ![r] = (CHOOSE x \in Earlier(L, r) : TRUE).by]
              ELSE answer

Prepare(r) ==
    /\ phase[r] = "new"
    /\ phase' = [phase EXCEPT ![r] = IF PrepareOutcome(r) = "none" THEN "ready" ELSE "done"]
    /\ result' = [result EXCEPT ![r] = PrepareOutcome(r)]
    /\ Report(r, ledger, PrepareOutcome(r))
    /\ UNCHANGED <<relVars, moneyVars, txnVars, tips, tries, dayOf, checkIns, experience,
                   activeDays, open, audience, walletLock, day, changes>>

\* BEGIN ISOLATION LEVEL SERIALIZABLE and the first reads: the snapshot.
Begin(r) ==
    /\ phase[r] = "ready"
    /\ phase' = [phase EXCEPT ![r] = "open"]
    /\ tries' = [tries EXCEPT ![r] = @ + 1]
    /\ snap' = [snap EXCEPT ![r] = Snapshot]
    /\ UNCHANGED <<relVars, moneyVars, staleUsers, staleWallets, staleContent, tips, dayOf,
                   result, answer, checkIns, experience, activeDays, open, audience,
                   walletLock, day, changes>>

TipLockUser(r) ==
    /\ phase[r] = "open"
    /\ \E u \in UsersOf(r) \ staleUsers[r] : LockUser(r, UsersOf(r), u)
    /\ UNCHANGED <<active, blocks, follows, followed, relPhase, permitted, moneyVars, reqVars, txnVars,
                   checkIns, experience, activeDays, open, audience, walletLock, day, changes>>

BothActive(r) == UsersOf(r) \subseteq snap[r].active

NextWallet(r, w) ==
    /\ w \in WalletsOf(r)
    /\ walletLock[w] # r
    /\ \A v \in WalletsOf(r) : walletLock[v] # r => WalletRank[w] <= WalletRank[v]

TipLockWallet(r) ==
    /\ phase[r] = "open"
    /\ HoldsAll(UsersOf(r), userLock, r)
    /\ BothActive(r)
    /\ \E w \in WalletsOf(r) \ staleWallets[r] :
          /\ NextWallet(r, w)
          /\ walletLock[w] = NoTxn
          /\ walletLock' = [walletLock EXCEPT ![w] = r]
    /\ UNCHANGED <<relVars, moneyVars, reqVars, txnVars, checkIns, experience, activeDays,
                   open, audience, day, changes>>

\* COMMIT or ROLLBACK: the locks go, the snapshot is forgotten.
EndTransaction(r) ==
    /\ ReleaseUsers(r)
    /\ walletLock' = [w \in Wallet |-> IF walletLock[w] = r THEN NoTxn ELSE walletLock[w]]
    /\ snap' = [snap EXCEPT ![r] = EmptySnapshot]

ForgetStale(r) ==
    /\ staleUsers' = [staleUsers EXCEPT ![r] = {}]
    /\ staleWallets' = [staleWallets EXCEPT ![r] = {}]
    /\ staleContent' = [staleContent EXCEPT ![r] = {}]

HoldsEverything(r) == /\ HoldsAll(UsersOf(r), userLock, r)
                      /\ HoldsAll(WalletsOf(r), walletLock, r)

\* 40001: the next row to lock is stale, or the statements after the locks (the
\* moment's lock, the thread's update, the commit itself) are refused.
MayFail(r) ==
    \/ \E u \in staleUsers[r] : LeastFree(UsersOf(r), userLock, r, u) /\ userLock[u] = NoTxn
    \/ /\ HoldsAll(UsersOf(r), userLock, r)
       /\ \E w \in staleWallets[r] : NextWallet(r, w) /\ walletLock[w] = NoTxn
    \/ HoldsEverything(r)

SerializationFailure(r) ==
    /\ phase[r] = "open"
    /\ MayFail(r)
    /\ EndTransaction(r)
    /\ ForgetStale(r)
    /\ IF tries[r] < MaxTries
       THEN phase' = [phase EXCEPT ![r] = "ready"] /\ UNCHANGED result
       ELSE Finish(r, "conflict")
    /\ UNCHANGED <<active, blocks, follows, followed, relPhase, permitted, moneyVars, tips, tries, dayOf,
                   answer, checkIns, experience, activeDays, open, audience, day, changes>>

\* The account checks between the user locks and the wallet locks.
TipGone(r) ==
    /\ phase[r] = "open"
    /\ HoldsAll(UsersOf(r), userLock, r)
    /\ ~BothActive(r)
    /\ EndTransaction(r)
    /\ ForgetStale(r)
    /\ Finish(r, "gone")
    /\ UNCHANGED <<active, blocks, follows, followed, relPhase, permitted, moneyVars, tips, tries, dayOf,
                   answer, checkIns, experience, activeDays, open, audience, day, changes>>

\* Mutant: the replay lookup is made before the transaction only.
BugNoReplay(r) ==
    IF Blocked(snap[r].blocks, Sender(r), Recipient(r)) THEN "blocked"
    ELSE IF ~Reachable(r, snap[r].open, snap[r].audience) THEN "closed"
    ELSE IF balance[Sender(r)] < tips[r].amount THEN "insufficient"
    ELSE "paid"

\* The checks under all locks, in their order and on the snapshot; the balance is
\* that of a row the transaction has locked.
Outcome(r) ==
    IF \E x \in Earlier(snap[r].ledger, r) : SamePayload(x, r) THEN "replayed"
    ELSE IF Earlier(snap[r].ledger, r) # {} THEN "reused"
    ELSE IF Blocked(snap[r].blocks, Sender(r), Recipient(r)) THEN "blocked"
    ELSE IF ~Reachable(r, snap[r].open, snap[r].audience) THEN "closed"
    ELSE IF balance[Sender(r)] < tips[r].amount THEN "insufficient"
    ELSE "paid"

\* A moment is locked before it is read, so its checks never see a stale row.
MomentFresh(r) == \A c \in ContentsOf(r) : KindOf[c] = "MOMENT" => c \notin staleContent[r]

Refuse(r) ==
    /\ phase[r] = "open"
    /\ HoldsEverything(r)
    /\ Outcome(r) # "paid"
    /\ Outcome(r) \in {"closed", "insufficient"} => MomentFresh(r)
    /\ EndTransaction(r)
    /\ ForgetStale(r)
    /\ Finish(r, Outcome(r))
    /\ Report(r, snap[r].ledger, Outcome(r))
    /\ UNCHANGED <<active, blocks, follows, followed, relPhase, permitted, moneyVars, tips, tries, dayOf,
                   checkIns, experience, activeDays, open, audience, day, changes>>

OpenTips(t) == {q \in Tip \ {t} : phase[q] = "open"}

MarkStale(stale, t, rows) ==
    [q \in Tip |-> IF q = t THEN {} ELSE IF q \in OpenTips(t) THEN stale[q] \union rows ELSE stale[q]]

TipRow(r) == [type |-> "TIP", by |-> r, from |-> Sender(r), to |-> Recipient(r),
              content |-> tips[r].content, key |-> tips[r].key,
              gross |-> tips[r].amount, net |-> RecipientShare(tips[r].amount)]

\* Mutant: the platform's share is rounded on its own.
BugTransfer(b, s, t, gross) ==
    [b EXCEPT ![s] = @ - gross,
              ![t] = @ + RecipientShare(gross),
              ![Platform] = @ + (gross * 15) \div 100]

\* The three balances of a tip, sender and recipient being different wallets.
Transfer(b, s, t, gross) ==
    [b EXCEPT ![s] = @ - gross,
              ![t] = @ + RecipientShare(gross),
              ![Platform] = @ + gross - RecipientShare(gross)]

\* Mutant: the thread's row is left out of the transaction's writes.
BugTargetFresh(r) == MomentFresh(r)

TargetFresh(r) == ContentsOf(r) \intersect staleContent[r] = {}

\* The debit, the two credits, the public totals, the ledger row and the outbox
\* row, committed together.  Updating a stale thread row would fail with 40001.
Pay(r) ==
    LET gross == tips[r].amount IN
    /\ phase[r] = "open"
    /\ HoldsEverything(r)
    /\ Outcome(r) = "paid"
    /\ TargetFresh(r)
    /\ balance' = Transfer(balance, Sender(r), Recipient(r), gross)
    /\ received' = [received EXCEPT ![Recipient(r)] = @ + gross]
    /\ receivedCount' = [receivedCount EXCEPT ![Recipient(r)] = @ + 1]
    /\ tipTotal' = [c \in Content |-> IF c \in ContentsOf(r) THEN tipTotal[c] + gross
                                      ELSE tipTotal[c]]
    /\ ledger' = ledger \union {TipRow(r)}
    /\ tipEvents' = tipEvents \union {r}
    /\ EndTransaction(r)
    /\ staleUsers' = MarkStale(staleUsers, r, {})
    /\ staleWallets' = MarkStale(staleWallets, r, WalletsOf(r))
    /\ staleContent' = MarkStale(staleContent, r, ContentsOf(r))
    /\ Finish(r, "paid")
    /\ answer' = [answer EXCEPT ![r] = r]
    /\ UNCHANGED <<active, blocks, follows, followed, relPhase, permitted, tips, tries, dayOf,
                   checkIns, experience, activeDays, open, audience, day, changes>>

-----------------------------------------------------------------------------
(* Daily check-ins *)

\* The date key is computed before the transaction opens.
VisitBegin(v) ==
    /\ phase[v] = "new"
    /\ phase' = [phase EXCEPT ![v] = "open"]
    /\ dayOf' = [dayOf EXCEPT ![v] = day]
    /\ UNCHANGED <<relVars, moneyVars, txnVars, tips, tries, result, answer, checkIns,
                   experience, activeDays, open, audience, walletLock, day, changes>>

VisitLock(v) ==
    /\ phase[v] = "open"
    /\ LockUser(v, {VisitorOf[v]}, VisitorOf[v])
    /\ UNCHANGED <<active, blocks, follows, followed, relPhase, permitted, moneyVars, reqVars, txnVars,
                   checkIns, experience, activeDays, open, audience, walletLock, day, changes>>

AlreadyIn(v) == <<VisitorOf[v], dayOf[v]>> \in checkIns

\* Under the lock: a deactivated user, or the day's row is there: nothing is written.
VisitRefuse(v) ==
    /\ phase[v] = "open"
    /\ userLock[VisitorOf[v]] = v
    /\ VisitorOf[v] \notin active \/ AlreadyIn(v)
    /\ Finish(v, IF VisitorOf[v] \notin active THEN "gone" ELSE "replayed")
    /\ ReleaseUsers(v)
    /\ UNCHANGED <<active, blocks, follows, followed, relPhase, permitted, moneyVars, txnVars, tips, tries,
                   dayOf, answer, checkIns, experience, activeDays, open, audience,
                   walletLock, day, changes>>

VisitProceed(v) ==
    /\ phase[v] = "open"
    /\ userLock[VisitorOf[v]] = v
    /\ VisitorOf[v] \in active /\ ~AlreadyIn(v)
    /\ phase' = [phase EXCEPT ![v] = "decided"]
    /\ UNCHANGED <<relVars, moneyVars, txnVars, tips, tries, dayOf, result, answer, checkIns,
                   experience, activeDays, open, audience, walletLock, day, changes>>

\* progression.grantInTransaction: once a day, and the day is that of the grant.
GrantDue(u) == <<u, day>> \notin activeDays

\* The wallet update waits for its row; the reward, the ledger row, the experience
\* and the check-in commit together.
VisitPay(v) ==
    LET u == VisitorOf[v] IN
    /\ phase[v] = "decided"
    /\ walletLock[u] = NoTxn
    /\ \E reward \in Rewards :
         /\ balance' = [balance EXCEPT ![u] = @ + reward]
         /\ ledger' = ledger \union {[type |-> "DAILY_CHECK_IN", by |-> v, to |-> u,
                                      net |-> reward, day |-> dayOf[v]]}
    /\ checkIns' = checkIns \union {<<u, dayOf[v]>>}
    /\ experience' = [experience EXCEPT ![u] = IF GrantDue(u) THEN @ + CheckInExperience ELSE @]
    /\ activeDays' = activeDays \union {<<u, day>>}
    /\ staleUsers' = MarkStale(staleUsers, v, IF GrantDue(u) THEN {u} ELSE {})
    /\ staleWallets' = MarkStale(staleWallets, v, {u})
    /\ Finish(v, "claimed")
    /\ ReleaseUsers(v)
    /\ UNCHANGED <<active, blocks, follows, followed, relPhase, permitted, received, receivedCount,
                   tipTotal, tipEvents, snap, staleContent, tips, tries, dayOf, answer,
                   open, audience, walletLock, day, changes>>

-----------------------------------------------------------------------------
(* Other components: relations, moderation of contents, accounts, the clock *)

othersUnchanged == <<moneyVars, reqVars, checkIns, experience, activeDays, walletLock>>

\* Relation transactions lock user rows and change none, so no row becomes stale.
Relate == /\ RelNext
          /\ UNCHANGED <<othersUnchanged, txnVars, open, audience, day, changes>>

\* A content is deleted: its row changes.
Close(c) ==
    /\ changes > 0
    /\ c \in open
    /\ open' = open \ {c}
    /\ staleContent' = MarkStale(staleContent, NoTxn, {c})
    /\ changes' = changes - 1
    /\ UNCHANGED <<othersUnchanged, relVars, snap, staleUsers, staleWallets, audience, day>>

\* The owner makes a thread private, under the owner's user lock: from now on only
\* its members get in.  The thread's row changes; no request removes a member.
MakePrivate(c, members) ==
    /\ changes > 0
    /\ KindOf[c] = "THREAD" /\ c \in open
    /\ userLock[OwnerOf[c]] = NoTxn
    /\ OwnerOf[c] \in members /\ members \subseteq audience[c] /\ members # audience[c]
    /\ audience' = [audience EXCEPT ![c] = members]
    /\ staleContent' = MarkStale(staleContent, NoTxn, {c})
    /\ changes' = changes - 1
    /\ UNCHANGED <<othersUnchanged, relVars, snap, staleUsers, staleWallets, open, day>>

Leave(u) ==
    /\ changes > 0
    /\ Deactivate(u)
    /\ staleUsers' = MarkStale(staleUsers, NoTxn, {u})
    /\ changes' = changes - 1
    /\ UNCHANGED <<othersUnchanged, snap, staleWallets, staleContent, open, audience, day>>

NextDay ==
    /\ day < LastDay
    /\ day' = day + 1
    /\ UNCHANGED <<othersUnchanged, relVars, txnVars, open, audience, changes>>

TipStep(r) == \/ Prepare(r) \/ Begin(r) \/ TipLockUser(r) \/ TipGone(r) \/ TipLockWallet(r)
              \/ SerializationFailure(r) \/ Refuse(r) \/ Pay(r)

VisitStep(v) == VisitBegin(v) \/ VisitLock(v) \/ VisitRefuse(v) \/ VisitProceed(v) \/ VisitPay(v)

Next == \/ \E r \in Tip : TipStep(r)
        \/ \E v \in Visit : VisitStep(v)
        \/ Relate
        \/ \E c \in Content : Close(c) \/ \E m \in SUBSET User : MakePrivate(c, m)
        \/ \E u \in User : Leave(u)
        \/ NextDay

Spec == Init /\ [][Next]_vars

-----------------------------------------------------------------------------
(* Properties *)

LedgerRow == [type : {"TIP"}, by : Tip, from : User, to : User,
              content : Content \union {NoContent}, key : Nat, gross : Nat, net : Nat]
             \union
             [type : {"DAILY_CHECK_IN"}, by : Visit, to : User, net : Nat, day : Nat]

SnapshotType == [ledger : SUBSET LedgerRow, blocks : SUBSET (User \X User), open : SUBSET Content,
                 audience : [Content -> SUBSET User], active : SUBSET User]

RequestTypeOK ==
    /\ tips \in [Tip -> TipRequest]
    /\ phase \in [Tip \union Visit -> {"new", "ready", "open", "decided", "done"}]
    /\ tries \in [Tip -> Nat]
    /\ dayOf \in [Visit -> Nat]
    /\ result \in [Tip \union Visit -> Result]
    /\ answer \in [Tip -> Tip \union {NoRow}]

MoneyTypeOK ==
    /\ balance \in [Wallet -> Nat]
    /\ received \in [Wallet -> Nat]
    /\ receivedCount \in [Wallet -> Nat]
    /\ tipTotal \in [Content -> Nat]
    /\ ledger \subseteq LedgerRow
    /\ tipEvents \subseteq Tip
    /\ checkIns \subseteq User \X Nat
    /\ experience \in [User -> Nat]
    /\ activeDays \subseteq User \X Nat

TransactionTypeOK ==
    /\ walletLock \in [Wallet -> Holder \union {NoTxn}]
    /\ snap \in [Tip -> SnapshotType]
    /\ staleUsers \in [Tip -> SUBSET User]
    /\ staleWallets \in [Tip -> SUBSET Wallet]
    /\ staleContent \in [Tip -> SUBSET Content]

WorldTypeOK ==
    /\ open \subseteq Content
    /\ audience \in [Content -> SUBSET User]
    /\ day \in Nat /\ changes \in Nat

\* Every variable keeps its type; balances are natural numbers: no sequence of
\* concurrent tips overdraws a wallet (the conditional debit of tip).
TypeOK == /\ RelTypeOK /\ RequestTypeOK /\ MoneyTypeOK /\ TransactionTypeOK /\ WorldTypeOK

\* A payer is charged at most once for one clientRequestId, however many copies
\* of the request run at the same time and whichever of them is retried.
OncePerKey ==
    \A x, y \in TipRows(ledger) : x.from = y.from /\ x.key = y.key => x = y

\* Under its locks the replay lookup is as good as a read of the present ledger:
\* the unique index never has to refuse a tip (the P2002 branch stays unused).
ReplayLookupCurrent ==
    \A r \in Tip : phase[r] = "open" /\ HoldsEverything(r)
        => Earlier(snap[r].ledger, r) = Earlier(ledger, r)

\* Every wallet holds its opening funds plus what the ledger says it got minus
\* what it gave; nothing is created but check-in rewards.
Credited(w) == MapThenSumSet(LAMBDA x : x.net, {x \in ledger : x.to = w})
Debited(w) == MapThenSumSet(LAMBDA x : x.gross, {x \in TipRows(ledger) : x.from = w})
Fees == MapThenSumSet(LAMBDA x : x.gross - x.net, TipRows(ledger))

LedgerBalances ==
    /\ \A u \in User : balance[u] = Funds[u] + Credited(u) - Debited(u)
    /\ balance[Platform] = Funds[Platform] + Fees
    /\ \A c \in Content : tipTotal[c] = MapThenSumSet(LAMBDA x : x.gross,
                                          {x \in TipRows(ledger) : x.content = c})

\* What a successful request reports is a committed tip with its own payload.
AnswerIsOwnTip ==
    \A r \in Tip : result[r] \in {"paid", "replayed"} =>
        \E x \in Earlier(ledger, r) : x.by = answer[r] /\ SamePayload(x, r)

\* A content is never paid after it was deleted, a thread never by somebody it was
\* closed to, and a user never after deactivation, although the checks read the
\* snapshot: all these changes write rows that the tip locks or updates.
PaidTargetIsLive ==
    [][\A x \in ledger' \ ledger : x.type = "TIP" =>
         /\ x.content # NoContent =>
               /\ x.content \in open
               /\ KindOf[x.content] = "THREAD" => x.from \in audience[x.content]
         /\ x.from \in active /\ x.to \in active]_vars

\* Nobody waits in a circle: users are locked before wallets, both in the order
\* of their ids, by every transaction.
Wants(t, q) ==
    \/ t \in Tip /\ phase[t] = "open" /\
         \/ \E u \in UsersOf(t) : LeastFree(UsersOf(t), userLock, t, u) /\ userLock[u] = q
         \/ /\ HoldsAll(UsersOf(t), userLock, t)
            /\ \E w \in WalletsOf(t) : NextWallet(t, w) /\ walletLock[w] = q
    \/ t \in Visit /\ phase[t] = "open" /\ userLock[VisitorOf[t]] = q
    \/ t \in Visit /\ phase[t] = "decided" /\ walletLock[VisitorOf[t]] = q
    \/ t \in Relation /\ relPhase[t] = "open" /\
         \E u \in Pair(t) : LeastFree(Pair(t), userLock, t, u) /\ userLock[u] = q

Waiting == {t \in Holder : \E q \in Holder \ {t} : Wants(t, q)}

NoLockCycle ==
    \A S \in SUBSET Waiting : S # {} => \E t \in S : \A q \in S \ {t} : ~Wants(t, q)

\* A follow is never committed while a block between the two users is in force:
\* both take the same ordered user locks and then read what is committed.
FollowRespectsBlock ==
    [][\A e \in follows' \ follows : ~Blocked(blocks, e[1], e[2])]_vars

\* What docs/modules/users.md:108 says of every interaction: once a block is
\* committed no concurrent interaction gets past it.
TipRespectsBlock ==
    [][\A x \in ledger' \ ledger : x.type = "TIP" => ~Blocked(blocks, x.from, x.to)]_vars
=============================================================================
