------------------------------ MODULE Moderation ------------------------------
(***************************************************************************)
(* Reports, cases, decisions, appeals and sanctions about one moment, its  *)
(* comments and their authors (src/src/moderation, src/src/reports).       *)
(*                                                                         *)
(* Cases, reports, decisions and appeals are read without a lock: a        *)
(* transaction of staff is one step for what it read before its first      *)
(* write and one for its writes, and anything may commit between the two.  *)
(* The writes to a content or an account are made under the row lock of    *)
(* the moment or of the user, after reading the row again.                 *)
(***************************************************************************)
EXTENDS Moments, Sequences

CONSTANTS Handlers,   \* transactions that have read and not yet written
          TheMoment,  \* the moment as a target of a report
          Loads,      \* bound: what occurs in one behaviour, [ops, targets, cases]
          MaxReports, MaxSanctions   \* bounds

ASSUME ModerationAssumption ==
    /\ TheMoment \notin Users \cup Comments /\ Users \cap Comments = {}
    /\ MaxReports \in Nat /\ MaxSanctions \in Nat

VARIABLES cases,      \* <<[target, status]>>
          reports,    \* <<[by, target, case, status]>>
          decisions,  \* <<[target, action, active, appeal]>>
          sanctions,  \* <<[user, type, open, ended, decision]>>; open: revokedAt is null
          sessions,   \* users with a refresh token that is not revoked
          cause,      \* history: hidden content -> the decision that hid it, 0 for none
          calls,      \* handler -> [op, id, arg, seen]
          load

records == <<cases, reports, decisions>>
accounts == <<sanctions, sessions>>
vars == <<content, records, accounts, cause, calls, load>>

Contents == {TheMoment} \cup Comments
Idle == [op |-> "idle", id |-> None, arg |-> None, seen |-> 0]

Init ==
    /\ MomentsInit
    /\ cases = <<>> /\ reports = <<>> /\ decisions = <<>> /\ sanctions = <<>>
    /\ sessions = {} /\ cause = [t \in Contents |-> 0]
    /\ calls = [h \in Handlers |-> Idle] /\ load \in Loads

Occurs(op) == op \in load.ops
Owner(t) == IF t = TheMoment THEN Author ELSE IF t \in Comments THEN comments[t].by ELSE t
Begin(h, op, id, arg, seen) ==
    /\ Occurs(op) /\ calls[h] = Idle
    /\ calls' = [calls EXCEPT ![h] = [op |-> op, id |-> id, arg |-> arg, seen |-> seen]]
    /\ UNCHANGED <<content, records, accounts, cause, load>>
Ends(h, op) == calls[h].op = op /\ calls' = [calls EXCEPT ![h] = Idle] /\ UNCHANGED load

\* A conflict, an error of the database or the end of the process: nothing is written.
GiveUp(h) ==
    /\ calls[h] # Idle /\ calls' = [calls EXCEPT ![h] = Idle]
    /\ UNCHANGED <<content, records, accounts, cause, load>>

(***************************************************************************)
(* Content                                                                 *)
(***************************************************************************)
StateOf(t) == IF t = TheMoment THEN moment.state ELSE comments[t].state
SetState(t, s) ==
    IF t = TheMoment
    THEN moment' = [moment EXCEPT !.state = s] /\ UNCHANGED <<comments, likes, marks>>
    ELSE /\ comments' = [comments EXCEPT ![t].state = s]
         /\ moment' = [moment EXCEPT !.comments = IF s = "live" THEN @ + 1 ELSE @ - 1]
         /\ UNCHANGED <<likes, marks>>

\* hideContentInTransaction: a reply is hidden only below a root nobody removed.
Hide(t, d) ==
    /\ t \in Contents /\ StateOf(t) = "live"
    /\ t \in Comments => Live /\ RootState(t) = "live"
    /\ SetState(t, "hidden") /\ cause' = [cause EXCEPT ![t] = d]

\* Mutant: any removed content comes back.
BugHidden(t) == StateOf(t) \in {"hidden", "gone"}

\* removalSource === ADMIN, read again under the lock
Hidden(t) == StateOf(t) = "hidden"

\* restoreDecisionContent: unlike restoreContent it does not look at the root of a reply.
Unhide(t) ==
    /\ Hidden(t) /\ (t \in Comments => Live)
    /\ SetState(t, "live") /\ cause' = [cause EXCEPT ![t] = 0]

HideContent(t) ==
    /\ Occurs("staff") /\ t \in load.targets /\ Hide(t, 0)
    /\ UNCHANGED <<records, accounts, calls, load>>

RestoreContent(t) ==
    /\ Occurs("staff") /\ t \in load.targets /\ Unhide(t) /\ (t \in Comments => RootState(t) = "live")
    /\ UNCHANGED <<records, accounts, calls, load>>

UseMoment ==
    /\ \E u \in Users :
        \/ /\ Occurs("comment")
           /\ \E c \in Comments \cap load.targets :
                \/ \E to \in Comments \cup {None} : CreateComment(u, c, to)
                \/ RemoveComment(u, c)
        \/ Occurs("close") /\ RemoveMoment(u)
        \/ Occurs("like") /\ \E on \in BOOLEAN : SetLike(u, on) \/ SetMark(u, on)
    /\ UNCHANGED <<records, accounts, cause, calls, load>>

(***************************************************************************)
(* Accounts: applySanctionInTransaction and the sessions lock the user     *)
(***************************************************************************)
Effective(s) == sanctions[s].open /\ ~sanctions[s].ended
Open(u) == {s \in DOMAIN sanctions : sanctions[s].user = u /\ sanctions[s].open}
Sanctioned(u) == \E s \in Open(u) : Effective(s)

\* Mutant: an upgrade of a suspension leaves the sessions to it.
BugSignedOut(u) == IF Open(u) # {} THEN sessions ELSE sessions \ {u}

\* refreshToken.updateMany({ userId, revokedAt: null })
SignedOut(u) == sessions \ {u}

\* Only a ban replaces an effective suspension; one that is over is archived.
Sanction(u, type, d) ==
    /\ u \notin Staff /\ Len(sanctions) < MaxSanctions
    /\ \A s \in Open(u) : Effective(s) => sanctions[s].type = "SUSPEND" /\ type = "BAN"
    /\ sanctions' = Append([s \in DOMAIN sanctions |->
                               [sanctions[s] EXCEPT !.open = @ /\ s \notin Open(u)]],
                           [user |-> u, type |-> type, open |-> TRUE, ended |-> FALSE, decision |-> d])
    /\ sessions' = SignedOut(u)

SanctionUser(u, type) ==
    /\ Occurs("staff") /\ u \in load.targets /\ Sanction(u, type, 0)
    /\ UNCHANGED <<content, records, cause, calls, load>>

\* The two accesses of revokeSanction: no lock, and an update by id.
RevokeRead(h, u) == \E s \in Open(u) : Effective(s) /\ Begin(h, "revoke", u, None, s)

Lift(s) == sanctions' = [sanctions EXCEPT ![s].open = FALSE]
RevokeWrite(h) ==
    /\ Ends(h, "revoke") /\ Lift(calls[h].seen)
    /\ UNCHANGED <<content, records, sessions, cause>>

Expire(s) ==
    /\ sanctions[s].type = "SUSPEND" /\ ~sanctions[s].ended
    /\ sanctions' = [sanctions EXCEPT ![s].ended = TRUE]
    /\ UNCHANGED <<content, records, sessions, cause, calls, load>>

Login(u) ==
    /\ Occurs("login") /\ ~Sanctioned(u) /\ sessions' = sessions \cup {u}
    /\ UNCHANGED <<content, records, sanctions, cause, calls, load>>

Logout(u) ==
    /\ sessions' = sessions \ {u}
    /\ UNCHANGED <<content, records, sanctions, cause, calls, load>>

(***************************************************************************)
(* Reports and cases                                                       *)
(***************************************************************************)
Pending(r) == reports[r].status = "PENDING"
OpenCases(t) == {k \in DOMAIN cases : cases[k].target = t /\ cases[k].status = "OPEN"}
CaseSeen(t) == IF OpenCases(t) = {} THEN 0 ELSE CHOOSE k \in OpenCases(t) : TRUE
Reportable(t) == IF t \in Comments THEN Live /\ Shown(t) ELSE t = TheMoment => Live

\* create: the snapshot of the target and createInOpenCase up to the case it finds.
ReportRead(h, u, t) ==
    /\ t \in load.targets /\ Reportable(t) /\ Owner(t) # u
    /\ Begin(h, "report", t, u, CaseSeen(t))

Duplicate(t, u) == \E r \in DOMAIN reports : Pending(r) /\ reports[r].target = t /\ reports[r].by = u

\* The unique indexes: one pending report of a person, one open case of a target.
ReportWrite(h) ==
    LET t == calls[h].id  k == calls[h].seen IN
    /\ ~Duplicate(t, calls[h].arg) /\ Len(reports) < MaxReports
    /\ IF k # 0 THEN UNCHANGED cases
       ELSE /\ OpenCases(t) = {} /\ Len(cases) < load.cases
            /\ cases' = Append(cases, [target |-> t, status |-> "OPEN"])
    /\ reports' = Append(reports, [by |-> calls[h].arg, target |-> t, status |-> "PENDING",
                                   case |-> IF k = 0 THEN Len(cases) + 1 ELSE k])
    /\ Ends(h, "report") /\ UNCHANGED <<content, decisions, accounts, cause>>

\* P2002 on the open case: the report joins the case of the winner.
ReportAgain(h) ==
    LET t == calls[h].id IN
    /\ calls[h].op = "report" /\ calls[h].seen = 0 /\ OpenCases(t) # {} /\ ~Duplicate(t, calls[h].arg)
    /\ calls' = [calls EXCEPT ![h].seen = CaseSeen(t)]
    /\ UNCHANGED <<content, records, accounts, cause, load>>

\* What a resolution does to its target; d: the decision it belongs to, 0 for a report.
Measure(action, t, d) ==
    \/ action \in {"DISMISS", "NONE"} /\ UNCHANGED <<content, accounts, cause>>
    \/ action = "HIDE" /\ Hide(t, d) /\ UNCHANGED accounts
    \/ action \in {"SUSPEND", "BAN"} /\ Sanction(Owner(t), action, d) /\ UNCHANGED <<content, cause>>

Handled(action) == IF action = "DISMISS" THEN "DISMISSED" ELSE "RESOLVED"

\* reports.service.ts resolve: the report is claimed where it is still PENDING.
HandleRead(h, r, action) ==
    /\ Pending(r)
    /\ action \in {"DISMISS", "NONE"}
                  \cup IF reports[r].target \in Users THEN {"SUSPEND", "BAN"} ELSE {"HIDE"}
    /\ Begin(h, "handle", r, action, 0)

HandleWrite(h) ==
    LET r == calls[h].id IN
    /\ Ends(h, "handle") /\ Pending(r)
    /\ reports' = [reports EXCEPT ![r].status = Handled(calls[h].arg)]
    /\ Measure(calls[h].arg, reports[r].target, 0)
    /\ UNCHANGED <<cases, decisions>>

\* resolveCase: OPEN is what the case was when it was read; the update names its id only.
CaseRead(h, k, action) ==
    /\ cases[k].status = "OPEN"
    /\ action \in {"DISMISS", "SUSPEND", "BAN"} \cup IF cases[k].target \in Users THEN {} ELSE {"HIDE"}
    /\ Begin(h, "case", k, action, 0)

CaseWrite(h) ==
    LET k == calls[h].id  action == calls[h].arg  t == cases[k].target IN
    /\ Ends(h, "case")
    /\ decisions' = IF action = "DISMISS" THEN decisions
                    ELSE Append(decisions,
                                [target |-> t, action |-> action, active |-> TRUE, appeal |-> "none"])
    /\ Measure(action, t, Len(decisions'))
    /\ reports' = [r \in DOMAIN reports |->
                      IF reports[r].case = k /\ Pending(r)
                      THEN [reports[r] EXCEPT !.status = Handled(action)] ELSE reports[r]]
    /\ cases' = [cases EXCEPT ![k].status = Handled(action)]

(***************************************************************************)
(* Appeals                                                                 *)
(***************************************************************************)
CreateAppeal(d) ==
    /\ Occurs("appeal") /\ decisions[d].active /\ decisions[d].appeal = "none"
    /\ decisions' = [decisions EXCEPT ![d].appeal = "PENDING"]
    /\ UNCHANGED <<content, cases, reports, accounts, cause, calls, load>>

\* decision.sanction, if it is not revoked yet
SanctionOf(d) ==
    LET found == {s \in DOMAIN sanctions : sanctions[s].decision = d /\ sanctions[s].open}
    IN  IF found = {} THEN 0 ELSE CHOOSE s \in found : TRUE

AppealRead(h, d, outcome) ==
    /\ decisions[d].appeal = "PENDING"
    /\ outcome = "OVERTURNED" => decisions[d].active
    /\ Begin(h, "appeal", d, outcome, SanctionOf(d))

\* Mutant: only a suspension is taken back.
BugOverturn(d, s) ==
    IF decisions[d].action = "HIDE" THEN Unhide(decisions[d].target) /\ UNCHANGED accounts
    ELSE /\ IF s = 0 \/ sanctions[s].type = "BAN" THEN UNCHANGED sanctions ELSE Lift(s)
         /\ UNCHANGED <<content, sessions, cause>>

Overturn(d, s) ==
    IF decisions[d].action = "HIDE" THEN Unhide(decisions[d].target) /\ UNCHANGED accounts
    ELSE /\ IF s = 0 THEN UNCHANGED sanctions ELSE Lift(s)
         /\ UNCHANGED <<content, sessions, cause>>

AppealWrite(h) ==
    LET d == calls[h].id  outcome == calls[h].arg IN
    /\ Ends(h, "appeal")
    /\ IF outcome = "UPHELD" THEN UNCHANGED <<content, accounts, cause>> ELSE Overturn(d, calls[h].seen)
    /\ decisions' = [decisions EXCEPT ![d].appeal = outcome, ![d].active = @ /\ outcome = "UPHELD"]
    /\ UNCHANGED <<cases, reports>>

Next ==
    \/ UseMoment
    \/ \E t \in Contents : HideContent(t) \/ RestoreContent(t)
    \/ \E u \in Users : Login(u) \/ Logout(u) \/ \E type \in {"SUSPEND", "BAN"} : SanctionUser(u, type)
    \/ \E s \in DOMAIN sanctions : Expire(s)
    \/ \E d \in DOMAIN decisions : CreateAppeal(d)
    \/ \E h \in Handlers :
        \/ GiveUp(h) \/ RevokeWrite(h) \/ ReportWrite(h) \/ ReportAgain(h)
        \/ HandleWrite(h) \/ CaseWrite(h) \/ AppealWrite(h)
        \/ \E u \in Users : RevokeRead(h, u) \/ \E t \in Contents \cup Users : ReportRead(h, u, t)
        \/ \E action \in {"DISMISS", "NONE", "HIDE", "SUSPEND", "BAN"} :
            \/ \E r \in DOMAIN reports : HandleRead(h, r, action)
            \/ \E k \in DOMAIN cases : CaseRead(h, k, action)
        \/ \E d \in DOMAIN decisions, outcome \in {"UPHELD", "OVERTURNED"} : AppealRead(h, d, outcome)

Spec == Init /\ [][Next]_vars

(***************************************************************************)
(* Properties.                                                             *)
(***************************************************************************)

\* What is settled stays settled: a content its author or the owner of the moment removed never
\* comes back, however old the hiding is that staff restores or an appeal overturns
\* (docs/modules/admin.md:49); a report keeps the outcome it was handled with when two of the
\* staff, or the report and its case, are resolved together; what was revoked is not in force again.
SettledStays ==
    [][/\ \A t \in Contents : StateOf(t) = "gone" => StateOf(t)' = "gone"
       /\ \A r \in DOMAIN reports : ~Pending(r) => reports'[r] = reports[r]
       /\ \A s \in DOMAIN sanctions : ~sanctions[s].open => ~sanctions'[s].open
       /\ \A d \in DOMAIN decisions : ~decisions[d].active => ~decisions'[d].active]_vars

\* Nobody under an effective sanction has a session, whatever the order in which logins,
\* sanctions, upgrades, expiries and revocations from an old read commit.
SanctionedStaysOut == \A u \in Users : Sanctioned(u) => u \notin sessions

\* Nothing an overturned decision imposed is still in force: the content is not hidden because of
\* it and its sanction is revoked (docs/modules/reports.md:24).
ReversedIsLifted ==
    \A d \in DOMAIN decisions : ~decisions[d].active =>
        /\ \A t \in Contents : Hidden(t) => cause[t] # d
        /\ \A s \in DOMAIN sanctions : sanctions[s].decision = d => ~sanctions[s].open
=============================================================================
