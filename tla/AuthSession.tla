---------------------------- MODULE AuthSession ----------------------------
(***************************************************************************)
(* Login terminals and refresh tokens of one user,                         *)
(* src/src/auth/auth-session.service.ts.                                   *)
(*                                                                         *)
(* Logins, refreshes and whatever ends all terminals hold the user's row   *)
(* lock; logout and revokeSession are single UPDATE statements without it. *)
(* Transactions are READ COMMITTED: a statement sees what is committed     *)
(* when it starts, waits for rows that an open transaction has updated and *)
(* then looks at these rows again, but not at rows inserted meanwhile.     *)
(***************************************************************************)
EXTENDS Integers, Sequences, FiniteSets

CONSTANTS Request,     \* the requests of one behaviour
          Scenarios,   \* what kind of request each of them is; Init picks one
          MaxFailures, \* 5 wrong passwords
          LockTime,    \* lock an account for 15 minutes,
          Grace,       \* REFRESH_REPLAY_GRACE,
          Timeout,     \* SESSION_TRANSACTION_OPTIONS.timeout
          Lifetime,    \* and the lifetime of a refresh token, in ticks
          MaxTime,     \* bound: the clock
          NoRequest

Platform == {"web", "mobile"}

\* What ends all terminals: a new password, a deactivation, a sanction.
EndingKind == {"password", "deactivate", "sanction"}
RevokingKind == {"revoke", "logout"}
RequestKind == {"login", "refresh"} \union EndingKind \union RevokingKind

Never == -1

ASSUME AuthAssumption ==
    /\ IsFiniteSet(Request)
    /\ NoRequest \notin Request
    /\ Scenarios \subseteq [Request -> RequestKind]
    /\ MaxFailures \in Nat \ {0}
    /\ LockTime \in Nat /\ Grace \in Nat /\ Timeout \in Nat /\ Lifetime \in Nat /\ MaxTime \in Nat

VARIABLES
    kind,        \* of the requests; constant after Init
    row,         \* refresh_tokens as committed, in the order of creation
    failures,    \* users.failed_login_attempts
    lockedUntil, \* users.locked_until
    sanctioned,  \* an active sanction exists
    deleted,     \* users.deleted_at is set
    userLock,    \* the transaction that holds the user's row
    phase,       \* where a request is
    arg,         \* platform of a login; token presented; family to revoke
    seen,        \* failed_login_attempts as a login read it
    revoking,    \* rows updated by an open transaction, and locked by it
    stamp,       \* when it updated them
    candidates,  \* rows an UPDATE without user lock found
    since,       \* when a request arrived and began its transaction
    result,
    now,
    ended        \* families that some request has ended (history)

userVars == <<failures, lockedUntil, sanctioned, deleted>>
localVars == <<arg, seen, candidates, since>>
vars == <<kind, row, userVars, userLock, phase, localVars, revoking, stamp, result, now, ended>>

Issued == DOMAIN row

\* A terminal is named by its first token; parent is the token a refresh replaced.
Row == [family : Nat, platform : Platform, expires : Nat, revokedAt : Nat \union {Never},
        parent : Nat]

Active(r, t) == r[t].revokedAt = Never

\* The committed rows that are not revoked.
ActiveRows == {t \in Issued : Active(row, t)}
OfFamily(f) == {t \in ActiveRows : row[t].family = f}
OfPlatform(p) == {t \in ActiveRows : row[t].platform = p}

\* UPDATE refresh_tokens SET revoked_at = at
Revoked(ts, at) == [t \in Issued |-> IF t \in ts THEN [row[t] EXCEPT !.revokedAt = at] ELSE row[t]]

\* The user is signed in on the web.
Init ==
    /\ kind \in Scenarios
    /\ row = <<[family |-> 1, platform |-> "web", expires |-> Lifetime, revokedAt |-> Never,
                parent |-> 0]>>
    /\ failures = 0
    /\ lockedUntil = 0
    /\ sanctioned = FALSE
    /\ deleted = FALSE
    /\ userLock = NoRequest
    /\ phase = [p \in Request |-> "new"]
    /\ arg = [p \in Request |-> 0]
    /\ seen = [p \in Request |-> 0]
    /\ revoking = [p \in Request |-> {}]
    /\ stamp = [p \in Request |-> 0]
    /\ candidates = [p \in Request |-> {}]
    /\ since = [p \in Request |-> 0]
    /\ result = [p \in Request |-> "none"]
    /\ now = 0
    /\ ended = {}

-----------------------------------------------------------------------------
(* Transactions *)

GoTo(p, s) == phase' = [phase EXCEPT ![p] = s]

\* What a request brings: a platform (1 web, 2 mobile), a token, or a terminal.
PlatformOf(n) == IF n = 1 THEN "web" ELSE "mobile"

Choices(p) ==
    CASE kind[p] = "login" -> {1, 2}
      [] kind[p] \in {"refresh", "logout"} -> Issued
      [] kind[p] = "revoke" -> {row[t].family : t \in Issued}
      [] OTHER -> {0}

\* The lookup before the transaction is merged with its beginning.
Arrive(p) ==
    /\ phase[p] = "new"
    /\ arg' \in {[arg EXCEPT ![p] = a] : a \in Choices(p)}
    /\ since' = [since EXCEPT ![p] = now]
    /\ GoTo(p, IF kind[p] \in RevokingKind THEN "found" ELSE "waiting")
    /\ UNCHANGED <<kind, row, userVars, userLock, seen, candidates, revoking, stamp, result, now,
                   ended>>

\* SELECT id FROM users ... FOR UPDATE
LockUser(p) ==
    /\ phase[p] = "waiting"
    /\ userLock = NoRequest
    /\ userLock' = p
    /\ GoTo(p, "locked")
    /\ UNCHANGED <<kind, row, userVars, localVars, revoking, stamp, result, now, ended>>

\* COMMIT or ROLLBACK
End(p, res) ==
    /\ userLock' = IF userLock = p THEN NoRequest ELSE userLock
    /\ revoking' = [revoking EXCEPT ![p] = {}]
    /\ result' = [result EXCEPT ![p] = res]
    /\ GoTo(p, "done")

\* A statement fails, or the transaction runs out of time.
Abort(p) ==
    /\ phase[p] \in {"waiting", "locked", "verify", "replacing", "rotating", "rotated"}
    /\ End(p, "error")
    /\ UNCHANGED <<kind, row, userVars, localVars, stamp, now, ended>>

-----------------------------------------------------------------------------
(* login *)

\* The user as read under the lock.
LoginRead(p) ==
    /\ phase[p] = "locked" /\ kind[p] = "login"
    /\ seen' = [seen EXCEPT ![p] = failures]
    /\ IF deleted \/ lockedUntil > now
       THEN End(p, IF deleted THEN "failed" ELSE "locked")
       ELSE GoTo(p, "verify") /\ UNCHANGED <<userLock, revoking, result>>
    /\ UNCHANGED <<kind, row, userVars, arg, candidates, since, stamp, now, ended>>

\* argon2.verify says no: the failure is counted and committed.
WrongPassword(p) ==
    /\ phase[p] = "verify"
    /\ failures' = seen[p] + 1
    /\ lockedUntil' = IF seen[p] + 1 >= MaxFailures THEN now + LockTime ELSE lockedUntil
    /\ End(p, "failed")
    /\ UNCHANGED <<kind, row, sanctioned, deleted, localVars, stamp, now, ended>>

LoginSanctioned(p) ==
    /\ phase[p] = "verify"
    /\ sanctioned
    /\ End(p, "sanctioned")
    /\ UNCHANGED <<kind, row, userVars, localVars, stamp, now, ended>>

\* Mutant: the session of the platform is not replaced.
BugReplace(p) ==
    /\ phase[p] = "verify"
    /\ ~sanctioned
    /\ stamp' = [stamp EXCEPT ![p] = now]
    /\ GoTo(p, "replacing")
    /\ UNCHANGED <<kind, row, userVars, userLock, localVars, revoking, result, now, ended>>

\* replaceSession: the platform's rows are revoked, uncommitted as yet.
Replace(p) ==
    /\ phase[p] = "verify"
    /\ ~sanctioned
    /\ revoking' = [revoking EXCEPT ![p] = OfPlatform(PlatformOf(arg[p]))]
    /\ stamp' = [stamp EXCEPT ![p] = now]
    /\ GoTo(p, "replacing")
    /\ UNCHANGED <<kind, row, userVars, userLock, localVars, result, now, ended>>

\* The new row, the reset counter and the commit.
LoginCommit(p) ==
    LET platform == PlatformOf(arg[p]) IN
    /\ phase[p] = "replacing"
    /\ row' = Append(Revoked(revoking[p], stamp[p]),
                     [family |-> Len(row) + 1, platform |-> platform, expires |-> now + Lifetime,
                      revokedAt |-> Never, parent |-> 0])
    /\ failures' = 0
    /\ lockedUntil' = 0
    /\ ended' = ended \union {row[t].family : t \in {t \in Issued : row[t].platform = platform}}
    /\ End(p, "ok")
    /\ UNCHANGED <<kind, sanctioned, deleted, localVars, stamp, now>>

-----------------------------------------------------------------------------
(* refresh *)

\* The grace ends with respect to the time of this check, not of the request's arrival.
OutsideGrace(t) == row[t].revokedAt # Never /\ now - row[t].revokedAt > Grace

\* Why a refresh is refused, in the order of the checks; "none" when it is not.
Refusal(t) ==
    IF sanctioned THEN "sanctioned"
    ELSE IF OutsideGrace(t) THEN "theft"
    ELSE IF row[t].revokedAt # Never THEN "revoked"
    ELSE IF row[t].expires <= now THEN "expired"
    ELSE IF deleted THEN "deactivated"
    ELSE "none"

\* A refusal commits what it revokes: the terminal, the expired row or nothing.
RefreshRefuse(p) ==
    LET t == arg[p]
        why == Refusal(t)
        hit == CASE why \in {"sanctioned", "theft", "deactivated"} -> OfFamily(row[t].family)
                 [] why = "expired" -> {t}
                 [] OTHER -> {}
    IN  /\ phase[p] = "locked" /\ kind[p] = "refresh"
        /\ why # "none"
        /\ row' = Revoked(hit, now)
        /\ ended' = IF why \in {"sanctioned", "theft", "deactivated"}
                    THEN ended \union {row[t].family} ELSE ended
        /\ End(p, why)
        /\ UNCHANGED <<kind, userVars, localVars, stamp, now>>

RefreshAccept(p) ==
    /\ phase[p] = "locked" /\ kind[p] = "refresh"
    /\ Refusal(arg[p]) = "none"
    /\ GoTo(p, "rotating")
    /\ UNCHANGED <<kind, row, userVars, userLock, localVars, revoking, stamp, result, now, ended>>

\* Mutant: the old row is updated whether or not it was revoked meanwhile.
BugRotate(p) ==
    /\ phase[p] = "rotating"
    /\ revoking' = [revoking EXCEPT ![p] = {arg[p]}]
    /\ stamp' = [stamp EXCEPT ![p] = now]
    /\ GoTo(p, "rotated")
    /\ UNCHANGED <<kind, row, userVars, userLock, localVars, result, now, ended>>

\* UPDATE ... WHERE id AND revoked_at IS NULL finds the row.
Rotate(p) ==
    /\ phase[p] = "rotating"
    /\ Active(row, arg[p])
    /\ revoking' = [revoking EXCEPT ![p] = {arg[p]}]
    /\ stamp' = [stamp EXCEPT ![p] = now]
    /\ GoTo(p, "rotated")
    /\ UNCHANGED <<kind, row, userVars, userLock, localVars, result, now, ended>>

\* It finds nothing: the terminal was ended since the read.
RotateNothing(p) ==
    /\ phase[p] = "rotating"
    /\ ~Active(row, arg[p])
    /\ row' = Revoked(OfFamily(row[arg[p]].family), now)
    /\ End(p, "revoked")
    /\ UNCHANGED <<kind, userVars, localVars, stamp, now, ended>>

RefreshCommit(p) ==
    LET t == arg[p] IN
    /\ phase[p] = "rotated"
    /\ row' = Append(Revoked(revoking[p], stamp[p]),
                     [row[t] EXCEPT !.expires = now + Lifetime, !.revokedAt = Never, !.parent = t])
    /\ End(p, "ok")
    /\ UNCHANGED <<kind, userVars, localVars, stamp, now, ended>>

-----------------------------------------------------------------------------
(* Ending terminals *)

\* changePassword, deactivate and sanctions, each with its change of the user,
\* revoke all rows under the user's lock.
EndAll(p) ==
    /\ phase[p] = "locked" /\ kind[p] \in EndingKind
    /\ IF deleted
       THEN UNCHANGED <<row, ended>>
       ELSE /\ row' = Revoked(ActiveRows, now)
            /\ ended' = ended \union {row[t].family : t \in Issued}
    /\ deleted' = (deleted \/ kind[p] = "deactivate")
    /\ sanctioned' = (sanctioned \/ (kind[p] = "sanction" /\ ~deleted))
    /\ End(p, IF deleted THEN "failed" ELSE "ok")
    /\ UNCHANGED <<kind, failures, lockedUntil, localVars, stamp, now>>

\* The UPDATE of revokeSession or logout starts: it sees the committed rows.
RevokeStart(p) ==
    /\ phase[p] = "found"
    /\ candidates' = [candidates EXCEPT ![p] =
          IF kind[p] = "revoke" THEN OfFamily(arg[p]) ELSE {arg[p]} \intersect ActiveRows]
    /\ GoTo(p, "updating")
    /\ UNCHANGED <<kind, row, userVars, userLock, arg, seen, since, revoking, stamp, result, now,
                   ended>>

RowLocked(t) == \E q \in Request : t \in revoking[q]

\* Mutant: an UPDATE of no row is reported as a success.
BugRevokeApply(p) ==
    LET hit == candidates[p] \intersect ActiveRows IN
    /\ phase[p] = "updating"
    /\ \A t \in candidates[p] : ~RowLocked(t)
    /\ row' = Revoked(hit, now)
    /\ ended' = ended \union {row[t].family : t \in hit}
    /\ End(p, "ok")
    /\ UNCHANGED <<kind, userVars, localVars, stamp, now>>

\* Once no row it found is locked, those that are still active are revoked.
RevokeApply(p) ==
    LET hit == candidates[p] \intersect ActiveRows IN
    /\ phase[p] = "updating"
    /\ \A t \in candidates[p] : ~RowLocked(t)
    /\ row' = Revoked(hit, now)
    /\ ended' = ended \union {row[t].family : t \in hit}
    /\ End(p, IF hit = {} THEN "not_found" ELSE "ok")
    /\ UNCHANGED <<kind, userVars, localVars, stamp, now>>

\* Time passes, but not past the end of an open transaction.
Tick ==
    /\ now < MaxTime
    /\ \A p \in Request : phase[p] \in {"new", "found", "updating", "done"} \/ now - since[p] < Timeout
    /\ now' = now + 1
    /\ UNCHANGED <<kind, row, userVars, userLock, phase, localVars, revoking, stamp, result, ended>>

Step(p) ==
    \/ Arrive(p) \/ LockUser(p) \/ Abort(p)
    \/ LoginRead(p) \/ WrongPassword(p) \/ LoginSanctioned(p) \/ Replace(p) \/ LoginCommit(p)
    \/ RefreshRefuse(p) \/ RefreshAccept(p) \/ Rotate(p) \/ RotateNothing(p) \/ RefreshCommit(p)
    \/ EndAll(p) \/ RevokeStart(p) \/ RevokeApply(p)

Next == Tick \/ \E p \in Request : Step(p)

Spec == Init /\ [][Next]_vars

-----------------------------------------------------------------------------
(* Properties *)

\* Every variable keeps its type.
TypeOK ==
    /\ kind \in [Request -> RequestKind]
    /\ row \in Seq(Row)
    /\ failures \in Nat /\ lockedUntil \in Nat /\ now \in Nat
    /\ sanctioned \in BOOLEAN /\ deleted \in BOOLEAN
    /\ userLock \in Request \union {NoRequest}
    /\ phase \in [Request -> {"new", "waiting", "locked", "verify", "replacing", "rotating",
                              "rotated", "found", "updating", "done"}]
    /\ arg \in [Request -> Nat] /\ seen \in [Request -> Nat]
    /\ stamp \in [Request -> Nat] /\ since \in [Request -> Nat]
    /\ revoking \in [Request -> SUBSET Issued]
    /\ candidates \in [Request -> SUBSET Issued]
    /\ result \in [Request -> {"none", "ok", "error", "failed", "locked", "sanctioned", "theft",
                               "revoked", "expired", "deactivated", "not_found"}]
    /\ ended \subseteq Nat

\* At most one live terminal per platform (auth.md:201): the partial unique index
\* never has to refuse a login or a refresh.
OneTerminalPerPlatform == \A p \in Platform : Cardinality(OfPlatform(p)) <= 1

\* A terminal that a successful logout, a newer login, a new password, a sanction, a
\* deactivation or a detected theft has ended never comes to life again, whatever
\* refresh was under way.
EndedStayEnded == \A t \in ActiveRows : row[t].family \notin ended

\* revokeSession does not wait for a refresh that is about to insert a token, so it may
\* miss the terminal.  It never says that a terminal is ended which still lives, and
\* the token it misses succeeds one that it had found and that was rotated meanwhile.
RevokeMissesOnlySuccessors ==
    [][\A p \in Request : kind[p] = "revoke" /\ phase[p] = "updating" /\ phase'[p] = "done" =>
          \A t \in OfFamily(arg[p])' :
              /\ result'[p] = "not_found"
              /\ \E c \in candidates[p] : c < t /\ ~Active(row, c)]_vars
=============================================================================
