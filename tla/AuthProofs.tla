----------------------------- MODULE AuthProofs -----------------------------
(***************************************************************************)
(* Theorems about AuthSession, for any number of requests, any scenario    *)
(* and any clock.                                                          *)
(***************************************************************************)
EXTENDS AuthSession, FiniteSetTheorems, TLAPS

USE AuthAssumption

\* The phases of an open transaction past the lock of its user.
Holding == {"locked", "verify", "replacing", "rotating", "rotated"}

\* A terminal is named by one of its tokens and stays on its platform.
Families ==
    /\ \A t \in Issued : row[t].family \in 1..Len(row)
    /\ \A s, t \in Issued : row[s].family = row[t].family => row[s].platform = row[t].platform
    /\ ended \subseteq 1..Len(row)

\* The partial unique index on platforms.
Single == \A s, t \in ActiveRows : row[s].platform = row[t].platform => s = t

Rows == Families /\ Single /\ EndedStayEnded

\* What a request in progress holds: the user's row, and what it found there is all there is.
CallTrue(p) ==
    /\ phase[p] \in Holding => userLock = p
    /\ kind[p] = "refresh" /\ phase[p] # "new" => arg[p] \in Issued
    /\ phase[p] \in {"rotating", "rotated"} => kind[p] = "refresh"
    /\ phase[p] \in {"verify", "replacing", "found", "updating"} => kind[p] # "refresh"
    /\ phase[p] = "rotating" =>
          \A s \in ActiveRows : row[s].platform = row[arg[p]].platform => s = arg[p]
    /\ phase[p] = "replacing" => OfPlatform(PlatformOf(arg[p])) \subseteq revoking[p]
    /\ phase[p] = "rotated" => arg[p] \in ActiveRows /\ revoking[p] = {arg[p]}

IInv == TypeOK /\ Rows /\ \A p \in Request : CallTrue(p)

-----------------------------------------------------------------------------
(* What the two kinds of writes do to the rows *)

\* An UPDATE revokes rows and changes nothing else about any row.
LEMMA Revoke ==
    ASSUME TypeOK, NEW hit, NEW at \in Nat, row' = Revoked(hit, at)
    PROVE  /\ row' \in Seq(Row)
           /\ Len(row') = Len(row)
           /\ Issued' = Issued
           /\ \A t \in Issued : row'[t].family = row[t].family /\ row'[t].platform = row[t].platform
           /\ ActiveRows' = ActiveRows \ hit
<1>1. row \in Seq(Row) /\ Issued = 1..Len(row) /\ Len(row) \in Nat /\ \A t \in Issued : row[t] \in Row
  BY DEF TypeOK, Issued
<1>2. \A t \in Issued : row'[t] = IF t \in hit THEN [row[t] EXCEPT !.revokedAt = at] ELSE row[t]
  BY DEF Revoked
<1>3. row' \in [1..Len(row) -> Row]
  BY <1>1 DEF Revoked, Row
<1>4. row' \in Seq(Row) /\ Len(row') = Len(row)
  BY <1>1, <1>3
<1>5. \A t \in Issued : /\ row'[t].family = row[t].family /\ row'[t].platform = row[t].platform
                        /\ row'[t].revokedAt = IF t \in hit THEN at ELSE row[t].revokedAt
  BY <1>1, <1>2 DEF Row
<1>6. Issued' = Issued
  BY <1>1, <1>3, <1>4 DEF Issued
<1> QED
  BY <1>4, <1>5, <1>6 DEF ActiveRows, Active, Never

\* An INSERT with the UPDATE before it.
LEMMA Insert ==
    ASSUME TypeOK, NEW hit, NEW at \in Nat, NEW new \in Row, new.revokedAt = Never,
           row' = Append(Revoked(hit, at), new)
    PROVE  /\ row' \in Seq(Row)
           /\ Len(row') = Len(row) + 1
           /\ Issued' = Issued \union {Len(row) + 1}
           /\ \A t \in Issued : row'[t].family = row[t].family /\ row'[t].platform = row[t].platform
           /\ row'[Len(row) + 1] = new
           /\ ActiveRows' = (ActiveRows \ hit) \union {Len(row) + 1}
<1> DEFINE upd == Revoked(hit, at)
<1>1. row \in Seq(Row) /\ Issued = 1..Len(row) /\ Len(row) \in Nat /\ \A t \in Issued : row[t] \in Row
  BY DEF TypeOK, Issued
<1>2. \A t \in Issued : upd[t] = IF t \in hit THEN [row[t] EXCEPT !.revokedAt = at] ELSE row[t]
  BY DEF Revoked
<1>3. upd \in [1..Len(row) -> Row]
  BY <1>1 DEF Revoked, Row
<1>4. upd \in Seq(Row) /\ Len(upd) = Len(row)
  BY <1>1, <1>3
<1>5. \A t \in Issued : /\ upd[t].family = row[t].family /\ upd[t].platform = row[t].platform
                        /\ upd[t].revokedAt = IF t \in hit THEN at ELSE row[t].revokedAt
  BY <1>1, <1>2 DEF Row
<1> HIDE DEF upd
<1>6. row' = Append(upd, new)
  BY DEF upd
<1>7. row' \in Seq(Row) /\ Len(row') = Len(row) + 1 /\ row'[Len(row) + 1] = new
      /\ \A t \in 1..Len(row) : row'[t] = upd[t]
  BY <1>1, <1>4, <1>6
<1>8. Issued' = 1..(Len(row) + 1)
  BY <1>1, <1>7 DEF Issued
<1>9. Issued' = Issued \union {Len(row) + 1} /\ Len(row) + 1 \notin Issued
  BY <1>1, <1>8
<1>10. \A t \in Issued : row'[t] = upd[t]
  BY <1>1, <1>7
<1>11. \A t \in Issued : t \in ActiveRows' <=> t \in ActiveRows \ hit
  <2>1. at # Never
    BY DEF Never
  <2>2. \A t \in Issued : row'[t].revokedAt = IF t \in hit THEN at ELSE row[t].revokedAt
    BY <1>5, <1>10
  <2>3. \A t \in Issued : t \in Issued'
    BY <1>9
  <2> QED
    BY <2>1, <2>2, <2>3 DEF ActiveRows, Active
<1>12. Len(row) + 1 \in ActiveRows'
  BY <1>7, <1>9 DEF ActiveRows, Active
<1>13. ActiveRows' \subseteq Issued' /\ ActiveRows \subseteq Issued
  BY DEF ActiveRows
<1>14. ActiveRows' = (ActiveRows \ hit) \union {Len(row) + 1}
  BY <1>9, <1>11, <1>12, <1>13
<1> QED
  BY <1>5, <1>7, <1>9, <1>10, <1>14

-----------------------------------------------------------------------------
(* Types *)

\* The actions that write no row.
Quiet(p) ==
    \/ Arrive(p) \/ LockUser(p) \/ Abort(p) \/ LoginRead(p) \/ WrongPassword(p) \/ LoginSanctioned(p)
    \/ Replace(p) \/ RefreshAccept(p) \/ Rotate(p) \/ RevokeStart(p)

LEMMA InitTypeOK == Init => TypeOK
<1> SUFFICES ASSUME Init PROVE TypeOK
  OBVIOUS
<1>1. row \in Seq(Row)
  BY DEF Init, Row, Platform, Never
<1>2. kind \in [Request -> RequestKind]
  BY DEF Init
<1> QED
  BY <1>1, <1>2 DEF Init, TypeOK

LEMMA QuietTypeOK ==
    ASSUME TypeOK, \A p \in Request : CallTrue(p), NEW p \in Request, Quiet(p)
    PROVE  TypeOK'
<1>0. Issued \subseteq Nat /\ \A t \in Issued : row[t] \in Row
  BY DEF TypeOK, Issued
<1>1. CASE Arrive(p)
  <2>1. \A t \in Issued : row[t].family \in Nat
    BY <1>0 DEF Row
  <2>2. Choices(p) \in {{1, 2}, Issued, {row[t].family : t \in Issued}, {0}}
    <3>1. kind[p] \in RequestKind
      BY DEF TypeOK
    <3> QED
      BY <3>1 DEF Choices, RequestKind, EndingKind, RevokingKind
  <2>3. Choices(p) \subseteq Nat
    BY <1>0, <2>1, <2>2
  <2>4. PICK a \in Choices(p) : arg' = [arg EXCEPT ![p] = a]
    BY <1>1 DEF Arrive
  <2>5. arg' \in [Request -> Nat]
    BY <2>3, <2>4 DEF TypeOK
  <2> QED
    BY <1>1, <2>5 DEF Arrive, TypeOK, GoTo, userVars, Issued
<1>2. CASE LockUser(p) \/ Abort(p)
  BY <1>2 DEF LockUser, Abort, End, GoTo, TypeOK, userVars, localVars, Issued
<1>3. CASE LoginRead(p)
  <2>1. /\ UNCHANGED <<kind, row, userVars, arg, candidates, since, stamp, now, ended>>
        /\ seen' = [seen EXCEPT ![p] = failures]
    BY <1>3 DEF LoginRead
  <2>2. CASE deleted \/ lockedUntil > now
    <3>1. End(p, IF deleted THEN "failed" ELSE "locked")
      BY <1>3, <2>2 DEF LoginRead
    <3> QED
      BY <2>1, <3>1 DEF End, GoTo, TypeOK, userVars, Issued
  <2>3. CASE GoTo(p, "verify") /\ UNCHANGED <<userLock, revoking, result>>
    BY <2>1, <2>3 DEF GoTo, TypeOK, userVars, Issued
  <2> QED
    BY <1>3, <2>2, <2>3 DEF LoginRead
<1>e. ASSUME NEW res \in {"failed", "sanctioned"}, End(p, res), failures' \in Nat, lockedUntil' \in Nat,
             UNCHANGED <<kind, row, sanctioned, deleted, localVars, stamp, now, ended>>
      PROVE  TypeOK'
  BY <1>e DEF End, GoTo, TypeOK, localVars, Issued
<1>w. CASE WrongPassword(p)
  <2>1. End(p, "failed") /\ UNCHANGED <<kind, row, sanctioned, deleted, localVars, stamp, now, ended>>
    BY <1>w DEF WrongPassword
  <2>2. failures' \in Nat /\ lockedUntil' \in Nat
    BY <1>w DEF WrongPassword, TypeOK
  <2> QED
    BY <1>e, <2>1, <2>2
<1>4. CASE LoginSanctioned(p)
  <2>1. End(p, "sanctioned") /\ UNCHANGED <<kind, row, userVars, localVars, stamp, now, ended>>
    BY <1>4, Zenon DEF LoginSanctioned
  <2> QED
    BY <1>e, <2>1 DEF TypeOK, userVars
<1>5. CASE Replace(p)
  BY <1>5 DEF Replace, GoTo, TypeOK, userVars, localVars, Issued, OfPlatform, ActiveRows
<1>6. CASE RefreshAccept(p)
  BY <1>6 DEF RefreshAccept, GoTo, TypeOK, userVars, localVars, Issued
<1>7. CASE Rotate(p)
  <2>1. arg[p] \in Issued
    BY <1>7 DEF CallTrue, Rotate
  <2> QED
    BY <1>7, <2>1 DEF Rotate, GoTo, TypeOK, userVars, localVars, Issued
<1>8. CASE RevokeStart(p)
  <2>1. candidates' \in [Request -> SUBSET Issued]
    BY <1>8 DEF RevokeStart, TypeOK, OfFamily, ActiveRows
  <2> QED
    BY <1>8, <2>1 DEF RevokeStart, GoTo, TypeOK, userVars, Issued
<1> QED
  BY <1>1, <1>2, <1>3, <1>w, <1>4, <1>5, <1>6, <1>7, <1>8 DEF Quiet

LEMMA NextTypeOK == TypeOK /\ Rows /\ (\A p \in Request : CallTrue(p)) /\ [Next]_vars => TypeOK'
<1> SUFFICES ASSUME TypeOK, Rows, \A p \in Request : CallTrue(p), [Next]_vars
             PROVE  TypeOK'
  OBVIOUS
<1>0. row \in Seq(Row) /\ Len(row) \in Nat /\ Issued \subseteq Nat /\ ended \subseteq Nat
  BY DEF TypeOK, Issued
<1>r. \A t \in Issued : row[t] \in Row
  BY <1>0 DEF Issued
<1>f. \A t \in Issued : row[t].family \in Nat
  BY <1>r DEF Row
<1>1. CASE Tick \/ UNCHANGED vars
  <2>1. UNCHANGED <<kind, row, userVars, userLock, phase, localVars, revoking, stamp, result, ended>>
        /\ now' \in Nat
    BY <1>1 DEF Tick, vars, TypeOK
  <2> QED
    BY <2>1 DEF TypeOK, userVars, localVars, Issued
<1>2. ASSUME NEW p \in Request, Quiet(p) PROVE TypeOK'
  BY <1>2, QuietTypeOK
<1>3. ASSUME NEW p \in Request, row' \in Seq(Row), Issued \subseteq Issued', ended' \subseteq Nat,
             NEW res \in {"ok", "failed", "sanctioned", "theft", "revoked", "expired", "deactivated", "not_found"},
             End(p, res), UNCHANGED <<kind, localVars, stamp, now>>,
             failures' \in Nat, lockedUntil' \in Nat, sanctioned' \in BOOLEAN, deleted' \in BOOLEAN
      PROVE  TypeOK'
  BY <1>3 DEF End, GoTo, TypeOK, localVars
<1>4. ASSUME NEW p \in Request, LoginCommit(p) PROVE TypeOK'
  <2> DEFINE new == [family |-> Len(row) + 1, platform |-> PlatformOf(arg[p]), expires |-> now + Lifetime,
                     revokedAt |-> Never, parent |-> 0]
  <2>1. new \in Row /\ new.revokedAt = Never
    BY <1>0 DEF TypeOK, Row, PlatformOf, Platform, Never
  <2>2. row' = Append(Revoked(revoking[p], stamp[p]), new) /\ stamp[p] \in Nat
    BY <1>4 DEF LoginCommit, TypeOK
  <2>3. row' \in Seq(Row) /\ Issued \subseteq Issued'
    <3> HIDE DEF new
    <3> QED
      BY <2>1, <2>2, Insert
  <2>4. ended' \subseteq Nat
    BY <1>0, <1>f, <1>4 DEF LoginCommit
  <2> QED
    BY <1>3, <1>4, <2>3, <2>4 DEF LoginCommit, TypeOK
<1>5. ASSUME NEW p \in Request, RefreshRefuse(p) PROVE TypeOK'
  <2>1. PICK hit : row' = Revoked(hit, now)
    BY <1>5 DEF RefreshRefuse
  <2>2. row' \in Seq(Row) /\ Issued' = Issued
    BY <2>1, Revoke DEF TypeOK
  <2>3. arg[p] \in Issued
    BY <1>5 DEF RefreshRefuse, CallTrue
  <2>4. ended' \subseteq Nat
    BY <1>0, <1>f, <1>5, <2>3 DEF RefreshRefuse
  <2>5. Refusal(arg[p]) \in {"sanctioned", "theft", "revoked", "expired", "deactivated"}
    BY <1>5 DEF RefreshRefuse, Refusal
  <2> QED
    BY <1>3, <1>5, <2>2, <2>4, <2>5 DEF RefreshRefuse, TypeOK, userVars
<1>6. ASSUME NEW p \in Request, RotateNothing(p) PROVE TypeOK'
  <2>1. row' \in Seq(Row) /\ Issued' = Issued
    BY <1>6, Revoke DEF TypeOK, RotateNothing
  <2> QED
    BY <1>3, <1>6, <2>1 DEF RotateNothing, TypeOK, userVars
<1>7. ASSUME NEW p \in Request, RefreshCommit(p) PROVE TypeOK'
  <2> DEFINE new == [row[arg[p]] EXCEPT !.expires = now + Lifetime, !.revokedAt = Never, !.parent = arg[p]]
  <2>1. arg[p] \in Issued /\ row[arg[p]] \in Row /\ arg[p] \in Nat
    BY <1>0, <1>r, <1>7 DEF RefreshCommit, CallTrue, ActiveRows
  <2>2. new \in Row /\ new.revokedAt = Never
    <3>1. now + Lifetime \in Nat /\ Never \in Nat \union {Never}
      BY DEF TypeOK
    <3> QED
      BY <2>1, <3>1 DEF Row
  <2>3. row' = Append(Revoked(revoking[p], stamp[p]), new) /\ stamp[p] \in Nat
    BY <1>7 DEF RefreshCommit, TypeOK
  <2>4. row' \in Seq(Row) /\ Issued \subseteq Issued'
    <3> HIDE DEF new
    <3> QED
      BY <2>2, <2>3, Insert
  <2> QED
    BY <1>3, <1>7, <2>4 DEF RefreshCommit, TypeOK, userVars
<1>8. ASSUME NEW p \in Request, EndAll(p) PROVE TypeOK'
  <2>1. row' \in Seq(Row) /\ Issued' = Issued
    BY <1>8, Revoke DEF EndAll, TypeOK, Issued
  <2>2. ended' = ended \/ ended' = ended \union {row[t].family : t \in Issued}
    BY <1>8 DEF EndAll
  <2>a. {row[t].family : t \in Issued} \subseteq Nat
    BY <1>f
  <2>3. ended' \subseteq Nat
    <3>1. \A S : S \subseteq Nat => ended \union S \subseteq Nat
      BY <1>0
    <3> QED
      BY <1>0, <2>2, <2>a, <3>1, Zenon
  <2> QED
    BY <1>3, <1>8, <2>1, <2>3 DEF EndAll, TypeOK
<1>9. ASSUME NEW p \in Request, RevokeApply(p) PROVE TypeOK'
  <2>1. row' \in Seq(Row) /\ Issued' = Issued
    BY <1>9, Revoke DEF RevokeApply, TypeOK
  <2> DEFINE hit == candidates[p] \intersect ActiveRows
  <2>2. ended' = ended \union {row[t].family : t \in hit}
    BY <1>9 DEF RevokeApply
  <2>a. hit \subseteq Issued
    BY DEF ActiveRows
  <2>3. ended' \subseteq Nat
    <3> HIDE DEF hit
    <3> QED
      BY <1>0, <1>f, <2>2, <2>a
  <2> QED
    BY <1>3, <1>9, <2>1, <2>3 DEF RevokeApply, TypeOK, userVars
<1> QED
  BY <1>1, <1>2, <1>4, <1>5, <1>6, <1>7, <1>8, <1>9 DEF Next, Step, Quiet

-----------------------------------------------------------------------------
(* Rows *)

\* Revoking keeps the rows in order if no terminal that is ended keeps an active row.
LEMMA RevokeRows ==
    ASSUME TypeOK, Rows, NEW hit, NEW at \in Nat, row' = Revoked(hit, at),
           ended' \subseteq 1..Len(row), \A t \in ActiveRows \ hit : row[t].family \notin ended'
    PROVE  Rows'
<1>1. /\ Len(row') = Len(row) /\ Issued' = Issued
      /\ \A t \in Issued : row'[t].family = row[t].family /\ row'[t].platform = row[t].platform
      /\ ActiveRows' = ActiveRows \ hit
  BY Revoke
<1>2. ActiveRows \subseteq Issued
  BY DEF ActiveRows
<1>3. Families'
  BY <1>1 DEF Rows, Families
<1>4. Single'
  BY <1>1, <1>2 DEF Rows, Single
<1>5. EndedStayEnded'
  BY <1>1, <1>2 DEF EndedStayEnded
<1> QED
  BY <1>3, <1>4, <1>5 DEF Rows

\* A new row keeps them in order if its terminal is new or lives on its platform and is not ended,
\* and no other active row is left on its platform.
LEMMA InsertRows ==
    ASSUME TypeOK, Rows, NEW hit, NEW at \in Nat, NEW new \in Row, new.revokedAt = Never,
           row' = Append(Revoked(hit, at), new),
           ended' \subseteq 1..Len(row),
           new.family = Len(row) + 1 \/ \E t \in Issued : new.family = row[t].family /\ new.platform = row[t].platform,
           new.family \notin ended',
           \A t \in ActiveRows \ hit : row[t].family \notin ended' /\ row[t].platform # new.platform
    PROVE  Rows'
<1> DEFINE n == Len(row) + 1
<1>0. Len(row) \in Nat /\ Issued = 1..Len(row)
  BY DEF TypeOK, Issued
<1>1. /\ Len(row') = n /\ Issued' = Issued \union {n} /\ row'[n] = new
      /\ \A t \in Issued : row'[t].family = row[t].family /\ row'[t].platform = row[t].platform
      /\ ActiveRows' = (ActiveRows \ hit) \union {n}
  BY Insert
<1>2. ActiveRows \subseteq Issued /\ n \notin Issued
  BY <1>0 DEF ActiveRows
<1>3. 1..Len(row) \subseteq 1..n /\ n \in 1..n /\ n \notin 1..Len(row)
  BY <1>0
<1>4. Families'
  <2>0. new.family = n \/ \E t \in Issued : new.family = row[t].family /\ new.platform = row[t].platform
    OBVIOUS
  <2> HIDE DEF n
  <2>f. Families
    BY DEF Rows
  <2>1. \A t \in Issued' : row'[t].family \in 1..n
    <3>1. row'[n].family \in 1..n
      BY <1>1, <1>3, <2>0, <2>f DEF Families
    <3>2. \A t \in Issued : row'[t].family \in 1..n
      BY <1>1, <1>3, <2>f DEF Families
    <3> QED
      BY <1>1, <3>1, <3>2
  <2>2. \A s \in Issued : new.family = row[s].family => new.platform = row[s].platform
    BY <1>3, <2>0, <2>f DEF Families
  <2>3. \A s, t \in Issued' : row'[s].family = row'[t].family => row'[s].platform = row'[t].platform
    <3> SUFFICES ASSUME NEW s \in Issued', NEW t \in Issued', row'[s].family = row'[t].family
                 PROVE  row'[s].platform = row'[t].platform
      OBVIOUS
    <3>1. CASE s \in Issued /\ t \in Issued
      <4>1. row[s].family = row[t].family
        BY <1>1, <3>1
      <4>2. row[s].platform = row[t].platform
        BY <2>f, <3>1, <4>1 DEF Families
      <4> QED
        BY <1>1, <3>1, <4>2
    <3>2. CASE s \in Issued /\ t = n
      BY <1>1, <2>2, <3>2
    <3>3. CASE s = n /\ t \in Issued
      BY <1>1, <2>2, <3>3
    <3> QED
      BY <1>1, <3>1, <3>2, <3>3
  <2> QED
    BY <1>1, <1>3, <2>1, <2>3 DEF Families
<1> HIDE DEF n
<1>5. Single'
  <2>1. \A s \in ActiveRows \ hit : row'[s].platform # row'[n].platform
    BY <1>1, <1>2
  <2>2. ASSUME NEW s \in ActiveRows \ hit, NEW t \in ActiveRows \ hit, row'[s].platform = row'[t].platform
        PROVE  s = t
    <3>1. row[s].platform = row[t].platform
      BY <1>1, <1>2, <2>2
    <3> QED
      BY <2>2, <3>1 DEF Rows, Single
  <2>3. SUFFICES ASSUME NEW s \in ActiveRows', NEW t \in ActiveRows', row'[s].platform = row'[t].platform
                 PROVE  s = t
    BY DEF Single
  <2>4. CASE s = n \/ t = n
    BY <1>1, <2>1, <2>3, <2>4
  <2> QED
    BY <1>1, <2>2, <2>3, <2>4
<1>6. EndedStayEnded'
  BY <1>1, <1>2 DEF EndedStayEnded
<1> QED
  BY <1>4, <1>5, <1>6 DEF Rows

LEMMA InitRows == Init => Rows
<1> SUFFICES ASSUME Init PROVE Rows
  OBVIOUS
<1>1. Issued = {1} /\ Len(row) = 1 /\ row[1].family = 1 /\ ended = {}
  BY DEF Init, Issued
<1>2. ActiveRows \subseteq {1}
  BY <1>1 DEF ActiveRows
<1> QED
  <2>1. Families
    BY <1>1 DEF Families
  <2>3. Single
    BY <1>2 DEF Single
  <2>2. EndedStayEnded
    BY <1>1 DEF EndedStayEnded
  <2> QED
    BY <2>1, <2>2, <2>3 DEF Rows

LEMMA NextRows == TypeOK /\ Rows /\ (\A p \in Request : CallTrue(p)) /\ [Next]_vars => Rows'
<1> SUFFICES ASSUME TypeOK, Rows, \A p \in Request : CallTrue(p), [Next]_vars
             PROVE  Rows'
  OBVIOUS
<1>0. /\ row \in Seq(Row) /\ Len(row) \in Nat /\ Issued = 1..Len(row) /\ ActiveRows \subseteq Issued
      /\ now \in Nat
  BY DEF TypeOK, Issued, ActiveRows
<1>r. \A t \in Issued : row[t] \in Row
  BY <1>0
<1>f. Families /\ Single /\ EndedStayEnded
  BY DEF Rows
<1>1. CASE row' = row /\ ended' = ended
  BY <1>1 DEF Rows, Families, Single, EndedStayEnded, ActiveRows, Active, Issued
<1>2. ASSUME NEW p \in Request, Quiet(p) \/ Tick \/ UNCHANGED vars PROVE Rows'
  <2>1. row' = row /\ ended' = ended
    BY <1>2 DEF Quiet, Arrive, LockUser, Abort, LoginRead, WrongPassword, LoginSanctioned, Replace, RefreshAccept,
                Rotate, RevokeStart, Tick, vars
  <2> QED
    BY <1>1, <2>1
<1>3. ASSUME NEW hit, row' = Revoked(hit, now), ended' = ended PROVE Rows'
  BY <1>0, <1>f, <1>3, RevokeRows DEF Families, EndedStayEnded
<1>4. ASSUME NEW p \in Request, LoginCommit(p) PROVE Rows'
  <2> DEFINE new == [family |-> Len(row) + 1, platform |-> PlatformOf(arg[p]), expires |-> now + Lifetime,
                     revokedAt |-> Never, parent |-> 0]
             old == {row[t].family : t \in {t \in Issued : row[t].platform = PlatformOf(arg[p])}}
  <2>1. new \in Row /\ new.revokedAt = Never /\ new.family = Len(row) + 1 /\ new.platform = PlatformOf(arg[p])
    BY <1>0 DEF Row, PlatformOf, Platform, Never
  <2>2. row' = Append(Revoked(revoking[p], stamp[p]), new) /\ stamp[p] \in Nat
    BY <1>4 DEF LoginCommit, TypeOK
  <2>3. ended' = ended \union old
    BY <1>4 DEF LoginCommit
  <2>4. old \subseteq 1..Len(row)
    BY <1>f DEF Families
  <2>5. OfPlatform(PlatformOf(arg[p])) \subseteq revoking[p]
    BY <1>4 DEF LoginCommit, CallTrue
  <2>6. \A t \in ActiveRows \ revoking[p] : row[t].platform # PlatformOf(arg[p])
    BY <2>5 DEF OfPlatform
  <2>o. \A x \in old : \E t \in Issued : row[t].platform = PlatformOf(arg[p]) /\ x = row[t].family
    OBVIOUS
  <2> HIDE DEF new, old
  <2>7. \A t \in ActiveRows \ revoking[p] : row[t].family \notin ended \union old
    <3> SUFFICES ASSUME NEW t \in ActiveRows \ revoking[p] PROVE row[t].family \notin ended /\ row[t].family \notin old
      OBVIOUS
    <3>1. row[t].family \notin ended
      BY <1>f DEF EndedStayEnded
    <3>2. \A s \in Issued : row[s].family = row[t].family => row[s].platform # PlatformOf(arg[p])
      BY <1>0, <1>f, <2>6 DEF Families
    <3> QED
      BY <2>o, <3>1, <3>2
  <2>8. Len(row) + 1 \notin ended \union old /\ ended \union old \subseteq 1..Len(row)
    <3>1. Len(row) + 1 \notin 1..Len(row)
      BY <1>0
    <3> QED
      BY <1>f, <2>4, <3>1 DEF Families
  <2>9. ended' \subseteq 1..Len(row)
    BY <2>3, <2>8
  <2>10. new.family \notin ended'
    BY <2>1, <2>3, <2>8
  <2>11. \A t \in ActiveRows \ revoking[p] : row[t].family \notin ended' /\ row[t].platform # new.platform
    BY <2>1, <2>3, <2>6, <2>7
  <2> QED
    BY <2>1, <2>2, <2>9, <2>10, <2>11, InsertRows
<1>5. ASSUME NEW p \in Request, RefreshRefuse(p) PROVE Rows'
  <2> DEFINE t == arg[p]
             f == row[t].family
  <2>1. t \in Issued
    BY <1>5 DEF RefreshRefuse, CallTrue
  <2>2. CASE row' = Revoked(OfFamily(f), now) /\ ended' = ended \union {f}
    <3>1. ended' \subseteq 1..Len(row)
      BY <1>f, <2>1, <2>2 DEF Families
    <3>2. \A s \in ActiveRows \ OfFamily(f) : row[s].family \notin ended'
      BY <1>f, <2>2 DEF OfFamily, EndedStayEnded
    <3> QED
      BY <1>0, <2>2, <3>1, <3>2, RevokeRows
  <2>3. (row' = Revoked(OfFamily(f), now) /\ ended' = ended \union {f})
        \/ \E hit : row' = Revoked(hit, now) /\ ended' = ended
    BY <1>5 DEF RefreshRefuse
  <2> QED
    BY <1>3, <2>2, <2>3
<1>6. ASSUME NEW p \in Request, RotateNothing(p) PROVE Rows'
  BY <1>3, <1>6 DEF RotateNothing
<1>7. ASSUME NEW p \in Request, RefreshCommit(p) PROVE Rows'
  <2> DEFINE t == arg[p]
             new == [row[t] EXCEPT !.expires = now + Lifetime, !.revokedAt = Never, !.parent = t]
  <2>1. t \in ActiveRows /\ revoking[p] = {t}
    BY <1>7 DEF RefreshCommit, CallTrue
  <2>2. row[t] \in Row /\ t \in Nat /\ t \in Issued
    BY <1>0, <1>r, <2>1
  <2>3. new \in Row /\ new.revokedAt = Never /\ new.family = row[t].family /\ new.platform = row[t].platform
    <3>1. now + Lifetime \in Nat /\ Never \in Nat \union {Never}
      BY <1>0
    <3> QED
      BY <2>2, <3>1 DEF Row
  <2>4. row' = Append(Revoked({t}, stamp[p]), new) /\ stamp[p] \in Nat /\ ended' = ended
    BY <1>7, <2>1 DEF RefreshCommit, TypeOK
  <2>5. \A s \in ActiveRows \ {t} : row[s].family \notin ended' /\ row[s].platform # row[t].platform
    BY <1>f, <2>1, <2>4 DEF Single, EndedStayEnded
  <2>6. row[t].family \notin ended' /\ ended' \subseteq 1..Len(row)
    BY <1>f, <2>1, <2>4 DEF Families, EndedStayEnded
  <2> HIDE DEF t, new
  <2>7. \E s \in Issued : new.family = row[s].family /\ new.platform = row[s].platform
    BY <2>2, <2>3
  <2>8. new.family \notin ended'
    BY <2>3, <2>6
  <2>9. \A s \in ActiveRows \ {t} : row[s].family \notin ended' /\ row[s].platform # new.platform
    BY <2>3, <2>5
  <2> QED
    BY <2>3, <2>4, <2>6, <2>7, <2>8, <2>9, InsertRows
<1>8. ASSUME NEW p \in Request, EndAll(p) PROVE Rows'
  <2>1. CASE row' = row /\ ended' = ended
    BY <1>1, <2>1
  <2>2. CASE row' = Revoked(ActiveRows, now) /\ ended' = ended \union {row[t].family : t \in Issued}
    <3>1. {row[t].family : t \in Issued} \subseteq 1..Len(row)
      BY <1>f DEF Families
    <3>2. ended' \subseteq 1..Len(row)
      BY <1>f, <2>2, <3>1 DEF Families
    <3>3. \A t \in ActiveRows \ ActiveRows : row[t].family \notin ended'
      OBVIOUS
    <3> QED
      BY <1>0, <2>2, <3>2, <3>3, RevokeRows
  <2> QED
    BY <1>8, <2>1, <2>2 DEF EndAll
<1>9. ASSUME NEW p \in Request, RevokeApply(p) PROVE Rows'
  <2> DEFINE hit == candidates[p] \intersect ActiveRows
  <2>1. row' = Revoked(hit, now) /\ ended' = ended \union {row[t].family : t \in hit}
    BY <1>9 DEF RevokeApply
  <2>2. hit \subseteq ActiveRows
    OBVIOUS
  <2> HIDE DEF hit
  <2>a. {row[t].family : t \in hit} \subseteq 1..Len(row)
    BY <1>0, <1>f, <2>2 DEF Families
  <2>3. ended' \subseteq 1..Len(row)
    BY <1>f, <2>1, <2>a DEF Families
  <2>4. \A s \in ActiveRows \ hit : row[s].family \notin ended'
    BY <1>0, <1>f, <2>1, <2>2 DEF Families, Single, EndedStayEnded
  <2> QED
    BY <1>0, <2>1, <2>3, <2>4, RevokeRows
<1> QED
  BY <1>1, <1>2, <1>4, <1>5, <1>6, <1>7, <1>8, <1>9 DEF Next, Step, Quiet, Tick, vars

-----------------------------------------------------------------------------
(* Requests *)

\* A step of one request touches nothing of another, and gives its rows to nobody.
LEMMA OthersKeep ==
    ASSUME TypeOK, NEW p \in Request, Step(p), NEW q \in Request \ {p}
    PROVE  /\ kind' = kind /\ phase'[q] = phase[q] /\ arg'[q] = arg[q] /\ revoking'[q] = revoking[q]
           /\ userLock = q => userLock' = q
<1>0. NoRequest # q
  OBVIOUS
<1>1. CASE Arrive(p)
  <2>1. PICK a \in Choices(p) : arg' = [arg EXCEPT ![p] = a]
    BY <1>1 DEF Arrive
  <2> QED
    BY <1>1, <2>1 DEF Arrive, GoTo, TypeOK
<1>2. CASE LockUser(p) \/ Abort(p)
  BY <1>0, <1>2 DEF LockUser, Abort, End, GoTo, TypeOK, localVars
<1>3. CASE LoginRead(p)
  BY <1>3 DEF LoginRead, End, GoTo, TypeOK
<1>4. CASE WrongPassword(p) \/ LoginSanctioned(p) \/ Replace(p) \/ LoginCommit(p)
  BY <1>4 DEF WrongPassword, LoginSanctioned, Replace, LoginCommit, End, GoTo, TypeOK, localVars
<1>5. CASE RefreshRefuse(p) \/ RefreshAccept(p) \/ Rotate(p) \/ RotateNothing(p) \/ RefreshCommit(p)
  BY <1>5 DEF RefreshRefuse, RefreshAccept, Rotate, RotateNothing, RefreshCommit, End, GoTo, TypeOK, localVars
<1>6. CASE EndAll(p) \/ RevokeStart(p) \/ RevokeApply(p)
  BY <1>6 DEF EndAll, RevokeStart, RevokeApply, End, GoTo, TypeOK, localVars
<1> QED
  BY <1>1, <1>2, <1>3, <1>4, <1>5, <1>6 DEF Step

\* The rows only become more, and each keeps what it is; which of them are active changes only
\* by a holder of the user's row and by logout and revokeSession, which wait for updated rows.
LEMMA RowsGrow ==
    ASSUME TypeOK, NEW p \in Request, CallTrue(p), Step(p)
    PROVE  /\ Issued \subseteq Issued'
           /\ \A t \in Issued : row'[t].family = row[t].family /\ row'[t].platform = row[t].platform
           /\ userLock # p => \E hit : /\ ActiveRows' = ActiveRows \ hit
                                      /\ \A q \in Request : hit \intersect revoking[q] = {}
<1> DEFINE Grown == /\ Issued \subseteq Issued'
                    /\ \A t \in Issued : row'[t].family = row[t].family /\ row'[t].platform = row[t].platform
           Calm == \E hit : ActiveRows' = ActiveRows \ hit /\ \A q \in Request : hit \intersect revoking[q] = {}
<1>0. now \in Nat /\ stamp[p] \in Nat
  BY DEF TypeOK
<1>1. CASE row' = row
  <2>1. ActiveRows' = ActiveRows \ {}
    BY <1>1 DEF ActiveRows, Active, Issued
  <2>2. \A q \in Request : {} \intersect revoking[q] = {}
    OBVIOUS
  <2>3. Calm
    <3> WITNESS {}
    <3> QED
      BY <2>1, <2>2
  <2> HIDE DEF Calm
  <2> QED
    BY <1>1, <2>3 DEF Issued, Calm
<1>2. ASSUME \E hit : row' = Revoked(hit, now) PROVE Grown
  BY <1>0, <1>2, Revoke
<1>3. CASE LoginCommit(p)
  <2> DEFINE new == [family |-> Len(row) + 1, platform |-> PlatformOf(arg[p]), expires |-> now + Lifetime,
                     revokedAt |-> Never, parent |-> 0]
  <2>1. new \in Row /\ new.revokedAt = Never
    BY <1>0 DEF TypeOK, Row, PlatformOf, Platform, Never
  <2>2. row' = Append(Revoked(revoking[p], stamp[p]), new)
    BY <1>3 DEF LoginCommit
  <2>3. userLock = p
    BY <1>3 DEF LoginCommit, CallTrue, Holding
  <2> HIDE DEF new
  <2> QED
    BY <1>0, <2>1, <2>2, <2>3, Insert
<1>4. CASE RefreshCommit(p)
  <2> DEFINE new == [row[arg[p]] EXCEPT !.expires = now + Lifetime, !.revokedAt = Never, !.parent = arg[p]]
  <2>1. row[arg[p]] \in Row /\ arg[p] \in Nat
    <3>1. arg[p] \in 1..Len(row) /\ row \in Seq(Row) /\ Len(row) \in Nat
      BY <1>4 DEF RefreshCommit, CallTrue, ActiveRows, Issued, TypeOK
    <3> QED
      BY <3>1
  <2>2. new \in Row /\ new.revokedAt = Never
    <3>1. now + Lifetime \in Nat /\ Never \in Nat \union {Never}
      BY <1>0
    <3> QED
      BY <2>1, <3>1 DEF Row
  <2>3. row' = Append(Revoked(revoking[p], stamp[p]), new)
    BY <1>4 DEF RefreshCommit
  <2>4. userLock = p
    BY <1>4 DEF RefreshCommit, CallTrue, Holding
  <2> HIDE DEF new
  <2> QED
    BY <1>0, <2>2, <2>3, <2>4, Insert
<1>5. CASE RevokeApply(p)
  <2> DEFINE hit == candidates[p] \intersect ActiveRows
  <2>1. row' = Revoked(hit, now)
    BY <1>5 DEF RevokeApply
  <2>2. \A q \in Request : hit \intersect revoking[q] = {}
    BY <1>5 DEF RevokeApply, RowLocked
  <2> HIDE DEF hit
  <2> QED
    BY <1>0, <2>1, <2>2, Revoke
<1>6. CASE RefreshRefuse(p) \/ RotateNothing(p) \/ EndAll(p)
  <2>1. row' = row \/ \E hit : row' = Revoked(hit, now)
    BY <1>6 DEF RefreshRefuse, RotateNothing, EndAll
  <2>2. userLock = p
    BY <1>6 DEF RefreshRefuse, RotateNothing, EndAll, CallTrue, Holding
  <2> QED
    BY <1>1, <1>2, <2>1, <2>2
<1>7. CASE Quiet(p)
  <2>1. row' = row
    BY <1>7 DEF Quiet, Arrive, LockUser, Abort, LoginRead, WrongPassword, LoginSanctioned, Replace, RefreshAccept,
                Rotate, RevokeStart
  <2> QED
    BY <1>1, <2>1
<1> QED
  BY <1>3, <1>4, <1>5, <1>6, <1>7 DEF Step, Quiet

\* What a request has read under the lock of its user stays true until it ends.
LEMMA NextCallTrue ==
    TypeOK /\ Rows /\ (\A p \in Request : CallTrue(p)) /\ [Next]_vars => \A p \in Request : CallTrue(p)'
<1> SUFFICES ASSUME TypeOK, Rows, \A p \in Request : CallTrue(p), [Next]_vars, NEW q \in Request
             PROVE  CallTrue(q)'
  OBVIOUS
<1>0. /\ CallTrue(q) /\ q # NoRequest /\ ActiveRows \subseteq Issued
      /\ kind[q] \in RequestKind
  BY DEF ActiveRows, TypeOK
<1>1. CASE Tick \/ UNCHANGED vars
  <2>1. UNCHANGED <<kind, row, phase, userLock, arg, revoking>>
    BY <1>1 DEF Tick, vars, localVars
  <2> QED
    BY <1>0, <2>1 DEF CallTrue, ActiveRows, Active, OfPlatform, Issued
<1>2. ASSUME NEW p \in Request \ {q}, Step(p) PROVE CallTrue(q)'
  <2>1. kind' = kind /\ phase'[q] = phase[q] /\ arg'[q] = arg[q] /\ revoking'[q] = revoking[q]
        /\ (userLock = q => userLock' = q)
    BY <1>2, OthersKeep
  <2>2. /\ Issued \subseteq Issued'
        /\ \A t \in Issued : row'[t].family = row[t].family /\ row'[t].platform = row[t].platform
    BY <1>2, RowsGrow
  <2>3. phase[q] \in Holding =>
            \E hit : ActiveRows' = ActiveRows \ hit /\ hit \intersect revoking[q] = {}
    BY <1>0, <1>2, RowsGrow DEF CallTrue
  <2>4. phase[q] = "rotating" =>
            \A s \in ActiveRows' : row'[s].platform = row'[arg'[q]].platform => s = arg'[q]
    <3> SUFFICES ASSUME phase[q] = "rotating", NEW s \in ActiveRows', row'[s].platform = row'[arg'[q]].platform
                 PROVE  s = arg'[q]
      OBVIOUS
    <3>1. s \in ActiveRows
      BY <2>3 DEF Holding
    <3>2. arg[q] \in Issued
      BY <1>0 DEF CallTrue
    <3>3. row[s].platform = row[arg[q]].platform
      BY <1>0, <2>1, <2>2, <3>1, <3>2
    <3> QED
      BY <1>0, <2>1, <3>1, <3>3 DEF CallTrue
  <2>5. phase[q] = "replacing" => \A s \in ActiveRows' :
            row'[s].platform = PlatformOf(arg'[q]) => s \in revoking'[q]
    <3> SUFFICES ASSUME phase[q] = "replacing", NEW s \in ActiveRows', row'[s].platform = PlatformOf(arg'[q])
                 PROVE  s \in revoking'[q]
      OBVIOUS
    <3>1. s \in ActiveRows
      BY <2>3 DEF Holding
    <3> QED
      BY <1>0, <2>1, <2>2, <3>1 DEF CallTrue, OfPlatform
  <2>6. phase[q] = "rotated" => arg'[q] \in ActiveRows' /\ revoking'[q] = {arg'[q]}
    BY <1>0, <2>1, <2>3 DEF CallTrue, Holding
  <2> QED
    BY <1>0, <2>1, <2>2, <2>4, <2>5, <2>6 DEF CallTrue, OfPlatform
<1>3. ASSUME Step(q) PROVE CallTrue(q)'
  <2>g. Issued \subseteq Issued'
    BY <1>0, <1>3, RowsGrow
  <2>e. ASSUME phase'[q] = "done", phase[q] # "new", kind' = kind, arg' = arg PROVE CallTrue(q)'
    BY <1>0, <2>e, <2>g DEF CallTrue, Holding
  <2>d. ASSUME NEW res, End(q, res) PROVE phase'[q] = "done"
    BY <2>d DEF End, GoTo, TypeOK
  <2>1. CASE Arrive(q)
    <3>1. PICK a \in Choices(q) : arg' = [arg EXCEPT ![q] = a]
      BY <2>1 DEF Arrive
    <3>2. arg'[q] = a
      BY <3>1 DEF TypeOK
    <3>3. kind[q] = "refresh" => a \in Issued
      BY <3>1 DEF Choices
    <3>4. phase'[q] = IF kind[q] \in RevokingKind THEN "found" ELSE "waiting"
      BY <2>1 DEF Arrive, GoTo, TypeOK
    <3>5. kind' = kind
      BY <2>1 DEF Arrive
    <3> QED
      BY <2>g, <3>2, <3>3, <3>4, <3>5 DEF CallTrue, Holding, RevokingKind
  <2>2. CASE LockUser(q)
    <3>1. phase'[q] = "locked" /\ userLock' = q /\ phase[q] # "new" /\ kind' = kind /\ arg' = arg
      BY <2>2 DEF LockUser, GoTo, TypeOK, localVars
    <3> QED
      BY <1>0, <2>g, <3>1 DEF CallTrue, Holding
  <2>3. CASE Abort(q) \/ WrongPassword(q) \/ LoginSanctioned(q) \/ LoginCommit(q)
    <3>1. kind' = kind /\ arg' = arg /\ phase[q] # "new" /\ \E res : End(q, res)
      BY <2>3 DEF Abort, WrongPassword, LoginSanctioned, LoginCommit, localVars
    <3> QED
      BY <2>d, <2>e, <3>1
  <2>4. CASE RefreshRefuse(q) \/ RotateNothing(q) \/ RefreshCommit(q) \/ EndAll(q) \/ RevokeApply(q)
    <3>1. kind' = kind /\ arg' = arg /\ phase[q] # "new" /\ \E res : End(q, res)
      BY <2>4 DEF RefreshRefuse, RotateNothing, RefreshCommit, EndAll, RevokeApply, localVars
    <3> QED
      BY <2>d, <2>e, <3>1
  <2>5. CASE LoginRead(q)
    <3>1. kind' = kind /\ arg' = arg /\ phase[q] = "locked" /\ kind[q] = "login"
      BY <2>5 DEF LoginRead
    <3>2. CASE \E res : End(q, res)
      BY <2>d, <2>e, <3>1, <3>2
    <3>3. CASE GoTo(q, "verify") /\ userLock' = userLock
      <4>1. phase'[q] = "verify"
        BY <3>3 DEF GoTo, TypeOK
      <4> QED
        BY <1>0, <3>1, <3>3, <4>1 DEF CallTrue, Holding
    <3> QED
      BY <2>5, <3>2, <3>3 DEF LoginRead
  <2>6. CASE Replace(q)
    <3>1. /\ kind' = kind /\ arg' = arg /\ row' = row /\ userLock' = userLock /\ phase[q] = "verify"
          /\ phase'[q] = "replacing" /\ revoking'[q] = OfPlatform(PlatformOf(arg[q]))
      BY <2>6 DEF Replace, GoTo, TypeOK, localVars
    <3>2. OfPlatform(PlatformOf(arg[q]))' = OfPlatform(PlatformOf(arg[q]))
      BY <3>1 DEF OfPlatform, ActiveRows, Active, Issued
    <3> QED
      BY <1>0, <3>1, <3>2 DEF CallTrue, Holding
  <2>7. CASE RefreshAccept(q)
    <3>1. /\ kind' = kind /\ arg' = arg /\ row' = row /\ userLock' = userLock /\ phase[q] = "locked"
          /\ phase'[q] = "rotating" /\ kind[q] = "refresh" /\ Refusal(arg[q]) = "none"
      BY <2>7 DEF RefreshAccept, GoTo, TypeOK, localVars
    <3>2. arg[q] \in ActiveRows
      BY <1>0, <3>1 DEF Refusal, CallTrue, ActiveRows, Active
    <3>3. ActiveRows' = ActiveRows /\ Issued' = Issued
      BY <3>1 DEF ActiveRows, Active, Issued
    <3>4. \A s \in ActiveRows' : row'[s].platform = row'[arg'[q]].platform => s = arg'[q]
      BY <3>1, <3>2, <3>3 DEF Rows, Single
    <3> QED
      BY <1>0, <3>1, <3>3, <3>4 DEF CallTrue, Holding
  <2>8. CASE Rotate(q)
    <3>1. /\ kind' = kind /\ arg' = arg /\ row' = row /\ userLock' = userLock /\ phase[q] = "rotating"
          /\ phase'[q] = "rotated" /\ Active(row, arg[q]) /\ revoking'[q] = {arg[q]}
      BY <2>8 DEF Rotate, GoTo, TypeOK, localVars
    <3>2. ActiveRows' = ActiveRows /\ Issued' = Issued
      BY <3>1 DEF ActiveRows, Active, Issued
    <3>3. arg[q] \in ActiveRows
      BY <1>0, <3>1 DEF CallTrue, ActiveRows
    <3> QED
      BY <1>0, <3>1, <3>2, <3>3 DEF CallTrue, Holding
  <2>9. CASE RevokeStart(q)
    <3>1. kind' = kind /\ arg' = arg /\ phase[q] = "found" /\ phase'[q] = "updating"
      BY <2>9 DEF RevokeStart, GoTo, TypeOK
    <3> QED
      BY <1>0, <3>1 DEF CallTrue, Holding
  <2> QED
    BY <1>3, <2>1, <2>2, <2>3, <2>4, <2>5, <2>6, <2>7, <2>8, <2>9 DEF Step
<1> QED
  BY <1>1, <1>2, <1>3 DEF Next

-----------------------------------------------------------------------------
(* The specification *)

LEMMA InitIInv == Init => IInv
<1> SUFFICES ASSUME Init PROVE IInv
  OBVIOUS
<1>1. \A p \in Request : CallTrue(p)
  BY DEF Init, CallTrue, Holding
<1> QED
  BY <1>1, InitTypeOK, InitRows DEF IInv

LEMMA Always == Spec => []IInv
<1>1. Init => IInv
  BY InitIInv
<1>2. IInv /\ [Next]_vars => IInv'
  BY NextTypeOK, NextRows, NextCallTrue DEF IInv
<1> QED
  BY <1>1, <1>2, PTL DEF Spec

\* Every row and request keeps its type, for any scenario of logins, refreshes and endings, any
\* limits and any clock.
THEOREM Typed == Spec => []TypeOK
<1>1. IInv => TypeOK
  BY DEF IInv
<1> QED
  BY <1>1, Always, PTL

\* However logins, refreshes, logouts and sanctions interleave, a platform never has two active rows,
\* so neither replaceSession nor a rotation runs into the partial unique index.
THEOREM OneTerminal == Spec => []OneTerminalPerPlatform
<1>1. IInv => OneTerminalPerPlatform
  <2> SUFFICES ASSUME IInv, NEW p \in Platform PROVE Cardinality(OfPlatform(p)) <= 1
    BY DEF OneTerminalPerPlatform
  <2>1. \A s, t \in OfPlatform(p) : s = t
    BY DEF IInv, Rows, Single, OfPlatform
  <2>2. CASE OfPlatform(p) = {}
    BY <2>2, FS_EmptySet
  <2>3. ASSUME NEW t \in OfPlatform(p) PROVE Cardinality(OfPlatform(p)) <= 1
    <3>1. OfPlatform(p) = {t}
      BY <2>1
    <3>2. Cardinality({t}) = 1
      BY FS_Singleton
    <3> QED
      BY <3>1, <3>2
  <2> QED
    BY <2>2, <2>3
<1> QED
  BY <1>1, Always, PTL

\* No refresh that was under way when its terminal was ended brings it back.
THEOREM EndedForGood == Spec => []EndedStayEnded
<1>1. IInv => EndedStayEnded
  BY DEF IInv, Rows
<1> QED
  BY <1>1, Always, PTL

-----------------------------------------------------------------------------
(* Revocation without the lock of the user *)

\* What revokeSession read stays true of the terminal, however it is refreshed meanwhile: whatever lives of it
\* is a token the UPDATE found or came later.
Found(p) ==
    /\ kind[p] = "revoke" /\ phase[p] # "new" => arg[p] \in 1..Len(row)
    /\ kind[p] = "revoke" /\ phase[p] = "updating" =>
          /\ \A c \in candidates[p] : row[c].family = arg[p]
          /\ \A t \in OfFamily(arg[p]) : \E c \in candidates[p] : c <= t

FoundAll == \A p \in Request : Found(p)

\* A row becomes active only by an insertion: for a new terminal, or after an active row of the same one.
LEMMA NewActive ==
    ASSUME TypeOK, NEW p \in Request, CallTrue(p), Step(p)
    PROVE  /\ Len(row) \in Nat /\ Len(row) <= Len(row')
           /\ \A t \in ActiveRows' :
                 \/ t \in ActiveRows /\ row'[t].family = row[t].family
                 \/ row'[t].family = Len(row) + 1
                 \/ \E s \in ActiveRows : s < t /\ row'[t].family = row[s].family
<1> DEFINE Shape == /\ Len(row) <= Len(row')
                    /\ \A t \in ActiveRows' :
                          \/ t \in ActiveRows /\ row'[t].family = row[t].family
                          \/ row'[t].family = Len(row) + 1
                          \/ \E s \in ActiveRows : s < t /\ row'[t].family = row[s].family
<1>0. /\ row \in Seq(Row) /\ Len(row) \in Nat /\ Issued = 1..Len(row) /\ ActiveRows \subseteq Issued
      /\ now \in Nat /\ stamp[p] \in Nat
  BY DEF TypeOK, Issued, ActiveRows
<1>1. ASSUME row' = row PROVE Shape
  BY <1>0, <1>1 DEF ActiveRows, Active, Issued
<1>2. ASSUME NEW hit, row' = Revoked(hit, now) PROVE Shape
  <2>1. /\ Len(row') = Len(row) /\ ActiveRows' = ActiveRows \ hit
        /\ \A t \in Issued : row'[t].family = row[t].family
    BY <1>0, <1>2, Revoke
  <2> QED
    BY <1>0, <2>1
<1>3. CASE LoginCommit(p)
  <2> DEFINE new == [family |-> Len(row) + 1, platform |-> PlatformOf(arg[p]), expires |-> now + Lifetime,
                     revokedAt |-> Never, parent |-> 0]
  <2>1. new \in Row /\ new.revokedAt = Never /\ new.family = Len(row) + 1
    BY <1>0 DEF TypeOK, Row, PlatformOf, Platform, Never
  <2>2. row' = Append(Revoked(revoking[p], stamp[p]), new)
    BY <1>3 DEF LoginCommit
  <2> HIDE DEF new
  <2>3. /\ Len(row') = Len(row) + 1 /\ row'[Len(row) + 1] = new
        /\ \A t \in Issued : row'[t].family = row[t].family
        /\ ActiveRows' = (ActiveRows \ revoking[p]) \union {Len(row) + 1}
    BY <1>0, <2>1, <2>2, Insert
  <2> QED
    BY <1>0, <2>1, <2>3
<1>4. CASE RefreshCommit(p)
  <2> DEFINE new == [row[arg[p]] EXCEPT !.expires = now + Lifetime, !.revokedAt = Never, !.parent = arg[p]]
  <2>1. arg[p] \in ActiveRows /\ arg[p] \in 1..Len(row)
    BY <1>0, <1>4 DEF RefreshCommit, CallTrue
  <2>2. row[arg[p]] \in Row /\ arg[p] \in Nat /\ arg[p] < Len(row) + 1
    BY <1>0, <2>1
  <2>3. new \in Row /\ new.revokedAt = Never /\ new.family = row[arg[p]].family
    <3>1. now + Lifetime \in Nat /\ Never \in Nat \union {Never}
      BY <1>0
    <3> QED
      BY <2>2, <3>1 DEF Row
  <2>4. row' = Append(Revoked(revoking[p], stamp[p]), new)
    BY <1>4 DEF RefreshCommit
  <2> HIDE DEF new
  <2>5. /\ Len(row') = Len(row) + 1 /\ row'[Len(row) + 1] = new
        /\ \A t \in Issued : row'[t].family = row[t].family
        /\ ActiveRows' = (ActiveRows \ revoking[p]) \union {Len(row) + 1}
    BY <1>0, <2>3, <2>4, Insert
  <2>6. ASSUME NEW t \in ActiveRows'
        PROVE  \/ t \in ActiveRows /\ row'[t].family = row[t].family
               \/ \E s \in ActiveRows : s < t /\ row'[t].family = row[s].family
    <3>1. CASE t = Len(row) + 1
      BY <2>1, <2>2, <2>3, <2>5, <3>1
    <3>2. CASE t \in ActiveRows
      BY <1>0, <2>5, <3>2
    <3> QED
      BY <2>5, <2>6, <3>1, <3>2
  <2>7. Len(row) <= Len(row')
    BY <1>0, <2>5
  <2> QED
    BY <2>6, <2>7
<1>5. CASE RefreshRefuse(p) \/ RotateNothing(p) \/ EndAll(p) \/ RevokeApply(p)
  <2>1. row' = row \/ \E hit : row' = Revoked(hit, now)
    BY <1>5 DEF RefreshRefuse, RotateNothing, EndAll, RevokeApply
  <2> QED
    BY <1>1, <1>2, <2>1
<1>6. CASE Quiet(p)
  <2>1. row' = row
    BY <1>6 DEF Quiet, Arrive, LockUser, Abort, LoginRead, WrongPassword, LoginSanctioned, Replace, RefreshAccept,
                Rotate, RevokeStart
  <2> QED
    BY <1>1, <2>1
<1> QED
  BY <1>0, <1>3, <1>4, <1>5, <1>6 DEF Step, Quiet

\* An UPDATE that waits keeps the rows it found.
LEMMA CandidatesStay ==
    ASSUME TypeOK, NEW p \in Request, Step(p), NEW q \in Request \ {p}
    PROVE  candidates'[q] = candidates[q]
<1>1. CASE RevokeStart(p)
  BY <1>1 DEF RevokeStart, TypeOK
<1>2. CASE ~RevokeStart(p)
  BY <1>2 DEF Step, Arrive, LockUser, Abort, LoginRead, WrongPassword, LoginSanctioned, Replace, LoginCommit,
              RefreshRefuse, RefreshAccept, Rotate, RotateNothing, RefreshCommit, EndAll, RevokeApply, localVars
<1> QED
  BY <1>1, <1>2

\* A refresh puts its token after the one it replaces, so nothing of the terminal comes before what was found.
LEMMA NextFound == IInv /\ FoundAll /\ [Next]_vars => FoundAll'
<1> SUFFICES ASSUME IInv, FoundAll, [Next]_vars, NEW q \in Request
             PROVE  Found(q)'
  BY DEF FoundAll
<1>0. /\ TypeOK /\ Rows /\ Found(q) /\ Issued = 1..Len(row) /\ ActiveRows \subseteq Issued
      /\ candidates[q] \subseteq Issued /\ \A p \in Request : CallTrue(p)
  BY DEF IInv, FoundAll, TypeOK, Issued, ActiveRows
<1>t. TypeOK'
  BY NextTypeOK DEF IInv
<1>n. Len(row') \in Nat /\ ActiveRows' \subseteq Nat
  BY <1>t DEF TypeOK, ActiveRows, Issued
<1>1. CASE Tick \/ UNCHANGED vars
  <2>1. UNCHANGED <<kind, row, phase, arg, candidates>>
    BY <1>1 DEF Tick, vars, localVars
  <2> QED
    BY <1>0, <2>1 DEF Found, OfFamily, ActiveRows, Active, Issued
<1>2. ASSUME NEW p \in Request \ {q}, Step(p) PROVE Found(q)'
  <2>1. kind' = kind /\ phase'[q] = phase[q] /\ arg'[q] = arg[q] /\ candidates'[q] = candidates[q]
    BY <1>0, <1>2, OthersKeep, CandidatesStay
  <2>2. /\ Len(row) \in Nat /\ Len(row) <= Len(row')
        /\ \A t \in ActiveRows' :
              \/ t \in ActiveRows /\ row'[t].family = row[t].family
              \/ row'[t].family = Len(row) + 1
              \/ \E s \in ActiveRows : s < t /\ row'[t].family = row[s].family
    BY <1>0, <1>2, NewActive
  <2>3. /\ Len(row') \in Nat /\ ActiveRows' \subseteq Nat
        /\ \A t \in Issued : row'[t].family = row[t].family
    BY <1>0, <1>2, <1>n, RowsGrow
  <2>4. kind[q] = "revoke" /\ phase[q] # "new" => arg[q] \in 1..Len(row')
    BY <1>0, <2>2, <2>3 DEF Found
  <2>5. ASSUME kind[q] = "revoke", phase[q] = "updating", NEW t \in ActiveRows', row'[t].family = arg[q]
        PROVE  \E c \in candidates[q] : c <= t
    <3>1. arg[q] \in 1..Len(row) /\ \A s \in ActiveRows : row[s].family = arg[q] => \E c \in candidates[q] : c <= s
      BY <1>0, <2>5 DEF Found, OfFamily
    <3>2. arg[q] # Len(row) + 1
      BY <2>2, <3>1
    <3>3. CASE t \in ActiveRows /\ row'[t].family = row[t].family
      BY <2>5, <3>1, <3>3
    <3>4. ASSUME NEW s \in ActiveRows, s < t, row'[t].family = row[s].family PROVE \E c \in candidates[q] : c <= t
      <4>1. PICK c \in candidates[q] : c <= s
        BY <2>5, <3>1, <3>4
      <4>2. c \in Nat /\ s \in Nat /\ t \in Nat
        BY <1>0, <2>2, <2>3
      <4> QED
        BY <3>4, <4>1, <4>2
    <3> QED
      BY <2>2, <2>5, <3>2, <3>3, <3>4
  <2>6. kind[q] = "revoke" /\ phase[q] = "updating" => \A c \in candidates[q] : row'[c].family = arg[q]
    BY <1>0, <2>3 DEF Found
  <2> QED
    BY <2>1, <2>4, <2>5, <2>6 DEF Found, OfFamily
<1>3. ASSUME Step(q) PROVE Found(q)'
  <2>1. CASE Arrive(q)
    <3>1. /\ kind' = kind /\ row' = row /\ arg' \in {[arg EXCEPT ![q] = a] : a \in Choices(q)}
          /\ phase'[q] # "updating"
      BY <1>0, <2>1 DEF Arrive, GoTo, TypeOK
    <3>2. kind[q] = "revoke" => arg'[q] \in {row[t].family : t \in Issued}
      BY <1>0, <3>1 DEF Choices, TypeOK
    <3>3. {row[t].family : t \in Issued} \subseteq 1..Len(row)
      BY <1>0 DEF Rows, Families
    <3> QED
      BY <3>1, <3>2, <3>3 DEF Found
  <2>2. CASE RevokeStart(q)
    <3>1. /\ kind' = kind /\ row' = row /\ arg' = arg /\ phase[q] = "found"
          /\ kind[q] = "revoke" => candidates'[q] = OfFamily(arg[q])
      BY <1>0, <2>2 DEF RevokeStart, TypeOK
    <3>2. OfFamily(arg[q])' = OfFamily(arg[q]) /\ OfFamily(arg[q]) \subseteq Nat
      BY <1>0, <3>1 DEF OfFamily, ActiveRows, Active, Issued
    <3>3. kind[q] = "revoke" => arg'[q] \in 1..Len(row')
      BY <1>0, <3>1 DEF Found
    <3>4. \A c \in OfFamily(arg[q]) : row[c].family = arg[q]
      BY DEF OfFamily
    <3>5. \A t \in OfFamily(arg[q]) : t <= t
      BY <3>2
    <3> QED
      BY <3>1, <3>2, <3>3, <3>4, <3>5 DEF Found
  <2>3. CASE ~Arrive(q) /\ ~RevokeStart(q)
    <3>1. kind' = kind /\ arg' = arg /\ phase[q] # "new"
      BY <1>3, <2>3 DEF Step, LockUser, Abort, LoginRead, WrongPassword, LoginSanctioned, Replace, LoginCommit,
                        RefreshRefuse, RefreshAccept, Rotate, RotateNothing, RefreshCommit, EndAll, RevokeApply,
                        localVars
    <3>2. phase'[q] # "updating"
      BY <1>0, <1>3, <2>3 DEF Step, LockUser, Abort, LoginRead, WrongPassword, LoginSanctioned, Replace, LoginCommit,
                        RefreshRefuse, RefreshAccept, Rotate, RotateNothing, RefreshCommit, EndAll, RevokeApply,
                        End, GoTo, TypeOK
    <3>3. Len(row) \in Nat /\ Len(row') \in Nat /\ Len(row) <= Len(row')
      BY <1>0, <1>3, <1>n, NewActive
    <3>4. kind[q] = "revoke" => arg[q] \in 1..Len(row)
      BY <1>0, <3>1 DEF Found
    <3>5. \A a \in 1..Len(row) : a \in 1..Len(row')
      BY <3>3
    <3> QED
      BY <3>1, <3>2, <3>4, <3>5 DEF Found
  <2> QED
    BY <2>1, <2>2, <2>3
<1> QED
  BY <1>1, <1>2, <1>3 DEF Next

\* Only the end of its UPDATE ends a revocation: a terminal of which that step leaves a token is reported as not
\* found, and the token came after one that was found.
LEMMA Missed ==
    ASSUME IInv, FoundAll, NEW p \in Request, RevokeApply(p), kind[p] = "revoke",
           NEW t \in OfFamily(arg[p])'
    PROVE  result'[p] = "not_found" /\ \E c \in candidates[p] : c < t /\ ~Active(row, c)
<1> DEFINE hit == candidates[p] \intersect ActiveRows
<1>0. TypeOK /\ Single /\ Families /\ Found(p) /\ candidates[p] \subseteq Issued /\ Issued \subseteq Nat
      /\ now \in Nat /\ ActiveRows \subseteq Issued
  BY DEF IInv, Rows, FoundAll, TypeOK, Issued, ActiveRows
<1>1. row' = Revoked(hit, now) /\ phase[p] = "updating" /\ arg' = arg /\ End(p, IF hit = {} THEN "not_found" ELSE "ok")
  BY DEF RevokeApply, localVars
<1> HIDE DEF hit
<1>2. ActiveRows' = ActiveRows \ hit /\ \A s \in Issued : row'[s].family = row[s].family
  BY <1>0, <1>1, Revoke
<1>3. t \in ActiveRows /\ t \notin hit /\ row[t].family = arg[p]
  BY <1>0, <1>1, <1>2 DEF OfFamily
<1>4. t \notin candidates[p]
  BY <1>3 DEF hit
<1>5. PICK c \in candidates[p] : c <= t
  BY <1>0, <1>1, <1>3 DEF Found, OfFamily
<1>6. \A d \in candidates[p] : d \notin ActiveRows
  <2> SUFFICES ASSUME NEW d \in candidates[p], d \in ActiveRows PROVE FALSE
    OBVIOUS
  <2>1. row[d].family = row[t].family
    BY <1>0, <1>1, <1>3 DEF Found
  <2>2. d = t
    BY <1>0, <1>3, <2>1 DEF Families, Single
  <2> QED
    BY <1>4, <2>2
<1>7. result'[p] = "not_found"
  <2>1. hit = {}
    BY <1>6 DEF hit
  <2> QED
    BY <1>0, <1>1, <2>1 DEF End, TypeOK
<1>8. c < t
  <2>1. c \in Nat /\ t \in Nat /\ c # t
    BY <1>0, <1>3, <1>4, <1>5
  <2> QED
    BY <1>5, <2>1
<1>9. ~Active(row, c)
  BY <1>0, <1>5, <1>6 DEF ActiveRows
<1> QED
  BY <1>5, <1>7, <1>8, <1>9

\* Of a terminal that revokeSession reports as ended no token lives, and what survives a revocation that found
\* nothing is the successor of a token it waited for (auth-session.service.ts:413-433, without the user's lock).
THEOREM MissesOnlySuccessors == Spec => RevokeMissesOnlySuccessors
<1> DEFINE Honest == \A p \in Request : kind[p] = "revoke" /\ phase[p] = "updating" /\ phase'[p] = "done" =>
                        \A t \in OfFamily(arg[p])' :
                            /\ result'[p] = "not_found"
                            /\ \E c \in candidates[p] : c < t /\ ~Active(row, c)
<1>1. Init => FoundAll
  BY DEF Init, FoundAll, Found
<1>2. IInv /\ FoundAll /\ [Next]_vars => FoundAll'
  BY NextFound
<1>3. IInv /\ FoundAll /\ [Next]_vars => [Honest]_vars
  <2> SUFFICES ASSUME IInv, FoundAll, Next, NEW p \in Request, kind[p] = "revoke", phase[p] = "updating",
                      phase'[p] = "done", NEW t \in OfFamily(arg[p])'
               PROVE  result'[p] = "not_found" /\ \E c \in candidates[p] : c < t /\ ~Active(row, c)
    BY Zenon
  <2>1. Step(p)
    <3>1. CASE Tick
      BY <3>1 DEF Tick
    <3>2. ASSUME NEW q \in Request, Step(q), q # p PROVE FALSE
      BY <3>2, OthersKeep DEF IInv
    <3> QED
      BY <3>1, <3>2 DEF Next
  <2>2. RevokeApply(p)
    BY <2>1 DEF Step, Arrive, LockUser, Abort, LoginRead, WrongPassword, LoginSanctioned, Replace, LoginCommit,
                RefreshRefuse, RefreshAccept, Rotate, RotateNothing, RefreshCommit, EndAll, RevokeStart
  <2> QED
    BY <2>2, Missed
<1>4. (Spec => [][Honest]_vars) => (Spec => RevokeMissesOnlySuccessors)
  BY DEF RevokeMissesOnlySuccessors
<1> QED
  BY <1>1, <1>2, <1>3, <1>4, Always, PTL DEF Spec
=============================================================================
