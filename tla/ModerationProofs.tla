-------------------------- MODULE ModerationProofs --------------------------
(***************************************************************************)
(* Proofs about Moderation and Moments, for any users, comments, handlers, *)
(* loads and bounds.                                                       *)
(***************************************************************************)
EXTENDS Moderation, SequenceTheorems, FiniteSetTheorems, TLAPS

ContentState == {"none", "live", "hidden", "gone"}

ContentTypeOK ==
    /\ moment \in [state : ContentState \ {"none"}, comments : Int, likes : Int, marks : Int]
    /\ comments \in [Comments -> [state : ContentState, by : Users \cup {None}, root : Comments \cup {None}]]
    /\ likes \subseteq Users /\ marks \subseteq Users
    /\ cause \in [Contents -> Nat]

Target == Contents \cup Users
Outcome == {"DISMISSED", "RESOLVED"}
Action == {"HIDE", "SUSPEND", "BAN"}

Case == [target : Target, status : {"OPEN"} \cup Outcome]
Report == [by : Users, target : Target, status : {"PENDING"} \cup Outcome, case : Nat]
Decision == [target : Target, action : Action, active : BOOLEAN,
             appeal : {"none", "PENDING", "UPHELD", "OVERTURNED"}]

RecordTypeOK ==
    /\ cases \in Seq(Case) /\ reports \in Seq(Report)
    /\ decisions \in Seq(Decision)
    /\ \A d \in DOMAIN decisions : decisions[d].action = "HIDE" => decisions[d].target \in Contents

Account == [user : Users \cup {None}, type : {"SUSPEND", "BAN"}, open : BOOLEAN, ended : BOOLEAN, decision : Nat]

AccountTypeOK == sanctions \in Seq(Account) /\ sessions \subseteq Users

\* What a transaction that has read remembers still names rows that are there.
CallOK(c) ==
    \/ c.op = "idle"
    \/ c.op = "revoke" /\ c.seen \in DOMAIN sanctions
    \/ c.op = "report" /\ c.id \in Target /\ c.arg \in Users /\ c.seen \in Nat
    \/ /\ c.op = "handle" /\ c.id \in DOMAIN reports
       /\ c.arg \in {"DISMISS", "NONE"} \cup Action
    \/ /\ c.op = "case" /\ c.id \in DOMAIN cases
       /\ c.arg \in {"DISMISS"} \cup Action
    \/ /\ c.op = "appeal" /\ c.id \in DOMAIN decisions
       /\ c.arg \in {"UPHELD", "OVERTURNED"} /\ c.seen \in {0} \cup DOMAIN sanctions

Op == {"idle", "revoke", "report", "handle", "case", "appeal"}
Named == Target \cup Nat \cup {None}
Arg == Users \cup {None} \cup {"DISMISS", "NONE", "UPHELD", "OVERTURNED"} \cup Action

Call == [op : Op, id : Named, arg : Arg, seen : Nat]

CallTypeOK ==
    /\ calls \in [Handlers -> Call]
    /\ \A h \in Handlers : CallOK(calls[h])

TypeOK == ContentTypeOK /\ RecordTypeOK /\ AccountTypeOK /\ CallTypeOK

LiveComments == {c \in Comments : comments[c].state = "live"}

Counted == IsFiniteSet(LiveComments) /\ IsFiniteSet(likes) /\ IsFiniteSet(marks) /\ CountsMatch

\* A content that a decision hid is the target of that decision; what is not hidden has no cause.
CauseSays ==
    \A t \in Contents : cause[t] # 0 =>
        /\ Hidden(t)
        /\ cause[t] \in DOMAIN decisions
        /\ decisions[cause[t]].target = t /\ decisions[cause[t]].action = "HIDE"

\* A sanction belongs to no decision or to one that asked for it, and a decision has no two.
SanctionSays ==
    /\ \A s \in DOMAIN sanctions : sanctions[s].decision # 0 =>
          /\ sanctions[s].decision \in DOMAIN decisions
          /\ decisions[sanctions[s].decision].action # "HIDE"
    /\ \A s, z \in DOMAIN sanctions :
          sanctions[s].decision = sanctions[z].decision /\ sanctions[s].decision # 0 => s = z

\* The sanction that an appeal has read is the only one of its decision that can be in force.
AppealSays ==
    \A h \in Handlers : calls[h].op = "appeal" =>
        \A s \in DOMAIN sanctions :
            sanctions[s].decision = calls[h].id /\ sanctions[s].open => s = calls[h].seen

IInv == /\ TypeOK /\ Counted
        /\ CauseSays /\ SanctionSays /\ AppealSays
        /\ SanctionedStaysOut /\ ReversedIsLifted

-----------------------------------------------------------------------------
(* Tables: sequences of rows that are added to and rewritten in place *)

\* A table after an update keeps its rows.
LEMMA Remade ==
    ASSUME NEW S, NEW T, NEW q \in Seq(S), NEW f \in [DOMAIN q -> T]
    PROVE  f \in Seq(T) /\ Len(f) = Len(q) /\ DOMAIN f = DOMAIN q
<1>1. Len(q) \in Nat /\ DOMAIN q = 1 .. Len(q)
  BY LenProperties
<1>2. f \in [1 .. Len(q) -> T]
  BY <1>1
<1>3. f \in Seq(T)
  BY <1>1, <1>2, SeqDef
<1>4. Len(f) \in Nat /\ DOMAIN f = 1 .. Len(f)
  BY <1>3, LenProperties
<1> QED
  BY <1>1, <1>2, <1>3, <1>4

\* A table after an insert has its old rows and the new one.
LEMMA Appended ==
    ASSUME NEW S, NEW q \in Seq(S), NEW x \in S
    PROVE  /\ Append(q, x) \in Seq(S) /\ Len(q) \in Nat /\ Len(Append(q, x)) = Len(q) + 1
           /\ DOMAIN q = 1 .. Len(q) /\ DOMAIN Append(q, x) = DOMAIN q \cup {Len(q) + 1}
           /\ Len(q) + 1 \notin DOMAIN q
           /\ Append(q, x)[Len(q) + 1] = x /\ \A i \in DOMAIN q : Append(q, x)[i] = q[i]
<1>1. Len(q) \in Nat /\ DOMAIN q = 1 .. Len(q)
  BY LenProperties
<1>2. /\ Append(q, x) \in Seq(S) /\ Len(Append(q, x)) = Len(q) + 1
      /\ \A i \in 1 .. Len(q) : Append(q, x)[i] = q[i]
      /\ Append(q, x)[Len(q) + 1] = x
  BY AppendProperties
<1>3. DOMAIN Append(q, x) = 1 .. Len(q) + 1
  BY <1>1, <1>2, LenProperties
<1> QED
  BY <1>1, <1>2, <1>3

-----------------------------------------------------------------------------
(* Transactions *)

\* What a transaction that has read knows when it writes.
LEMMA CallSays ==
    ASSUME CallTypeOK, NEW h \in Handlers
    PROVE  /\ calls[h].op = "revoke" => calls[h].seen \in DOMAIN sanctions
           /\ calls[h].op = "report" => calls[h].id \in Target /\ calls[h].arg \in Users /\ calls[h].seen \in Nat
           /\ calls[h].op = "handle" => /\ calls[h].id \in DOMAIN reports
                                        /\ calls[h].arg \in {"DISMISS", "NONE"} \cup Action
           /\ calls[h].op = "case" => /\ calls[h].id \in DOMAIN cases
                                      /\ calls[h].arg \in {"DISMISS"} \cup Action
           /\ calls[h].op = "appeal" => /\ calls[h].id \in DOMAIN decisions
                                        /\ calls[h].arg \in {"UPHELD", "OVERTURNED"}
                                        /\ calls[h].seen \in {0} \cup DOMAIN sanctions
<1>1. CallOK(calls[h])
  BY DEF CallTypeOK
<1> QED
  BY <1>1 DEF CallOK

\* The rows that a transaction names, in their tables.
LEMMA RowSays ==
    ASSUME RecordTypeOK
    PROVE  /\ \A k \in DOMAIN cases : cases[k] \in Case
           /\ \A r \in DOMAIN reports : reports[r] \in Report
           /\ \A d \in DOMAIN decisions : decisions[d] \in Decision
           /\ Len(decisions) \in Nat /\ DOMAIN decisions = 1 .. Len(decisions)
<1>1. cases \in Seq(Case) /\ reports \in Seq(Report) /\ decisions \in Seq(Decision)
  BY DEF RecordTypeOK
<1>2. \A k \in DOMAIN cases : cases[k] \in Case
  BY <1>1, LenProperties, ElementOfSeq
<1>3. \A r \in DOMAIN reports : reports[r] \in Report
  BY <1>1, LenProperties, ElementOfSeq
<1>4. \A d \in DOMAIN decisions : decisions[d] \in Decision
  BY <1>1, LenProperties, ElementOfSeq
<1> QED
  BY <1>1, <1>2, <1>3, <1>4, LenProperties

-----------------------------------------------------------------------------
(* The contents *)

\* The decision of a hiding or of a sanction is none, or the one that is written with it.
Decided(d) == d # 0 => d \in DOMAIN decisions' \ DOMAIN decisions

\* What a step does to the contents and to the causes of their hiding.
ContentEffect ==
    \/ UNCHANGED <<content, cause>>
    \/ UNCHANGED cause /\ \E u \in Users : \/ \E c \in Comments, to \in Comments \cup {None} : CreateComment(u, c, to)
                                           \/ \E c \in Comments : RemoveComment(u, c)
                                           \/ RemoveMoment(u)
                                           \/ \E on \in BOOLEAN : SetLike(u, on) \/ SetMark(u, on)
    \/ \E t \in Contents, d \in Nat :
          /\ Hide(t, d) /\ Decided(d)
          /\ d # 0 => decisions'[d].target = t /\ decisions'[d].action = "HIDE"
    \/ \E t \in Contents : Unhide(t)

\* Every step does one of these.
LEMMA ContentSteps ==
    ASSUME RecordTypeOK, CallTypeOK, [Next]_vars
    PROVE  ContentEffect
<1> USE DEF content
<1>1. CASE UseMoment
  BY <1>1 DEF UseMoment, ContentEffect
<1>2. ASSUME NEW t \in Contents, HideContent(t) \/ RestoreContent(t)
      PROVE  ContentEffect
  BY <1>2 DEF HideContent, RestoreContent, Decided, ContentEffect
<1>3. ASSUME \/ \E u \in Users : Login(u) \/ Logout(u) \/ \E type \in {"SUSPEND", "BAN"} : SanctionUser(u, type)
             \/ \E s \in DOMAIN sanctions : Expire(s)
             \/ \E d \in DOMAIN decisions : CreateAppeal(d)
      PROVE  ContentEffect
  BY <1>3 DEF Login, Logout, SanctionUser, Expire, CreateAppeal, ContentEffect
<1>4. ASSUME NEW h \in Handlers, HandleWrite(h)
      PROVE  ContentEffect
  BY <1>4 DEF HandleWrite, Measure, Hide, Decided, ContentEffect
<1>5. ASSUME NEW h \in Handlers, CaseWrite(h)
      PROVE  ContentEffect
  <2> DEFINE k == calls[h].id
             row == [target |-> cases[k].target, action |-> calls[h].arg, active |-> TRUE, appeal |-> "none"]
  <2>1. calls[h].arg \in {"DISMISS"} \cup Action /\ cases[k].target \in Target
    <3>1. calls[h].op = "case"
      BY <1>5 DEF CaseWrite, Ends
    <3> QED
      BY <3>1, CallSays, RowSays DEF Case
  <2>2. CASE calls[h].arg = "HIDE"
    <3>1. row \in Decision /\ decisions' = Append(decisions, row)
      BY <1>5, <2>1, <2>2 DEF CaseWrite, Decision, Action
    <3>2. Hide(cases[k].target, Len(decisions'))
      BY <1>5, <2>2 DEF CaseWrite, Measure
    <3> HIDE DEF row
    <3>3. /\ Len(decisions') \in Nat /\ Decided(Len(decisions'))
          /\ decisions'[Len(decisions')] = row
      BY <3>1, Appended DEF Decided, RecordTypeOK
    <3> USE DEF row
    <3> QED
      <4>1. cases[k].target \in Contents
        BY <3>2 DEF Hide
      <4>2. decisions'[Len(decisions')].target = cases[k].target /\ decisions'[Len(decisions')].action = "HIDE"
        BY <2>2, <3>3
      <4> HIDE DEF k
      <4> QED
        BY <3>2, <3>3, <4>1, <4>2, Zenon DEF ContentEffect
  <2>3. CASE calls[h].arg # "HIDE"
    BY <1>5, <2>3 DEF CaseWrite, Measure, ContentEffect
  <2> QED
    BY <2>2, <2>3
<1>6. ASSUME NEW h \in Handlers, AppealWrite(h)
      PROVE  ContentEffect
  <2>1. calls[h].id \in DOMAIN decisions
    BY <1>6 DEF AppealWrite, Ends, CallTypeOK, CallOK
  <2>2. CASE calls[h].arg = "UPHELD" \/ decisions[calls[h].id].action # "HIDE"
    BY <1>6, <2>2 DEF AppealWrite, Overturn, ContentEffect
  <2>3. CASE calls[h].arg # "UPHELD" /\ decisions[calls[h].id].action = "HIDE"
    <3>1. Unhide(decisions[calls[h].id].target)
      BY <1>6, <2>3 DEF AppealWrite, Overturn
    <3>2. decisions[calls[h].id].target \in Contents
      BY <2>1, <2>3 DEF RecordTypeOK
    <3> QED
      BY <3>1, <3>2 DEF ContentEffect
  <2> QED
    BY <2>2, <2>3
<1>7. ASSUME NEW h \in Handlers,
             \/ GiveUp(h) \/ RevokeWrite(h) \/ ReportWrite(h) \/ ReportAgain(h)
             \/ \E u \in Users : RevokeRead(h, u) \/ \E t \in Contents \cup Users : ReportRead(h, u, t)
             \/ \E action \in {"DISMISS", "NONE", "HIDE", "SUSPEND", "BAN"} :
                  \/ \E r \in DOMAIN reports : HandleRead(h, r, action)
                  \/ \E k \in DOMAIN cases : CaseRead(h, k, action)
             \/ \E d \in DOMAIN decisions, outcome \in {"UPHELD", "OVERTURNED"} : AppealRead(h, d, outcome)
      PROVE  ContentEffect
  BY <1>7 DEF GiveUp, RevokeWrite, ReportWrite, ReportAgain, RevokeRead, ReportRead, HandleRead, CaseRead, AppealRead,
              Begin, ContentEffect
<1>8. CASE UNCHANGED vars
  BY <1>8 DEF vars, ContentEffect
<1> QED
  BY <1>1, <1>2, <1>3, <1>4, <1>5, <1>6, <1>7, <1>8 DEF Next

\* The contents after a hiding or a restoration.
LEMMA StateSet ==
    ASSUME ContentTypeOK, NEW t \in Contents, NEW s \in {"live", "hidden"}, SetState(t, s)
    PROVE  /\ \A z \in Contents : StateOf(z)' = IF z = t THEN s ELSE StateOf(z)
           /\ likes' = likes /\ marks' = marks
           /\ moment' \in [state : ContentState \ {"none"}, comments : Int, likes : Int, marks : Int]
           /\ comments' \in [Comments -> [state : ContentState, by : Users \cup {None},
                                          root : Comments \cup {None}]]
<1>0. TheMoment \notin Comments /\ (t = TheMoment \/ t \in Comments)
  BY ModerationAssumption DEF Contents
<1>1. CASE t = TheMoment
  <2>1. moment' = [moment EXCEPT !.state = s] /\ comments' = comments /\ likes' = likes /\ marks' = marks
    BY <1>1 DEF SetState
  <2>2. moment'.state = s /\ moment' \in [state : ContentState \ {"none"}, comments : Int, likes : Int, marks : Int]
    BY <2>1 DEF ContentTypeOK, ContentState
  <2> QED
    BY <1>0, <1>1, <2>1, <2>2 DEF StateOf, Contents, ContentTypeOK
<1>2. CASE t \in Comments
  <2>1. /\ comments' = [comments EXCEPT ![t].state = s] /\ likes' = likes /\ marks' = marks
        /\ moment' = [moment EXCEPT !.comments = IF s = "live" THEN @ + 1 ELSE @ - 1]
    BY <1>0, <1>2 DEF SetState
  <2>2. moment'.state = moment.state
        /\ moment' \in [state : ContentState \ {"none"}, comments : Int, likes : Int, marks : Int]
    BY <2>1 DEF ContentTypeOK
  <2>3. /\ comments' \in [Comments -> [state : ContentState, by : Users \cup {None}, root : Comments \cup {None}]]
        /\ \A c \in Comments : comments'[c].state = IF c = t THEN s ELSE comments[c].state
    BY <1>2, <2>1 DEF ContentTypeOK, ContentState
  <2> QED
    BY <1>0, <1>2, <2>1, <2>2, <2>3 DEF StateOf, Contents
<1> QED
  BY <1>0, <1>1, <1>2

\* What an author or an owner removed stays removed; what is hidden, nobody else removes.
LEMMA StatesStep ==
    ASSUME ContentTypeOK, ContentEffect, NEW t \in Contents
    PROVE  /\ ContentTypeOK'
           /\ StateOf(t) = "gone" => StateOf(t)' = "gone"
           /\ StateOf(t) = "hidden" => StateOf(t)' = "hidden" \/ Unhide(t)
<1>0. TheMoment \notin Comments /\ (t = TheMoment \/ t \in Comments)
  BY ModerationAssumption DEF Contents
<1>1. CASE UNCHANGED <<content, cause>>
  BY <1>1 DEF content, ContentTypeOK, StateOf
<1>2. ASSUME NEW u \in Users, NEW c \in Comments, NEW to \in Comments \cup {None}, CreateComment(u, c, to),
             UNCHANGED cause
      PROVE  ContentTypeOK' /\ (StateOf(t) \in {"gone", "hidden"} => StateOf(t)' = StateOf(t))
  <2> DEFINE row == [state |-> "live", by |-> u,
                     root |-> IF to # None /\ comments[to].root # None THEN comments[to].root ELSE to]
  <2>1. row \in [state : ContentState, by : Users \cup {None}, root : Comments \cup {None}] /\ row.state = "live"
    BY DEF ContentTypeOK, ContentState
  <2>2. /\ comments' = [comments EXCEPT ![c] = row] /\ moment' = [moment EXCEPT !.comments = @ + 1]
        /\ likes' = likes /\ marks' = marks /\ comments[c].state = "none"
    BY <1>2 DEF CreateComment
  <2> HIDE DEF row
  <2>3. comments' \in [Comments -> [state : ContentState, by : Users \cup {None}, root : Comments \cup {None}]]
    BY <2>1, <2>2 DEF ContentTypeOK
  <2>4. moment' \in [state : ContentState \ {"none"}, comments : Int, likes : Int, marks : Int]
        /\ moment'.state = moment.state
    BY <2>2 DEF ContentTypeOK
  <2> QED
    BY <1>0, <1>2, <2>2, <2>3, <2>4 DEF ContentTypeOK, StateOf
<1>3. ASSUME NEW u \in Users, NEW c \in Comments, RemoveComment(u, c), UNCHANGED cause
      PROVE  ContentTypeOK' /\ (StateOf(t) \in {"gone", "hidden"} => StateOf(t)' = StateOf(t))
  <2> DEFINE s == RemoveState(u, comments[c].by)
  <2>1. /\ comments' = [comments EXCEPT ![c].state = s] /\ moment' = [moment EXCEPT !.comments = @ - 1]
        /\ likes' = likes /\ marks' = marks /\ comments[c].state = "live" /\ s \in ContentState
    BY <1>3 DEF RemoveComment, Removable, Shown, RemoveState, ContentState
  <2> HIDE DEF s
  <2>2. comments' \in [Comments -> [state : ContentState, by : Users \cup {None}, root : Comments \cup {None}]]
        /\ \A z \in Comments \ {c} : comments'[z] = comments[z]
    BY <2>1 DEF ContentTypeOK
  <2>3. moment' \in [state : ContentState \ {"none"}, comments : Int, likes : Int, marks : Int]
        /\ moment'.state = moment.state
    BY <2>1 DEF ContentTypeOK
  <2> QED
    BY <1>0, <1>3, <2>1, <2>2, <2>3 DEF ContentTypeOK, StateOf
<1>4. ASSUME NEW u \in Users, RemoveMoment(u) \/ \E on \in BOOLEAN : SetLike(u, on) \/ SetMark(u, on),
             UNCHANGED cause
      PROVE  ContentTypeOK' /\ (StateOf(t) \in {"gone", "hidden"} => StateOf(t)' = StateOf(t))
  <2>1. CASE RemoveMoment(u)
    <3>1. /\ moment.state = "live" /\ comments' = comments /\ likes' = likes /\ marks' = marks
          /\ moment' = [moment EXCEPT !.state = RemoveState(u, Author)]
          /\ RemoveState(u, Author) \in ContentState \ {"none"}
      BY <2>1 DEF RemoveMoment, Live, RemoveState, ContentState
    <3>2. moment' \in [state : ContentState \ {"none"}, comments : Int, likes : Int, marks : Int]
      BY <3>1 DEF ContentTypeOK
    <3> QED
      BY <1>0, <1>4, <3>1, <3>2 DEF ContentTypeOK, StateOf
  <2>2. ASSUME NEW on \in BOOLEAN, SetLike(u, on) \/ SetMark(u, on)
        PROVE  ContentTypeOK' /\ (StateOf(t) \in {"gone", "hidden"} => StateOf(t)' = StateOf(t))
    <3>1. /\ comments' = comments /\ likes' \subseteq Users /\ marks' \subseteq Users
      BY <2>2 DEF SetLike, SetMark, ContentTypeOK
    <3>2. moment' \in [state : ContentState \ {"none"}, comments : Int, likes : Int, marks : Int]
          /\ moment'.state = moment.state
      BY <2>2 DEF SetLike, SetMark, ContentTypeOK
    <3> QED
      BY <1>0, <1>4, <3>1, <3>2 DEF ContentTypeOK, StateOf
  <2> QED
    BY <1>4, <2>1, <2>2
<1>5. ASSUME NEW z \in Contents, NEW d \in Nat, Hide(z, d)
      PROVE  ContentTypeOK' /\ (StateOf(t) \in {"gone", "hidden"} => StateOf(t)' = StateOf(t))
  <2>1. StateOf(z) = "live" /\ SetState(z, "hidden") /\ cause' = [cause EXCEPT ![z] = d]
    BY <1>5 DEF Hide
  <2> QED
    BY <2>1, StateSet DEF ContentTypeOK
<1>6. ASSUME NEW z \in Contents, Unhide(z)
      PROVE  /\ ContentTypeOK'
             /\ StateOf(t) = "gone" => StateOf(t)' = "gone"
             /\ StateOf(t) = "hidden" => StateOf(t)' = "hidden" \/ Unhide(t)
  <2>1. StateOf(z) = "hidden" /\ SetState(z, "live") /\ cause' = [cause EXCEPT ![z] = 0]
    BY <1>6 DEF Unhide, Hidden
  <2>2. /\ \A y \in Contents : StateOf(y)' = IF y = z THEN "live" ELSE StateOf(y)
        /\ ContentTypeOK'
    BY <2>1, StateSet DEF ContentTypeOK
  <2> QED
    BY <1>6, <2>1, <2>2
<1> QED
  BY <1>1, <1>2, <1>3, <1>4, <1>5, <1>6 DEF ContentEffect

-----------------------------------------------------------------------------
(* The counters of a moment *)

\* A finite set with one element more, or less.
LEMMA OneMore ==
    ASSUME NEW S, IsFiniteSet(S), NEW x
    PROVE  /\ IsFiniteSet(S \cup {x}) /\ IsFiniteSet(S \ {x}) /\ Cardinality(S) \in Nat
           /\ x \notin S => Cardinality(S \cup {x}) = Cardinality(S) + 1
           /\ x \in S => Cardinality(S \ {x}) = Cardinality(S) - 1
BY FS_AddElement, FS_RemoveElement, FS_CardinalityType

\* A comment that appears or disappears is counted.
LEMMA CommentCounted ==
    ASSUME ContentTypeOK, Counted, NEW c \in Comments, NEW step \in {1, -1},
           \A z \in Comments \ {c} : comments'[z].state = comments[z].state,
           step = 1 => comments[c].state # "live" /\ comments'[c].state = "live",
           step = -1 => comments[c].state = "live" /\ comments'[c].state # "live",
           moment'.comments = moment.comments + step,
           moment'.likes = moment.likes, moment'.marks = moment.marks,
           likes' = likes, marks' = marks
    PROVE  Counted'
<1>1. LiveComments' = {z \in Comments : comments'[z].state = "live"}
  BY DEF LiveComments
<1>2. IsFiniteSet(LiveComments) /\ moment.comments = Cardinality(LiveComments)
  BY DEF Counted, CountsMatch, LiveComments
<1>3. CASE step = 1
  <2>1. c \notin LiveComments /\ LiveComments' = LiveComments \cup {c}
    BY <1>1, <1>3 DEF LiveComments
  <2>2. IsFiniteSet(LiveComments') /\ Cardinality(LiveComments') = moment'.comments
    BY <1>2, <1>3, <2>1, OneMore
  <2> QED
    BY <2>2 DEF Counted, CountsMatch, LiveComments
<1>4. CASE step = -1
  <2>1. c \in LiveComments /\ LiveComments' = LiveComments \ {c}
    BY <1>1, <1>4 DEF LiveComments
  <2>2. IsFiniteSet(LiveComments') /\ Cardinality(LiveComments') = moment'.comments
    BY <1>2, <1>4, <2>1, OneMore
  <2> QED
    BY <2>2 DEF Counted, CountsMatch, LiveComments
<1> QED
  BY <1>3, <1>4

\* Every write of the contents keeps the counters.
LEMMA CountsStep == ContentTypeOK /\ Counted /\ ContentEffect => Counted'
<1> SUFFICES ASSUME ContentTypeOK, Counted, ContentEffect
             PROVE  Counted'
  OBVIOUS
<1>0. TheMoment \notin Comments
  BY ModerationAssumption
<1>1. ASSUME comments' = comments, likes' = likes, marks' = marks,
             moment'.comments = moment.comments, moment'.likes = moment.likes, moment'.marks = moment.marks
      PROVE  Counted'
  BY <1>1 DEF Counted, CountsMatch, LiveComments
<1>2. ASSUME NEW u \in Users, NEW c \in Comments, NEW to \in Comments \cup {None}, CreateComment(u, c, to)
      PROVE  Counted'
  <2>1. /\ comments[c].state = "none" /\ comments'[c].state = "live" /\ likes' = likes /\ marks' = marks
        /\ \A z \in Comments \ {c} : comments'[z] = comments[z]
    BY <1>2 DEF CreateComment, ContentTypeOK
  <2>2. /\ moment'.comments = moment.comments + 1
        /\ moment'.likes = moment.likes /\ moment'.marks = moment.marks
    BY <1>2 DEF CreateComment, ContentTypeOK
  <2> QED
    BY <2>1, <2>2, CommentCounted
<1>3. ASSUME NEW u \in Users, NEW c \in Comments, RemoveComment(u, c)
      PROVE  Counted'
  <2>1. /\ comments[c].state = "live" /\ comments'[c].state # "live" /\ likes' = likes /\ marks' = marks
        /\ \A z \in Comments \ {c} : comments'[z] = comments[z]
    BY <1>3 DEF RemoveComment, Removable, Shown, RemoveState, ContentTypeOK
  <2>2. /\ moment'.comments = moment.comments + (-1)
        /\ moment'.likes = moment.likes /\ moment'.marks = moment.marks
    BY <1>3 DEF RemoveComment, ContentTypeOK
  <2> QED
    BY <2>1, <2>2, CommentCounted
<1>4. ASSUME NEW u \in Users, RemoveMoment(u)
      PROVE  Counted'
  BY <1>1, <1>4 DEF RemoveMoment, ContentTypeOK
<1>5. ASSUME NEW u \in Users, NEW on \in BOOLEAN, SetLike(u, on)
      PROVE  Counted'
  <2>1. /\ comments' = comments /\ marks' = marks /\ moment'.comments = moment.comments
        /\ moment'.marks = moment.marks
        /\ moment'.likes = IF on THEN moment.likes + 1 ELSE moment.likes - 1
        /\ likes' = IF on THEN likes \cup {u} ELSE likes \ {u}
        /\ on # (u \in likes)
    BY <1>5 DEF SetLike, ContentTypeOK
  <2>2. IsFiniteSet(likes) /\ moment.likes = Cardinality(likes)
    BY DEF Counted, CountsMatch
  <2>3. IsFiniteSet(likes') /\ moment'.likes = Cardinality(likes')
    BY <2>1, <2>2, OneMore
  <2> QED
    BY <2>1, <2>3 DEF Counted, CountsMatch, LiveComments
<1>6. ASSUME NEW u \in Users, NEW on \in BOOLEAN, SetMark(u, on)
      PROVE  Counted'
  <2>1. /\ comments' = comments /\ likes' = likes /\ moment'.comments = moment.comments
        /\ moment'.likes = moment.likes
        /\ moment'.marks = IF on THEN moment.marks + 1 ELSE moment.marks - 1
        /\ marks' = IF on THEN marks \cup {u} ELSE marks \ {u}
        /\ on # (u \in marks)
    BY <1>6 DEF SetMark, ContentTypeOK
  <2>2. IsFiniteSet(marks) /\ moment.marks = Cardinality(marks)
    BY DEF Counted, CountsMatch
  <2>3. IsFiniteSet(marks') /\ moment'.marks = Cardinality(marks')
    BY <2>1, <2>2, OneMore
  <2> QED
    BY <2>1, <2>3 DEF Counted, CountsMatch, LiveComments
<1>7. ASSUME NEW t \in Contents, NEW s \in {"live", "hidden"}, SetState(t, s),
             StateOf(t) \in {"live", "hidden"} \ {s}
      PROVE  Counted'
  <2>1. CASE t = TheMoment
    BY <1>1, <1>7, <2>1 DEF SetState, ContentTypeOK
  <2>2. CASE t \in Comments
    <3>1. /\ comments' = [comments EXCEPT ![t].state = s] /\ likes' = likes /\ marks' = marks
          /\ moment' = [moment EXCEPT !.comments = IF s = "live" THEN @ + 1 ELSE @ - 1]
          /\ comments[t].state \in {"live", "hidden"} \ {s}
      BY <1>0, <1>7, <2>2 DEF SetState, StateOf
    <3>2. /\ comments'[t].state = s /\ \A z \in Comments \ {t} : comments'[z] = comments[z]
      BY <2>2, <3>1 DEF ContentTypeOK
    <3>3. /\ moment'.likes = moment.likes /\ moment'.marks = moment.marks
          /\ moment'.comments = moment.comments + (IF s = "live" THEN 1 ELSE -1)
      BY <3>1 DEF ContentTypeOK
    <3>4. CASE s = "live"
      BY <2>2, <3>1, <3>2, <3>3, <3>4, CommentCounted
    <3>5. CASE s = "hidden"
      BY <2>2, <3>1, <3>2, <3>3, <3>5, CommentCounted
    <3> QED
      BY <3>4, <3>5
  <2> QED
    BY <2>1, <2>2 DEF Contents
<1>8. ASSUME NEW t \in Contents, NEW d \in Nat, Hide(t, d)
      PROVE  Counted'
  BY <1>7, <1>8 DEF Hide
<1>9. ASSUME NEW t \in Contents, Unhide(t)
      PROVE  Counted'
  BY <1>7, <1>9 DEF Unhide, Hidden
<1>10. CASE UNCHANGED <<content, cause>>
  BY <1>1, <1>10 DEF content
<1> QED
  BY <1>2, <1>3, <1>4, <1>5, <1>6, <1>8, <1>9, <1>10 DEF ContentEffect

-----------------------------------------------------------------------------
(* The cases, the reports and the decisions *)

\* What a step does to the decisions; only an appeal that is granted ends one.
DecisionEffect ==
    \/ decisions' = decisions
    \/ \E row \in Decision :
          /\ decisions' = Append(decisions, row)
          /\ row.active /\ (row.action = "HIDE" => row.target \in Contents)
    \/ \E d \in DOMAIN decisions, row \in Decision :
          /\ decisions' = [decisions EXCEPT ![d] = row]
          /\ row.target = decisions[d].target /\ row.action = decisions[d].action
          /\ row.active => decisions[d].active
          /\ ~row.active /\ decisions[d].active =>
                \E h \in Handlers : AppealWrite(h) /\ calls[h].id = d /\ calls[h].arg # "UPHELD"

\* Every step does one of these.
LEMMA DecisionSteps ==
    ASSUME RecordTypeOK, CallTypeOK, [Next]_vars
    PROVE  DecisionEffect
<1>1. CASE UseMoment
  BY <1>1 DEF UseMoment, records, DecisionEffect
<1>2. ASSUME NEW t \in Contents, HideContent(t) \/ RestoreContent(t)
      PROVE  DecisionEffect
  BY <1>2 DEF HideContent, RestoreContent, records, DecisionEffect
<1>3. ASSUME \/ \E u \in Users : Login(u) \/ Logout(u) \/ \E type \in {"SUSPEND", "BAN"} : SanctionUser(u, type)
             \/ \E s \in DOMAIN sanctions : Expire(s)
      PROVE  DecisionEffect
  BY <1>3 DEF Login, Logout, SanctionUser, Expire, records, DecisionEffect
<1>4. ASSUME NEW d \in DOMAIN decisions, CreateAppeal(d)
      PROVE  DecisionEffect
  <2> DEFINE row == [decisions[d] EXCEPT !.appeal = "PENDING"]
  <2>1. decisions[d] \in Decision
    BY RowSays
  <2>2. /\ row \in Decision /\ row.target = decisions[d].target /\ row.action = decisions[d].action
        /\ row.active = decisions[d].active
    BY <2>1 DEF Decision
  <2>3. decisions' = [decisions EXCEPT ![d] = row]
    BY <1>4 DEF CreateAppeal
  <2> HIDE DEF row
  <2> QED
    BY <2>2, <2>3, Zenon DEF DecisionEffect
<1>5. ASSUME NEW h \in Handlers, CaseWrite(h)
      PROVE  DecisionEffect
  <2> DEFINE k == calls[h].id
             row == [target |-> cases[k].target, action |-> calls[h].arg, active |-> TRUE, appeal |-> "none"]
  <2>1. calls[h].arg \in {"DISMISS"} \cup Action /\ cases[k].target \in Target
    <3>1. calls[h].op = "case"
      BY <1>5 DEF CaseWrite, Ends
    <3> QED
      BY <3>1, CallSays, RowSays DEF Case
  <2>2. CASE calls[h].arg = "DISMISS"
    BY <1>5, <2>2 DEF CaseWrite, DecisionEffect
  <2>3. CASE calls[h].arg # "DISMISS"
    <3>1. row \in Decision /\ decisions' = Append(decisions, row)
      BY <1>5, <2>1, <2>3 DEF CaseWrite, Decision, Action
    <3>2. calls[h].arg = "HIDE" => cases[k].target \in Contents
      BY <1>5 DEF CaseWrite, Measure, Hide
    <3>3. row.active /\ (row.action = "HIDE" => row.target \in Contents)
      BY <3>2
    <3> HIDE DEF row
    <3> QED
      BY <3>1, <3>3, Zenon DEF DecisionEffect
  <2> QED
    BY <2>2, <2>3
<1>6. ASSUME NEW h \in Handlers, AppealWrite(h)
      PROVE  DecisionEffect
  <2> DEFINE d == calls[h].id
             outcome == calls[h].arg
             row == [decisions[d] EXCEPT !.appeal = outcome, !.active = @ /\ outcome = "UPHELD"]
  <2>1. d \in DOMAIN decisions /\ outcome \in {"UPHELD", "OVERTURNED"}
    <3>1. calls[h].op = "appeal"
      BY <1>6 DEF AppealWrite, Ends
    <3> QED
      BY <3>1, CallSays
  <2>2. decisions[d] \in Decision
    BY <2>1, RowSays
  <2>3. /\ row \in Decision /\ row.target = decisions[d].target /\ row.action = decisions[d].action
        /\ row.active => decisions[d].active
        /\ ~row.active /\ decisions[d].active => outcome # "UPHELD"
    BY <2>1, <2>2 DEF Decision
  <2>4. decisions' = [decisions EXCEPT ![d] = row]
    BY <1>6, <2>1, <2>2 DEF AppealWrite, Decision
  <2> HIDE DEF row, d, outcome
  <2>5. calls[h].id = d /\ calls[h].arg = outcome
    BY DEF d, outcome
  <2> QED
    BY <1>6, <2>1, <2>3, <2>4, <2>5, Zenon DEF DecisionEffect
<1>7. ASSUME NEW h \in Handlers,
             \/ GiveUp(h) \/ RevokeWrite(h) \/ ReportWrite(h) \/ ReportAgain(h) \/ HandleWrite(h)
             \/ \E u \in Users : RevokeRead(h, u) \/ \E t \in Contents \cup Users : ReportRead(h, u, t)
             \/ \E action \in {"DISMISS", "NONE", "HIDE", "SUSPEND", "BAN"} :
                  \/ \E r \in DOMAIN reports : HandleRead(h, r, action)
                  \/ \E k \in DOMAIN cases : CaseRead(h, k, action)
             \/ \E d \in DOMAIN decisions, outcome \in {"UPHELD", "OVERTURNED"} : AppealRead(h, d, outcome)
      PROVE  DecisionEffect
  <2>1. decisions' = decisions
    BY <1>7 DEF GiveUp, RevokeWrite, ReportWrite, ReportAgain, HandleWrite, RevokeRead, ReportRead, HandleRead,
                CaseRead, AppealRead, Begin, records
  <2> QED
    BY <2>1 DEF DecisionEffect
<1>8. CASE UNCHANGED vars
  BY <1>8 DEF vars, records, DecisionEffect
<1> QED
  BY <1>1, <1>2, <1>3, <1>4, <1>5, <1>6, <1>7, <1>8 DEF Next

\* A decision is never lost, never about something else and never in force again.
DecisionsKept ==
    /\ DOMAIN decisions \subseteq DOMAIN decisions'
    /\ \A d \in DOMAIN decisions :
          /\ decisions'[d].target = decisions[d].target /\ decisions'[d].action = decisions[d].action
          /\ decisions'[d].active => decisions[d].active
          /\ ~decisions'[d].active /\ decisions[d].active =>
                \E h \in Handlers : AppealWrite(h) /\ calls[h].id = d /\ calls[h].arg # "UPHELD"
    /\ \A d \in DOMAIN decisions' \ DOMAIN decisions : decisions'[d].active

\* The step of the decisions.
LEMMA DecisionsStep ==
    ASSUME RecordTypeOK, DecisionEffect
    PROVE  /\ DecisionsKept /\ decisions' \in Seq(Decision)
           /\ \A d \in DOMAIN decisions' : decisions'[d].action = "HIDE" => decisions'[d].target \in Contents
<1> USE RowSays
<1>1. CASE decisions' = decisions
  BY <1>1 DEF DecisionsKept, RecordTypeOK
<1>2. ASSUME NEW row \in Decision, decisions' = Append(decisions, row),
             row.active /\ (row.action = "HIDE" => row.target \in Contents)
      PROVE  /\ DecisionsKept /\ decisions' \in Seq(Decision)
             /\ \A d \in DOMAIN decisions' : decisions'[d].action = "HIDE" => decisions'[d].target \in Contents
  <2>1. /\ decisions' \in Seq(Decision) /\ DOMAIN decisions' = DOMAIN decisions \cup {Len(decisions) + 1}
        /\ decisions'[Len(decisions) + 1] = row /\ \A i \in DOMAIN decisions : decisions'[i] = decisions[i]
    BY <1>2, Appended DEF RecordTypeOK
  <2>2. \A d \in DOMAIN decisions' : d \in DOMAIN decisions \/ decisions'[d] = row
    BY <2>1
  <2> QED
    BY <1>2, <2>1, <2>2 DEF DecisionsKept, RecordTypeOK
<1>3. ASSUME NEW d \in DOMAIN decisions, NEW row \in Decision,
             decisions' = [decisions EXCEPT ![d] = row],
             row.target = decisions[d].target, row.action = decisions[d].action,
             row.active => decisions[d].active,
             ~row.active /\ decisions[d].active =>
                \E h \in Handlers : AppealWrite(h) /\ calls[h].id = d /\ calls[h].arg # "UPHELD"
      PROVE  /\ DecisionsKept /\ decisions' \in Seq(Decision)
             /\ \A e \in DOMAIN decisions' : decisions'[e].action = "HIDE" => decisions'[e].target \in Contents
  <2>1. decisions \in Seq(Decision) /\ DOMAIN decisions = 1 .. Len(decisions)
    BY DEF RecordTypeOK
  <2>2. /\ decisions' \in Seq(Decision) /\ Len(decisions') = Len(decisions)
        /\ \A i \in DOMAIN decisions : decisions'[i] = IF i = d THEN row ELSE decisions[i]
    BY <1>3, <2>1, ExceptSeq
  <2>3. DOMAIN decisions' = DOMAIN decisions
    BY <2>1, <2>2, LenProperties
  <2>4. ASSUME NEW e \in DOMAIN decisions, ~decisions'[e].active, decisions[e].active
        PROVE  \E h \in Handlers : AppealWrite(h) /\ calls[h].id = e /\ calls[h].arg # "UPHELD"
    <3>1. e = d /\ ~row.active
      BY <2>2, <2>4
    <3> QED
      BY <1>3, <2>4, <3>1
  <2>5. \A e \in DOMAIN decisions :
          /\ decisions'[e].target = decisions[e].target /\ decisions'[e].action = decisions[e].action
          /\ decisions'[e].active => decisions[e].active
    BY <1>3, <2>2
  <2>6. DecisionsKept
    BY <2>3, <2>4, <2>5, Zenon DEF DecisionsKept
  <2> QED
    BY <2>2, <2>3, <2>5, <2>6 DEF RecordTypeOK
<1> QED
  BY <1>1, <1>2, <1>3, Zenon DEF DecisionEffect

\* A case and a report are never lost, and a report that is handled is not touched again.
ReportsKept ==
    /\ DOMAIN cases \subseteq DOMAIN cases' /\ DOMAIN reports \subseteq DOMAIN reports'
    /\ \A r \in DOMAIN reports : ~Pending(r) => reports'[r] = reports[r]

\* The step of the cases and of the reports.
LEMMA ReportsStep ==
    ASSUME RecordTypeOK, CallTypeOK, [Next]_vars
    PROVE  ReportsKept /\ cases' \in Seq(Case) /\ reports' \in Seq(Report)
<1>0. cases \in Seq(Case) /\ reports \in Seq(Report)
  BY DEF RecordTypeOK
<1>1. CASE UNCHANGED <<cases, reports>>
  BY <1>0, <1>1 DEF ReportsKept
<1>2. CASE UseMoment
  BY <1>1, <1>2 DEF UseMoment, records
<1>3. ASSUME \/ \E t \in Contents : HideContent(t) \/ RestoreContent(t)
             \/ \E u \in Users : Login(u) \/ Logout(u) \/ \E type \in {"SUSPEND", "BAN"} : SanctionUser(u, type)
             \/ \E s \in DOMAIN sanctions : Expire(s)
             \/ \E d \in DOMAIN decisions : CreateAppeal(d)
      PROVE  UNCHANGED <<cases, reports>>
  BY <1>3 DEF HideContent, RestoreContent, Login, Logout, SanctionUser, Expire, CreateAppeal, records
<1>4. ASSUME NEW h \in Handlers,
             \/ GiveUp(h) \/ RevokeWrite(h) \/ ReportAgain(h) \/ AppealWrite(h)
             \/ \E u \in Users : RevokeRead(h, u) \/ \E t \in Contents \cup Users : ReportRead(h, u, t)
             \/ \E action \in {"DISMISS", "NONE", "HIDE", "SUSPEND", "BAN"} :
                  \/ \E r \in DOMAIN reports : HandleRead(h, r, action)
                  \/ \E k \in DOMAIN cases : CaseRead(h, k, action)
             \/ \E d \in DOMAIN decisions, outcome \in {"UPHELD", "OVERTURNED"} : AppealRead(h, d, outcome)
      PROVE  UNCHANGED <<cases, reports>>
  BY <1>4 DEF GiveUp, RevokeWrite, ReportAgain, AppealWrite, RevokeRead, ReportRead, HandleRead, CaseRead, AppealRead,
              Begin, records
<1>5. ASSUME NEW h \in Handlers, ReportWrite(h)
      PROVE  ReportsKept /\ cases' \in Seq(Case) /\ reports' \in Seq(Report)
  <2> DEFINE t == calls[h].id
             k == calls[h].seen
             case == [target |-> t, status |-> "OPEN"]
             report == [by |-> calls[h].arg, target |-> t, status |-> "PENDING",
                        case |-> IF k = 0 THEN Len(cases) + 1 ELSE k]
  <2>1. t \in Target /\ calls[h].arg \in Users /\ k \in Nat
    <3>1. calls[h].op = "report"
      BY <1>5 DEF ReportWrite, Ends
    <3> QED
      BY <3>1, CallSays
  <2>2. Len(cases) \in Nat
    BY <1>0, LenProperties
  <2>3. case \in Case /\ report \in Report
    BY <2>1, <2>2 DEF Case, Report
  <2>4. (cases' = cases \/ cases' = Append(cases, case)) /\ reports' = Append(reports, report)
    BY <1>5 DEF ReportWrite
  <2> HIDE DEF case, report
  <2>5. cases' \in Seq(Case) /\ DOMAIN cases \subseteq DOMAIN cases'
    <3>1. Append(cases, case) \in Seq(Case) /\ DOMAIN cases \subseteq DOMAIN Append(cases, case)
      BY <1>0, <2>3, Appended
    <3> QED
      BY <1>0, <2>4, <3>1
  <2>6. /\ reports' \in Seq(Report) /\ DOMAIN reports \subseteq DOMAIN reports'
        /\ \A r \in DOMAIN reports : reports'[r] = reports[r]
    BY <1>0, <2>3, <2>4, Appended
  <2> QED
    BY <2>5, <2>6 DEF ReportsKept
<1>6. ASSUME NEW h \in Handlers, HandleWrite(h)
      PROVE  ReportsKept /\ cases' \in Seq(Case) /\ reports' \in Seq(Report)
  <2> DEFINE r == calls[h].id
             row == [reports[r] EXCEPT !.status = Handled(calls[h].arg)]
  <2>1. r \in DOMAIN reports
    <3>1. calls[h].op = "handle"
      BY <1>6 DEF HandleWrite, Ends
    <3> QED
      BY <3>1, CallSays
  <2>2. row \in Report
    BY <2>1, RowSays DEF Report, Handled, Outcome
  <2>3. cases' = cases /\ reports' = [reports EXCEPT ![r] = row] /\ Pending(r)
    BY <1>6 DEF HandleWrite
  <2> HIDE DEF row, r
  <2>4. reports' \in [DOMAIN reports -> Report] /\ \A z \in DOMAIN reports : z # r => reports'[z] = reports[z]
    BY <2>1, <2>2, <2>3, RowSays
  <2> QED
    BY <1>0, <2>3, <2>4, Remade DEF ReportsKept
<1>7. ASSUME NEW h \in Handlers, CaseWrite(h)
      PROVE  ReportsKept /\ cases' \in Seq(Case) /\ reports' \in Seq(Report)
  <2> DEFINE k == calls[h].id
             case == [cases[k] EXCEPT !.status = Handled(calls[h].arg)]
             row(r) == [reports[r] EXCEPT !.status = Handled(calls[h].arg)]
  <2>1. k \in DOMAIN cases
    <3>1. calls[h].op = "case"
      BY <1>7 DEF CaseWrite, Ends
    <3> QED
      BY <3>1, CallSays
  <2>2. Handled(calls[h].arg) \in Outcome
    BY DEF Handled, Outcome
  <2>3. case \in Case
    BY <2>1, <2>2, RowSays DEF Case
  <2>4. \A r \in DOMAIN reports : row(r) \in Report
    BY <2>2, RowSays DEF Report
  <2>5. /\ cases' = [cases EXCEPT ![k] = case]
        /\ reports' = [r \in DOMAIN reports |-> IF reports[r].case = k /\ Pending(r) THEN row(r) ELSE reports[r]]
    BY <1>7 DEF CaseWrite
  <2> HIDE DEF case, row, k
  <2>6. reports' \in [DOMAIN reports -> Report] /\ \A z \in DOMAIN reports : ~Pending(z) => reports'[z] = reports[z]
    BY <2>4, <2>5, RowSays
  <2>7. cases' \in [DOMAIN cases -> Case]
    BY <2>1, <2>3, <2>5, RowSays
  <2>8. cases' \in Seq(Case) /\ DOMAIN cases' = DOMAIN cases
    BY <1>0, <2>7, Remade
  <2>9. reports' \in Seq(Report) /\ DOMAIN reports' = DOMAIN reports
    BY <1>0, <2>6, Remade
  <2> QED
    BY <2>6, <2>8, <2>9 DEF ReportsKept
<1>8. CASE UNCHANGED vars
  BY <1>1, <1>8 DEF vars, records
<1> QED
  BY <1>1, <1>2, <1>3, <1>4, <1>5, <1>6, <1>7, <1>8 DEF Next

\* The records keep their types.
LEMMA RecordTypes == RecordTypeOK /\ CallTypeOK /\ [Next]_vars => RecordTypeOK'
BY DecisionSteps, DecisionsStep, ReportsStep DEF RecordTypeOK

-----------------------------------------------------------------------------
(* The sanctions and the sessions *)

\* What a step does to the accounts; a sanction is by a decision that is written with it, or by none.
AccountEffect ==
    \/ UNCHANGED accounts
    \/ \E u \in Users \cup {None}, type \in {"SUSPEND", "BAN"}, d \in Nat :
          /\ Sanction(u, type, d) /\ Decided(d)
          /\ d # 0 => decisions'[d].action # "HIDE"
    \/ \E s \in DOMAIN sanctions : Lift(s) /\ sessions' = sessions
    \/ \E s \in DOMAIN sanctions : sanctions' = [sanctions EXCEPT ![s].ended = TRUE] /\ sessions' = sessions
    \/ \E u \in Users : ~Sanctioned(u) /\ sessions' = sessions \cup {u} /\ sanctions' = sanctions
    \/ \E u \in Users : sessions' = sessions \ {u} /\ sanctions' = sanctions

\* The owner of what is reported is an account or none.
LEMMA OwnerType == ContentTypeOK => \A t \in Target : Owner(t) \in Users \cup {None}
BY MomentsAssumption DEF Owner, Target, Contents, ContentTypeOK

\* Every step does one of these.
LEMMA AccountSteps ==
    ASSUME ContentTypeOK, RecordTypeOK, CallTypeOK, [Next]_vars
    PROVE  AccountEffect
<1> DEFINE Same == UNCHANGED accounts
<1>1. CASE UseMoment
  BY <1>1 DEF UseMoment, AccountEffect
<1>2. ASSUME \/ \E t \in Contents : HideContent(t) \/ RestoreContent(t)
             \/ \E d \in DOMAIN decisions : CreateAppeal(d)
      PROVE  AccountEffect
  BY <1>2 DEF HideContent, RestoreContent, CreateAppeal, AccountEffect
<1>3. ASSUME NEW u \in Users, Login(u) \/ Logout(u)
      PROVE  AccountEffect
  BY <1>3 DEF Login, Logout, AccountEffect
<1>4. ASSUME NEW u \in Users, NEW type \in {"SUSPEND", "BAN"}, SanctionUser(u, type)
      PROVE  AccountEffect
  BY <1>4 DEF SanctionUser, Decided, AccountEffect
<1>5. ASSUME NEW s \in DOMAIN sanctions, Expire(s)
      PROVE  AccountEffect
  BY <1>5 DEF Expire, AccountEffect
<1>6. ASSUME NEW h \in Handlers, RevokeWrite(h)
      PROVE  AccountEffect
  <2>1. calls[h].op = "revoke"
    BY <1>6 DEF RevokeWrite, Ends
  <2>2. calls[h].seen \in DOMAIN sanctions
    BY <2>1, CallSays
  <2>3. Lift(calls[h].seen) /\ sessions' = sessions
    BY <1>6 DEF RevokeWrite
  <2> QED
    BY <2>2, <2>3, Zenon DEF AccountEffect
<1>7. ASSUME NEW h \in Handlers, HandleWrite(h)
      PROVE  AccountEffect
  <2> DEFINE r == calls[h].id
             u == Owner(reports[r].target)
  <2>1. r \in DOMAIN reports /\ calls[h].arg \in {"DISMISS", "NONE"} \cup Action
    <3>1. calls[h].op = "handle"
      BY <1>7 DEF HandleWrite, Ends
    <3> QED
      BY <3>1, CallSays
  <2>2. u \in Users \cup {None}
    BY <2>1, RowSays, OwnerType DEF Report
  <2>3. \/ Same
        \/ calls[h].arg \in {"SUSPEND", "BAN"} /\ Sanction(u, calls[h].arg, 0)
    BY <1>7 DEF HandleWrite, Measure
  <2>4. Decided(0)
    BY DEF Decided
  <2> HIDE DEF u
  <2> QED
    BY <2>2, <2>3, <2>4 DEF AccountEffect
<1>8. ASSUME NEW h \in Handlers, CaseWrite(h)
      PROVE  AccountEffect
  <2> DEFINE k == calls[h].id
             u == Owner(cases[k].target)
             row == [target |-> cases[k].target, action |-> calls[h].arg, active |-> TRUE, appeal |-> "none"]
  <2>1. k \in DOMAIN cases /\ cases[k].target \in Target
    <3>1. calls[h].op = "case"
      BY <1>8 DEF CaseWrite, Ends
    <3> QED
      BY <3>1, CallSays, RowSays DEF Case
  <2>2. u \in Users \cup {None}
    BY <2>1, OwnerType
  <2>3. \/ Same
        \/ calls[h].arg \in {"SUSPEND", "BAN"} /\ Sanction(u, calls[h].arg, Len(decisions'))
    BY <1>8 DEF CaseWrite, Measure
  <2>4. ASSUME calls[h].arg \in {"SUSPEND", "BAN"}
        PROVE  /\ Len(decisions') \in Nat /\ Decided(Len(decisions'))
               /\ decisions'[Len(decisions')].action # "HIDE"
    <3>1. row \in Decision /\ decisions' = Append(decisions, row) /\ row.action # "HIDE"
      BY <1>8, <2>1, <2>4 DEF CaseWrite, Decision, Action
    <3> HIDE DEF row
    <3> QED
      BY <3>1, Appended DEF Decided, RecordTypeOK
  <2> HIDE DEF u
  <2> QED
    BY <2>2, <2>3, <2>4, Zenon DEF AccountEffect
<1>9. ASSUME NEW h \in Handlers, AppealWrite(h)
      PROVE  AccountEffect
  <2>1. calls[h].op = "appeal"
    BY <1>9 DEF AppealWrite, Ends
  <2>2. calls[h].seen \in {0} \cup DOMAIN sanctions
    BY <2>1, CallSays
  <2>3. \/ Same
        \/ sanctions' = sanctions /\ sessions' = sessions
        \/ calls[h].seen # 0 /\ Lift(calls[h].seen) /\ sessions' = sessions
    BY <1>9 DEF AppealWrite, Overturn
  <2> QED
    BY <2>2, <2>3 DEF AccountEffect, accounts
<1>10. ASSUME NEW h \in Handlers,
             \/ GiveUp(h) \/ ReportWrite(h) \/ ReportAgain(h)
             \/ \E u \in Users : RevokeRead(h, u) \/ \E t \in Contents \cup Users : ReportRead(h, u, t)
             \/ \E action \in {"DISMISS", "NONE", "HIDE", "SUSPEND", "BAN"} :
                  \/ \E r \in DOMAIN reports : HandleRead(h, r, action)
                  \/ \E k \in DOMAIN cases : CaseRead(h, k, action)
             \/ \E d \in DOMAIN decisions, outcome \in {"UPHELD", "OVERTURNED"} : AppealRead(h, d, outcome)
      PROVE  AccountEffect
  <2>1. Same
    BY <1>10 DEF GiveUp, ReportWrite, ReportAgain, RevokeRead, ReportRead, HandleRead, CaseRead, AppealRead, Begin
  <2> QED
    BY <2>1 DEF AccountEffect
<1>11. CASE UNCHANGED vars
  BY <1>11 DEF vars, AccountEffect
<1> QED
  BY <1>1, <1>2, <1>3, <1>4, <1>5, <1>6, <1>7, <1>8, <1>9, <1>10, <1>11 DEF Next

\* A sanction is never lost, never somebody else's and never in force again; one more is by a
\* decision written with it.
SanctionsKept ==
    /\ DOMAIN sanctions \subseteq DOMAIN sanctions'
    /\ \A s \in DOMAIN sanctions :
          /\ sanctions'[s].user = sanctions[s].user /\ sanctions'[s].decision = sanctions[s].decision
          /\ sanctions'[s].open => sanctions[s].open
          /\ sanctions[s].ended => sanctions'[s].ended
    /\ \A s, z \in DOMAIN sanctions' \ DOMAIN sanctions : s = z
    /\ \A s \in DOMAIN sanctions' \ DOMAIN sanctions : sanctions'[s].decision # 0 =>
          /\ Decided(sanctions'[s].decision)
          /\ decisions'[sanctions'[s].decision].action # "HIDE"

\* Nobody under an effective sanction: what it takes, row by row.
LEMMA OutRowByRow ==
    SanctionedStaysOut <=>
        \A u \in Users, s \in DOMAIN sanctions :
            sanctions[s].user = u /\ sanctions[s].open /\ ~sanctions[s].ended => u \notin sessions
BY DEF SanctionedStaysOut, Sanctioned, Open, Effective

\* The same after the step.
LEMMA OutRowByRowNext ==
    SanctionedStaysOut' <=>
        \A u \in Users, s \in DOMAIN sanctions' :
            sanctions'[s].user = u /\ sanctions'[s].open /\ ~sanctions'[s].ended => u \notin sessions'
BY DEF SanctionedStaysOut, Sanctioned, Open, Effective

\* An update of one sanction that opens nothing and forgets no end.
LEMMA OneUpdate ==
    ASSUME AccountTypeOK, NEW s \in DOMAIN sanctions, NEW row \in Account,
           sanctions' = [sanctions EXCEPT ![s] = row],
           row.user = sanctions[s].user, row.decision = sanctions[s].decision,
           row.open => sanctions[s].open, sanctions[s].ended => row.ended
    PROVE  SanctionsKept /\ sanctions' \in Seq(Account) /\ DOMAIN sanctions' = DOMAIN sanctions
<1>1. sanctions \in Seq(Account) /\ DOMAIN sanctions = 1 .. Len(sanctions)
  BY LenProperties DEF AccountTypeOK
<1>2. \A z \in DOMAIN sanctions : sanctions[z] \in Account
  BY <1>1, ElementOfSeq
<1>3. /\ sanctions' \in [DOMAIN sanctions -> Account]
      /\ \A z \in DOMAIN sanctions : sanctions'[z] = IF z = s THEN row ELSE sanctions[z]
  BY <1>2
<1>4. sanctions' \in Seq(Account) /\ DOMAIN sanctions' = DOMAIN sanctions
  BY <1>1, <1>3, Remade
<1>5. \A z \in DOMAIN sanctions :
         /\ sanctions'[z].user = sanctions[z].user /\ sanctions'[z].decision = sanctions[z].decision
         /\ sanctions'[z].open => sanctions[z].open
         /\ sanctions[z].ended => sanctions'[z].ended
  BY <1>3
<1> QED
  BY <1>4, <1>5 DEF SanctionsKept

\* A new sanction: the open ones of the account are archived, and one row is added.
LEMMA OneMoreSanction ==
    ASSUME AccountTypeOK, NEW u \in Users \cup {None}, NEW type \in {"SUSPEND", "BAN"}, NEW d \in Nat,
           Sanction(u, type, d), Decided(d), d # 0 => decisions'[d].action # "HIDE"
    PROVE  /\ SanctionsKept /\ sanctions' \in Seq(Account)
           /\ \A s \in DOMAIN sanctions' \ DOMAIN sanctions : sanctions'[s].user = u
<1> DEFINE old == [s \in DOMAIN sanctions |-> [sanctions[s] EXCEPT !.open = @ /\ s \notin Open(u)]]
           row == [user |-> u, type |-> type, open |-> TRUE, ended |-> FALSE, decision |-> d]
<1>1. sanctions \in Seq(Account) /\ DOMAIN sanctions = 1 .. Len(sanctions)
  BY LenProperties DEF AccountTypeOK
<1>2. \A z \in DOMAIN sanctions : sanctions[z] \in Account
  BY <1>1, ElementOfSeq
<1>3. old \in [DOMAIN sanctions -> Account]
  BY <1>2 DEF Account
<1>4. \A z \in DOMAIN sanctions :
         /\ old[z].user = sanctions[z].user /\ old[z].decision = sanctions[z].decision
         /\ old[z].open => sanctions[z].open
         /\ old[z].ended = sanctions[z].ended
  BY <1>2 DEF Account
<1>5. row \in Account /\ row.user = u /\ row.decision = d
  BY DEF Account
<1>6. sanctions' = Append(old, row)
  BY DEF Sanction
<1> HIDE DEF old, row
<1>7. old \in Seq(Account) /\ Len(old) = Len(sanctions) /\ DOMAIN old = DOMAIN sanctions
  BY <1>1, <1>3, Remade
<1>8. /\ sanctions' \in Seq(Account) /\ DOMAIN sanctions' = DOMAIN sanctions \cup {Len(old) + 1}
      /\ sanctions'[Len(old) + 1] = row /\ \A z \in DOMAIN sanctions : sanctions'[z] = old[z]
  BY <1>5, <1>6, <1>7, Appended
<1>9. \A z \in DOMAIN sanctions' \ DOMAIN sanctions : z = Len(old) + 1 /\ sanctions'[z] = row
  BY <1>8
<1> QED
  BY <1>4, <1>5, <1>8, <1>9 DEF SanctionsKept

\* The step of the accounts.
LEMMA AccountsStep ==
    ASSUME AccountTypeOK, SanctionedStaysOut, AccountEffect
    PROVE  SanctionsKept /\ AccountTypeOK' /\ SanctionedStaysOut'
<1>0. /\ \A u \in Users, s \in DOMAIN sanctions :
            sanctions[s].user = u /\ sanctions[s].open /\ ~sanctions[s].ended => u \notin sessions
      /\ sanctions \in Seq(Account) /\ sessions \subseteq Users
  BY OutRowByRow DEF AccountTypeOK
<1>r. \A s \in DOMAIN sanctions : sanctions[s] \in Account
  BY <1>0, LenProperties, ElementOfSeq
<1>k. ASSUME SanctionsKept, sanctions' \in Seq(Account), DOMAIN sanctions' = DOMAIN sanctions,
             sessions' \subseteq sessions
      PROVE  AccountTypeOK' /\ SanctionedStaysOut'
  <2>1. \A u \in Users, s \in DOMAIN sanctions' :
           sanctions'[s].user = u /\ sanctions'[s].open /\ ~sanctions'[s].ended => u \notin sessions'
    BY <1>0, <1>k DEF SanctionsKept
  <2> QED
    BY <1>0, <1>k, <2>1, OutRowByRowNext DEF AccountTypeOK
<1>1. ASSUME sanctions' = sanctions, sessions' \subseteq sessions
      PROVE  SanctionsKept /\ AccountTypeOK' /\ SanctionedStaysOut'
  <2>1. SanctionsKept
    BY <1>1 DEF SanctionsKept
  <2> QED
    BY <1>0, <1>1, <1>k, <2>1
<1>2. ASSUME NEW u \in Users \cup {None}, NEW type \in {"SUSPEND", "BAN"}, NEW d \in Nat,
             Sanction(u, type, d), Decided(d), d # 0 => decisions'[d].action # "HIDE"
      PROVE  SanctionsKept /\ AccountTypeOK' /\ SanctionedStaysOut'
  <2>1. /\ SanctionsKept /\ sanctions' \in Seq(Account)
        /\ \A s \in DOMAIN sanctions' \ DOMAIN sanctions : sanctions'[s].user = u
    BY <1>2, OneMoreSanction
  <2>2. sessions' = sessions \ {u}
    BY <1>2 DEF Sanction, SignedOut
  <2>3. ASSUME NEW v \in Users, NEW s \in DOMAIN sanctions',
               sanctions'[s].user = v, sanctions'[s].open, ~sanctions'[s].ended
        PROVE  v \notin sessions'
    <3>1. CASE s \in DOMAIN sanctions
      BY <1>0, <2>1, <2>2, <2>3, <3>1 DEF SanctionsKept
    <3>2. CASE s \notin DOMAIN sanctions
      BY <2>1, <2>2, <2>3, <3>2
    <3> QED
      BY <3>1, <3>2
  <2> QED
    BY <1>0, <2>1, <2>2, <2>3, OutRowByRowNext DEF AccountTypeOK
<1>3. ASSUME NEW s \in DOMAIN sanctions, Lift(s), sessions' = sessions
      PROVE  SanctionsKept /\ AccountTypeOK' /\ SanctionedStaysOut'
  <2> DEFINE row == [sanctions[s] EXCEPT !.open = FALSE]
  <2>1. /\ row \in Account /\ row.user = sanctions[s].user /\ row.decision = sanctions[s].decision
        /\ ~row.open /\ row.ended = sanctions[s].ended
    BY <1>r DEF Account
  <2>2. sanctions' = [sanctions EXCEPT ![s] = row]
    BY <1>3 DEF Lift
  <2> HIDE DEF row
  <2> QED
    BY <1>3, <1>k, <2>1, <2>2, OneUpdate
<1>4. ASSUME NEW s \in DOMAIN sanctions, sanctions' = [sanctions EXCEPT ![s].ended = TRUE], sessions' = sessions
      PROVE  SanctionsKept /\ AccountTypeOK' /\ SanctionedStaysOut'
  <2> DEFINE row == [sanctions[s] EXCEPT !.ended = TRUE]
  <2>1. /\ row \in Account /\ row.user = sanctions[s].user /\ row.decision = sanctions[s].decision
        /\ row.open = sanctions[s].open /\ row.ended
    BY <1>r DEF Account
  <2>2. sanctions' = [sanctions EXCEPT ![s] = row]
    BY <1>4
  <2> HIDE DEF row
  <2> QED
    BY <1>4, <1>k, <2>1, <2>2, OneUpdate
<1>5. ASSUME NEW u \in Users, ~Sanctioned(u), sessions' = sessions \cup {u}, sanctions' = sanctions
      PROVE  SanctionsKept /\ AccountTypeOK' /\ SanctionedStaysOut'
  <2>1. SanctionsKept
    BY <1>5 DEF SanctionsKept
  <2>2. \A s \in DOMAIN sanctions : sanctions[s].user = u /\ sanctions[s].open => sanctions[s].ended
    BY <1>5 DEF Sanctioned, Open, Effective
  <2>3. \A v \in Users, s \in DOMAIN sanctions' :
           sanctions'[s].user = v /\ sanctions'[s].open /\ ~sanctions'[s].ended => v \notin sessions'
    BY <1>0, <1>5, <2>2
  <2> QED
    BY <1>0, <1>5, <2>1, <2>3, OutRowByRowNext DEF AccountTypeOK
<1> QED
  BY <1>1, <1>2, <1>3, <1>4, <1>5 DEF AccountEffect, accounts

-----------------------------------------------------------------------------
(* What a transaction remembers *)

\* A step ends a transaction, or begins one (or has it read once more) and writes nothing.
CallEffect ==
    \/ calls' = calls
    \/ \E g \in Handlers : calls' = [calls EXCEPT ![g] = Idle]
    \/ /\ UNCHANGED <<records, accounts>>
       /\ \E g \in Handlers, c \in Call :
             /\ calls' = [calls EXCEPT ![g] = c] /\ CallOK(c)
             /\ c.op = "appeal" => c.seen = SanctionOf(c.id)

\* The case that a report finds, or none.
LEMMA CaseSeenType == RecordTypeOK => \A t : CaseSeen(t) \in Nat
<1> SUFFICES ASSUME RecordTypeOK, NEW t
             PROVE  CaseSeen(t) \in Nat
  OBVIOUS
<1>1. OpenCases(t) \subseteq DOMAIN cases
  BY DEF OpenCases
<1>2. DOMAIN cases \subseteq Nat
  BY LenProperties DEF RecordTypeOK
<1> QED
  BY <1>1, <1>2 DEF CaseSeen

\* The sanction that an appeal finds, or none.
LEMMA SanctionOfType ==
    ASSUME AccountTypeOK, NEW d
    PROVE  /\ SanctionOf(d) \in {0} \cup DOMAIN sanctions /\ SanctionOf(d) \in Nat
           /\ \A s \in DOMAIN sanctions : sanctions[s].decision = d /\ sanctions[s].open =>
                 /\ SanctionOf(d) \in DOMAIN sanctions
                 /\ sanctions[SanctionOf(d)].decision = d
<1> DEFINE found == {s \in DOMAIN sanctions : sanctions[s].decision = d /\ sanctions[s].open}
<1>1. DOMAIN sanctions \subseteq Nat
  BY LenProperties DEF AccountTypeOK
<1>2. SanctionOf(d) = IF found = {} THEN 0 ELSE CHOOSE s \in found : TRUE
  BY DEF SanctionOf
<1>3. found # {} => (CHOOSE s \in found : TRUE) \in found
  OBVIOUS
<1> QED
  BY <1>1, <1>2, <1>3

\* Every step does one of these.
LEMMA CallSteps ==
    ASSUME RecordTypeOK, AccountTypeOK, CallTypeOK, [Next]_vars
    PROVE  CallEffect
<1>b. ASSUME NEW h \in Handlers, NEW op \in Op, NEW id \in Named, NEW arg \in Arg, NEW seen \in Nat,
             Begin(h, op, id, arg, seen), CallOK([op |-> op, id |-> id, arg |-> arg, seen |-> seen]),
             op = "appeal" => seen = SanctionOf(id)
      PROVE  CallEffect
  <2> DEFINE c == [op |-> op, id |-> id, arg |-> arg, seen |-> seen]
  <2>1. c \in Call /\ c.op = op /\ c.id = id /\ c.seen = seen
    BY DEF Call
  <2>2. calls' = [calls EXCEPT ![h] = c] /\ UNCHANGED <<records, accounts>> /\ CallOK(c)
    BY <1>b DEF Begin
  <2> HIDE DEF c
  <2> QED
    BY <1>b, <2>1, <2>2 DEF CallEffect
<1>1. CASE \/ UseMoment
           \/ \E t \in Contents : HideContent(t) \/ RestoreContent(t)
           \/ \E u \in Users : Login(u) \/ Logout(u) \/ \E type \in {"SUSPEND", "BAN"} : SanctionUser(u, type)
           \/ \E s \in DOMAIN sanctions : Expire(s)
           \/ \E d \in DOMAIN decisions : CreateAppeal(d)
  <2>1. calls' = calls
    BY <1>1 DEF UseMoment, HideContent, RestoreContent, Login, Logout, SanctionUser, Expire, CreateAppeal
  <2> QED
    BY <2>1 DEF CallEffect
<1>2. ASSUME NEW h \in Handlers,
             \/ GiveUp(h) \/ RevokeWrite(h) \/ ReportWrite(h) \/ HandleWrite(h) \/ CaseWrite(h) \/ AppealWrite(h)
      PROVE  CallEffect
  <2>1. calls' = [calls EXCEPT ![h] = Idle]
    BY <1>2 DEF GiveUp, RevokeWrite, ReportWrite, HandleWrite, CaseWrite, AppealWrite, Ends
  <2> QED
    BY <2>1 DEF CallEffect
<1>3. ASSUME NEW h \in Handlers, NEW u \in Users, RevokeRead(h, u)
      PROVE  CallEffect
  <2>1. PICK s \in Open(u) : Begin(h, "revoke", u, None, s)
    BY <1>3 DEF RevokeRead
  <2>2. s \in DOMAIN sanctions /\ s \in Nat
    BY LenProperties DEF Open, AccountTypeOK
  <2>3. CallOK([op |-> "revoke", id |-> u, arg |-> None, seen |-> s])
    BY <2>2 DEF CallOK
  <2> QED
    BY <1>b, <2>1, <2>2, <2>3 DEF Op, Named, Target, Arg
<1>4. ASSUME NEW h \in Handlers, NEW u \in Users, NEW t \in Contents \cup Users, ReportRead(h, u, t)
      PROVE  CallEffect
  <2>1. CaseSeen(t) \in Nat /\ t \in Target
    BY CaseSeenType DEF Target
  <2> DEFINE k == CaseSeen(t)
  <2>2. Begin(h, "report", t, u, k)
    BY <1>4 DEF ReportRead
  <2> HIDE DEF k
  <2>3. CallOK([op |-> "report", id |-> t, arg |-> u, seen |-> k]) /\ k \in Nat
    BY <2>1 DEF CallOK, k
  <2> QED
    BY <1>b, <2>1, <2>2, <2>3 DEF Op, Named, Arg
<1>5. ASSUME NEW h \in Handlers, NEW action \in {"DISMISS", "NONE", "HIDE", "SUSPEND", "BAN"},
             NEW r \in DOMAIN reports, HandleRead(h, r, action)
      PROVE  CallEffect
  <2>1. Begin(h, "handle", r, action, 0)
    BY <1>5 DEF HandleRead
  <2>2. r \in Nat
    BY LenProperties DEF RecordTypeOK
  <2>3. CallOK([op |-> "handle", id |-> r, arg |-> action, seen |-> 0])
    BY DEF CallOK, Action
  <2> QED
    BY <1>b, <2>1, <2>2, <2>3 DEF Op, Named, Arg, Action
<1>6. ASSUME NEW h \in Handlers, NEW action \in {"DISMISS", "NONE", "HIDE", "SUSPEND", "BAN"},
             NEW k \in DOMAIN cases, CaseRead(h, k, action)
      PROVE  CallEffect
  <2>1. Begin(h, "case", k, action, 0) /\ action # "NONE"
    BY <1>6 DEF CaseRead
  <2>2. k \in Nat
    BY LenProperties DEF RecordTypeOK
  <2>3. CallOK([op |-> "case", id |-> k, arg |-> action, seen |-> 0])
    BY <2>1 DEF CallOK, Action
  <2> QED
    BY <1>b, <2>1, <2>2, <2>3 DEF Op, Named, Arg, Action
<1>7. ASSUME NEW h \in Handlers, NEW d \in DOMAIN decisions, NEW outcome \in {"UPHELD", "OVERTURNED"},
             AppealRead(h, d, outcome)
      PROVE  CallEffect
  <2> DEFINE s == SanctionOf(d)
  <2>1. Begin(h, "appeal", d, outcome, s)
    BY <1>7 DEF AppealRead
  <2>2. d \in Nat
    BY LenProperties DEF RecordTypeOK
  <2>3. s \in {0} \cup DOMAIN sanctions /\ s \in Nat
    BY SanctionOfType
  <2>4. s = SanctionOf(d)
    OBVIOUS
  <2> HIDE DEF s
  <2>5. CallOK([op |-> "appeal", id |-> d, arg |-> outcome, seen |-> s])
    BY <2>3 DEF CallOK
  <2> QED
    BY <1>b, <2>1, <2>2, <2>3, <2>4, <2>5 DEF Op, Named, Arg
<1>8. ASSUME NEW h \in Handlers, ReportAgain(h)
      PROVE  CallEffect
  <2> DEFINE t == calls[h].id
             k == CaseSeen(t)
             c == [calls[h] EXCEPT !.seen = k]
  <2>1. calls[h].op = "report" /\ calls' = [calls EXCEPT ![h] = c] /\ UNCHANGED <<records, accounts>>
    BY <1>8 DEF ReportAgain
  <2>2. calls[h].id \in Target /\ calls[h].arg \in Users
    BY <2>1, CallSays
  <2>3. k \in Nat
    BY CaseSeenType
  <2> HIDE DEF k
  <2>4. c \in Call /\ c.op = "report" /\ c.id = calls[h].id /\ c.arg = calls[h].arg /\ c.seen = k
    BY <2>1, <2>3 DEF CallTypeOK, Call
  <2> HIDE DEF c
  <2>5. CallOK(c)
    BY <2>2, <2>3, <2>4 DEF CallOK
  <2> QED
    BY <2>1, <2>4, <2>5 DEF CallEffect
<1>9. CASE UNCHANGED vars
  BY <1>9 DEF vars, CallEffect
<1> QED
  BY <1>1, <1>2, <1>3, <1>4, <1>5, <1>6, <1>7, <1>8, <1>9 DEF Next

\* What a transaction knows it goes on knowing.
LEMMA CallKept ==
    ASSUME ReportsKept, DecisionsKept, SanctionsKept, NEW c \in Call, CallOK(c)
    PROVE  \/ c.op = "idle"
           \/ c.op = "revoke" /\ c.seen \in DOMAIN sanctions'
           \/ c.op = "report" /\ c.id \in Target /\ c.arg \in Users /\ c.seen \in Nat
           \/ /\ c.op = "handle" /\ c.id \in DOMAIN reports'
              /\ c.arg \in {"DISMISS", "NONE"} \cup Action
           \/ /\ c.op = "case" /\ c.id \in DOMAIN cases'
              /\ c.arg \in {"DISMISS"} \cup Action
           \/ /\ c.op = "appeal" /\ c.id \in DOMAIN decisions'
              /\ c.arg \in {"UPHELD", "OVERTURNED"} /\ c.seen \in {0} \cup DOMAIN sanctions'
BY DEF CallOK, ReportsKept, DecisionsKept, SanctionsKept

\* The transactions keep their types.
LEMMA CallTypes ==
    ASSUME CallTypeOK, CallEffect, ReportsKept, DecisionsKept, SanctionsKept
    PROVE  CallTypeOK'
<1>1. calls \in [Handlers -> Call] /\ \A h \in Handlers : CallOK(calls[h])
  BY DEF CallTypeOK
<1>2. Idle \in Call /\ CallOK(Idle)
  BY DEF Idle, Call, Op, Named, Arg, CallOK
<1>3. calls' \in [Handlers -> Call] /\ \A h \in Handlers : CallOK(calls'[h])
  <2>1. CASE calls' = calls
    BY <1>1, <2>1
  <2>2. ASSUME NEW g \in Handlers, NEW c \in Call, calls' = [calls EXCEPT ![g] = c], CallOK(c)
        PROVE  calls' \in [Handlers -> Call] /\ \A h \in Handlers : CallOK(calls'[h])
    <3>1. calls' \in [Handlers -> Call] /\ \A h \in Handlers : calls'[h] = IF h = g THEN c ELSE calls[h]
      BY <1>1, <2>2
    <3>2. ASSUME NEW h \in Handlers
          PROVE  CallOK(calls'[h])
      <4>1. CASE h = g
        <5>1. calls'[h] = c
          BY <3>1, <4>1
        <5> QED
          BY <2>2, <5>1
      <4>2. CASE h # g
        <5>1. calls'[h] = calls[h]
          BY <3>1, <4>2
        <5> QED
          BY <1>1, <5>1
      <4> QED
        BY <4>1, <4>2
    <3> QED
      BY <3>1, <3>2
  <2> QED
    BY <1>2, <2>1, <2>2 DEF CallEffect
<1>4. ASSUME NEW h \in Handlers
      PROVE  CallOK(calls[h])'
  <2> DEFINE c == calls'[h]
  <2>1. c \in Call /\ CallOK(c)
    BY <1>3
  <2> HIDE DEF c
  <2>2. \/ c.op = "idle"
        \/ c.op = "revoke" /\ c.seen \in DOMAIN sanctions'
        \/ c.op = "report" /\ c.id \in Target /\ c.arg \in Users /\ c.seen \in Nat
        \/ /\ c.op = "handle" /\ c.id \in DOMAIN reports'
           /\ c.arg \in {"DISMISS", "NONE"} \cup Action
        \/ /\ c.op = "case" /\ c.id \in DOMAIN cases'
           /\ c.arg \in {"DISMISS"} \cup Action
        \/ /\ c.op = "appeal" /\ c.id \in DOMAIN decisions'
           /\ c.arg \in {"UPHELD", "OVERTURNED"} /\ c.seen \in {0} \cup DOMAIN sanctions'
    BY <2>1, CallKept
  <2> USE DEF c
  <2> QED
    BY <2>2 DEF CallOK
<1> QED
  BY <1>3, <1>4 DEF CallTypeOK

-----------------------------------------------------------------------------
(* The invariants *)

\* A hiding is by no decision or by one about the content; what a step makes of its cause.
LEMMA CauseStep ==
    ASSUME ContentTypeOK, RecordTypeOK, ContentEffect, CauseSays, NEW t \in Contents, cause'[t] # 0
    PROVE  /\ Hidden(t)'
           /\ \/ cause'[t] = cause[t] /\ Hidden(t) /\ ~Unhide(t)
              \/ /\ cause'[t] \in DOMAIN decisions' \ DOMAIN decisions
                 /\ decisions'[cause'[t]].target = t /\ decisions'[cause'[t]].action = "HIDE"
<1>c. cause \in [Contents -> Nat]
  BY DEF ContentTypeOK
<1>0. Unhide(t) => cause'[t] = 0
  BY <1>c DEF Unhide
<1>1. ASSUME cause'[t] = cause[t]
      PROVE  Hidden(t)' /\ Hidden(t) /\ ~Unhide(t)
  <2>1. Hidden(t)
    BY <1>1 DEF CauseSays
  <2>2. StateOf(t)' = "hidden" \/ Unhide(t)
    BY <2>1, StatesStep DEF Hidden
  <2> QED
    BY <1>0, <2>1, <2>2 DEF Hidden
<1>2. CASE UNCHANGED cause
  BY <1>1, <1>2
<1>3. ASSUME NEW z \in Contents, NEW d \in Nat, Hide(z, d), Decided(d),
             d # 0 => decisions'[d].target = z /\ decisions'[d].action = "HIDE"
      PROVE  /\ Hidden(t)'
             /\ \/ cause'[t] = cause[t] /\ Hidden(t) /\ ~Unhide(t)
                \/ /\ cause'[t] \in DOMAIN decisions' \ DOMAIN decisions
                   /\ decisions'[cause'[t]].target = t /\ decisions'[cause'[t]].action = "HIDE"
  <2>1. SetState(z, "hidden") /\ cause' = [cause EXCEPT ![z] = d]
    BY <1>3 DEF Hide
  <2>2. CASE t = z
    <3>1. StateOf(t)' = "hidden"
      BY <2>1, <2>2, StateSet
    <3>2. cause'[t] = d
      BY <1>c, <2>1, <2>2
    <3> QED
      BY <1>3, <2>2, <3>1, <3>2 DEF Hidden, Decided
  <2>3. CASE t # z
    BY <1>1, <1>c, <2>1, <2>3
  <2> QED
    BY <2>2, <2>3
<1>4. ASSUME NEW z \in Contents, Unhide(z)
      PROVE  cause'[t] = cause[t]
  BY <1>c, <1>4 DEF Unhide
<1> QED
  BY <1>1, <1>2, <1>3, <1>4 DEF ContentEffect

\* What a decision hid is hidden, and is what the decision is about.
LEMMA CauseSaysStep ==
    ASSUME ContentTypeOK, RecordTypeOK, ContentEffect, DecisionsKept, CauseSays
    PROVE  CauseSays'
<1>1. ASSUME NEW t \in Contents, cause'[t] # 0
      PROVE  /\ Hidden(t)' /\ cause'[t] \in DOMAIN decisions'
             /\ decisions'[cause'[t]].target = t /\ decisions'[cause'[t]].action = "HIDE"
  <2>1. CASE cause'[t] = cause[t]
    <3>1. /\ cause[t] \in DOMAIN decisions
          /\ decisions[cause[t]].target = t /\ decisions[cause[t]].action = "HIDE"
      BY <1>1, <2>1 DEF CauseSays
    <3> QED
      BY <1>1, <2>1, <3>1, CauseStep DEF DecisionsKept
  <2>2. CASE cause'[t] # cause[t]
    BY <1>1, <2>2, CauseStep
  <2> QED
    BY <2>1, <2>2
<1> QED
  BY <1>1, Zenon DEF CauseSays

\* A sanction is by the decision that asked for it, and by no other.
LEMMA SanctionSaysStep ==
    ASSUME RecordTypeOK, SanctionsKept, DecisionsKept, SanctionSays
    PROVE  SanctionSays'
<1>0. \A s \in DOMAIN sanctions' \ DOMAIN sanctions : sanctions'[s].decision # 0 =>
         /\ sanctions'[s].decision \in DOMAIN decisions' \ DOMAIN decisions
         /\ decisions'[sanctions'[s].decision].action # "HIDE"
  BY DEF SanctionsKept, Decided
<1>1. ASSUME NEW s \in DOMAIN sanctions', sanctions'[s].decision # 0
      PROVE  /\ sanctions'[s].decision \in DOMAIN decisions'
             /\ decisions'[sanctions'[s].decision].action # "HIDE"
             /\ s \in DOMAIN sanctions <=> sanctions'[s].decision \in DOMAIN decisions
  <2>1. CASE s \in DOMAIN sanctions
    <3>1. sanctions'[s].decision = sanctions[s].decision
      BY <2>1 DEF SanctionsKept
    <3>2. /\ sanctions[s].decision \in DOMAIN decisions
          /\ decisions[sanctions[s].decision].action # "HIDE"
      BY <1>1, <2>1, <3>1 DEF SanctionSays
    <3> QED
      BY <2>1, <3>1, <3>2 DEF DecisionsKept
  <2>2. CASE s \notin DOMAIN sanctions
    BY <1>0, <1>1, <2>2
  <2> QED
    BY <2>1, <2>2
<1>2. ASSUME NEW s \in DOMAIN sanctions', NEW z \in DOMAIN sanctions',
             sanctions'[s].decision = sanctions'[z].decision, sanctions'[s].decision # 0
      PROVE  s = z
  <2>1. CASE s \in DOMAIN sanctions
    <3>1. z \in DOMAIN sanctions
      BY <1>1, <1>2, <2>1
    <3>2. sanctions'[s].decision = sanctions[s].decision /\ sanctions'[z].decision = sanctions[z].decision
      BY <2>1, <3>1 DEF SanctionsKept
    <3> QED
      BY <1>2, <2>1, <3>1, <3>2 DEF SanctionSays
  <2>2. CASE s \notin DOMAIN sanctions
    <3>1. z \notin DOMAIN sanctions
      BY <1>1, <1>2, <2>2
    <3> QED
      BY <2>2, <3>1 DEF SanctionsKept
  <2> QED
    BY <2>1, <2>2
<1> QED
  BY <1>1, <1>2 DEF SanctionSays

\* What an appeal has read stays the only sanction in force of its decision.
LEMMA AppealSaysStep ==
    ASSUME TypeOK, CallEffect, SanctionsKept, SanctionSays, AppealSays
    PROVE  AppealSays'
<1> USE DEF TypeOK
<1>1. ASSUME NEW h \in Handlers, calls'[h] = calls[h], calls'[h].op = "appeal",
             NEW s \in DOMAIN sanctions', sanctions'[s].decision = calls'[h].id, sanctions'[s].open
      PROVE  s = calls'[h].seen
  <2>1. calls[h].id \in DOMAIN decisions
    BY <1>1, CallSays
  <2>2. calls[h].id # 0
    BY <2>1, RowSays
  <2>3. s \in DOMAIN sanctions
    BY <1>1, <2>1, <2>2 DEF SanctionsKept, Decided
  <2>4. sanctions[s].decision = calls[h].id /\ sanctions[s].open
    BY <1>1, <2>3 DEF SanctionsKept
  <2> QED
    BY <1>1, <2>3, <2>4 DEF AppealSays
<1>2. ASSUME NEW h \in Handlers, NEW c \in Call, CallOK(c), c.op = "appeal", c.seen = SanctionOf(c.id),
             UNCHANGED <<records, accounts>>,
             NEW s \in DOMAIN sanctions', sanctions'[s].decision = c.id, sanctions'[s].open
      PROVE  s = c.seen
  <2>1. c.id \in DOMAIN decisions /\ c.id # 0
    BY <1>2, RowSays DEF CallOK
  <2>2. sanctions' = sanctions
    BY <1>2 DEF accounts
  <2>3. SanctionOf(c.id) \in DOMAIN sanctions /\ sanctions[SanctionOf(c.id)].decision = c.id
    BY <1>2, <2>2, SanctionOfType
  <2> QED
    BY <1>2, <2>1, <2>2, <2>3 DEF SanctionSays
<1>3. ASSUME NEW h \in Handlers, calls'[h].op = "appeal",
             NEW s \in DOMAIN sanctions', sanctions'[s].decision = calls'[h].id, sanctions'[s].open
      PROVE  s = calls'[h].seen
  <2>c. calls \in [Handlers -> Call]
    BY DEF CallTypeOK
  <2>1. CASE calls' = calls
    BY <1>1, <1>3, <2>1
  <2>2. ASSUME NEW g \in Handlers, calls' = [calls EXCEPT ![g] = Idle]
        PROVE  s = calls'[h].seen
    <3>1. h # g
      BY <1>3, <2>c, <2>2 DEF Idle
    <3> QED
      BY <1>1, <1>3, <2>c, <2>2, <3>1
  <2>3. ASSUME NEW g \in Handlers, NEW c \in Call, calls' = [calls EXCEPT ![g] = c], CallOK(c),
               c.op = "appeal" => c.seen = SanctionOf(c.id), UNCHANGED <<records, accounts>>
        PROVE  s = calls'[h].seen
    <3>1. CASE h = g
      <4>1. calls'[h] = c
        BY <2>c, <2>3, <3>1
      <4> QED
        BY <1>2, <1>3, <2>3, <4>1
    <3>2. CASE h # g
      BY <1>1, <1>3, <2>c, <2>3, <3>2
    <3> QED
      BY <3>1, <3>2
  <2> QED
    BY <2>1, <2>2, <2>3 DEF CallEffect
<1> QED
  BY <1>3, Zenon DEF AppealSays

\* An appeal that is granted takes back what its decision did.
LEMMA Overturned ==
    ASSUME TypeOK, CauseSays, SanctionSays, AppealSays, SanctionsKept, ContentEffect,
           NEW h \in Handlers, AppealWrite(h), calls[h].arg # "UPHELD"
    PROVE  /\ \A t \in Contents : Hidden(t)' => cause'[t] # calls[h].id
           /\ \A s \in DOMAIN sanctions' : sanctions'[s].decision = calls[h].id => ~sanctions'[s].open
<1> DEFINE d == calls[h].id
<1>0. /\ calls[h].op = "appeal" /\ Overturn(d, calls[h].seen)
  BY DEF AppealWrite, Ends
<1>1. d \in DOMAIN decisions /\ d # 0 /\ calls[h].seen \in {0} \cup DOMAIN sanctions /\ 0 \notin DOMAIN sanctions
  BY <1>0, CallSays, RowSays, LenProperties DEF TypeOK, AccountTypeOK
<1> HIDE DEF d
<1>2. ASSUME NEW t \in Contents, cause[t] = d
      PROVE  decisions[d].target = t /\ decisions[d].action = "HIDE"
  BY <1>1, <1>2 DEF CauseSays
<1>3. ASSUME NEW s \in DOMAIN sanctions, sanctions[s].decision = d
      PROVE  decisions[d].action # "HIDE" /\ (sanctions[s].open => s = calls[h].seen)
  BY <1>0, <1>1, <1>3 DEF SanctionSays, AppealSays, d
<1>c. cause \in [Contents -> Nat]
  BY DEF TypeOK, ContentTypeOK
<1>4. CASE decisions[d].action = "HIDE"
  <2>1. Unhide(decisions[d].target) /\ sanctions' = sanctions
    BY <1>0, <1>4 DEF Overturn, accounts
  <2>2. cause' = [cause EXCEPT ![decisions[d].target] = 0]
    BY <2>1 DEF Unhide
  <2>3. \A t \in Contents : cause'[t] # d
    BY <1>1, <1>2, <1>c, <2>2
  <2>4. \A s \in DOMAIN sanctions' : sanctions'[s].decision # d
    BY <1>3, <1>4, <2>1
  <2> QED
    BY <2>3, <2>4 DEF d
<1>5. CASE decisions[d].action # "HIDE"
  <2>1. /\ cause' = cause
        /\ IF calls[h].seen = 0 THEN sanctions' = sanctions ELSE Lift(calls[h].seen)
    BY <1>0, <1>5 DEF Overturn
  <2>2. \A t \in Contents : cause'[t] # d
    BY <1>2, <1>5, <2>1
  <2>3. ASSUME NEW s \in DOMAIN sanctions', sanctions'[s].decision = d
        PROVE  ~sanctions'[s].open
    <3>1. CASE calls[h].seen = 0
      BY <1>1, <1>3, <2>1, <2>3, <3>1
    <3>2. CASE calls[h].seen # 0
      <4>1. sanctions' = [sanctions EXCEPT ![calls[h].seen] = [sanctions[calls[h].seen] EXCEPT !.open = FALSE]]
            /\ s \in DOMAIN sanctions
        BY <2>1, <2>3, <3>2 DEF Lift
      <4>2. sanctions[s] \in Account
        BY <4>1, LenProperties, ElementOfSeq DEF TypeOK, AccountTypeOK
      <4>3. CASE s = calls[h].seen
        BY <4>1, <4>2, <4>3 DEF Account
      <4>4. CASE s # calls[h].seen
        BY <1>3, <2>3, <4>1, <4>4
      <4> QED
        BY <4>3, <4>4
    <3> QED
      BY <3>1, <3>2
  <2> QED
    BY <2>2, <2>3 DEF d
<1> QED
  BY <1>4, <1>5

\* Nothing of an overturned decision is in force after a step.
LEMMA ReversedStep ==
    ASSUME TypeOK, CauseSays, SanctionSays, AppealSays, ReversedIsLifted,
           ContentEffect, DecisionsKept, SanctionsKept
    PROVE  ReversedIsLifted'
<1> USE DEF TypeOK
<1>1. ASSUME NEW d \in DOMAIN decisions', ~decisions'[d].active
      PROVE  /\ \A t \in Contents : Hidden(t)' => cause'[t] # d
             /\ \A s \in DOMAIN sanctions' : sanctions'[s].decision = d => ~sanctions'[s].open
  <2>0. d \in DOMAIN decisions
    BY <1>1 DEF DecisionsKept
  <2>1. d # 0
    BY <2>0, RowSays
  <2>2. CASE decisions[d].active
    <3>1. PICK h \in Handlers : AppealWrite(h) /\ calls[h].id = d /\ calls[h].arg # "UPHELD"
      BY <1>1, <2>0, <2>2 DEF DecisionsKept
    <3> QED
      BY <3>1, Overturned
  <2>3. CASE ~decisions[d].active
    <3>0. /\ \A t \in Contents : Hidden(t) => cause[t] # d
          /\ \A s \in DOMAIN sanctions : sanctions[s].decision = d => ~sanctions[s].open
      BY <2>0, <2>3 DEF ReversedIsLifted
    <3>1. ASSUME NEW t \in Contents, cause'[t] = d
          PROVE  FALSE
      BY <2>0, <2>1, <3>0, <3>1, CauseStep
    <3>2. ASSUME NEW s \in DOMAIN sanctions', sanctions'[s].decision = d
          PROVE  ~sanctions'[s].open
      <4>1. s \in DOMAIN sanctions
        BY <2>0, <2>1, <3>2 DEF SanctionsKept, Decided
      <4> QED
        BY <3>0, <3>2, <4>1 DEF SanctionsKept
    <3> QED
      BY <3>1, <3>2
  <2> QED
    BY <2>2, <2>3
<1> QED
  BY <1>1, Zenon DEF ReversedIsLifted

-----------------------------------------------------------------------------
(* The theorems *)

\* The invariant holds at first.
LEMMA InitIInv == Init => IInv
<1> SUFFICES ASSUME Init
             PROVE  IInv
  OBVIOUS
<1>1. ContentTypeOK
  BY DEF Init, MomentsInit, ContentTypeOK, ContentState, Contents
<1>2. cases = <<>> /\ reports = <<>> /\ decisions = <<>> /\ sanctions = <<>> /\ sessions = {}
  BY DEF Init
<1>3. RecordTypeOK /\ AccountTypeOK
  BY <1>2, EmptySeq DEF RecordTypeOK, AccountTypeOK
<1>4. \A h \in Handlers : calls[h] = Idle
  BY DEF Init
<1>5. CallTypeOK
  <2>1. Idle \in Call /\ Idle.op = "idle"
    BY DEF Idle, Call, Op, Named, Arg
  <2> QED
    BY <1>4, <2>1 DEF Init, CallTypeOK, CallOK
<1>6. Counted
  <2>1. LiveComments = {} /\ likes = {} /\ marks = {} /\ moment.comments = 0 /\ moment.likes = 0 /\ moment.marks = 0
    BY DEF Init, MomentsInit, LiveComments
  <2> QED
    BY <2>1, FS_EmptySet DEF Counted, CountsMatch, LiveComments
<1>7. CauseSays /\ SanctionSays /\ ReversedIsLifted /\ SanctionedStaysOut
  <2>1. DOMAIN decisions = {} /\ DOMAIN sanctions = {} /\ \A t \in Contents : cause[t] = 0
    BY <1>2, EmptySeq DEF Init
  <2> QED
    BY <1>2, <2>1 DEF CauseSays, SanctionSays, ReversedIsLifted, SanctionedStaysOut, Sanctioned, Open
<1>8. AppealSays
  BY <1>4 DEF AppealSays, Idle
<1> QED
  BY <1>1, <1>3, <1>5, <1>6, <1>7, <1>8 DEF IInv, TypeOK

\* Every step keeps it; what the step does to each table is stated with it.
LEMMA NextIInv ==
    ASSUME IInv, [Next]_vars
    PROVE  /\ IInv'
           /\ ContentEffect /\ ReportsKept /\ DecisionsKept /\ SanctionsKept
<1> USE DEF IInv, TypeOK
<1>1. ContentEffect /\ DecisionEffect /\ AccountEffect /\ CallEffect
  BY ContentSteps, DecisionSteps, AccountSteps, CallSteps
<1>2. ReportsKept /\ DecisionsKept /\ RecordTypeOK'
  BY <1>1, ReportsStep, DecisionsStep, RecordTypes
<1>3. SanctionsKept /\ AccountTypeOK' /\ SanctionedStaysOut'
  BY <1>1, AccountsStep
<1>4. CallTypeOK'
  BY <1>1, <1>2, <1>3, CallTypes
<1>5. ContentTypeOK' /\ Counted'
  <2>1. TheMoment \in Contents
    BY DEF Contents
  <2> QED
    BY <1>1, <2>1, StatesStep, CountsStep
<1>6. CauseSays' /\ SanctionSays' /\ AppealSays' /\ ReversedIsLifted'
  BY <1>1, <1>2, <1>3, CauseSaysStep, SanctionSaysStep, AppealSaysStep, ReversedStep
<1> QED
  BY <1>1, <1>2, <1>3, <1>4, <1>5, <1>6

\* The inductive invariant holds in every state that is reached.
THEOREM Invariance == Spec => []IInv
<1>1. IInv /\ [Next]_vars => IInv'
  BY NextIInv
<1> QED
  BY InitIInv, <1>1, PTL DEF Spec

\* The tables, the contents and what the transactions remember keep their types: what a transaction
\* of staff has read still names rows when it writes, whatever committed in between.
THEOREM TypeCorrect == Spec => []TypeOK
<1>1. IInv => TypeOK
  BY DEF IInv
<1> QED
  BY Invariance, <1>1, PTL

\* The counters of a moment are the numbers of its live comments, likes and bookmarks, for any
\* number of people and comments and every order of removals, hidings and restorations.
THEOREM CountsMatchAlways == Spec => []CountsMatch
<1>1. IInv => CountsMatch
  BY DEF IInv, Counted
<1> QED
  BY Invariance, <1>1, PTL

\* No account under an effective sanction has a session.
THEOREM SanctionedStaysOutAlways == Spec => []SanctionedStaysOut
<1>1. IInv => SanctionedStaysOut
  BY DEF IInv
<1> QED
  BY Invariance, <1>1, PTL

\* Nothing an overturned decision imposed is still in force.
THEOREM ReversedIsLiftedAlways == Spec => []ReversedIsLifted
<1>1. IInv => ReversedIsLifted
  BY DEF IInv
<1> QED
  BY Invariance, <1>1, PTL

\* What an author ended, a report that is handled, a sanction that is revoked and a decision that is
\* reversed stay as they are in every step.
THEOREM SettledStaysAlways == Spec => SettledStays
<1>1. ASSUME IInv, [Next]_vars
      PROVE  /\ \A t \in Contents : StateOf(t) = "gone" => StateOf(t)' = "gone"
             /\ \A r \in DOMAIN reports : ~Pending(r) => reports'[r] = reports[r]
             /\ \A s \in DOMAIN sanctions : ~sanctions[s].open => ~sanctions'[s].open
             /\ \A d \in DOMAIN decisions : ~decisions[d].active => ~decisions'[d].active
  <2>1. ContentTypeOK /\ ContentEffect /\ ReportsKept /\ DecisionsKept /\ SanctionsKept
    BY <1>1, NextIInv DEF IInv, TypeOK
  <2>2. \A t \in Contents : StateOf(t) = "gone" => StateOf(t)' = "gone"
    BY <2>1, StatesStep
  <2> QED
    BY <2>1, <2>2 DEF ReportsKept, DecisionsKept, SanctionsKept
<1> QED
  BY Invariance, <1>1, PTL DEF Spec, SettledStays
=============================================================================
