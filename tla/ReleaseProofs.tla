---------------------------- MODULE ReleaseProofs ----------------------------
(***************************************************************************)
(* What holds of the releases and promotions in the data base, for any     *)
(* builds, promotions and APKs, whoever calls the operations of            *)
(* MobileReleases and in whatever order (DataSpec).                        *)
(*                                                                         *)
(* The inductive invariant Inv: a promotion under way holds the lock of    *)
(* its release and nobody else holds one, so its notes stand still; and    *)
(* what succeeded before is known to every later promotion of the build,   *)
(* which is of the same APK and takes nothing back.                        *)
(*                                                                         *)
(* Then the script of a release, its journal, failures, crashes and        *)
(* recoveries (ReleasePromotion): they do to the data base nothing but     *)
(* operations of MobileReleases, about one build, APK, revision and        *)
(* promotion, so that Spec implements DataSpec and what is proved of       *)
(* DataSpec holds of whole releases.  The inductive invariant Follows says *)
(* what may remain of the script's plan: only a promotion has the steps of *)
(* one, and an abort comes only while the journal names the promotion to   *)
(* be aborted.                                                             *)
(*                                                                         *)
(* At last a release that fails or is interrupted.  Truths: the catalogue  *)
(* and the journal's copy of it say of a published build what its promotion*)
(* and its artifact say.  Whole: without a journal the gateway, the policy *)
(* and the running backend agree; with one, what it says and what is left  *)
(* of the plan make them agree again, forward or back.  Whole holds until  *)
(* one of the events astray records: a journal torn while it was written,  *)
(* a promotion that succeeded while its status could not be read, and an   *)
(* operator's command under way while the catalogue is restored.  With the *)
(* invariants above it makes the inductive invariant Certain.              *)
(***************************************************************************)
EXTENDS ReleasePromotion, FiniteSetTheorems, TLAPS

Row == [revision : Nat, confirmed : Nat, published : Nat,
        by : Operations \union {0}, lock : Operations \union {0}]
Statuses == {"ABSENT", "PREPARED", "STAGED", "COMMITTED", "SUCCEEDED", "ABORTED"}
Entries == [status : Statuses, build : Builds \union {0}, revision : Nat,
            apk : Apks \union {None}, previous : Nat]

DataOK ==
    /\ release \in [Builds -> Row]
    /\ promotion \in [Operations -> Entries]
    /\ artifact \in [Builds -> Apks \union {None}]

\* A promotion that began is about a revision of a release.
Known == \A o \in Operations :
    Status(o) # "ABSENT" => promotion[o].build \in Builds /\ promotion[o].revision # 0

\* A promotion under way holds the lock of its release, and nobody else does.
Locked ==
    /\ \A o \in Operations : Open(o) => InForce(o)
    /\ \A b \in Builds : release[b].lock # 0 =>
        \E o \in Operations : release[b].lock = o /\ promotion[o].build = b /\ Open(o)

\* What succeeded before is known to whoever promotes the same build later.
Followed == \A o, p \in Operations :
    /\ Open(o) \/ Status(o) = "SUCCEEDED"
    /\ Status(p) = "SUCCEEDED" /\ promotion[p].build = promotion[o].build
    => promotion[o].apk = promotion[p].apk /\ (Open(o) => promotion[o].previous # 0)

\* What the public reads was confirmed, and stays once a promotion has succeeded.
Standing ==
    /\ \A b \in Builds : release[b].published # 0 => release[b].published = release[b].confirmed
    /\ \A p \in Operations : Status(p) = "SUCCEEDED" => release[promotion[p].build].published # 0

\* The inductive invariant of the data base
Inv == DataOK /\ Known /\ Locked /\ Followed /\ Standing

\* No promotion is there in the beginning.
LEMMA Begins == InitData => Inv
<1> SUFFICES ASSUME InitData PROVE Inv  OBVIOUS
<1> USE ReleasesAssumption DEF InitData
<1>1. \A b \in Builds : release[b] \in Row /\ release[b].lock = 0 /\ release[b].published = 0
  <2>1. NoRelease \in Row  BY DEF NoRelease, Row
  <2>2. [NoRelease EXCEPT !.revision = 1, !.confirmed = 1] \in Row  BY <2>1 DEF Row
  <2>3. [NoRelease EXCEPT !.revision = 1, !.confirmed = 1].lock = 0  BY DEF NoRelease
  <2>4. [NoRelease EXCEPT !.revision = 1, !.confirmed = 1].published = 0  BY DEF NoRelease
  <2>. QED  BY <2>1, <2>2, <2>3, <2>4 DEF NoRelease
<1>2. DataOK
  <2>1. Absent \in Entries  BY DEF Absent, Entries, Statuses
  <2>2. release \in [Builds -> Row]  BY <1>1
  <2>. QED  BY <2>1, <2>2 DEF DataOK
<1>3. \A o \in Operations : Status(o) = "ABSENT" /\ ~Open(o)  BY DEF Status, Open, Absent
<1>. QED  BY <1>1, <1>2, <1>3 DEF Inv, Known, Locked, Followed, Standing

\* Only the row of one build changes, and neither its lock nor what an open promotion is about.
LEMMA Edits == ASSUME Inv, NEW b \in Builds, Edit(b) \/ Confirm(b) PROVE Inv'
<1> USE ReleasesAssumption DEF Inv, Editable
<1>0. release[b].lock = 0 /\ UNCHANGED <<promotion, artifact>>  BY DEF Edit, Confirm
<1>1. release' \in [Builds -> Row]
  <2>1. CASE Edit(b)  BY <2>1 DEF Edit, DataOK, Row
  <2>2. CASE Confirm(b)
    <3> DEFINE n == release[b].revision
               p == IF release[b].published = 0 THEN 0 ELSE n
    <3>1. release[b] \in Row /\ n \in Nat /\ p \in Nat  BY DEF DataOK, Row
    <3>2. release' = [release EXCEPT ![b].confirmed = n, ![b].published = p]  BY <2>2 DEF Confirm, DataOK, Row
    <3> HIDE DEF n, p
    <3>. QED  BY <3>1, <3>2 DEF DataOK, Row
  <2>. QED  BY <2>1, <2>2
<1>2. \A c \in Builds : c # b => release'[c] = release[c]  BY DEF Edit, Confirm, DataOK
<1>3. /\ release'[b].lock = 0
      /\ release'[b].published # 0 <=> release[b].published # 0
      /\ release'[b].published # 0 => release'[b].published = release'[b].confirmed
  <2>1. CASE Edit(b)  BY <2>1 DEF Edit, DataOK, Row, Standing
  <2>2. CASE Confirm(b)
    <3>1. release[b].revision \in Nat  BY DEF DataOK, Row
    <3>2. release[b].confirmed # release[b].revision  BY <2>2 DEF Confirm
    <3>. QED  BY <2>2, <3>1, <3>2 DEF Confirm, DataOK, Row, Standing
  <2>. QED  BY <2>1, <2>2
<1>4. \A o \in Operations : Status(o)' = Status(o) /\ Open(o)' = Open(o)  BY <1>0 DEF Status, Open
<1>5. \A o \in Operations : Open(o) => promotion[o].build # b /\ promotion[o].build \in Builds
  BY <1>0 DEF Locked, InForce, Known, DataOK, Open, Status
<1>6. Known' /\ Followed'  BY <1>0, <1>4 DEF Known, Followed
<1>7. Locked'
  <2>1. ASSUME NEW o \in Operations, Open(o)' PROVE InForce(o)'
    <3>1. Open(o) /\ InForce(o)  BY <1>4, <2>1 DEF Locked
    <3>2. release'[promotion'[o].build] = release[promotion[o].build]  BY <1>0, <1>2, <1>5, <3>1
    <3>. QED  BY <1>0, <1>4, <3>1, <3>2 DEF InForce
  <2>2. \A c \in Builds : release'[c].lock = release[c].lock  BY <1>0, <1>2, <1>3
  <2>. QED  BY <1>0, <1>4, <2>1, <2>2 DEF Locked
<1>8. Standing'  BY <1>0, <1>2, <1>3, <1>4 DEF Standing, Known, DataOK
<1>. QED  BY <1>0, <1>1, <1>6, <1>7, <1>8 DEF DataOK

\* A promotion that begins finds no other one under way and is of the APK of those that succeeded.
LEMMA Beginning ==
    ASSUME Inv, NEW o \in Operations, NEW b \in Builds, NEW apk \in Apks, NEW revision \in Nat,
           BeginPromotion(o, b, apk, revision)
    PROVE  Inv'
<1> USE ReleasesAssumption DEF Inv, BeginPromotion, CanBegin
<1> DEFINE begun == [status |-> "PREPARED", build |-> b, revision |-> revision, apk |-> apk,
                     previous |-> release[b].published]
<1>1. /\ release[b] \in Row /\ release[b].lock = 0 /\ release[b].revision = revision
      /\ release[b].confirmed = revision /\ revision # 0
  BY DEF DataOK, Ready
<1>2. /\ promotion' = [promotion EXCEPT ![o] = begun] /\ artifact' = artifact
      /\ release' = [release EXCEPT ![b].lock = o]
  OBVIOUS
<1>3. DataOK'
  <2>1. begun \in Entries  BY <1>1 DEF Entries, Statuses, Row
  <2>2. promotion' \in [Operations -> Entries]  BY <1>2, <2>1 DEF DataOK
  <2>3. release' \in [Builds -> Row]  BY <1>1, <1>2 DEF DataOK, Row
  <2>. QED  BY <1>2, <2>2, <2>3 DEF DataOK
<1>4. promotion'[o] = begun /\ \A p \in Operations : p # o => promotion'[p] = promotion[p]
  BY <1>2 DEF DataOK
<1>5. /\ release'[b].lock = o /\ release'[b].revision = revision /\ release'[b].confirmed = revision
      /\ release'[b].published = release[b].published
      /\ \A c \in Builds : c # b => release'[c] = release[c]
  BY <1>1, <1>2 DEF DataOK, Row
<1> HIDE DEF begun
<1>6. /\ begun.status = "PREPARED" /\ begun.build = b /\ begun.revision = revision /\ begun.apk = apk
      /\ begun.previous = release[b].published
  BY DEF begun
<1>7. /\ Status(o)' = "PREPARED" /\ Open(o)'
      /\ \A p \in Operations : p # o => Status(p)' = Status(p) /\ Open(p)' = Open(p)
  BY <1>4, <1>6 DEF Status, Open
<1>8. \A p \in Operations : Open(p) => promotion[p].build # b /\ promotion[p].build \in Builds
  BY <1>1 DEF Locked, InForce, Known, DataOK, Open, Status
<1>9. Known'  BY <1>1, <1>4, <1>6, <1>7 DEF Known
<1>10. Locked'
  <2>1. ASSUME NEW p \in Operations, Open(p)' PROVE InForce(p)'
    <3>1. CASE p = o  BY <1>4, <1>5, <1>6, <1>7, <3>1 DEF InForce
    <3>2. CASE p # o
      <4>1. Open(p) /\ InForce(p)  BY <1>7, <2>1, <3>2 DEF Locked
      <4>2. release'[promotion'[p].build] = release[promotion[p].build]  BY <1>4, <1>5, <1>8, <3>2, <4>1
      <4>. QED  BY <1>4, <1>7, <3>2, <4>1, <4>2 DEF InForce
    <3>. QED  BY <3>1, <3>2
  <2>2. ASSUME NEW c \in Builds, release'[c].lock # 0
        PROVE  \E p \in Operations : release'[c].lock = p /\ promotion'[p].build = c /\ Open(p)'
    <3>1. CASE c = b  BY <1>4, <1>5, <1>6, <1>7, <3>1
    <3>2. CASE c # b
      <4>1. PICK p \in Operations : release[c].lock = p /\ promotion[p].build = c /\ Open(p)
        BY <1>5, <2>2, <3>2 DEF Locked
      <4>2. p # o  BY <4>1 DEF Open
      <4>. QED  BY <1>4, <1>5, <1>7, <3>2, <4>1, <4>2
    <3>. QED  BY <3>1, <3>2
  <2>. QED  BY <2>1, <2>2 DEF Locked
<1>11. Followed'
  <2>1. \A p \in Operations : Status(p) = "SUCCEEDED" /\ promotion[p].build = b =>
            promotion[p].apk = apk /\ release[b].published # 0
    BY DEF Bound, Succeeded, Standing
  <2>. QED  BY <1>4, <1>6, <1>7, <2>1 DEF Followed
<1>12. Standing'  BY <1>1, <1>4, <1>5, <1>7 DEF Standing, Known, DataOK
<1>. QED  BY <1>3, <1>9, <1>10, <1>11, <1>12

\* The row of a download touches no release.
LEMMA Registering ==
    ASSUME Inv, NEW b \in Builds, NEW apk \in Apks, RegisterDownload(b, apk)
    PROVE  Inv'
BY DEF Inv, RegisterDownload, DataOK, Known, Locked, Followed, Standing, Open, Status, InForce

\* What a transition of an open promotion may do: keep the lock or give it up, and publish or take back its notes.
Moved(o, status) == LET b == promotion[o].build IN
    /\ promotion' = [promotion EXCEPT ![o].status = status] /\ artifact' = artifact
    /\ release' \in [Builds -> Row] /\ \A c \in Builds : c # b => release'[c] = release[c]
    /\ release'[b].revision = release[b].revision /\ release'[b].confirmed = release[b].confirmed
    /\ release'[b].lock = IF status \in {"SUCCEEDED", "ABORTED"} THEN 0 ELSE o
    /\ release'[b].published \in {0, release[b].confirmed}
    /\ status = "ABORTED" /\ promotion[o].previous # 0 => release'[b].published = release[b].published
    /\ status # "ABORTED" /\ release[b].published # 0 => release'[b].published # 0
    /\ status = "SUCCEEDED" => release'[b].published # 0

\* Whatever a transition does within these limits keeps the invariant.
LEMMA Moving ==
    ASSUME Inv, NEW o \in Operations, InForce(o), NEW status \in Statuses \ {"ABSENT"}, Moved(o, status)
    PROVE  Inv'
<1> USE DEF Inv
<1> DEFINE b == promotion[o].build
<1>1. b \in Builds /\ Open(o) /\ release[b].lock = o  BY DEF InForce, Known, Open
<1>2. /\ promotion'[o].status = status /\ promotion'[o].build = b /\ promotion'[o].apk = promotion[o].apk
      /\ promotion'[o].revision = promotion[o].revision /\ promotion'[o].previous = promotion[o].previous
      /\ \A p \in Operations : p # o => promotion'[p] = promotion[p]
  BY DEF Moved, DataOK, Entries
<1>3. /\ release' \in [Builds -> Row] /\ \A c \in Builds : c # b => release'[c] = release[c]
      /\ release'[b].revision = release[b].revision /\ release'[b].confirmed = release[b].confirmed
      /\ release'[b].lock = IF status \in {"SUCCEEDED", "ABORTED"} THEN 0 ELSE o
      /\ release'[b].published \in {0, release[b].confirmed}
      /\ status = "ABORTED" /\ promotion[o].previous # 0 => release'[b].published = release[b].published
      /\ status # "ABORTED" /\ release[b].published # 0 => release'[b].published # 0
      /\ status = "SUCCEEDED" => release'[b].published # 0
  BY DEF Moved
<1>4. DataOK'  BY <1>3 DEF DataOK, Moved, Entries
<1> HIDE DEF b
<1>5. /\ Status(o)' = status /\ Open(o)' = (status \in {"PREPARED", "STAGED", "COMMITTED"})
      /\ \A p \in Operations : p # o => Status(p)' = Status(p) /\ Open(p)' = Open(p)
  BY <1>2 DEF Status, Open
<1>6. \A p \in Operations : Open(p) /\ p # o => promotion[p].build # b /\ promotion[p].build \in Builds
  BY <1>1 DEF Locked, InForce, Known, Open
<1>7. promotion[o].build = b  BY DEF b
<1>8. Known'  BY <1>1, <1>2, <1>5, <1>7 DEF Known, Open
<1>9. Locked'
  <2>1. ASSUME NEW p \in Operations, Open(p)' PROVE InForce(p)'
    <3>1. CASE p = o
      <4>1. release'[b].lock = o  BY <1>3, <1>5, <2>1, <3>1
      <4>2. release[b].revision = promotion[o].revision /\ release[b].confirmed = promotion[o].revision
        BY <1>7 DEF InForce
      <4>. QED  BY <1>2, <1>3, <1>5, <2>1, <3>1, <4>1, <4>2 DEF InForce
    <3>2. CASE p # o
      <4>1. Open(p) /\ InForce(p)  BY <1>5, <2>1, <3>2 DEF Locked
      <4>2. release'[promotion'[p].build] = release[promotion[p].build]  BY <1>2, <1>3, <1>6, <3>2, <4>1
      <4>. QED  BY <1>2, <1>5, <3>2, <4>1, <4>2 DEF InForce
    <3>. QED  BY <3>1, <3>2
  <2>2. ASSUME NEW c \in Builds, release'[c].lock # 0
        PROVE  \E p \in Operations : release'[c].lock = p /\ promotion'[p].build = c /\ Open(p)'
    <3>1. CASE c = b
      <4>1. status \notin {"SUCCEEDED", "ABORTED"} /\ release'[b].lock = o  BY <1>3, <2>2, <3>1
      <4>2. status \in {"PREPARED", "STAGED", "COMMITTED"}  BY <4>1 DEF Statuses
      <4>. QED  BY <1>2, <1>5, <3>1, <4>1, <4>2
    <3>2. CASE c # b
      <4>1. PICK p \in Operations : release[c].lock = p /\ promotion[p].build = c /\ Open(p)
        BY <1>3, <2>2, <3>2 DEF Locked
      <4>2. p # o  BY <1>7, <3>2, <4>1
      <4>. QED  BY <1>2, <1>3, <1>5, <3>2, <4>1, <4>2
    <3>. QED  BY <3>1, <3>2
  <2>. QED  BY <2>1, <2>2 DEF Locked
<1>10. Followed'
  <2>1. \A p \in Operations : promotion'[p].build = promotion[p].build /\ promotion'[p].apk = promotion[p].apk
                              /\ promotion'[p].previous = promotion[p].previous
    BY <1>2, <1>7
  <2>2. \A p \in Operations : p # o /\ promotion[p].build = b => ~Open(p)  BY <1>6
  <2> SUFFICES ASSUME NEW p \in Operations, NEW q \in Operations, Open(p)' \/ Status(p)' = "SUCCEEDED",
                      Status(q)' = "SUCCEEDED", promotion[q].build = promotion[p].build
               PROVE  promotion[p].apk = promotion[q].apk /\ (Open(p)' => promotion[p].previous # 0)
    BY <2>1 DEF Followed
  <2>3. CASE p = o /\ q = o  BY <1>5, <2>3
  <2>4. CASE p = o /\ q # o  BY <1>1, <1>5, <2>4 DEF Followed
  <2>5. CASE p # o /\ q = o
    <3>1. Status(p) = "SUCCEEDED"  BY <1>5, <1>7, <2>2, <2>5
    <3>2. ~Open(p)'  BY <1>5, <2>5, <3>1 DEF Open
    <3>. QED  BY <1>1, <2>5, <3>1, <3>2 DEF Followed
  <2>6. CASE p # o /\ q # o  BY <1>5, <2>6 DEF Followed
  <2>. QED  BY <2>3, <2>4, <2>5, <2>6
<1>11. Standing'
  <2>1. \A c \in Builds : release'[c].published # 0 => release'[c].published = release'[c].confirmed
    BY <1>3 DEF Standing
  <2>2. ASSUME NEW p \in Operations, Status(p)' = "SUCCEEDED"
        PROVE  release'[promotion'[p].build].published # 0
    <3>1. CASE p = o  BY <1>2, <1>3, <1>5, <2>2, <3>1
    <3>2. CASE p # o
      <4>1. /\ Status(p) = "SUCCEEDED" /\ promotion'[p].build = promotion[p].build
            /\ promotion[p].build \in Builds /\ release[promotion[p].build].published # 0
        BY <1>2, <1>5, <2>2, <3>2 DEF Standing, Known
      <4>2. promotion[p].build = b => promotion[o].previous # 0  BY <1>1, <1>7, <4>1 DEF Followed
      <4>. QED  BY <1>3, <4>1, <4>2
    <3>. QED  BY <3>1, <3>2
  <2>. QED  BY <2>1, <2>2 DEF Standing
<1>. QED  BY <1>4, <1>8, <1>9, <1>10, <1>11

\* Each transition of a promotion is such a move.
LEMMA Transitions ==
    ASSUME Inv, NEW o \in Operations, Stage(o) \/ Commit(o) \/ Finish(o) \/ (Abort(o) /\ Open(o))
    PROVE  InForce(o) /\ \E status \in Statuses \ {"ABSENT"} : Moved(o, status)
<1> DEFINE b == promotion[o].build
<1>1. InForce(o) /\ Open(o)
  BY DEF Stage, Commit, Finish, Abort, CanAbort, InForce, Open
<1>2. b \in Builds /\ release[b] \in Row /\ release[b].lock = o /\ release \in [Builds -> Row]
      /\ release[b].confirmed # 0 /\ (release[b].published # 0 => release[b].published = release[b].confirmed)
  BY <1>1 DEF Inv, Known, DataOK, Open, InForce, Standing
<1>3. ASSUME Stage(o) PROVE Moved(o, "STAGED")
  BY <1>2, <1>3 DEF Stage, To, Moved, Row
<1>4. ASSUME Commit(o) PROVE Moved(o, "COMMITTED")
  <2>1. To(o, "COMMITTED")  BY <1>4 DEF Commit
  <2>2. CASE release[b].published # 0  BY <1>2, <1>4, <2>1, <2>2 DEF Commit, To, Moved, Row
  <2>3. CASE release[b].published = 0
    <3>1. release' = [release EXCEPT ![b].published = release[b].confirmed, ![b].by = o]
      BY <1>4, <2>3 DEF Commit
    <3> HIDE DEF b
    <3>2. release' \in [Builds -> Row] /\ \A c \in Builds : c # b => release'[c] = release[c]
      BY <1>2, <3>1 DEF Row
    <3>3. /\ release'[b].revision = release[b].revision /\ release'[b].confirmed = release[b].confirmed
          /\ release'[b].lock = o /\ release'[b].published = release[b].confirmed
      BY <1>2, <3>1 DEF Row
    <3>. QED  BY <1>2, <2>1, <3>2, <3>3 DEF To, Moved, b
  <2>. QED  BY <2>2, <2>3
<1>5. ASSUME Finish(o) PROVE Moved(o, "SUCCEEDED")
  <2>1. /\ release' = [release EXCEPT ![b].lock = 0] /\ To(o, "SUCCEEDED")
        /\ release[b].published = promotion[o].revision
    BY <1>5 DEF Finish
  <2>2. release[b].published # 0  BY <1>1, <1>2, <2>1 DEF InForce
  <2> HIDE DEF b
  <2>3. release' \in [Builds -> Row] /\ \A c \in Builds : c # b => release'[c] = release[c]
    BY <1>2, <2>1 DEF Row
  <2>4. /\ release'[b].revision = release[b].revision /\ release'[b].confirmed = release[b].confirmed
        /\ release'[b].lock = 0 /\ release'[b].published = release[b].published
    BY <1>2, <2>1 DEF Row
  <2>. QED  BY <1>2, <2>1, <2>2, <2>3, <2>4 DEF To, Moved, b
<1>6. ASSUME Abort(o), Open(o) PROVE Moved(o, "ABORTED")
  <2>1. release' = [release EXCEPT ![b] = TakenBack(o, release[b])] /\ To(o, "ABORTED")
    BY <1>2, <1>6 DEF Abort
  <2> DEFINE row == TakenBack(o, release[b])
  <2>2. /\ row \in Row /\ row.revision = release[b].revision /\ row.confirmed = release[b].confirmed
        /\ row.lock = 0 /\ row.published \in {0, release[b].published}
        /\ promotion[o].previous # 0 => row.published = release[b].published
    <3> HIDE DEF b
    <3>. QED  BY <1>2 DEF TakenBack, Row
  <2> HIDE DEF b, row
  <2>3. release'[b] = row /\ release' \in [Builds -> Row] /\ \A c \in Builds : c # b => release'[c] = release[c]
    BY <1>2, <2>1, <2>2 DEF row
  <2>. QED  BY <1>2, <2>1, <2>2, <2>3 DEF To, Moved, b
<1>. QED  BY <1>1, <1>3, <1>4, <1>5, <1>6 DEF Statuses

\* Every operation of the service and of the command line keeps the invariant.
LEMMA DataStep == Inv /\ [NextData]_data => Inv'
<1> SUFFICES ASSUME Inv, [NextData]_data PROVE Inv'  OBVIOUS
<1> USE ReleasesAssumption
<1>1. ASSUME UNCHANGED data PROVE Inv'
  BY <1>1 DEF data, Inv, DataOK, Known, Locked, Followed, Standing, Open, Status, InForce
<1>2. ASSUME NEW b \in Builds, Edit(b) \/ Confirm(b) PROVE Inv'  BY <1>2, Edits
<1>3. ASSUME NEW b \in Builds, NEW apk \in Apks, RegisterDownload(b, apk) PROVE Inv'
  BY <1>3, Registering
<1>4. ASSUME NEW o \in Operations, Stage(o) \/ Commit(o) \/ Finish(o) \/ (Abort(o) /\ Open(o)) PROVE Inv'
  BY <1>4, Transitions, Moving
<1>5. ASSUME NEW o \in Operations, Abort(o), ~Open(o) PROVE Inv'  BY <1>1, <1>5 DEF Abort
<1>6. ASSUME NEW o \in Operations, NEW b \in Builds, NEW apk \in Apks, NEW revision \in 1..MaxRevision,
             BeginPromotion(o, b, apk, revision)
      PROVE  Inv'
  BY <1>6, Beginning
<1>. QED  BY <1>1, <1>2, <1>3, <1>4, <1>5, <1>6 DEF NextData

\* So the invariant holds, whoever calls the operations.
LEMMA Always == DataSpec => []Inv
BY Begins, DataStep, PTL DEF DataSpec

\* Every row of the releases, promotions and artifacts keeps its type, for any builds, promotions and APKs
\* (mobile-releases.service.ts, mobile-release-publication.ts).
THEOREM Typed == DataSpec => []DataOK
BY Always, PTL DEF Inv

\* In whatever order staff and promotions come, the public reads of a build what was confirmed, and its notes
\* are locked exactly as long as the promotion that pinned them is under way (mobile-release-publication.ts).
THEOREM ConfirmedIsPublic == DataSpec => []PublishedAsConfirmed
<1>1. Inv => PublishedAsConfirmed  BY DEF Inv, PublishedAsConfirmed, Locked, Standing
<1>. QED  BY <1>1, Always, PTL

\* All promotions of a build that succeeded are of one APK, however many there are and however they interleave.
THEOREM OneApk == DataSpec => []OneApkPerBuild
<1>1. Inv => OneApkPerBuild  BY DEF Inv, OneApkPerBuild, Succeeded, Followed
<1>. QED  BY <1>1, Always, PTL

\* What succeeded has succeeded.
LEMMA StaysSucceeded ==
    ASSUME Inv, [NextData]_data, NEW p \in Operations, Status(p) = "SUCCEEDED"
    PROVE  promotion'[p] = promotion[p]
<1>1. \A o \in Operations : InForce(o) => o # p  BY DEF InForce, Open
<1>2. ASSUME NEW o \in Operations, NEW status \in Statuses, Moved(o, status), InForce(o)
      PROVE  promotion'[p] = promotion[p]
  BY <1>1, <1>2 DEF Inv, DataOK, Moved
<1>3. ASSUME NEW o \in Operations, Stage(o) \/ Commit(o) \/ Finish(o) \/ (Abort(o) /\ Open(o))
      PROVE  promotion'[p] = promotion[p]
  BY <1>2, <1>3, Transitions
<1>4. ASSUME NEW o \in Operations, NEW b \in Builds, NEW apk \in Apks, NEW revision \in 1..MaxRevision,
             BeginPromotion(o, b, apk, revision)
      PROVE  promotion'[p] = promotion[p]
  BY <1>4 DEF BeginPromotion, CanBegin, Inv, DataOK
<1>5. ASSUME NEW o \in Operations, Abort(o), ~Open(o) PROVE promotion'[p] = promotion[p]
  BY <1>5 DEF Abort, data
<1>. QED  BY <1>3, <1>4, <1>5 DEF NextData, data, Edit, Confirm, RegisterDownload

\* No failure, compensation or correction takes back the notes of a build that was promoted
\* (docs/mobile-release-operations.md: what was published before is kept).
THEOREM NothingRetracted == DataSpec => NeverRetracted
<1>1. ASSUME Inv, Inv', [NextData]_data
      PROVE  [\A b \in Builds : Succeeded(b) # {} => release[b].published # 0 /\ release'[b].published # 0]_data
  <2> SUFFICES ASSUME NEW b \in Builds, NEW p \in Succeeded(b)
               PROVE  release[b].published # 0 /\ release'[b].published # 0
    OBVIOUS
  <2>1. p \in Operations /\ Status(p) = "SUCCEEDED" /\ promotion[p].build = b  BY DEF Succeeded
  <2>2. promotion'[p] = promotion[p]  BY <1>1, <2>1, StaysSucceeded
  <2>. QED  BY <1>1, <2>1, <2>2 DEF Inv, Standing, Status
<1>. QED  BY <1>1, Always, DataStep, PTL DEF DataSpec, NeverRetracted

-----------------------------------------------------------------------------
(* The script: where it stands in its plan                                 *)

\* The steps of the script, and those of its way back
Names == {"save", "register download", "take down", "register", "warm", "name", "begin", "stage", "commit",
          "publish", "flag", "switch", "restart", "record", "finish", "clear"}
Back == {"status", "old catalogue", "old policy", "old history", "old restart", "abort"}

\* What is left of a plan; in a sorted one, every step that follows another may come after it.
Rem(todo) == {todo[i] : i \in DOMAIN todo}
Sorted(todo, after) == \A i, k \in DOMAIN todo : i < k => todo[k] \in after[todo[i]]

\* What may come after a step on the way forward, where the notes become public before the switch if a download
\* gateway serves the build and after it otherwise, and on the way back
Ending(g) == IF g THEN {"finish", "clear"} ELSE {"stage", "commit", "finish", "clear"}
Switching(g) == {"flag", "switch", "restart", "record"} \union Ending(g)
Promoting == {"stage", "commit", "publish", "flag", "switch", "restart", "record", "finish", "clear"}
After(g) == [s \in Names |->
    CASE s = "save" -> Names \ {"save"}
      [] s = "register download" -> {"register", "warm", "name", "begin"} \union Promoting
      [] s = "take down" -> {"name", "begin"} \union Promoting
      [] s = "register" -> {"warm", "name", "begin"} \union Promoting
      [] s = "warm" -> {"name", "begin"} \union Promoting
      [] s = "name" -> {"begin"} \union Promoting
      [] s = "begin" -> Promoting
      [] s = "stage" -> IF g THEN {"commit", "publish"} \union Switching(g) ELSE {"commit", "finish", "clear"}
      [] s = "commit" -> IF g THEN {"publish"} \union Switching(g) ELSE {"finish", "clear"}
      [] s = "publish" -> Switching(g)
      [] s = "flag" -> {"switch", "restart", "record"} \union Ending(g)
      [] s = "switch" -> {"restart", "record"} \union Ending(g)
      [] s = "restart" -> {"record"} \union Ending(g)
      [] s = "record" -> Ending(g)
      [] s = "finish" -> {"clear"}
      [] OTHER -> {}]

Returning == Back \union {"clear"}
BackAfter == [s \in Returning |->
    CASE s = "old catalogue" -> {"old policy", "old history", "old restart", "abort", "clear"}
      [] s = "old policy" -> {"old history", "old restart", "abort", "clear"}
      [] s = "old history" -> {"old restart", "abort", "clear"}
      [] s = "old restart" -> {"abort", "clear"}
      [] s = "abort" -> {"clear"}
      [] OTHER -> {}]

\* The steps of a plan, and of the way back
Steps(r) ==
    {"save", "flag", "switch", "restart", "clear"}
    \union (IF r.mode = "promote" THEN {"name", "begin", "stage", "commit", "record", "finish"} ELSE {})
    \union (IF ~r.gateway THEN {} ELSE IF r.mode = "withdraw" THEN {"take down"}
            ELSE {"register download", "register", "warm", "publish"})

StepsBack(j, failed) ==
    (IF "catalog" \in j.files THEN {"old catalogue"} ELSE {})
    \union (IF "started" \in j.files THEN {"old policy", "old history", "old restart"} ELSE {})
    \union (IF failed THEN {} ELSE (IF "operation" \in j.files THEN {"abort"} ELSE {}) \union {"clear"})

\* Two parts one after the other
LEMMA Parts ==
    ASSUME NEW S, NEW s \in Seq(S), NEW t \in Seq(S), NEW after, Sorted(s, after), Sorted(t, after),
           \A x \in Rem(s) : Rem(t) \subseteq after[x]
    PROVE  s \o t \in Seq(S) /\ Sorted(s \o t, after) /\ Rem(s \o t) = Rem(s) \union Rem(t)
<1> DEFINE u == s \o t
<1>1. /\ u \in Seq(S) /\ DOMAIN u = 1..(Len(s) + Len(t)) /\ Len(s) \in Nat /\ Len(t) \in Nat
      /\ DOMAIN s = 1..Len(s) /\ DOMAIN t = 1..Len(t)
      /\ \A i \in 1..Len(s) : u[i] = s[i]
      /\ \A i \in 1..Len(t) : u[Len(s) + i] = t[i]
      /\ \A i \in DOMAIN u : i \notin 1..Len(s) => i - Len(s) \in 1..Len(t) /\ u[i] = t[i - Len(s)]
  OBVIOUS
<1> HIDE DEF u
<1>2. Rem(u) = Rem(s) \union Rem(t)
  <2>1. ASSUME NEW x \in Rem(s) \union Rem(t) PROVE x \in Rem(u)
    <3>1. CASE x \in Rem(s)  BY <1>1, <3>1 DEF Rem
    <3>2. CASE x \in Rem(t)
      <4>1. PICK i \in 1..Len(t) : x = t[i]  BY <1>1, <3>2 DEF Rem
      <4>2. Len(s) + i \in DOMAIN u  BY <1>1
      <4>. QED  BY <1>1, <4>1, <4>2 DEF Rem
    <3>. QED  BY <2>1, <3>1, <3>2
  <2>2. Rem(u) \subseteq Rem(s) \union Rem(t)  BY <1>1 DEF Rem
  <2>. QED  BY <2>1, <2>2
<1>3. Sorted(u, after)
  <2> SUFFICES ASSUME NEW i \in DOMAIN u, NEW k \in DOMAIN u, i < k
               PROVE  u[k] \in after[u[i]]
    BY DEF Sorted
  <2>1. CASE k \in 1..Len(s)
    <3>1. i \in 1..Len(s)  BY <1>1, <2>1
    <3>. QED  BY <1>1, <2>1, <3>1 DEF Sorted
  <2>2. CASE i \in 1..Len(s) /\ k \notin 1..Len(s)
    <3>1. u[i] \in Rem(s) /\ u[k] \in Rem(t)  BY <1>1, <2>2 DEF Rem
    <3>. QED  BY <3>1
  <2>3. CASE i \notin 1..Len(s) /\ k \notin 1..Len(s)
    <3>1. i - Len(s) < k - Len(s)  BY <1>1
    <3>. QED  BY <1>1, <2>3, <3>1 DEF Sorted
  <2>. QED  BY <2>1, <2>2, <2>3
<1>. QED  BY <1>1, <1>2, <1>3 DEF u

\* Parts of up to three steps
LEMMA Few ==
    ASSUME NEW S, NEW x \in S, NEW y \in S, NEW after
    PROVE  /\ <<>> \in Seq(S) /\ Rem(<<>>) = {} /\ Sorted(<<>>, after)
           /\ <<x>> \in Seq(S) /\ Rem(<<x>>) = {x} /\ Sorted(<<x>>, after)
           /\ <<x, y>> \in Seq(S) /\ Rem(<<x, y>>) = {x, y} /\ (y \in after[x] => Sorted(<<x, y>>, after))
<1>1. DOMAIN <<>> = {} /\ DOMAIN <<x>> = {1} /\ DOMAIN <<x, y>> = {1, 2}
  OBVIOUS
<1>2. Rem(<<>>) = {} /\ Rem(<<x>>) = {x} /\ Rem(<<x, y>>) = {x, y}  BY <1>1 DEF Rem
<1>4. Sorted(<<>>, after) /\ Sorted(<<x>>, after)  BY <1>1 DEF Sorted
<1>5. y \in after[x] => Sorted(<<x, y>>, after)  BY <1>1 DEF Sorted
<1>6. <<>> \in Seq(S) /\ <<x>> \in Seq(S) /\ <<x, y>> \in Seq(S)  OBVIOUS
<1>. QED  BY <1>2, <1>4, <1>5, <1>6

\* A plan of three steps, each of which may follow those before it, is sorted.
LEMMA Three ==
    ASSUME NEW S, NEW x \in S, NEW y \in S, NEW z \in S, NEW after,
           y \in after[x], z \in after[x], z \in after[y]
    PROVE  <<x, y, z>> \in Seq(S) /\ Rem(<<x, y, z>>) = {x, y, z} /\ Sorted(<<x, y, z>>, after)
<1>1. DOMAIN <<x, y, z>> = {1, 2, 3} /\ <<x, y, z>> \in Seq(S)  OBVIOUS
<1>2. Rem(<<x, y, z>>) = {x, y, z}  BY <1>1 DEF Rem
<1>3. Sorted(<<x, y, z>>, after)  BY <1>1 DEF Sorted
<1>. QED  BY <1>1, <1>2, <1>3

\* The step that is taken off comes before those that are left.
LEMMA Taken ==
    ASSUME NEW S, NEW todo \in Seq(S), todo # <<>>, NEW after, Sorted(todo, after)
    PROVE  /\ Tail(todo) \in Seq(S) /\ Sorted(Tail(todo), after)
           /\ Rem(todo) = Rem(Tail(todo)) \union {Head(todo)}
           /\ Rem(Tail(todo)) \subseteq after[Head(todo)]
<1>1. /\ Len(todo) \in Nat \ {0} /\ DOMAIN todo = 1..Len(todo) /\ Head(todo) = todo[1]
      /\ DOMAIN Tail(todo) = 1..(Len(todo) - 1) /\ Tail(todo) \in Seq(S)
      /\ \A i \in 1..(Len(todo) - 1) : Tail(todo)[i] = todo[i + 1]
  OBVIOUS
<1>2. \A i \in 1..(Len(todo) - 1) : i + 1 \in DOMAIN todo /\ 1 < i + 1  BY <1>1
<1>3. 1 \in DOMAIN todo /\ \A i \in DOMAIN todo \ {1} : i - 1 \in 1..(Len(todo) - 1) /\ Tail(todo)[i - 1] = todo[i]
  BY <1>1
<1>4. Sorted(Tail(todo), after)
  <2> SUFFICES ASSUME NEW i \in 1..(Len(todo) - 1), NEW k \in 1..(Len(todo) - 1), i < k
               PROVE  Tail(todo)[k] \in after[Tail(todo)[i]]
    BY <1>1 DEF Sorted
  <2>1. i + 1 < k + 1 /\ i + 1 \in DOMAIN todo /\ k + 1 \in DOMAIN todo  BY <1>2
  <2>. QED  BY <1>1, <2>1 DEF Sorted
<1>5. \A x \in Rem(Tail(todo)) : x \in after[Head(todo)]  BY <1>1, <1>2, <1>3 DEF Rem, Sorted
<1>6. Rem(Tail(todo)) \union {Head(todo)} \subseteq Rem(todo)  BY <1>1, <1>2, <1>3 DEF Rem
<1>7. Rem(todo) \subseteq Rem(Tail(todo)) \union {Head(todo)}
  <2> SUFFICES ASSUME NEW i \in DOMAIN todo PROVE todo[i] \in Rem(Tail(todo)) \union {Head(todo)}
    BY DEF Rem
  <2>1. CASE i = 1  BY <1>1, <2>1
  <2>2. CASE i # 1
    <3>1. i - 1 \in DOMAIN Tail(todo) /\ Tail(todo)[i - 1] = todo[i]  BY <1>1, <1>3, <2>2
    <3>. QED  BY <3>1 DEF Rem
  <2>. QED  BY <2>1, <2>2
<1>. QED  BY <1>1, <1>4, <1>5, <1>6, <1>7

\* When nothing is left, the plan is empty.
LEMMA Nothing == ASSUME NEW S, NEW todo \in Seq(S) PROVE Rem(todo) = {} <=> todo = <<>>
<1>1. DOMAIN todo = 1..Len(todo) /\ Len(todo) \in Nat /\ (todo = <<>> <=> Len(todo) = 0)  OBVIOUS
<1>2. Len(todo) # 0 => 1 \in DOMAIN todo  BY <1>1
<1>3. Len(todo) = 0 => DOMAIN todo = {}  BY <1>1
<1>. QED  BY <1>1, <1>2, <1>3 DEF Rem

\* What may come after each step on the way forward
LEMMA AfterIs ==
    ASSUME NEW g \in BOOLEAN
    PROVE  LET f == After(g) IN
           /\ f["save"] = Names \ {"save"}
           /\ f["register download"] = {"register", "warm", "name", "begin"} \union Promoting
           /\ f["take down"] = {"name", "begin"} \union Promoting
           /\ f["register"] = {"warm", "name", "begin"} \union Promoting
           /\ f["warm"] = {"name", "begin"} \union Promoting
           /\ f["name"] = {"begin"} \union Promoting /\ f["begin"] = Promoting
           /\ f["stage"] = IF g THEN {"commit", "publish"} \union Switching(g) ELSE {"commit", "finish", "clear"}
           /\ f["commit"] = IF g THEN {"publish"} \union Switching(g) ELSE {"finish", "clear"}
           /\ f["publish"] = Switching(g)
           /\ f["flag"] = {"switch", "restart", "record"} \union Ending(g)
           /\ f["switch"] = {"restart", "record"} \union Ending(g)
           /\ f["restart"] = {"record"} \union Ending(g)
           /\ f["record"] = Ending(g) /\ f["finish"] = {"clear"} /\ f["clear"] = {}
<1> DEFINE f == After(g)
<1>1. /\ f["save"] = Names \ {"save"}
      /\ f["register download"] = {"register", "warm", "name", "begin"} \union Promoting
      /\ f["take down"] = {"name", "begin"} \union Promoting
      /\ f["register"] = {"warm", "name", "begin"} \union Promoting
  BY DEF After, Names
<1>2. /\ f["warm"] = {"name", "begin"} \union Promoting
      /\ f["name"] = {"begin"} \union Promoting /\ f["begin"] = Promoting
  BY DEF After, Names
<1>3. /\ f["stage"] = IF g THEN {"commit", "publish"} \union Switching(g) ELSE {"commit", "finish", "clear"}
      /\ f["commit"] = IF g THEN {"publish"} \union Switching(g) ELSE {"finish", "clear"}
      /\ f["publish"] = Switching(g)
  BY DEF After, Names
<1>4. /\ f["flag"] = {"switch", "restart", "record"} \union Ending(g)
      /\ f["switch"] = {"restart", "record"} \union Ending(g)
      /\ f["restart"] = {"record"} \union Ending(g)
      /\ f["record"] = Ending(g) /\ f["finish"] = {"clear"} /\ f["clear"] = {}
  BY DEF After, Names
<1>. QED  BY <1>1, <1>2, <1>3, <1>4

\* What may come after each step on the way back
LEMMA BackAfterIs ==
    LET f == BackAfter IN
    /\ f["status"] = {} /\ f["old catalogue"] = {"old policy", "old history", "old restart", "abort", "clear"}
    /\ f["old policy"] = {"old history", "old restart", "abort", "clear"}
    /\ f["old history"] = {"old restart", "abort", "clear"}
    /\ f["old restart"] = {"abort", "clear"} /\ f["abort"] = {"clear"} /\ f["clear"] = {}
BY DEF BackAfter, Returning, Back

\* The plan is sorted and has the steps it should have.
LEMMA PlanIs ==
    ASSUME NEW r, r.mode = "promote" \/ r.mode = "withdraw", r.gateway \in BOOLEAN
    PROVE  Plan(r) \in Seq(Names) /\ Rem(Plan(r)) = Steps(r) /\ Sorted(Plan(r), After(r.gateway))
<1> DEFINE after == After(r.gateway)
           a == <<"save">>
           b == IF ~r.gateway THEN <<>> ELSE IF r.mode = "withdraw" THEN <<"take down">>
                ELSE <<"register download", "register", "warm">>
           c == IF r.mode = "promote" THEN <<"name", "begin">> ELSE <<>>
           d == IF r.mode = "promote" /\ r.gateway THEN Public \o <<"publish">> ELSE <<>>
           e == <<"flag", "switch", "restart">>
           f == IF r.mode = "promote" THEN <<"record">> ELSE <<>>
           g == IF r.mode = "promote" /\ ~r.gateway THEN Public ELSE <<>>
           h == IF r.mode = "promote" THEN <<"finish">> ELSE <<>>
           k == <<"clear">>
<1>1. /\ after["save"] = Names \ {"save"}
      /\ after["register download"] = {"register", "warm", "name", "begin"} \union Promoting
      /\ after["take down"] = {"name", "begin"} \union Promoting
      /\ after["register"] = {"warm", "name", "begin"} \union Promoting
      /\ after["warm"] = {"name", "begin"} \union Promoting
      /\ after["name"] = {"begin"} \union Promoting /\ after["begin"] = Promoting
      /\ after["publish"] = Switching(r.gateway)
      /\ after["flag"] = {"switch", "restart", "record"} \union Ending(r.gateway)
      /\ after["switch"] = {"restart", "record"} \union Ending(r.gateway)
      /\ after["restart"] = {"record"} \union Ending(r.gateway)
      /\ after["record"] = Ending(r.gateway) /\ after["finish"] = {"clear"}
      /\ r.gateway => /\ after["stage"] = {"commit", "publish"} \union Switching(r.gateway)
                      /\ after["commit"] = {"publish"} \union Switching(r.gateway)
      /\ ~r.gateway => after["stage"] = {"commit", "finish", "clear"} /\ after["commit"] = {"finish", "clear"}
  BY AfterIs
<1>2. /\ "save" \in Names /\ "take down" \in Names /\ "register download" \in Names /\ "register" \in Names
      /\ "warm" \in Names /\ "name" \in Names /\ "begin" \in Names /\ "stage" \in Names /\ "commit" \in Names
      /\ "publish" \in Names /\ "flag" \in Names /\ "switch" \in Names /\ "restart" \in Names
      /\ "record" \in Names /\ "finish" \in Names /\ "clear" \in Names
  BY DEF Names
<1>s. /\ \A g0 \in BOOLEAN : {"finish", "clear"} \subseteq Ending(g0) /\ Switching(g0) = {"flag", "switch", "restart", "record"} \union Ending(g0)
      /\ Ending(TRUE) = {"finish", "clear"} /\ Ending(FALSE) = {"stage", "commit", "finish", "clear"}
      /\ Promoting = {"stage", "commit", "publish", "flag", "switch", "restart", "record", "finish", "clear"}
  BY DEF Ending, Switching, Promoting
<1> HIDE DEF after
<1>0. <<>> \in Seq(Names) /\ Sorted(<<>>, after) /\ Rem(<<>>) = {}  BY <1>2, Few
<1>3. a \in Seq(Names) /\ Rem(a) = {"save"} /\ Sorted(a, after)  BY <1>2, Few
<1>4. /\ b \in Seq(Names) /\ Sorted(b, after)
      /\ Rem(b) = IF ~r.gateway THEN {} ELSE IF r.mode = "withdraw" THEN {"take down"}
                  ELSE {"register download", "register", "warm"}
  <2>1. <<"take down">> \in Seq(Names) /\ Sorted(<<"take down">>, after) /\ Rem(<<"take down">>) = {"take down"}
    BY <1>2, Few
  <2>2. /\ "register" \in after["register download"] /\ "warm" \in after["register download"]
        /\ "warm" \in after["register"]
    BY <1>1
  <2>3. /\ <<"register download", "register", "warm">> \in Seq(Names)
        /\ Sorted(<<"register download", "register", "warm">>, after)
        /\ Rem(<<"register download", "register", "warm">>) = {"register download", "register", "warm"}
    <3>1. "register download" \in Names /\ "register" \in Names /\ "warm" \in Names  BY <1>2
    <3>. QED  BY <2>2, <3>1, Three
  <2>. QED  BY <1>0, <2>1, <2>3
<1>5. c \in Seq(Names) /\ Sorted(c, after) /\ Rem(c) = IF r.mode = "promote" THEN {"name", "begin"} ELSE {}
  <2>1. "begin" \in after["name"]  BY <1>1
  <2>2. /\ <<"name", "begin">> \in Seq(Names) /\ Sorted(<<"name", "begin">>, after)
        /\ Rem(<<"name", "begin">>) = {"name", "begin"}
    BY <1>2, <2>1, Few
  <2>. QED  BY <1>0, <2>2
<1>p. Public \in Seq(Names) /\ Sorted(Public, after) /\ Rem(Public) = {"stage", "commit"}
  <2>1. "commit" \in after["stage"]  BY <1>1
  <2>. QED  BY <1>2, <2>1, Few DEF Public
<1>6. d \in Seq(Names) /\ Sorted(d, after)
      /\ Rem(d) = IF r.mode = "promote" /\ r.gateway THEN {"stage", "commit", "publish"} ELSE {}
  <2>1. <<"publish">> \in Seq(Names) /\ Sorted(<<"publish">>, after) /\ Rem(<<"publish">>) = {"publish"}
    BY <1>2, Few
  <2>2. r.gateway => \A x \in Rem(Public) : Rem(<<"publish">>) \subseteq after[x]
    BY <1>1, <1>p, <2>1
  <2>3. r.gateway => /\ Public \o <<"publish">> \in Seq(Names) /\ Sorted(Public \o <<"publish">>, after)
                     /\ Rem(Public \o <<"publish">>) = {"stage", "commit"} \union {"publish"}
    <3>1. Public \in Seq(Names) /\ Sorted(Public, after)  BY <1>p
    <3>2. <<"publish">> \in Seq(Names) /\ Sorted(<<"publish">>, after)  BY <2>1
    <3>3. r.gateway => /\ Public \o <<"publish">> \in Seq(Names) /\ Sorted(Public \o <<"publish">>, after)
                       /\ Rem(Public \o <<"publish">>) = Rem(Public) \union Rem(<<"publish">>)
      BY <2>2, <3>1, <3>2, Parts
    <3>. QED  BY <1>p, <2>1, <3>3
  <2>. QED  BY <1>0, <2>3
<1>7. e \in Seq(Names) /\ Sorted(e, after) /\ Rem(e) = {"flag", "switch", "restart"}
  <2>1. "switch" \in after["flag"] /\ "restart" \in after["flag"] /\ "restart" \in after["switch"]  BY <1>1
  <2>2. "flag" \in Names /\ "switch" \in Names /\ "restart" \in Names  BY <1>2
  <2>. QED  BY <2>1, <2>2, Three
<1>8. f \in Seq(Names) /\ Sorted(f, after) /\ Rem(f) = IF r.mode = "promote" THEN {"record"} ELSE {}
  <2>1. <<"record">> \in Seq(Names) /\ Sorted(<<"record">>, after) /\ Rem(<<"record">>) = {"record"}
    BY <1>2, Few
  <2>. QED  BY <1>0, <2>1
<1>9. g \in Seq(Names) /\ Sorted(g, after) /\ Rem(g) = IF r.mode = "promote" /\ ~r.gateway THEN {"stage", "commit"} ELSE {}
  BY <1>0, <1>p
<1>10. h \in Seq(Names) /\ Sorted(h, after) /\ Rem(h) = IF r.mode = "promote" THEN {"finish"} ELSE {}
  <2>1. <<"finish">> \in Seq(Names) /\ Sorted(<<"finish">>, after) /\ Rem(<<"finish">>) = {"finish"}
    BY <1>2, Few
  <2>. QED  BY <1>0, <2>1
<1>11. k \in Seq(Names) /\ Sorted(k, after) /\ Rem(k) = {"clear"}  BY <1>2, Few
<1>12. Plan(r) = a \o b \o c \o d \o e \o f \o g \o h \o k  BY Zenon DEF Plan
<1> HIDE DEF a, b, c, d, e, f, g, h, k
<1> DEFINE ab == a \o b
           abc == ab \o c
           abcd == abc \o d
           abcde == abcd \o e
           f2 == abcde \o f
           g2 == f2 \o g
           h2 == g2 \o h
<1> DEFINE B == {"register download", "take down", "register", "warm"}
           U == {"save", "register download", "take down", "register", "warm", "name", "begin"}
           E == {"flag", "switch", "restart", "record"}
<1>u. /\ Rem(a) = {"save"} /\ Rem(b) \subseteq B /\ Rem(c) \subseteq {"name", "begin"}
      /\ Rem(d) \subseteq {"stage", "commit", "publish"} /\ (~r.gateway => Rem(d) = {})
      /\ Rem(e) = {"flag", "switch", "restart"} /\ Rem(f) \subseteq {"record"}
      /\ Rem(g) \subseteq {"stage", "commit"} /\ (r.gateway => Rem(g) = {})
      /\ Rem(h) \subseteq {"finish"} /\ Rem(k) = {"clear"}
  BY <1>3, <1>4, <1>5, <1>6, <1>7, <1>8, <1>9, <1>10, <1>11
<1>v. /\ a \in Seq(Names) /\ b \in Seq(Names) /\ c \in Seq(Names) /\ d \in Seq(Names) /\ e \in Seq(Names)
      /\ f \in Seq(Names) /\ g \in Seq(Names) /\ h \in Seq(Names) /\ k \in Seq(Names)
      /\ Sorted(a, after) /\ Sorted(b, after) /\ Sorted(c, after) /\ Sorted(d, after) /\ Sorted(e, after)
      /\ Sorted(f, after) /\ Sorted(g, after) /\ Sorted(h, after) /\ Sorted(k, after)
  BY <1>3, <1>4, <1>5, <1>6, <1>7, <1>8, <1>9, <1>10, <1>11
<1>w. /\ B \subseteq after["save"] /\ {"name", "begin"} \union Promoting \subseteq after["save"]
      /\ \A x \in B : {"name", "begin"} \union Promoting \subseteq after[x]
      /\ \A x \in U : Promoting \subseteq after[x]
  <2>1. B \subseteq after["save"] /\ {"name", "begin"} \union Promoting \subseteq after["save"]
    BY <1>1, <1>s DEF Names
  <2>2. \A x \in B : {"name", "begin"} \union Promoting \subseteq after[x]  BY <1>1
  <2>3. Promoting \subseteq after["name"] /\ Promoting \subseteq after["begin"]  BY <1>1
  <2>. QED  BY <2>1, <2>2, <2>3
<1>x. /\ r.gateway => \A x \in {"stage", "commit", "publish"} : E \union {"finish", "clear"} \subseteq after[x]
      /\ \A x \in {"flag", "switch", "restart"} : {"record", "finish", "clear"} \subseteq after[x]
      /\ ~r.gateway => \A x \in E : {"stage", "commit"} \subseteq after[x]
      /\ {"finish", "clear"} \subseteq after["record"] /\ "clear" \in after["finish"]
      /\ ~r.gateway => \A x \in {"stage", "commit"} : {"finish", "clear"} \subseteq after[x]
  <2>1. {"finish", "clear"} \subseteq Ending(r.gateway) /\ Switching(r.gateway) = E \union Ending(r.gateway)
    BY <1>s
  <2>2. ~r.gateway => {"stage", "commit"} \subseteq Ending(r.gateway)  BY <1>s
  <2>3. r.gateway => \A x \in {"stage", "commit", "publish"} : E \union {"finish", "clear"} \subseteq after[x]
    <3>1. /\ "publish" \notin {"stage", "commit"}
          /\ r.gateway => E \union Ending(r.gateway) \subseteq after["stage"]
          /\ r.gateway => E \union Ending(r.gateway) \subseteq after["commit"]
          /\ E \union Ending(r.gateway) \subseteq after["publish"]
      BY <1>1, <2>1
    <3>. QED  BY <2>1, <3>1
  <2>4. \A x \in {"flag", "switch", "restart"} : {"record", "finish", "clear"} \subseteq after[x]
    <3>1. \A x \in {"flag", "switch", "restart"} : {"record"} \union Ending(r.gateway) \subseteq after[x]  BY <1>1
    <3>. QED  BY <2>1, <3>1
  <2>5. ~r.gateway => \A x \in E : {"stage", "commit"} \subseteq after[x]  BY <1>1, <2>2
  <2>6. {"finish", "clear"} \subseteq after["record"] /\ "clear" \in after["finish"]  BY <1>1, <2>1
  <2>7. ~r.gateway => \A x \in {"stage", "commit"} : {"finish", "clear"} \subseteq after[x]  BY <1>1
  <2>. QED  BY <2>3, <2>4, <2>5, <2>6, <2>7
<1> HIDE DEF B, U, E
<1>y. /\ B = {"register download", "take down", "register", "warm"}
      /\ U = {"save", "register download", "take down", "register", "warm", "name", "begin"}
      /\ E = {"flag", "switch", "restart", "record"}
  BY DEF B, U, E
<1>21. ab \in Seq(Names) /\ Sorted(ab, after) /\ Rem(ab) = Rem(a) \union Rem(b)
  <2>1. \A x \in Rem(a) : Rem(b) \subseteq after[x]  BY <1>u, <1>w
  <2>. QED  BY <1>v, <2>1, Parts
<1> HIDE DEF ab
<1>22. abc \in Seq(Names) /\ Sorted(abc, after) /\ Rem(abc) = Rem(ab) \union Rem(c)
  <2>1. \A x \in Rem(ab) : Rem(c) \subseteq after[x]  BY <1>u, <1>w, <1>21
  <2>. QED  BY <1>v, <1>21, <2>1, Parts
<1> HIDE DEF abc
<1>a. Rem(abc) \subseteq U  BY <1>u, <1>y, <1>21, <1>22
<1>23. abcd \in Seq(Names) /\ Sorted(abcd, after) /\ Rem(abcd) = Rem(abc) \union Rem(d)
  <2>1. \A x \in Rem(abc) : Rem(d) \subseteq after[x]  BY <1>u, <1>w, <1>s, <1>a
  <2>. QED  BY <1>v, <1>22, <2>1, Parts
<1> HIDE DEF abcd
<1>24. abcde \in Seq(Names) /\ Sorted(abcde, after) /\ Rem(abcde) = Rem(abcd) \union Rem(e)
  <2>1. \A x \in Rem(abc) : Rem(e) \subseteq after[x]  BY <1>u, <1>w, <1>s, <1>a
  <2>2. \A x \in Rem(d) : Rem(e) \subseteq after[x]  BY <1>u, <1>x, <1>y
  <2>3. \A x \in Rem(abcd) : Rem(e) \subseteq after[x]  BY <2>1, <2>2, <1>23
  <2>. QED  BY <1>v, <1>23, <2>3, Parts
<1> HIDE DEF abcde
<1>r. Rem(abcde) = {"save"} \union Rem(b) \union Rem(c) \union Rem(d) \union {"flag", "switch", "restart"}
  BY <1>u, <1>21, <1>22, <1>23, <1>24
<1>q. Rem(abcde) = Rem(abc) \union Rem(d) \union Rem(e)  BY <1>23, <1>24
<1>25. f2 \in Seq(Names) /\ Sorted(f2, after) /\ Rem(f2) = Rem(abcde) \union Rem(f)
  <2>1. \A x \in Rem(abc) : Rem(f) \subseteq after[x]  BY <1>u, <1>w, <1>s, <1>a
  <2>2. \A x \in Rem(d) : Rem(f) \subseteq after[x]  BY <1>u, <1>x, <1>y
  <2>3. \A x \in Rem(e) : Rem(f) \subseteq after[x]  BY <1>u, <1>x
  <2>4. \A x \in Rem(abcde) : Rem(f) \subseteq after[x]  BY <2>1, <2>2, <2>3, <1>q
  <2>. QED  BY <1>v, <1>24, <2>4, Parts
<1> HIDE DEF f2
<1>26. g2 \in Seq(Names) /\ Sorted(g2, after) /\ Rem(g2) = Rem(f2) \union Rem(g)
  <2>1. \A x \in Rem(abc) : Rem(g) \subseteq after[x]  BY <1>u, <1>w, <1>s, <1>a
  <2>2. \A x \in Rem(d) : Rem(g) \subseteq after[x]  BY <1>u
  <2>3. \A x \in Rem(e) \union Rem(f) : Rem(g) \subseteq after[x]  BY <1>u, <1>x, <1>y
  <2>4. \A x \in Rem(f2) : Rem(g) \subseteq after[x]  BY <2>1, <2>2, <2>3, <1>q, <1>25
  <2>. QED  BY <1>v, <1>25, <2>4, Parts
<1> HIDE DEF g2
<1>27. h2 \in Seq(Names) /\ Sorted(h2, after) /\ Rem(h2) = Rem(g2) \union Rem(h)
  <2>1. \A x \in Rem(abc) : Rem(h) \subseteq after[x]  BY <1>u, <1>w, <1>s, <1>a
  <2>2. \A x \in Rem(d) \union Rem(g) : Rem(h) \subseteq after[x]  BY <1>u, <1>x
  <2>3. \A x \in Rem(e) \union Rem(f) : Rem(h) \subseteq after[x]  BY <1>u, <1>x
  <2>4. \A x \in Rem(g2) : Rem(h) \subseteq after[x]  BY <2>1, <2>2, <2>3, <1>q, <1>25, <1>26
  <2>. QED  BY <1>v, <1>26, <2>4, Parts
<1> HIDE DEF h2
<1>28. h2 \o k \in Seq(Names) /\ Sorted(h2 \o k, after) /\ Rem(h2 \o k) = Rem(h2) \union Rem(k)
  <2>1. \A x \in Rem(abc) : Rem(k) \subseteq after[x]  BY <1>u, <1>w, <1>s, <1>a
  <2>2. \A x \in Rem(d) \union Rem(g) : Rem(k) \subseteq after[x]  BY <1>u, <1>x
  <2>3. \A x \in Rem(e) \union Rem(f) \union Rem(h) : Rem(k) \subseteq after[x]  BY <1>u, <1>x
  <2>4. \A x \in Rem(h2) : Rem(k) \subseteq after[x]  BY <2>1, <2>2, <2>3, <1>q, <1>25, <1>26, <1>27
  <2>. QED  BY <1>v, <1>27, <2>4, Parts
<1>29. Plan(r) = h2 \o k  BY <1>12 DEF ab, abc, abcd, abcde, f2, g2, h2
<1>30. Rem(Plan(r)) = Steps(r)
  <2>1. Rem(h2 \o k) = Rem(abcde) \union Rem(f) \union Rem(g) \union Rem(h) \union {"clear"}
    BY <1>11, <1>25, <1>26, <1>27, <1>28
  <2>. QED  BY <1>r, <1>4, <1>5, <1>6, <1>8, <1>9, <1>10, <1>29, <2>1 DEF Steps
<1>. QED  BY <1>28, <1>29, <1>30 DEF after

\* And so is the way back.
LEMMA UndoIs ==
    ASSUME NEW j, NEW failed \in BOOLEAN
    PROVE  /\ Undo(j, failed) \in Seq(Returning) /\ Rem(Undo(j, failed)) = StepsBack(j, failed)
           /\ Sorted(Undo(j, failed), BackAfter)
<1> DEFINE a == IF "catalog" \in j.files THEN <<"old catalogue">> ELSE <<>>
           b == IF "started" \in j.files THEN <<"old policy", "old history", "old restart">> ELSE <<>>
           c == IF "operation" \in j.files THEN <<"abort">> ELSE <<>>
           d == IF failed THEN <<>> ELSE c \o <<"clear">>
           after == BackAfter
<1>1. /\ after["old catalogue"] = {"old policy", "old history", "old restart", "abort", "clear"}
      /\ after["old policy"] = {"old history", "old restart", "abort", "clear"}
      /\ after["old history"] = {"old restart", "abort", "clear"}
      /\ after["old restart"] = {"abort", "clear"} /\ after["abort"] = {"clear"}
  BY BackAfterIs
<1>2. /\ "old catalogue" \in Returning /\ "old policy" \in Returning /\ "old history" \in Returning /\ "old restart" \in Returning
      /\ "abort" \in Returning /\ "clear" \in Returning
  BY DEF Returning, Back
<1> HIDE DEF after
<1>0. <<>> \in Seq(Returning) /\ Sorted(<<>>, after) /\ Rem(<<>>) = {}  BY <1>2, Few
<1>3. a \in Seq(Returning) /\ Sorted(a, after) /\ Rem(a) = IF "catalog" \in j.files THEN {"old catalogue"} ELSE {}
  <2>1. /\ <<"old catalogue">> \in Seq(Returning) /\ Sorted(<<"old catalogue">>, after)
        /\ Rem(<<"old catalogue">>) = {"old catalogue"}
    BY <1>2, Few
  <2>. QED  BY <1>0, <2>1
<1>4. /\ b \in Seq(Returning) /\ Sorted(b, after)
      /\ Rem(b) = IF "started" \in j.files THEN {"old policy", "old history", "old restart"} ELSE {}
  <2>1. /\ "old history" \in after["old policy"] /\ "old restart" \in after["old policy"]
        /\ "old restart" \in after["old history"]
    BY <1>1
  <2>2. /\ <<"old policy", "old history", "old restart">> \in Seq(Returning)
        /\ Sorted(<<"old policy", "old history", "old restart">>, after)
        /\ Rem(<<"old policy", "old history", "old restart">>) = {"old policy", "old history", "old restart"}
    BY <1>2, <2>1, Three
  <2>. QED  BY <1>0, <2>2
<1>5. c \in Seq(Returning) /\ Sorted(c, after) /\ Rem(c) = IF "operation" \in j.files THEN {"abort"} ELSE {}
  <2>1. <<"abort">> \in Seq(Returning) /\ Sorted(<<"abort">>, after) /\ Rem(<<"abort">>) = {"abort"}
    BY <1>2, Few
  <2>. QED  BY <1>0, <2>1
<1>6. <<"clear">> \in Seq(Returning) /\ Sorted(<<"clear">>, after) /\ Rem(<<"clear">>) = {"clear"}
  BY <1>2, Few
<1>7. /\ d \in Seq(Returning) /\ Sorted(d, after)
      /\ Rem(d) = IF failed THEN {} ELSE (IF "operation" \in j.files THEN {"abort"} ELSE {}) \union {"clear"}
  <2> HIDE DEF c
  <2>1. \A x \in Rem(c) : Rem(<<"clear">>) \subseteq after[x]  BY <1>1, <1>5, <1>6
  <2>2. c \o <<"clear">> \in Seq(Returning) /\ Sorted(c \o <<"clear">>, after) /\ Rem(c \o <<"clear">>) = Rem(c) \union {"clear"}
    <3>1. c \in Seq(Returning) /\ Sorted(c, after)  BY <1>5
    <3>2. /\ c \o <<"clear">> \in Seq(Returning) /\ Sorted(c \o <<"clear">>, after)
          /\ Rem(c \o <<"clear">>) = Rem(c) \union Rem(<<"clear">>)
      BY <1>6, <2>1, <3>1, Parts
    <3>. QED  BY <1>6, <3>2
  <2>. QED  BY <1>0, <1>5, <2>2
<1>8. Undo(j, failed) = a \o b \o d  BY Zenon DEF Undo
<1> HIDE DEF a, b, c, d
<1> DEFINE ab == a \o b
<1>9. ab \in Seq(Returning) /\ Sorted(ab, after) /\ Rem(ab) = Rem(a) \union Rem(b)
  <2>1. \A x \in Rem(a) : Rem(b) \subseteq after[x]  BY <1>1, <1>3, <1>4
  <2>2. a \in Seq(Returning) /\ Sorted(a, after) /\ b \in Seq(Returning) /\ Sorted(b, after)  BY <1>3, <1>4
  <2>. QED  BY <2>1, <2>2, Parts
<1> HIDE DEF ab
<1>10. ab \o d \in Seq(Returning) /\ Sorted(ab \o d, after) /\ Rem(ab \o d) = Rem(ab) \union Rem(d)
  <2>1. \A x \in Rem(ab) : Rem(d) \subseteq after[x]  BY <1>1, <1>3, <1>4, <1>7, <1>9
  <2>. QED  BY <1>7, <1>9, <2>1, Parts
<1>11. Undo(j, failed) = ab \o d  BY <1>8 DEF ab
<1>. QED  BY <1>3, <1>4, <1>7, <1>9, <1>10, <1>11 DEF StepsBack, after

-----------------------------------------------------------------------------
(* The types, and what is left of the script's plan                        *)

\* What the script, the policy, the catalogue and the journal range over
Phases == {"idle", "main", "recover", "compensate"}
Policies == [build : Builds \union {0}, gateway : BOOLEAN]
Catalogs == [state : {"no_release", "available", "paused", "withdrawn"}, recommended : Builds \union {0},
             entry : [Builds -> [apk : Apks \union {None}, at : Operations \union {0}]]]
Journals == [dir : BOOLEAN, files : SUBSET {"env", "history", "catalog", "operation", "started"},
             env : Policies, catalog : Catalogs, history : SUBSET (Builds \X Apks), id : Operations \union {0}]
Asked == [mode : {"none", "recover", "withdraw", "promote"}, build : Builds \union {0}, gateway : BOOLEAN,
          apk : Apks \union {None}, revision : Nat, id : Operations \union {0}]
Scripts == [phase : Phases, todo : Seq(Names \union Back), req : Asked]

\* A promotion has a build, an APK, a revision and a promotion to begin.
Requested(r) ==
    /\ r \in Asked
    /\ r.mode = "promote" => /\ r.build \in Builds /\ r.apk \in Apks
                             /\ r.revision \in 1..MaxRevision /\ r.id \in Operations

\* Every variable of the release has its type.
Shaped ==
    /\ script \in Scripts /\ Requested(script.req) /\ journal \in Journals
    /\ policy \in Policies /\ meta \in Policies /\ history \in SUBSET (Builds \X Apks)
    /\ catalog \in Catalogs /\ (desk # None => desk \in Catalogs) /\ load \in Loads

\* What remains of a plan is sorted and has steps of that plan only; the way back aborts only what the journal
\* names, and neither the switch nor the restored policy is left without the restart that follows it.
Planned(phase, todo, r, id) ==
    /\ phase = "idle" => todo = <<>>
    /\ phase = "main" => /\ r.mode \in {"promote", "withdraw"}
                         /\ Rem(todo) \subseteq Steps(r) /\ Sorted(todo, After(r.gateway))
                         /\ "switch" \in Rem(todo) => "restart" \in Rem(todo)
    /\ phase \in {"recover", "compensate"} =>
         /\ Rem(todo) \subseteq Returning /\ Sorted(todo, BackAfter)
         /\ "old policy" \in Rem(todo) => "old restart" \in Rem(todo)
         /\ "abort" \in Rem(todo) => id \in Operations

\* The script is in its plan.
Follows == Shaped /\ Planned(script.phase, script.todo, script.req, journal.id)

\* The script goes on with what is planned, or rests.
LEMMA Led ==
    ASSUME Shaped, NEW phase \in Phases, NEW todo \in Seq(Names \union Back), NEW id,
           Planned(phase, todo, script.req, id), Leads(phase, todo)
    PROVE  /\ script' \in Scripts /\ Requested(script'.req)
           /\ Planned(script'.phase, script'.todo, script'.req, id)
           /\ script'.todo = todo
           /\ script' = Idle \/ (script'.phase = phase /\ script'.req = script.req)
           /\ phase = "recover" => script'.phase = phase /\ script'.req = script.req
<1>1. /\ Idle.phase = "idle" /\ Idle.todo = <<>> /\ Idle.req = NoRequest
      /\ Idle \in Scripts /\ Requested(NoRequest)
  BY DEF Idle, NoRequest, Scripts, Asked, Phases, Requested
<1>2. CASE script' = Idle
  <2>1. (todo = <<>> /\ phase # "recover") \/ script' = [script EXCEPT !.phase = phase, !.todo = todo]
    BY DEF Leads
  <2>2. CASE todo = <<>> /\ phase # "recover"  BY <1>1, <1>2, <2>2 DEF Planned
  <2>3. CASE script' = [script EXCEPT !.phase = phase, !.todo = todo]
    <3>1. script'.todo = todo /\ script'.phase = phase /\ script'.req = script.req  BY <2>3 DEF Shaped, Scripts
    <3>. QED  BY <1>1, <1>2, <3>1 DEF Planned
  <2>. QED  BY <2>1, <2>2, <2>3
<1>3. CASE script' = [script EXCEPT !.phase = phase, !.todo = todo]
  <2>1. script'.todo = todo /\ script'.phase = phase /\ script'.req = script.req /\ script' \in Scripts
    BY <1>3 DEF Shaped, Scripts
  <2>. QED  BY <2>1 DEF Shaped
<1>. QED  BY <1>2, <1>3 DEF Leads

\* A step of the script: it was the first that was left, and what is left comes after it.
LEMMA Walking ==
    ASSUME Follows, NEW s, At(s), Advance
    PROVE  /\ script' \in Scripts /\ Requested(script'.req)
           /\ script' = Idle \/ (script'.phase = script.phase /\ script'.req = script.req)
           /\ script.phase = "recover" => script'.phase = script.phase /\ script'.req = script.req
           /\ \/ /\ script.phase = "main" /\ script.req.mode \in {"promote", "withdraw"} /\ s \in Steps(script.req)
                 /\ Rem(script.todo) \subseteq Steps(script.req)
                 /\ Rem(script'.todo) \subseteq After(script.req.gateway)[s]
              \/ /\ script.phase \in {"recover", "compensate"} /\ s \in Returning
                 /\ Rem(script'.todo) \subseteq BackAfter[s] /\ (s = "abort" => journal.id \in Operations)
           /\ Rem(script.todo) = Rem(script'.todo) \union {s}
           /\ script'.todo = <<>> <=> Rem(script'.todo) = {}
           /\ Planned(script'.phase, script'.todo, script'.req, journal.id)
           /\ (script.phase = "main" \/ s = "clear") => \A id : Planned(script'.phase, script'.todo, script'.req, id)
<1> DEFINE S == Names \union Back
           rest == Tail(script.todo)
           r == script.req
<1>1. script.todo \in Seq(S) /\ script.todo # <<>> /\ Head(script.todo) = s /\ script.phase \in Phases
  BY DEF Follows, Shaped, Scripts, At
<1>2. script.phase \in {"main", "recover", "compensate"}  BY <1>1 DEF Follows, Planned, Phases
<1>3. rest \in Seq(S)  BY <1>1
<1>4. rest = <<>> <=> Rem(rest) = {}  BY <1>3, Nothing
<1> HIDE DEF S
<1>5. CASE script.phase = "main"
  <2>1. /\ r.mode \in {"promote", "withdraw"} /\ Rem(script.todo) \subseteq Steps(r)
        /\ Sorted(script.todo, After(r.gateway)) /\ ("switch" \in Rem(script.todo) => "restart" \in Rem(script.todo))
    BY <1>5 DEF Follows, Planned
  <2>2. /\ Sorted(rest, After(r.gateway)) /\ Rem(script.todo) = Rem(rest) \union {s}
        /\ Rem(rest) \subseteq After(r.gateway)[s]
    BY <1>1, <2>1, Taken
  <2>3. "switch" \in Rem(rest) => s # "restart"
    <3>1. r.gateway \in BOOLEAN  BY DEF Follows, Shaped, Scripts, Asked
    <3>2. After(r.gateway)["restart"] = {"record"} \union Ending(r.gateway)  BY <3>1, AfterIs
    <3>3. "switch" \notin After(r.gateway)["restart"]  BY <3>2 DEF Ending
    <3>. QED  BY <2>2, <3>3
  <2>4. \A id : Planned("main", rest, r, id)  BY <2>1, <2>2, <2>3 DEF Planned
  <2>5. \A id : /\ script' \in Scripts /\ Requested(script'.req)
                /\ Planned(script'.phase, script'.todo, script'.req, id) /\ script'.todo = rest
                /\ script' = Idle \/ (script'.phase = "main" /\ script'.req = script.req)
    <3>1. Leads("main", rest)  BY <1>5 DEF Advance
    <3>2. Shaped /\ "main" \in Phases  BY DEF Follows, Phases
    <3>. QED  BY <1>3, <2>4, <3>1, <3>2, Led DEF S
  <2>. QED  BY <1>4, <1>5, <2>1, <2>2, <2>5
<1>6. CASE script.phase \in {"recover", "compensate"}
  <2>1. /\ Rem(script.todo) \subseteq Returning /\ Sorted(script.todo, BackAfter)
        /\ "old policy" \in Rem(script.todo) => "old restart" \in Rem(script.todo)
        /\ "abort" \in Rem(script.todo) => journal.id \in Operations
    BY <1>6 DEF Follows, Planned
  <2>2. /\ Sorted(rest, BackAfter) /\ Rem(script.todo) = Rem(rest) \union {s} /\ Rem(rest) \subseteq BackAfter[s]
    BY <1>1, <2>1, Taken
  <2>3. "old policy" \in Rem(rest) => s # "old restart"
    <3>1. "old policy" \notin BackAfter["old restart"]  BY BackAfterIs
    <3>. QED  BY <2>2, <3>1
  <2>4. ASSUME NEW id, id = journal.id \/ s = "clear" PROVE Planned(script.phase, rest, r, id)
    <3>1. s = "clear" => Rem(rest) = {}  BY <2>2, BackAfterIs
    <3>. QED  BY <1>6, <2>1, <2>2, <2>3, <2>4, <3>1 DEF Planned
  <2>5. ASSUME NEW id, id = journal.id \/ s = "clear"
        PROVE  /\ script' \in Scripts /\ Requested(script'.req)
               /\ Planned(script'.phase, script'.todo, script'.req, id) /\ script'.todo = rest
               /\ script' = Idle \/ (script'.phase = script.phase /\ script'.req = script.req)
               /\ script.phase = "recover" => script'.phase = script.phase /\ script'.req = script.req
    <3>1. Leads(script.phase, rest)  BY DEF Advance
    <3>2. Shaped  BY DEF Follows
    <3>3. Planned(script.phase, rest, script.req, id)  BY <2>4, <2>5
    <3>. QED  BY <1>1, <1>3, <3>1, <3>2, <3>3, Led DEF S
  <2>. QED  BY <1>4, <1>6, <2>1, <2>2, <2>5
<1>. QED  BY <1>2, <1>5, <1>6

\* The way back, and what the trap and the next run begin with
LEMMA Returns ==
    ASSUME Shaped, NEW failed \in BOOLEAN, NEW phase \in {"recover", "compensate"}, NEW r,
           ~failed /\ "operation" \in journal.files => journal.id \in Operations
    PROVE  /\ Undo(journal, failed) \in Seq(Names \union Back)
           /\ Rem(Undo(journal, failed)) = StepsBack(journal, failed)
           /\ Planned(phase, Undo(journal, failed), r, journal.id)
<1>1. /\ Undo(journal, failed) \in Seq(Returning) /\ Rem(Undo(journal, failed)) = StepsBack(journal, failed)
      /\ Sorted(Undo(journal, failed), BackAfter)
  BY UndoIs
<1>2. Seq(Returning) \subseteq Seq(Names \union Back)
  <2>1. Returning \subseteq Names \union Back  BY DEF Returning, Names
  <2>. QED  BY <2>1
<1>3. StepsBack(journal, failed) \subseteq Returning  BY DEF StepsBack, Returning, Back
<1>4. "old policy" \in StepsBack(journal, failed) => "old restart" \in StepsBack(journal, failed)
  BY DEF StepsBack
<1>5. "abort" \in StepsBack(journal, failed) => journal.id \in Operations  BY DEF StepsBack
<1>. QED  BY <1>1, <1>2, <1>3, <1>4, <1>5 DEF Planned

\* What restore_journal plans: nothing without a journal, the status first if the journal names a promotion,
\* and else the way back (promote-android-release.sh).
LEMMA Restoring ==
    ASSUME Shaped, NEW phase \in {"recover", "compensate"}, NEW r
    PROVE  /\ Restore \in Seq(Names \union Back) /\ Planned(phase, Restore, r, journal.id)
           /\ ~journal.dir => Restore = <<>>
           /\ journal.dir /\ "operation" \in journal.files => Rem(Restore) = {"status"}
           /\ journal.dir /\ "operation" \notin journal.files => Rem(Restore) = StepsBack(journal, FALSE)
<1>1. <<>> \in Seq(Names \union Back) /\ Planned(phase, <<>>, r, journal.id)
  <2>1. "status" \in Back  BY DEF Back
  <2>2. Rem(<<>>) = {} /\ Sorted(<<>>, BackAfter)  BY <2>1, Few
  <2>3. <<>> \in Seq(Names \union Back)  OBVIOUS
  <2>. QED  BY <2>2, <2>3 DEF Planned
<1>2. /\ <<"status">> \in Seq(Names \union Back) /\ Planned(phase, <<"status">>, r, journal.id)
      /\ Rem(<<"status">>) = {"status"}
  <2>1. "status" \in Names \union Back /\ "status" \in Returning  BY DEF Returning, Back
  <2>2. <<"status">> \in Seq(Names \union Back) /\ Rem(<<"status">>) = {"status"} /\ Sorted(<<"status">>, BackAfter)
    BY <2>1, Few
  <2>. QED  BY <2>1, <2>2 DEF Planned
<1>3. "operation" \notin journal.files =>
          /\ Undo(journal, FALSE) \in Seq(Names \union Back) /\ Planned(phase, Undo(journal, FALSE), r, journal.id)
          /\ Rem(Undo(journal, FALSE)) = StepsBack(journal, FALSE)
  BY Returns
<1>. QED  BY <1>1, <1>2, <1>3 DEF Restore

\* The script starts, recovers, fails, is killed and turns back.
LEMMA Steering ==
    ASSUME Follows, (\E r \in Requests : Start(r)) \/ Proceed \/ Fail \/ Crash \/ ReadStatus \/ StatusUnknown
    PROVE  script' \in Scripts /\ Requested(script'.req) /\ Planned(script'.phase, script'.todo, script'.req, journal.id)
<1>0. Shaped /\ script.phase \in Phases  BY DEF Follows, Shaped, Scripts
<1>1. ASSUME script' = Idle
      PROVE  script' \in Scripts /\ Requested(script'.req) /\ Planned(script'.phase, script'.todo, script'.req, journal.id)
  <2>1. Idle \in Scripts /\ Requested(Idle.req)  BY DEF Idle, NoRequest, Scripts, Asked, Phases, Requested
  <2>2. Planned(Idle.phase, Idle.todo, Idle.req, journal.id)  BY DEF Idle, Planned
  <2>. QED  BY <1>1, <2>1, <2>2
<1>2. ASSUME NEW r \in Requests, Start(r)
      PROVE  script' \in Scripts /\ Requested(script'.req) /\ Planned(script'.phase, script'.todo, script'.req, journal.id)
  <2>1. Requested(r)
    <3>1. load.builds \subseteq Builds /\ load.apks \subseteq Apks /\ Fresh \subseteq Operations
      BY PromotionAssumption DEF Follows, Shaped, Fresh, Unused
    <3>2. MaxRevision \in Nat /\ 1..MaxRevision \subseteq Nat  BY ReleasesAssumption
    <3>. QED  BY <3>1, <3>2 DEF Requests, Requested, Asked
  <2>2. script' = [phase |-> "recover", todo |-> Restore, req |-> r]  BY <1>2 DEF Start
  <2>3. Restore \in Seq(Names \union Back) /\ Planned("recover", Restore, r, journal.id)  BY <1>0, Restoring
  <2>4. r \in Asked /\ "recover" \in Phases  BY <2>1 DEF Requested, Phases
  <2>. QED  BY <2>1, <2>2, <2>3, <2>4 DEF Scripts
<1>3. CASE Proceed
  <2>1. ASSUME NEW r, Requested(r), r.mode = "promote" \/ r.mode = "withdraw",
               script' = [phase |-> "main", todo |-> Plan(r), req |-> r]
        PROVE  script' \in Scripts /\ Requested(script'.req) /\ Planned(script'.phase, script'.todo, script'.req, journal.id)
    <3>1. r \in Asked /\ r.gateway \in BOOLEAN  BY <2>1 DEF Requested, Asked
    <3>2. Plan(r) \in Seq(Names) /\ Rem(Plan(r)) = Steps(r) /\ Sorted(Plan(r), After(r.gateway))
      BY <2>1, <3>1, PlanIs
    <3>3. Planned("main", Plan(r), r, journal.id)  BY <2>1, <3>2 DEF Planned, Steps
    <3>4. Plan(r) \in Seq(Names \union Back)  BY <3>2
    <3>5. "main" \in Phases  BY DEF Phases
    <3>. QED  BY <2>1, <3>1, <3>3, <3>4, <3>5 DEF Scripts
  <2>2. Requested(script.req)  BY <1>0 DEF Shaped
  <2>3. CASE Accepted(script.req)
    <3>1. script.req.mode = "promote"  BY <2>3 DEF Accepted
    <3>2. script' = [phase |-> "main", todo |-> Plan(script.req), req |-> script.req]
      BY <1>3, <2>3, <3>1 DEF Proceed
    <3>. QED  BY <2>1, <2>2, <3>1, <3>2
  <2>4. CASE ~Accepted(script.req)
    <3> DEFINE w == [script.req EXCEPT !.gateway = @ \/ policy.gateway]
    <3>1. script' = Idle \/ (script.req.mode = "withdraw" /\ script' = [phase |-> "main", todo |-> Plan(w), req |-> w])
      BY <1>3, <2>4 DEF Proceed
    <3>2. w \in Asked /\ w.mode = script.req.mode
      <4>1. (script.req.gateway \/ policy.gateway) \in BOOLEAN  OBVIOUS
      <4>. QED  BY <2>2, <4>1 DEF Requested, Asked
    <3> HIDE DEF w
    <3>3. script.req.mode = "withdraw" => Requested(w)  BY <3>2 DEF Requested
    <3>. QED  BY <1>1, <2>1, <3>1, <3>2, <3>3
  <2>. QED  BY <2>3, <2>4
<1>4. ASSUME NEW phase \in {"recover", "compensate"}, NEW todo \in Seq(Names \union Back),
             Planned(phase, todo, script.req, journal.id), Leads(phase, todo)
      PROVE  script' \in Scripts /\ Requested(script'.req) /\ Planned(script'.phase, script'.todo, script'.req, journal.id)
  BY <1>0, <1>4, Led DEF Phases
<1>5. CASE Fail
  <2>1. Leads("compensate", Restore)  BY <1>5 DEF Fail
  <2>. QED  BY <1>0, <1>4, <2>1, Restoring
<1>6. CASE Crash  BY <1>1, <1>6 DEF Crash
<1>7. CASE ReadStatus
  <2>1. journal.id \in Operations /\ script.todo # <<>> /\ Head(script.todo) = "status"
    BY <1>0, <1>7 DEF ReadStatus, Shaped, Journals, At
  <2>2. script.phase \in {"recover", "compensate"}
    <3>1. "status" \in Rem(script.todo)
      <4>1. script.todo \in Seq(Names \union Back)  BY <1>0 DEF Shaped, Scripts
      <4>2. 1 \in DOMAIN script.todo /\ Head(script.todo) = script.todo[1]  BY <2>1, <4>1
      <4>. QED  BY <2>1, <4>2 DEF Rem
    <3>2. "status" \notin Steps(script.req)  BY DEF Steps
    <3>. QED  BY <1>0, <2>1, <3>1, <3>2 DEF Follows, Planned, Phases
  <2>3. /\ Undo(journal, FALSE) \in Seq(Names \union Back)
        /\ Planned(script.phase, Undo(journal, FALSE), script.req, journal.id)
    BY <1>0, <2>1, <2>2, Returns
  <2>4. /\ <<"clear">> \in Seq(Names \union Back)
        /\ Planned(script.phase, <<"clear">>, script.req, journal.id)
    <3>1. "clear" \in Names \union Back /\ "clear" \in Returning  BY DEF Returning, Names
    <3>2. <<"clear">> \in Seq(Names \union Back) /\ Rem(<<"clear">>) = {"clear"} /\ Sorted(<<"clear">>, BackAfter)
      BY <3>1, Few
    <3>. QED  BY <2>2, <3>1, <3>2 DEF Planned
  <2>. QED  BY <1>4, <1>7, <2>2, <2>3, <2>4 DEF ReadStatus
<1>8. CASE StatusUnknown
  <2>1. Leads("compensate", Undo(journal, TRUE))  BY <1>8 DEF StatusUnknown
  <2>. QED  BY <1>0, <1>4, <2>1, Returns
<1>. QED  BY <1>2, <1>3, <1>5, <1>6, <1>7, <1>8

\* The journal is written, torn and removed.
LEMMA Journalling ==
    ASSUME Follows, Save \/ Name \/ Flag \/ Clear \/ Tear
    PROVE  Follows'
<1>0. /\ journal \in Journals /\ NoJournal \in Journals /\ NoJournal.id = 0
      /\ policy \in Policies /\ catalog \in Catalogs /\ history \in SUBSET (Builds \X Apks)
  <2>1. NoPolicy \in Policies  BY DEF NoPolicy, Policies
  <2>2. NoCatalog \in Catalogs  BY DEF NoCatalog, Catalogs
  <2>. QED  BY <2>1, <2>2 DEF Follows, Shaped, NoJournal, Journals
<1>1. UNCHANGED <<policy, meta, history, catalog, desk, load>>
  BY DEF Save, Name, Flag, Clear, Tear, Step, files
<1>2. ASSUME journal' \in Journals, script' \in Scripts, Requested(script'.req),
             Planned(script'.phase, script'.todo, script'.req, journal'.id)
      PROVE  Follows'
  BY <1>1, <1>2 DEF Follows, Shaped
<1>3. CASE Save
  <2>1. script.phase = "main"
    <3>1. "save" \notin Returning  BY DEF Returning, Back
    <3>2. At("save") /\ Advance  BY <1>3 DEF Save, Step
    <3>. QED  BY <3>1, <3>2, Walking
  <2>2. journal' \in Journals
    <3> DEFINE F == {"env", "history"} \union (IF script.req.gateway THEN {"catalog"} ELSE {})
    <3>1. F \in SUBSET {"env", "history", "catalog", "operation", "started"}  OBVIOUS
    <3>2. journal' = [NoJournal EXCEPT !.dir = TRUE, !.env = policy, !.history = history, !.catalog = catalog,
                                       !.files = F]
      BY <1>3 DEF Save
    <3> HIDE DEF F
    <3>. QED  BY <1>0, <3>1, <3>2 DEF Journals
  <2>. QED  BY <1>2, <1>3, <2>1, <2>2, Walking DEF Save, Step
<1>4. CASE Name
  <2>1. script.phase = "main" /\ "name" \in Steps(script.req)
    <3>1. "name" \notin Returning  BY DEF Returning, Back
    <3>2. At("name") /\ Advance  BY <1>4 DEF Name, Step
    <3>. QED  BY <3>1, <3>2, Walking
  <2>2. script.req.id \in Operations  BY <2>1 DEF Steps, Follows, Shaped, Requested
  <2>3. journal' \in Journals  BY <1>0, <1>4, <2>2 DEF Name, Journals
  <2>. QED  BY <1>2, <1>4, <2>1, <2>3, Walking DEF Name, Step
<1>5. CASE Flag
  <2>1. journal' \in Journals /\ journal'.id = journal.id  BY <1>0, <1>5 DEF Flag, Journals
  <2>. QED  BY <1>2, <1>5, <2>1, Walking DEF Flag, Step
<1>6. CASE Clear
  <2>1. journal' \in Journals  BY <1>0, <1>6 DEF Clear
  <2>. QED  BY <1>2, <1>6, <2>1, Walking DEF Clear, Step
<1>7. CASE Tear
  <2>1. journal' \in Journals
    <3>1. CASE \E left \in SUBSET journal.files \ {journal.files} : journal' = [journal EXCEPT !.files = left]
      BY <1>0, <3>1 DEF Journals
    <3>2. CASE journal' = [journal EXCEPT !.files = @ \union {"operation"}]
      BY <1>0, <3>2 DEF Journals
    <3>. QED  BY <1>7, <3>1, <3>2 DEF Tear
  <2>2. script' = Idle  BY <1>7 DEF Tear
  <2>3. Idle \in Scripts /\ Requested(Idle.req)  BY DEF Idle, NoRequest, Scripts, Asked, Phases, Requested
  <2>4. Planned(Idle.phase, Idle.todo, Idle.req, journal'.id)  BY DEF Idle, Planned
  <2>. QED  BY <1>2, <2>1, <2>2, <2>3, <2>4
<1>. QED  BY <1>3, <1>4, <1>5, <1>6, <1>7

\* The steps that change a store, or the data base
LEMMA Storing ==
    ASSUME Follows, Inv,
           \/ InDatabase \/ AbortStep \/ Register \/ Warm \/ Publish \/ TakeDown \/ Switch \/ Restart \/ Record
           \/ OldCatalogue \/ OldPolicy \/ OldHistory
    PROVE  Follows'
<1>1. /\ journal \in Journals /\ policy \in Policies /\ meta \in Policies /\ catalog \in Catalogs
      /\ history \in SUBSET (Builds \X Apks) /\ NoPolicy \in Policies /\ script.req \in Asked
  BY DEF Follows, Shaped, NoPolicy, Policies, Scripts
<1>2. UNCHANGED <<journal, desk, load>>
  BY DEF InDatabase, AbortStep, Register, Warm, Publish, TakeDown, Switch, Restart, Record,
         OldCatalogue, OldPolicy, OldHistory, Database, Download, Step
<1>3. PICK s : At(s) /\ Advance
                /\ (Register \/ Warm \/ Publish \/ Record => s \in {"register", "warm", "publish", "record"})
  BY DEF InDatabase, AbortStep, Register, Warm, Publish, TakeDown, Switch, Restart, Record,
         OldCatalogue, OldPolicy, OldHistory, Database, Download, Step
<1>4. /\ script' \in Scripts /\ Requested(script'.req)
      /\ Planned(script'.phase, script'.todo, script'.req, journal.id)
      /\ s \in Steps(script.req) \/ s \in Returning
  BY <1>3, Walking
<1>5. ASSUME policy' \in Policies, meta' \in Policies, catalog' \in Catalogs, history' \in SUBSET (Builds \X Apks)
      PROVE  Follows'
  BY <1>2, <1>4, <1>5 DEF Follows, Shaped
<1>6. CASE InDatabase \/ AbortStep \/ Warm
  BY <1>1, <1>5, <1>6 DEF InDatabase, AbortStep, Warm, Database, Download, files
<1>7. CASE Register \/ Publish \/ Record
  <2>1. "register" \in Steps(script.req) \/ "publish" \in Steps(script.req) \/ "record" \in Steps(script.req)
        => script.req.mode # "withdraw"
    BY DEF Steps
  <2>2. script.req.mode = "promote"
    <3>1. /\ Register => At("register") /\ Advance
          /\ Publish => At("publish") /\ Advance
          /\ Record => At("record") /\ Advance
      BY DEF Register, Publish, Record, Download, Step
    <3>2. ASSUME NEW x \in {"register", "publish", "record"}, At(x), Advance PROVE script.req.mode = "promote"
      <4>1. x \notin Returning  BY DEF Returning, Back
      <4>2. script.req.mode \in {"promote", "withdraw"} /\ x \in Steps(script.req)  BY <3>2, <4>1, Walking
      <4>. QED  BY <2>1, <4>2
    <3>. QED  BY <1>7, <3>1, <3>2
  <2>3. script.req.build \in Builds /\ script.req.apk \in Apks  BY <2>2 DEF Follows, Shaped, Requested
  <2>4. CASE Register
    <3>1. catalog' = [catalog EXCEPT !.entry[script.req.build].apk = script.req.apk]  BY <2>4 DEF Register
    <3>2. catalog' \in Catalogs  BY <1>1, <2>3, <3>1 DEF Catalogs
    <3>. QED  BY <1>1, <1>5, <2>4, <3>2 DEF Register, Download
  <2>5. CASE Publish
    <3> DEFINE b == script.req.build
    <3>1. release[b].by \in Operations \union {0}  BY <2>3 DEF Inv, DataOK, Row
    <3>2. catalog' = [catalog EXCEPT !.state = "available", !.recommended = b, !.entry[b].at = release[b].by]
      BY <2>5 DEF Publish
    <3>3. catalog' \in Catalogs
      <4> DEFINE e == [catalog.entry EXCEPT ![b].at = release[b].by]
      <4>1. catalog' = [catalog EXCEPT !.state = "available", !.recommended = b, !.entry = e]
        BY <1>1, <3>2 DEF Catalogs
      <4>2. e \in [Builds -> [apk : Apks \union {None}, at : Operations \union {0}]]
        BY <1>1, <2>3, <3>1 DEF Catalogs
      <4> HIDE DEF e
      <4>. QED  BY <1>1, <2>3, <4>1, <4>2 DEF Catalogs
    <3>. QED  BY <1>1, <1>5, <2>5, <3>3 DEF Publish, Download
  <2>6. CASE Record
    <3>1. history' = history \union {<<script.req.build, script.req.apk>>}  BY <2>6 DEF Record
    <3>. QED  BY <1>1, <1>5, <2>3, <2>6, <3>1 DEF Record
  <2>. QED  BY <1>7, <2>4, <2>5, <2>6
<1>8. CASE TakeDown
  <2>1. catalog' \in Catalogs  BY <1>1, <1>8 DEF TakeDown, Catalogs
  <2>. QED  BY <1>1, <1>5, <1>8, <2>1 DEF TakeDown, Download
<1>9. CASE Switch
  <2>1. [build |-> script.req.build, gateway |-> script.req.gateway] \in Policies  BY <1>1 DEF Asked, Policies
  <2>2. policy' \in Policies  BY <1>1, <1>9, <2>1 DEF Switch
  <2>. QED  BY <1>1, <1>5, <1>9, <2>2 DEF Switch
<1>10. CASE Restart  BY <1>1, <1>5, <1>10 DEF Restart, files
<1>11. CASE OldCatalogue  BY <1>1, <1>5, <1>11 DEF OldCatalogue, Journals
<1>12. CASE OldPolicy  BY <1>1, <1>5, <1>12 DEF OldPolicy, Journals
<1>13. CASE OldHistory  BY <1>1, <1>5, <1>13 DEF OldHistory, Journals
<1>. QED  BY <1>6, <1>7, <1>8, <1>9, <1>10, <1>11, <1>12, <1>13

\* Every step keeps to the plan.
LEMMA Following == Follows /\ Inv /\ [Next]_vars => Follows'
<1> SUFFICES ASSUME Follows, Inv, [Next]_vars PROVE Follows'  OBVIOUS
<1>1. CASE UNCHANGED vars  BY <1>1 DEF vars, files, Follows, Shaped
<1>2. CASE (\E r \in Requests : Start(r)) \/ Proceed \/ Fail \/ Crash \/ ReadStatus \/ StatusUnknown
  <2>1. UNCHANGED <<journal, policy, meta, history, catalog, desk, load>>
    BY <1>2 DEF Start, Proceed, Fail, Crash, ReadStatus, StatusUnknown, files
  <2>2. /\ script' \in Scripts /\ Requested(script'.req)
        /\ Planned(script'.phase, script'.todo, script'.req, journal.id)
    BY <1>2, Steering
  <2>. QED  BY <2>1, <2>2 DEF Follows, Shaped
<1>3. CASE Save \/ Name \/ Flag \/ Clear \/ Tear  BY <1>3, Journalling
<1>4. CASE \/ InDatabase \/ AbortStep \/ Register \/ Warm \/ Publish \/ TakeDown \/ Switch \/ Restart \/ Record
           \/ OldCatalogue \/ OldPolicy \/ OldHistory
  BY <1>4, Storing
<1>5. CASE (\E b \in Builds : Administer(b)) \/ Operate \/ Operated \/ Prune
  <2>1. UNCHANGED <<script, journal, policy, meta, history, load>>
    BY <1>5 DEF Administer, Operate, Operated, Prune, files
  <2>2. catalog \in Catalogs /\ (desk # None => desk \in Catalogs)  BY DEF Follows, Shaped
  <2>3. catalog' \in Catalogs /\ (desk' # None => desk' \in Catalogs)
    <3>1. CASE Operate
      <4>1. [catalog EXCEPT !.state = "paused"] \in Catalogs /\ [catalog EXCEPT !.state = "available"] \in Catalogs
        BY <2>2 DEF Catalogs
      <4>2. desk' = [catalog EXCEPT !.state = "paused"] \/ desk' = [catalog EXCEPT !.state = "available"]
        BY <3>1 DEF Operate
      <4>3. catalog' = catalog  BY <3>1 DEF Operate, files
      <4>. QED  BY <2>2, <4>1, <4>2, <4>3
    <3>2. CASE Operated  BY <2>2, <3>2 DEF Operated
    <3>3. CASE (\E b \in Builds : Administer(b)) \/ Prune  BY <2>2, <3>3 DEF Administer, Prune, files
    <3>. QED  BY <1>5, <3>1, <3>2, <3>3
  <2>. QED  BY <2>1, <2>3 DEF Follows, Shaped
<1>. QED  BY <1>1, <1>2, <1>3, <1>4, <1>5 DEF Next

\* Whatever the script does, the data base sees operations of MobileReleases.
LEMMA Implementing == Follows /\ [Next]_vars => [NextData]_data
<1> SUFFICES ASSUME Follows, [Next]_vars PROVE [NextData]_data  OBVIOUS
<1>1. CASE UNCHANGED vars  BY <1>1 DEF vars
<1>2. CASE \/ (\E r \in Requests : Start(r)) \/ Proceed \/ Fail \/ Crash \/ ReadStatus \/ StatusUnknown
           \/ Save \/ Name \/ Flag \/ Clear \/ Tear
  BY <1>2 DEF Start, Proceed, Fail, Crash, ReadStatus, StatusUnknown, Save, Name, Flag, Clear, Tear
<1>3. CASE \/ Register \/ Warm \/ Publish \/ TakeDown \/ Switch \/ Restart \/ Record
           \/ OldCatalogue \/ OldPolicy \/ OldHistory
  BY <1>3 DEF Register, Warm, Publish, TakeDown, Switch, Restart, Record, OldCatalogue, OldPolicy, OldHistory, Download
<1>4. CASE (\E b \in Builds : Administer(b)) \/ Operate \/ Operated \/ Prune
  BY <1>4 DEF Administer, Operate, Operated, Prune, NextData
<1>5. CASE InDatabase
  <2>1. PICK s \in {"register download", "begin", "stage", "commit", "finish"} : At(s) /\ Advance
    BY <1>5 DEF InDatabase, Database, Step
  <2>2. s \notin Returning  BY <2>1 DEF Returning, Back
  <2>3. script.req.mode \in {"promote", "withdraw"} /\ s \in Steps(script.req)  BY <2>1, <2>2, Walking
  <2>4. script.req.mode = "promote"  BY <2>1, <2>3 DEF Steps
  <2>5. /\ script.req.build \in Builds /\ script.req.apk \in Apks
        /\ script.req.revision \in 1..MaxRevision /\ script.req.id \in Operations
    BY <2>4 DEF Follows, Shaped, Requested
  <2>. QED  BY <1>5, <2>5 DEF InDatabase, Database, NextData
<1>6. CASE AbortStep
  <2>1. At("abort") /\ Advance /\ Abort(journal.id)  BY <1>6 DEF AbortStep, Database, Step
  <2>2. "abort" \notin Steps(script.req)  BY DEF Steps
  <2>3. journal.id \in Operations  BY <2>1, <2>2, Walking
  <2>. QED  BY <2>1, <2>3 DEF NextData
<1>. QED  BY <1>1, <1>2, <1>3, <1>4, <1>5, <1>6 DEF Next

-----------------------------------------------------------------------------
(* The catalogue tells the truth                                           *)

\* A promotion that began is of an APK, and published notes name the promotion that published them.
Marked ==
    /\ \A o \in Operations : IF Status(o) = "ABSENT" THEN promotion[o].build = 0 ELSE promotion[o].apk \in Apks
    /\ \A b \in Builds : release[b].published # 0 => release[b].by # 0 /\ release[b].revision # 0

\* What was said of an APK is never said of another one.
Grown ==
    /\ \A b \in Builds : artifact[b] # None => artifact'[b] = artifact[b]
    /\ \A o \in Operations : Status(o) # "ABSENT" =>
           /\ Status(o)' # "ABSENT" /\ promotion'[o].build = promotion[o].build
           /\ promotion'[o].apk = promotion[o].apk /\ promotion'[o].previous = promotion[o].previous

\* The catalogue c says of a published build what its promotion and its row of the downloads say.
Truthful(c, artifacts, promotions) == \A b \in Published(c) :
    /\ artifacts[b] = c.entry[b].apk
    /\ \E o \in Operations : promotions[o].build = b /\ promotions[o].apk = c.entry[b].apk

\* The catalogue tells the truth, as do the copy in the journal and the one the administrator edits.
Truths ==
    /\ Marked /\ Truthful(catalog, artifact, promotion) /\ Truthful(journal.catalog, artifact, promotion)
    /\ desk # None => Truthful(desk, artifact, promotion)

\* Each operation of the data base, what it leaves of the rows of promotions, artifacts and releases
LEMMA Growing ==
    ASSUME Inv, Marked, [NextData]_data
    PROVE  Marked' /\ Grown
<1>0. DataOK /\ 0 \notin Operations /\ 0 \notin Builds  BY ReleasesAssumption DEF Inv
<1>1. CASE UNCHANGED data  BY <1>1 DEF data, Marked, Grown, Status
<1>2. ASSUME NEW b \in Builds, Edit(b) PROVE Marked' /\ Grown
  <2>1. release'[b].published = release[b].published /\ release'[b].by = release[b].by /\ release'[b].revision # 0
        /\ \A c \in Builds : c # b => release'[c] = release[c]
    BY <1>0, <1>2 DEF Edit, DataOK, Row
  <2>2. UNCHANGED <<promotion, artifact>>  BY <1>2 DEF Edit
  <2>. QED  BY <2>1, <2>2 DEF Marked, Grown, Status
<1>3. ASSUME NEW b \in Builds, Confirm(b) PROVE Marked' /\ Grown
  <2>1. (release'[b].published # 0 => release[b].published # 0) /\ release'[b].by = release[b].by
        /\ release'[b].revision = release[b].revision /\ \A c \in Builds : c # b => release'[c] = release[c]
    BY <1>0, <1>3 DEF Confirm, DataOK, Row
  <2>2. UNCHANGED <<promotion, artifact>>  BY <1>3 DEF Confirm
  <2>. QED  BY <2>1, <2>2 DEF Marked, Grown, Status
<1>4. ASSUME NEW b \in Builds, NEW apk \in Apks, RegisterDownload(b, apk) PROVE Marked' /\ Grown
  <2>1. \A c \in Builds : artifact[c] # None => artifact'[c] = artifact[c]
    BY <1>0, <1>4 DEF RegisterDownload, DataOK
  <2>2. UNCHANGED <<release, promotion>>  BY <1>4 DEF RegisterDownload
  <2>. QED  BY <2>1, <2>2 DEF Marked, Grown, Status
<1>5. ASSUME NEW o \in Operations, NEW b \in Builds, NEW apk \in Apks, NEW revision \in 1..MaxRevision,
             BeginPromotion(o, b, apk, revision)
      PROVE  Marked' /\ Grown
  <2>1. /\ promotion'[o].status = "PREPARED" /\ promotion'[o].apk = apk
        /\ \A p \in Operations : p # o => promotion'[p] = promotion[p]
    BY <1>0, <1>5 DEF BeginPromotion, DataOK
  <2>2. \A c \in Builds : /\ release'[c].published = release[c].published /\ release'[c].by = release[c].by
                          /\ release'[c].revision = release[c].revision
    BY <1>0, <1>5 DEF BeginPromotion, DataOK, Row
  <2>3. Status(o) = "ABSENT" /\ artifact' = artifact  BY <1>5 DEF BeginPromotion, CanBegin
  <2>4. \A p \in Operations : p # o => Status(p)' = Status(p)  BY <2>1 DEF Status
  <2>5. Status(o)' = "PREPARED"  BY <2>1 DEF Status
  <2>6. Marked'
    <3>1. ASSUME NEW p \in Operations
          PROVE  IF Status(p)' = "ABSENT" THEN promotion'[p].build = 0 ELSE promotion'[p].apk \in Apks
      <4>1. CASE p = o  BY <2>1, <2>5, <4>1
      <4>2. CASE p # o  BY <2>1, <2>4, <4>2 DEF Marked
      <4>. QED  BY <4>1, <4>2
    <3>. QED  BY <2>2, <3>1 DEF Marked
  <2>7. Grown  BY <2>1, <2>3, <2>4 DEF Grown
  <2>. QED  BY <2>6, <2>7
<1>6. ASSUME NEW o \in Operations, NEW status \in Statuses \ {"ABSENT"}, Open(o), To(o, status)
      PROVE  Grown /\ \A p \in Operations : IF Status(p)' = "ABSENT" THEN promotion'[p].build = 0
                                                                     ELSE promotion'[p].apk \in Apks
  <2>1. /\ promotion'[o].status = status /\ promotion'[o].build = promotion[o].build
        /\ promotion'[o].apk = promotion[o].apk /\ promotion'[o].previous = promotion[o].previous
        /\ \A p \in Operations : p # o => promotion'[p] = promotion[p]
        /\ artifact' = artifact
    BY <1>0, <1>6 DEF To, DataOK, Entries
  <2>2. Status(o) # "ABSENT" /\ Status(o)' # "ABSENT" /\ \A p \in Operations : p # o => Status(p)' = Status(p)
    BY <1>6, <2>1 DEF Open, Status
  <2>3. Grown  BY <2>1, <2>2 DEF Grown
  <2>4. ASSUME NEW p \in Operations
        PROVE  IF Status(p)' = "ABSENT" THEN promotion'[p].build = 0 ELSE promotion'[p].apk \in Apks
    <3>1. CASE p = o  BY <2>1, <2>2, <3>1 DEF Marked
    <3>2. CASE p # o  BY <2>1, <2>2, <3>2 DEF Marked
    <3>. QED  BY <3>1, <3>2
  <2>. QED  BY <2>3, <2>4
<1>7. ASSUME NEW o \in Operations, Stage(o) \/ Commit(o) \/ Finish(o) \/ (Abort(o) /\ Open(o))
      PROVE  Marked' /\ Grown
  <2> DEFINE b == promotion[o].build
  <2>1. Open(o) /\ b \in Builds /\ release[b].revision # 0
    <3>1. InForce(o) /\ Open(o)  BY <1>7, Transitions DEF InForce
    <3>2. b \in Builds /\ promotion[o].revision # 0  BY <3>1 DEF Inv, Known, Open
    <3>. QED  BY <3>1, <3>2 DEF InForce
  <2>2. \E status \in Statuses \ {"ABSENT"} : To(o, status)
    BY <1>7 DEF Stage, Commit, Finish, Abort, Statuses
  <2>3. /\ Grown
        /\ \A p \in Operations : IF Status(p)' = "ABSENT" THEN promotion'[p].build = 0 ELSE promotion'[p].apk \in Apks
    BY <1>6, <2>1, <2>2
  <2>4. \A c \in Builds : release'[c].published # 0 => release'[c].by # 0 /\ release'[c].revision # 0
    <3> HIDE DEF b
    <3>0. promotion[o].build = b  BY DEF b
    <3>1. CASE Stage(o)  BY <3>1 DEF Stage, Marked
    <3>2. CASE Commit(o)
      <4>1. \/ release' = release
            \/ release' = [release EXCEPT ![b].published = release[b].confirmed, ![b].by = o]
        BY <3>0, <3>2 DEF Commit
      <4>. QED  BY <1>0, <2>1, <4>1 DEF DataOK, Row, Marked
    <3>3. CASE Finish(o)
      <4>1. release' = [release EXCEPT ![b].lock = 0]  BY <3>0, <3>3 DEF Finish
      <4>. QED  BY <1>0, <2>1, <4>1 DEF DataOK, Row, Marked
    <3>4. CASE Abort(o) /\ Open(o)
      <4>1. release' = [release EXCEPT ![b] = TakenBack(o, release[b])]
        BY <1>0, <2>1, <3>0, <3>4 DEF Abort, DataOK
      <4> DEFINE row == TakenBack(o, release[b])
      <4>2. row.published # 0 => row.published = release[b].published /\ row.by = release[b].by /\ row.revision = release[b].revision
        <5>1. release[b] \in Row  BY <1>0, <2>1 DEF DataOK
        <5>. QED  BY <5>1 DEF TakenBack, Row
      <4> HIDE DEF row
      <4>3. release' = [release EXCEPT ![b] = row]  BY <4>1 DEF row
      <4>. QED  BY <1>0, <2>1, <4>2, <4>3 DEF DataOK, Marked
    <3>. QED  BY <1>7, <3>1, <3>2, <3>3, <3>4
  <2>. QED  BY <2>3, <2>4 DEF Marked
<1>8. ASSUME NEW o \in Operations, Abort(o), ~Open(o) PROVE Marked' /\ Grown  BY <1>1, <1>8 DEF Abort
<1>. QED  BY <1>1, <1>2, <1>3, <1>4, <1>5, <1>7, <1>8 DEF NextData

\* What a truthful catalogue says stays true; the artifact it names is there.
LEMMA TruthStays ==
    ASSUME Inv, Marked, Grown, NEW c, Truthful(c, artifact, promotion)
    PROVE  /\ Truthful(c, artifact', promotion')
           /\ \A b \in Published(c) : artifact[b] \in Apks /\ artifact'[b] = artifact[b]
<1> SUFFICES ASSUME NEW b \in Published(c)
             PROVE  /\ artifact'[b] = c.entry[b].apk /\ artifact[b] \in Apks /\ artifact'[b] = artifact[b]
                    /\ \E o \in Operations : promotion'[o].build = b /\ promotion'[o].apk = c.entry[b].apk
  BY DEF Truthful
<1>1. b \in Builds /\ b # 0 /\ None \notin Apks  BY ReleasesAssumption DEF Published
<1>2. PICK o \in Operations : promotion[o].build = b /\ promotion[o].apk = c.entry[b].apk
  BY DEF Truthful
<1>3. Status(o) # "ABSENT" /\ promotion[o].apk \in Apks  BY <1>1, <1>2 DEF Marked
<1>4. artifact[b] = c.entry[b].apk  BY DEF Truthful
<1>5. artifact'[b] = artifact[b]  BY <1>1, <1>2, <1>3, <1>4 DEF Grown
<1>6. promotion'[o].build = b /\ promotion'[o].apk = c.entry[b].apk  BY <1>2, <1>3 DEF Grown
<1>. QED  BY <1>2, <1>3, <1>4, <1>5, <1>6

\* The catalogue, its saved copy and an operator's copy stay truthful.
LEMMA TruthStep == Follows /\ Inv /\ Truths /\ [Next]_vars => Truths'
<1> SUFFICES ASSUME Follows, Inv, Truths, [Next]_vars PROVE Truths'  OBVIOUS
<1>0. catalog \in Catalogs /\ 0 \notin Operations  BY ReleasesAssumption DEF Follows, Shaped
<1>1. Marked' /\ Grown  BY Implementing, Growing DEF Truths
<1>2. ASSUME NEW c, Truthful(c, artifact, promotion) PROVE Truthful(c, artifact', promotion')
  BY <1>1, <1>2, TruthStays DEF Truths
<1>3. Truthful(catalog, artifact', promotion') /\ Truthful(journal.catalog, artifact', promotion')
      /\ (desk # None => Truthful(desk, artifact', promotion'))
  BY <1>2 DEF Truths
<1>4. ASSUME Truthful(catalog', artifact', promotion'), Truthful(journal'.catalog, artifact', promotion'),
             desk' # None => Truthful(desk', artifact', promotion')
      PROVE  Truths'
  BY <1>1, <1>4 DEF Truths
<1>5. CASE UNCHANGED <<journal, catalog, desk>>  BY <1>3, <1>4, <1>5
<1>6. CASE Save \/ Name \/ Flag \/ Clear \/ Tear
  <2>1. UNCHANGED <<catalog, desk>>  BY <1>6 DEF Save, Name, Flag, Clear, Tear, files
  <2>2. journal'.catalog \in {catalog, journal.catalog, NoCatalog}
    <3>1. journal \in Journals  BY DEF Follows, Shaped
    <3>2. CASE Save
      <4>1. PICK F : journal' = [NoJournal EXCEPT !.dir = TRUE, !.env = policy, !.history = history,
                                                  !.catalog = catalog, !.files = F]
        BY <3>2 DEF Save
      <4>. QED  BY <4>1 DEF NoJournal
    <3>5. CASE Clear  BY <3>5 DEF Clear, NoJournal
    <3>3. CASE Name \/ Flag  BY <3>1, <3>3 DEF Name, Flag, Journals
    <3>4. CASE Tear
      <4>1. \/ \E left \in SUBSET journal.files \ {journal.files} : journal' = [journal EXCEPT !.files = left]
            \/ journal' = [journal EXCEPT !.files = @ \union {"operation"}]
        BY <3>4 DEF Tear
      <4>. QED  BY <3>1, <4>1 DEF Journals
    <3>. QED  BY <1>6, <3>2, <3>3, <3>4, <3>5
  <2>3. Truthful(NoCatalog, artifact', promotion')  BY DEF Truthful, Published, NoCatalog
  <2>. QED  BY <1>3, <1>4, <2>1, <2>2, <2>3
<1>7. ASSUME UNCHANGED <<journal, desk>>, Truthful(catalog', artifact', promotion') PROVE Truths'
  BY <1>3, <1>4, <1>7
<1>8. CASE OldCatalogue  BY <1>3, <1>7, <1>8 DEF OldCatalogue
<1>9. CASE TakeDown
  <2>1. catalog'.entry = catalog.entry  BY <1>0, <1>9 DEF TakeDown, Catalogs
  <2>2. Truthful(catalog', artifact', promotion')  BY <1>3, <2>1 DEF Truthful, Published
  <2>. QED  BY <1>7, <1>9, <2>2 DEF TakeDown, Download
<1>10. CASE Operate
  <2>1. UNCHANGED <<journal, catalog>> /\ desk'.entry = catalog.entry  BY <1>0, <1>10 DEF Operate, Catalogs, files
  <2>2. Truthful(desk', artifact', promotion')  BY <1>3, <2>1 DEF Truthful, Published
  <2>. QED  BY <1>3, <1>4, <2>1, <2>2
<1>11. CASE Operated  BY <1>3, <1>4, <1>11 DEF Operated
<1>12. ASSUME Register \/ Publish PROVE script.req.build \in Builds /\ script.req.apk \in Apks
  <2>1. PICK x \in {"register", "publish"} : At(x) /\ Advance  BY <1>12 DEF Register, Publish, Download, Step
  <2>2. x \notin Returning  BY <2>1 DEF Returning, Back
  <2>3. script.req.mode \in {"promote", "withdraw"} /\ x \in Steps(script.req)  BY <2>1, <2>2, Walking
  <2>4. script.req.mode = "promote"  BY <2>1, <2>3 DEF Steps
  <2>. QED  BY <2>4 DEF Follows, Shaped, Requested
<1>13. CASE Register
  <2> DEFINE b == script.req.build
  <2>1. b \in Builds /\ script.req.apk \in Apks /\ None \notin Apks  BY <1>12, <1>13, ReleasesAssumption
  <2>2. catalog' = [catalog EXCEPT !.entry[b].apk = script.req.apk] /\ catalog.entry[b].apk \in {None, script.req.apk}
    BY <1>13 DEF Register, Entry
  <2>3. UNCHANGED <<journal, desk>>  BY <1>13 DEF Register, Download
  <2> HIDE DEF b
  <2>4. /\ \A c \in Builds : c # b => catalog'.entry[c] = catalog.entry[c]
        /\ catalog'.entry[b].at = catalog.entry[b].at /\ catalog'.entry[b].apk = script.req.apk
    BY <1>0, <2>1, <2>2 DEF Catalogs
  <2>5. b \in Published(catalog) => catalog.entry[b].apk = script.req.apk
    <3> SUFFICES ASSUME b \in Published(catalog) PROVE catalog.entry[b].apk # None  BY <2>2
    <3>1. artifact[b] \in Apks /\ artifact[b] = catalog.entry[b].apk
      BY <1>1, TruthStays DEF Truths, Truthful
    <3>. QED  BY <2>1, <3>1
  <2>6. Truthful(catalog', artifact', promotion')  BY <1>3, <2>4, <2>5 DEF Truthful, Published
  <2>. QED  BY <1>7, <2>3, <2>6
<1>14. CASE Publish
  <2> DEFINE b == script.req.build
  <2>1. b \in Builds  BY <1>12, <1>14
  <2>2. catalog' = [catalog EXCEPT !.state = "available", !.recommended = b, !.entry[b].at = release[b].by]
        /\ Proved(b) /\ UNCHANGED <<data, journal, desk>>
    BY <1>14 DEF Publish, Download
  <2> HIDE DEF b
  <2>3. /\ \A c \in Builds : c # b => catalog'.entry[c] = catalog.entry[c]
        /\ catalog'.entry[b].apk = catalog.entry[b].apk
    BY <1>0, <2>1, <2>2 DEF Catalogs
  <2>4. /\ artifact'[b] = catalog'.entry[b].apk
        /\ \E o \in Operations : promotion'[o].build = b /\ promotion'[o].apk = catalog'.entry[b].apk
    BY <2>2, <2>3 DEF Proved, Entry, data
  <2>5. Truthful(catalog', artifact', promotion')  BY <1>3, <2>3, <2>4 DEF Truthful, Published
  <2>. QED  BY <1>7, <2>2, <2>5
<1>15. CASE UNCHANGED vars  BY <1>5, <1>15 DEF vars, files
<1>16. CASE (\E r \in Requests : Start(r)) \/ Proceed \/ Fail \/ Crash \/ ReadStatus \/ StatusUnknown
  BY <1>5, <1>16 DEF Start, Proceed, Fail, Crash, ReadStatus, StatusUnknown, files
<1>17. CASE InDatabase \/ AbortStep \/ Warm \/ Switch \/ Restart \/ Record \/ OldPolicy \/ OldHistory
  BY <1>5, <1>17 DEF InDatabase, AbortStep, Database, Warm, Download, Switch, Restart, Record, OldPolicy, OldHistory, files
<1>18. CASE (\E b \in Builds : Administer(b)) \/ Prune  BY <1>5, <1>18 DEF Administer, Prune, files
<1>. QED
  BY <1>6, <1>8, <1>9, <1>10, <1>11, <1>13, <1>14, <1>15, <1>16, <1>17, <1>18 DEF Next

-----------------------------------------------------------------------------
(* A release is whole, or what the journal says and is left makes it whole *)

\* No published build is above the recommended one.
Topped(c) == \A b \in Published(c) : b <= c.recommended

\* The gateway has the build.
Served(b) == b \in Published(catalog) /\ <<b, artifact[b]>> \in cache

\* The environment, the running backend, the catalogue and the notes agree.
Settled ==
    /\ meta = policy
    /\ policy.build # 0 => release[policy.build].published # 0
    /\ policy.gateway => catalog.recommended = policy.build /\ Served(policy.build)
    /\ \A b \in Published(catalog) : release[b].published # 0

\* No promotion is under way.
NoneOpen == \A o \in Operations : ~Open(o)

\* Public, and no promotion under way would take that back
Safe(b) == /\ release[b].published # 0
           /\ \A o \in Operations : Open(o) /\ promotion[o].build = b => promotion[o].previous # 0

\* The catalogue publishes and recommends what it did when the journal was written.
SamePublished ==
    Published(catalog) = Published(journal.catalog) /\ catalog.recommended = journal.catalog.recommended

Holds(file) == file \in journal.files

\* The journal's promotion succeeded.
Won == Holds("operation") /\ Status(journal.id) = "SUCCEEDED"

\* The journal has all that is needed to go back, and nothing was done that it does not know of.
Journalled ==
    /\ Holds("env") /\ (Holds("operation") => journal.id \in Operations)
    /\ \A o \in Operations : Open(o) => Holds("operation") /\ o = journal.id
    /\ journal.env.build # 0 => Safe(journal.env.build)
    /\ \A b \in Published(journal.catalog) : Safe(b)
    /\ journal.env.gateway => /\ journal.catalog.recommended = journal.env.build
                              /\ journal.env.build \in Published(journal.catalog)
                              /\ <<journal.env.build, artifact[journal.env.build]>> \in cache
    /\ Topped(journal.catalog)
    /\ Published(journal.catalog) \subseteq Published(catalog)
    /\ Published(catalog) \subseteq Published(journal.catalog) \union {catalog.recommended}
    /\ ~Holds("catalog") => SamePublished
    /\ ~Holds("started") => policy = journal.env /\ meta = policy
    /\ Won => Settled

\* At rest all is settled; in between the journal has what it takes to go back.
Stored ==
    /\ Topped(catalog)
    /\ desk # None => Published(desk) = Published(catalog) /\ desk.recommended = catalog.recommended
    /\ IF journal.dir THEN Journalled ELSE NoneOpen /\ Settled

\* What a request makes of the policy
Aim(r) == IF r.mode = "withdraw" THEN NoPolicy ELSE [build |-> r.build, gateway |-> r.gateway]

\* Forward: what is not left of the plan was done.
Performed(r, left) ==
    /\ "save" \notin left
    /\ IF r.mode = "promote" /\ "name" \notin left THEN Holds("operation") /\ journal.id = r.id
       ELSE ~Holds("operation")
    /\ "flag" \notin left => Holds("started")
    /\ Holds("catalog") <=> r.gateway
    /\ IF r.mode = "promote" /\ r.gateway /\ "publish" \notin left
       THEN /\ catalog.recommended = r.build /\ Served(r.build)
            /\ Published(catalog) \subseteq Published(journal.catalog) \union {r.build}
       ELSE SamePublished
    /\ policy = (IF "switch" \in left THEN journal.env ELSE Aim(r))
    /\ "restart" \notin left => meta = policy
    /\ r.mode = "promote" /\ "finish" \notin left => Won
    /\ Won => left \subseteq {"clear"}

\* Forward, from before the journal is there
Onward(r, left) ==
    /\ "name" \in left => Status(r.id) = "ABSENT"
    /\ IF journal.dir THEN Performed(r, left) ELSE Steps(r) \subseteq left

\* Back: what the journal says and is not left was undone.
Undone(left) ==
    /\ Holds("catalog") /\ "old catalogue" \notin left => SamePublished
    /\ Holds("started") /\ "old policy" \notin left => policy = journal.env
    /\ Holds("started") /\ "old restart" \notin left => meta = policy
    /\ Holds("operation") /\ "abort" \notin left => ~Open(journal.id)

\* Nothing that succeeded is taken back, and the journal goes only when all else is undone.
Backward(left) ==
    /\ left \subseteq {"status", "clear"} \/ ~Won
    /\ "old policy" \in left \/ "old restart" \in left => Holds("started")
    /\ "abort" \in left \/ "status" \in left => Holds("operation")
    /\ "clear" \in left /\ ~Won => Undone(left)

\* What is left of the plan is what remains to be done.
Done == LET left == Rem(script.todo) IN
    /\ script.phase = "main" => Onward(script.req, left)
    /\ script.phase \in {"recover", "compensate"} /\ script.todo # <<>> => journal.dir /\ Backward(left)
    /\ script.phase = "recover" =>
         /\ IF journal.dir THEN "clear" \in left \/ "status" \in left ELSE script.todo = <<>>
         /\ script.req.mode = "promote" => Status(script.req.id) = "ABSENT" /\ script.req.id # journal.id

\* A release is whole, or can be made so.
Whole == Stored /\ Done

\* What most steps leave alone: who is promoting, what is public, the journal, the policy, what is recommended
\* and published, and what the recommended builds are served from
Undisturbed ==
    /\ UNCHANGED <<journal, policy, meta>>
    /\ Published(catalog') = Published(catalog) /\ catalog'.recommended = catalog.recommended
    /\ desk' # None => Published(desk') = Published(catalog) /\ desk'.recommended = catalog.recommended
    /\ \A o \in Operations : /\ Open(o)' <=> Open(o)
                             /\ Status(o)' = "ABSENT" <=> Status(o) = "ABSENT"
                             /\ Status(o)' = "SUCCEEDED" <=> Status(o) = "SUCCEEDED"
    /\ \A b \in Builds : release[b].published # 0 => release'[b].published # 0
    /\ \A b \in Published(catalog) :
        /\ <<b, artifact[b]>> \in cache
        /\ b = catalog.recommended \/ (journal.dir /\ journal.env.gateway /\ b = journal.env.build)
        => <<b, artifact[b]>> \in cache'

\* What of the rows of the data base matters here, whatever step is taken
Lasting ==
    /\ \A b \in Published(catalog) : artifact'[b] = artifact[b]
    /\ \A b \in Published(journal.catalog) : artifact'[b] = artifact[b]
    /\ \A o \in Operations : Open(o) => promotion'[o].build = promotion[o].build
                                        /\ promotion'[o].previous = promotion[o].previous
    /\ \A o \in Operations : Status(o) = "SUCCEEDED" => Status(o)' = "SUCCEEDED"

\* Every step of the program leaves that.
LEMMA Lasts == ASSUME Follows, Inv, Truths, [Next]_vars PROVE Lasting
<1>1. [NextData]_data /\ Marked /\ Grown  BY Implementing, Growing DEF Truths
<1>2. \A b \in Published(catalog) : artifact'[b] = artifact[b]  BY <1>1, TruthStays DEF Truths
<1>3. \A b \in Published(journal.catalog) : artifact'[b] = artifact[b]  BY <1>1, TruthStays DEF Truths
<1>4. \A o \in Operations : Open(o) => promotion'[o].build = promotion[o].build
                                       /\ promotion'[o].previous = promotion[o].previous
  BY <1>1 DEF Grown, Open
<1>5. \A o \in Operations : Status(o) = "SUCCEEDED" => Status(o)' = "SUCCEEDED"
  BY <1>1, StaysSucceeded DEF Status
<1>. QED  BY <1>2, <1>3, <1>4, <1>5 DEF Lasting

\* A step that disturbs nothing
LEMMA Undisturbing ==
    ASSUME Follows, Stored, Lasting, Undisturbed
    PROVE  /\ Stored'
           /\ journal.dir => /\ Won' <=> Won
                             /\ \A r, left : Performed(r, left) => Performed(r, left)'
                             /\ \A left : Backward(left) => Backward(left)'
<1>0. /\ policy \in Policies /\ journal.env \in Policies /\ catalog \in Catalogs /\ 0 \notin Builds
      /\ UNCHANGED <<journal, policy, meta>>
      /\ \A c : Published(c) \subseteq Builds
  BY ReleasesAssumption DEF Follows, Shaped, Journals, Undisturbed, Published
<1>1. \A b \in Builds : Safe(b) => Safe(b)'  BY DEF Undisturbed, Lasting, Safe
<1>2. ASSUME Served(catalog.recommended) PROVE Served(catalog.recommended)'
  BY <1>2 DEF Served, Undisturbed, Lasting
<1>3. SamePublished' <=> SamePublished  BY <1>0 DEF SamePublished, Undisturbed
<1>4. Topped(catalog) => Topped(catalog)'  BY DEF Topped, Undisturbed
<1>5. Settled => Settled'
  <2> SUFFICES ASSUME Settled PROVE Settled'  OBVIOUS
  <2>1. policy.build # 0 => policy.build \in Builds  BY <1>0 DEF Policies
  <2>2. policy.build # 0 => release'[policy.build].published # 0  BY <2>1 DEF Settled, Undisturbed
  <2>3. policy.gateway => catalog'.recommended = policy.build /\ Served(policy.build)'
    <3>1. policy.gateway => catalog.recommended = policy.build /\ Served(catalog.recommended)  BY DEF Settled
    <3>2. policy.gateway => catalog'.recommended = policy.build /\ Served(catalog.recommended)'
      BY <1>2, <3>1 DEF Undisturbed
    <3>3. catalog'.recommended = catalog.recommended  BY DEF Undisturbed
    <3>. QED  BY <1>0, <3>1, <3>2, <3>3 DEF Served
  <2>4. \A b \in Published(catalog') : release'[b].published # 0  BY <1>0 DEF Settled, Undisturbed
  <2>. QED  BY <1>0, <2>2, <2>3, <2>4 DEF Settled
<1>6. CASE ~journal.dir
  <2>1. NoneOpen' /\ Settled'  BY <1>5, <1>6 DEF Stored, NoneOpen, Undisturbed
  <2>2. ~journal'.dir /\ Topped(catalog)'
        /\ (desk' # None => Published(desk') = Published(catalog') /\ desk'.recommended = catalog'.recommended)
    BY <1>0, <1>4, <1>6 DEF Stored, Undisturbed
  <2>. QED  BY <1>6, <2>1, <2>2 DEF Stored
<1>7. CASE journal.dir
  <2>0. Journalled  BY <1>7 DEF Stored
  <2>1. Holds("operation") => journal.id \in Operations  BY <2>0 DEF Journalled
  <2>2. Won' <=> Won  BY <1>0, <2>1 DEF Won, Holds, Undisturbed
  <2>3. Journalled'
    <3>1. /\ Holds("env")' /\ (Holds("operation")' => journal'.id \in Operations)
          /\ \A o \in Operations : Open(o)' => Holds("operation")' /\ o = journal'.id
      BY <1>0, <2>0 DEF Journalled, Holds, Undisturbed
    <3>2. journal.env.build # 0 => journal.env.build \in Builds  BY <1>0 DEF Policies
    <3>3. journal'.env.build # 0 => Safe(journal.env.build)'  BY <1>0, <1>1, <2>0, <3>2 DEF Journalled
    <3>4. \A b \in Published(journal'.catalog) : Safe(b)'  BY <1>0, <1>1, <2>0 DEF Journalled
    <3>5. journal'.env.gateway => /\ journal'.catalog.recommended = journal'.env.build
                                  /\ journal'.env.build \in Published(journal'.catalog)
                                  /\ <<journal'.env.build, artifact'[journal'.env.build]>> \in cache'
      BY <1>0, <1>7, <2>0 DEF Journalled, Undisturbed, Lasting
    <3>6. /\ Topped(journal'.catalog)
          /\ Published(journal'.catalog) \subseteq Published(catalog')
          /\ Published(catalog') \subseteq Published(journal'.catalog) \union {catalog'.recommended}
      BY <1>0, <2>0 DEF Journalled, Undisturbed
    <3>7. /\ ~Holds("catalog")' => SamePublished'
          /\ ~Holds("started")' => policy' = journal'.env /\ meta' = policy'
          /\ Won' => Settled'
      BY <1>0, <1>3, <1>5, <2>0, <2>2 DEF Journalled, Holds
    <3>. QED  BY <3>1, <3>3, <3>4, <3>5, <3>6, <3>7 DEF Journalled
  <2>4. journal'.dir /\ Topped(catalog)'
        /\ (desk' # None => Published(desk') = Published(catalog') /\ desk'.recommended = catalog'.recommended)
    BY <1>0, <1>4, <1>7 DEF Stored, Undisturbed
  <2>5. ASSUME NEW r, NEW left, Performed(r, left) PROVE Performed(r, left)'
    <3>1. catalog.recommended = r.build /\ Served(r.build)
          => catalog'.recommended = r.build /\ Served(r.build)'
      BY <1>2 DEF Undisturbed
    <3>. QED  BY <1>0, <1>3, <2>2, <2>5, <3>1 DEF Performed, Holds, Aim, Undisturbed
  <2>6. ASSUME NEW left, Backward(left) PROVE Backward(left)'
    <3>1. Holds("operation") /\ ~Open(journal.id) => ~Open(journal.id)'  BY <2>1 DEF Undisturbed
    <3>2. Undone(left) => Undone(left)'  BY <1>0, <1>3, <3>1 DEF Undone, Holds
    <3>. QED  BY <1>0, <2>2, <2>6, <3>2 DEF Backward, Holds
  <2>. QED  BY <2>2, <2>3, <2>4, <2>5, <2>6 DEF Stored
<1>. QED  BY <1>6, <1>7

-----------------------------------------------------------------------------
(* Forward                                                                 *)

\* The steps of the plan that what is performed is not told by
Quiet == {"register download", "take down", "register", "warm", "begin", "stage", "commit", "record"}

\* A step of the plan after the journal was saved: it is there, and the promotion has not succeeded yet.
LEMMA Underway ==
    ASSUME Follows, Whole, NEW s \in Names \ {"save"}, At(s), Advance, script.phase = "main",
           NEW r, NEW left, NEW rest, r = script.req, left = Rem(script.todo), rest = Rem(script'.todo)
    PROVE  /\ r.mode \in {"promote", "withdraw"} /\ r.gateway \in BOOLEAN /\ s \in Steps(r)
           /\ r.mode = "promote" => r.build \in Builds /\ r.apk \in Apks /\ r.revision \in 1..MaxRevision /\ r.id \in Operations
           /\ left = rest \union {s} /\ rest \subseteq After(r.gateway)[s] /\ left \subseteq Steps(r)
           /\ "name" \in left => Status(r.id) = "ABSENT"
           /\ journal.dir /\ Journalled /\ Performed(r, left)
           /\ s # "clear" => ~Won
           /\ script' = Idle \/ (script'.phase = "main" /\ script'.req = r)
<1>1. /\ r.mode \in {"promote", "withdraw"} /\ s \in Steps(r) /\ left \subseteq Steps(r)
      /\ left = rest \union {s} /\ rest \subseteq After(r.gateway)[s]
      /\ script' = Idle \/ (script'.phase = "main" /\ script'.req = r)
  BY Walking
<1>2. r.gateway \in BOOLEAN  BY DEF Follows, Shaped, Scripts, Asked
<1>3. r.mode = "promote" => r.build \in Builds /\ r.apk \in Apks /\ r.revision \in 1..MaxRevision /\ r.id \in Operations
  BY DEF Follows, Shaped, Requested
<1>4. Onward(r, left)
  <2>1. Onward(script.req, Rem(script.todo))  BY DEF Whole, Done
  <2>. QED  BY <2>1
<1>5. "save" \notin After(r.gateway)[s]
  <2>1. "save" \notin Names \ {"save"} /\ "save" \notin Promoting  BY DEF Promoting
  <2>2. \A g \in BOOLEAN : "save" \notin Ending(g) /\ "save" \notin Switching(g)  BY DEF Ending, Switching
  <2>3. /\ After(r.gateway)["register download"] = {"register", "warm", "name", "begin"} \union Promoting
        /\ After(r.gateway)["take down"] = {"name", "begin"} \union Promoting
        /\ After(r.gateway)["register"] = {"warm", "name", "begin"} \union Promoting
        /\ After(r.gateway)["warm"] = {"name", "begin"} \union Promoting
        /\ After(r.gateway)["name"] = {"begin"} \union Promoting /\ After(r.gateway)["begin"] = Promoting
    BY <1>2, AfterIs
  <2>4. /\ After(r.gateway)["stage"] = IF r.gateway THEN {"commit", "publish"} \union Switching(r.gateway) ELSE {"commit", "finish", "clear"}
        /\ After(r.gateway)["commit"] = IF r.gateway THEN {"publish"} \union Switching(r.gateway) ELSE {"finish", "clear"}
        /\ After(r.gateway)["publish"] = Switching(r.gateway)
        /\ After(r.gateway)["flag"] = {"switch", "restart", "record"} \union Ending(r.gateway)
        /\ After(r.gateway)["switch"] = {"restart", "record"} \union Ending(r.gateway)
    BY <1>2, AfterIs
  <2>5. /\ After(r.gateway)["restart"] = {"record"} \union Ending(r.gateway)
        /\ After(r.gateway)["record"] = Ending(r.gateway) /\ After(r.gateway)["finish"] = {"clear"}
        /\ After(r.gateway)["clear"] = {}
    BY <1>2, AfterIs
  <2>6. CASE s \in {"register download", "take down", "register", "warm", "name", "begin"}  BY <2>1, <2>3, <2>6
  <2>7. CASE s \in {"stage", "commit", "publish", "flag", "switch"}  BY <1>2, <2>2, <2>4, <2>7
  <2>8. CASE s \in {"restart", "record", "finish", "clear"}  BY <1>2, <2>2, <2>5, <2>8
  <2>. QED  BY <2>6, <2>7, <2>8 DEF Names
<1>6. "save" \notin left  BY <1>1, <1>5
<1>7. journal.dir /\ Performed(r, left) /\ ("name" \in left => Status(r.id) = "ABSENT")
  BY <1>4, <1>6 DEF Onward, Steps
<1>8. s # "clear" => ~Won  BY <1>1, <1>7 DEF Performed
<1>9. Journalled  BY <1>7 DEF Whole, Stored
<1>. QED  BY <1>1, <1>2, <1>3, <1>7, <1>8, <1>9

\* What is performed does not depend on the quiet steps.
LEMMA Quietly ==
    ASSUME NEW r, NEW s \in Quiet, NEW left, NEW rest, left = rest \union {s}, Performed(r, left)
    PROVE  Performed(r, rest)
BY DEF Performed, Quiet

\* The script goes on forward.
LEMMA Forth ==
    ASSUME NEW r, NEW rest, rest = Rem(script'.todo), script' = Idle \/ (script'.phase = "main" /\ script'.req = r),
           journal'.dir, "name" \in rest => Status(r.id)' = "ABSENT", Performed(r, rest)'
    PROVE  Done'
<1>1. CASE script' = Idle
  <2>1. script'.phase = "idle"  BY <1>1 DEF Idle
  <2>. QED  BY <2>1 DEF Done
<1>2. CASE script'.phase = "main" /\ script'.req = r
  <2>1. Onward(r, rest)'  BY DEF Onward
  <2>2. Onward(script.req, Rem(script.todo))'  BY <1>2, <2>1
  <2>. QED  BY <1>2, <2>2 DEF Done
<1>. QED  BY <1>1, <1>2

\* Who is promoting stays, and what is public stays public.
Steady ==
    /\ \A o \in Operations : /\ Open(o)' <=> Open(o)
                             /\ Status(o)' = "ABSENT" <=> Status(o) = "ABSENT"
                             /\ Status(o)' = "SUCCEEDED" <=> Status(o) = "SUCCEEDED"
    /\ \A b \in Builds : release[b].published # 0 => release'[b].published # 0

\* Staff, the row of a download and the steps of an open promotion leave that alone.
LEMMA Steadily ==
    ASSUME Inv, Marked,
           \/ UNCHANGED data \/ \E b \in Builds : Edit(b) \/ Confirm(b) \/ \E apk \in Apks : RegisterDownload(b, apk)
           \/ \E o \in Operations : Stage(o) \/ Commit(o)
    PROVE  Steady
<1>0. DataOK /\ 0 \notin Builds /\ 0 \notin Operations  BY ReleasesAssumption DEF Inv
<1>1. ASSUME UNCHANGED promotion, \A b \in Builds : release[b].published # 0 => release'[b].published # 0
      PROVE  Steady
  BY <1>1 DEF Steady, Open, Status
<1>2. CASE UNCHANGED data  BY <1>1, <1>2 DEF data
<1>3. ASSUME NEW b \in Builds, Edit(b) PROVE Steady
  <2>1. \A c \in Builds : release'[c].published = release[c].published  BY <1>0, <1>3 DEF Edit, DataOK, Row
  <2>. QED  BY <1>1, <1>3, <2>1 DEF Edit
<1>4. ASSUME NEW b \in Builds, Confirm(b) PROVE Steady
  <2>1. release[b].published # 0 => release'[b].published = release[b].revision  BY <1>0, <1>4 DEF Confirm, DataOK, Row
  <2>2. release[b].published # 0 => release[b].revision # 0  BY DEF Marked
  <2>3. \A c \in Builds : c # b => release'[c] = release[c]  BY <1>0, <1>4 DEF Confirm, DataOK
  <2>. QED  BY <1>1, <1>4, <2>1, <2>2, <2>3 DEF Confirm
<1>5. ASSUME NEW b \in Builds, NEW apk \in Apks, RegisterDownload(b, apk) PROVE Steady
  BY <1>1, <1>5 DEF RegisterDownload
<1>6. ASSUME NEW o \in Operations, Stage(o) \/ Commit(o) PROVE Steady
  <2> DEFINE b == promotion[o].build
  <2>1. InForce(o) /\ Open(o) /\ b \in Builds
    BY <1>6, Transitions DEF InForce, Inv, Known, Open
  <2>2. \E status \in {"STAGED", "COMMITTED"} : promotion' = [promotion EXCEPT ![o].status = status]
    BY <1>6 DEF Stage, Commit, To
  <2>3. \A p \in Operations : /\ Open(p)' <=> Open(p)
                              /\ Status(p)' = "ABSENT" <=> Status(p) = "ABSENT"
                              /\ Status(p)' = "SUCCEEDED" <=> Status(p) = "SUCCEEDED"
    <3>1. ASSUME NEW p \in Operations
          PROVE  IF p = o THEN promotion'[p].status \in {"STAGED", "COMMITTED"} ELSE promotion'[p] = promotion[p]
      BY <1>0, <2>2 DEF DataOK, Entries
    <3>2. promotion[o].status \in {"PREPARED", "STAGED", "COMMITTED"}  BY <2>1 DEF Open, Status
    <3>. QED  BY <3>1, <3>2 DEF Open, Status
  <2>4. ASSUME NEW c \in Builds, release[c].published # 0 PROVE release'[c].published # 0
    <3> HIDE DEF b
    <3>0. b = promotion[o].build  BY DEF b
    <3>1. release' = release \/ (release[b].published = 0
             /\ release' = [release EXCEPT ![b].published = release[b].confirmed, ![b].by = o])
      BY <1>6, <3>0 DEF Stage, Commit
    <3>. QED  BY <1>0, <2>1, <2>4, <3>1 DEF DataOK, Row
  <2>. QED  BY <2>3, <2>4 DEF Steady
<1>. QED  BY <1>2, <1>3, <1>4, <1>5, <1>6

\* A step of the plan that disturbs nothing
LEMMA Calmly ==
    ASSUME Follows, Whole, Lasting, Undisturbed, NEW s \in Quiet, At(s), Advance
    PROVE  Whole'
<1> SUFFICES ASSUME NEW r, NEW left, NEW rest, r = script.req, left = Rem(script.todo), rest = Rem(script'.todo)
             PROVE  Whole'
  OBVIOUS
<1>1. s \in Names \ {"save"} /\ s \notin Returning /\ s # "clear"  BY DEF Quiet, Names, Returning, Back
<1>2. script.phase = "main"  BY <1>1, Walking
<1>3. /\ r.mode \in {"promote", "withdraw"} /\ (r.mode = "promote" => r.id \in Operations)
      /\ left = rest \union {s} /\ left \subseteq Steps(r)
      /\ "name" \in left => Status(r.id) = "ABSENT"
      /\ journal.dir /\ Performed(r, left)
      /\ script' = Idle \/ (script'.phase = "main" /\ script'.req = r)
  BY <1>1, <1>2, Underway
<1>4. Performed(r, rest)  BY <1>3, Quietly
<1>5. Stored' /\ Performed(r, rest)'  BY <1>3, <1>4, Undisturbing DEF Whole
<1>6. "name" \in rest => Status(r.id)' = "ABSENT"
  <2>1. "name" \in rest => "name" \in Steps(r)  BY <1>3
  <2>2. "name" \in Steps(r) => r.mode = "promote"  BY DEF Steps
  <2>. QED  BY <1>3, <2>1, <2>2 DEF Undisturbed
<1>7. journal'.dir  BY <1>3 DEF Undisturbed
<1>8. Done'  BY <1>3, <1>5, <1>6, <1>7, Forth
<1>. QED  BY <1>5, <1>8 DEF Whole

\* What happens beside the script and disturbs nothing
LEMMA Aside ==
    ASSUME Follows, Whole, Lasting, Undisturbed, UNCHANGED script
    PROVE  Whole'
<1> SUFFICES ASSUME NEW r, NEW left, NEW phase, r = script.req, left = Rem(script.todo), phase = script.phase
             PROVE  Whole'
  OBVIOUS
<1>0. script'.req = r /\ Rem(script'.todo) = left /\ script'.phase = phase /\ script'.todo = script.todo
      /\ journal' = journal
  BY DEF Undisturbed
<1>1. Stored'  BY Undisturbing DEF Whole
<1>2. r.mode = "promote" => r.id \in Operations  BY DEF Follows, Shaped, Requested
<1>3. r.mode = "promote" => (Status(r.id)' = "ABSENT" <=> Status(r.id) = "ABSENT")  BY <1>2 DEF Undisturbed
<1>4. phase = "main" => Onward(r, left)'
  <2> SUFFICES ASSUME phase = "main" PROVE Onward(r, left)'  OBVIOUS
  <2>1. Onward(r, left) /\ left \subseteq Steps(r)  BY DEF Whole, Done, Follows, Planned
  <2>2. "name" \in left => r.mode = "promote"
    <3>1. "name" \in left => "name" \in Steps(r)  BY <2>1
    <3>. QED  BY <3>1 DEF Steps
  <2>3. journal.dir /\ Performed(r, left) => Performed(r, left)'  BY Undisturbing DEF Whole
  <2>. QED  BY <1>0, <1>3, <2>1, <2>2, <2>3 DEF Onward
<1>5. phase \in {"recover", "compensate"} /\ script.todo # <<>> => journal'.dir /\ Backward(left)'
  <2>1. phase \in {"recover", "compensate"} /\ script.todo # <<>> => journal.dir /\ Backward(left)
    BY DEF Whole, Done
  <2>2. journal.dir /\ Backward(left) => Backward(left)'  BY Undisturbing DEF Whole
  <2>. QED  BY <1>0, <2>1, <2>2
<1>6. phase = "recover" =>
         /\ IF journal'.dir THEN "clear" \in left \/ "status" \in left ELSE script'.todo = <<>>
         /\ r.mode = "promote" => Status(r.id)' = "ABSENT" /\ r.id # journal'.id
  BY <1>0, <1>3 DEF Whole, Done
<1>7. Done'
  <2>1. phase = "main" => Onward(script.req, Rem(script.todo))'  BY <1>0, <1>4
  <2>2. phase \in {"recover", "compensate"} /\ script.todo # <<>> => Backward(Rem(script.todo))'  BY <1>0, <1>5
  <2>3. phase = "recover" /\ r.mode = "promote" => Status(script.req.id)' = "ABSENT"  BY <1>0, <1>6
  <2>. QED  BY <1>0, <1>5, <1>6, <2>1, <2>2, <2>3 DEF Done
<1>. QED  BY <1>1, <1>7 DEF Whole

\* What is left of the cache when it is pruned: the recommended build and the one recommended before
LEMMA Pruned ==
    ASSUME Follows, Truths, Stored, Prune, NEW b \in Published(catalog), <<b, artifact[b]>> \in cache,
           b = catalog.recommended \/ (journal.dir /\ journal.env.gateway /\ b = journal.env.build)
    PROVE  <<b, artifact[b]>> \in cache'
<1>1. cache' = {c \in cache : c[1] \in Recent \union {catalog.recommended} \/ Entry(c[1]).apk # c[2]}
  BY DEF Prune
<1>2. CASE b = catalog.recommended  BY <1>1, <1>2
<1>3. CASE b # catalog.recommended
  <2> DEFINE others == Published(catalog) \ {catalog.recommended}
  <2>1. Journalled /\ b = journal.env.build /\ b = journal.catalog.recommended
    BY <1>3 DEF Stored, Journalled
  <2>2. others \subseteq Published(journal.catalog)  BY <2>1 DEF Journalled
  <2>3. \A c \in others : c <= b  BY <2>1, <2>2 DEF Journalled, Topped
  <2>4. others \subseteq Nat /\ b \in Nat  BY ReleasesAssumption DEF Published
  <2>5. {c \in others : c > b} = {}  BY <2>3, <2>4
  <2>6. Cardinality({c \in others : c > b}) < Kept
    <3>1. Cardinality({}) = 0  BY FS_EmptySet
    <3>2. Kept \in Nat \ {0}  BY PromotionAssumption
    <3>. QED  BY <2>5, <3>1, <3>2
  <2>7. b \in others  BY <1>3
  <2>8. b \in Recent  BY <2>6, <2>7 DEF Recent
  <2>. QED  BY <1>1, <2>8
<1>. QED  BY <1>2, <1>3

\* Staff, operators and prune
LEMMA Besides ==
    ASSUME Follows, Inv, Truths, Lasting, Whole, (\E b \in Builds : Administer(b)) \/ Operate \/ Operated \/ Prune
    PROVE  Whole'
<1>0. catalog \in Catalogs  BY DEF Follows, Shaped
<1>1. UNCHANGED <<script, journal, policy, meta>>
  BY DEF Administer, Operate, Operated, Prune, files
<1>2. Steady  BY Steadily DEF Administer, Operate, Operated, Prune, Truths
<1>3. desk # None => Published(desk) = Published(catalog) /\ desk.recommended = catalog.recommended
  BY DEF Whole, Stored
<1>4. \/ UNCHANGED <<catalog, desk>>
      \/ catalog' = catalog /\ desk'.entry = catalog.entry /\ desk'.recommended = catalog.recommended
      \/ desk # None /\ catalog' = desk /\ desk' = None
  <2>1. CASE (\E b \in Builds : Administer(b)) \/ Prune  BY <2>1 DEF Administer, Prune, files
  <2>2. CASE Operate  BY <1>0, <2>2 DEF Operate, Catalogs, files
  <2>3. CASE Operated  BY <2>3 DEF Operated
  <2>. QED  BY <2>1, <2>2, <2>3
<1>5. /\ Published(catalog') = Published(catalog) /\ catalog'.recommended = catalog.recommended
      /\ desk' # None => Published(desk') = Published(catalog) /\ desk'.recommended = catalog.recommended
  BY <1>3, <1>4 DEF Published
<1>6. cache' = cache \/ Prune  BY DEF Administer, Operate, Operated
<1>7. Undisturbed
  <2>1. ASSUME NEW b \in Published(catalog), <<b, artifact[b]>> \in cache,
               b = catalog.recommended \/ (journal.dir /\ journal.env.gateway /\ b = journal.env.build)
        PROVE  <<b, artifact[b]>> \in cache'
    BY <1>6, <2>1, Pruned DEF Whole
  <2>. QED  BY <1>1, <1>2, <1>5, <2>1 DEF Undisturbed, Steady
<1>. QED  BY <1>1, <1>7, Aside

\* The quiet steps: the gateway learns of the APK and reads it, the notes are staged and committed, the history
\* is written.
LEMMA Quieting ==
    ASSUME Follows, Inv, Truths, Lasting, Whole,
           \/ \E s \in {"register download", "stage", "commit"} :
                 /\ Step(s) /\ UNCHANGED <<journal, files, meta, cache, desk>>
                 /\ \/ \E b \in Builds, apk \in Apks : RegisterDownload(b, apk)
                    \/ \E o \in Operations : Stage(o) \/ Commit(o)
           \/ Register \/ Warm \/ TakeDown \/ Record
    PROVE  Whole'
<1>0. catalog \in Catalogs  BY DEF Follows, Shaped
<1>1. PICK s \in Quiet : At(s) /\ Advance
  BY DEF Quiet, Register, Warm, TakeDown, Record, Download, Step
<1>2. UNCHANGED <<journal, policy, meta, desk>>  BY DEF Register, Warm, TakeDown, Record, Download, files
<1>3. Steady
  <2>1. CASE UNCHANGED data  BY <2>1, Steadily DEF Truths
  <2>2. CASE \/ \E b \in Builds, apk \in Apks : RegisterDownload(b, apk)
             \/ \E o \in Operations : Stage(o) \/ Commit(o)
    BY <2>2, Steadily DEF Truths
  <2>. QED  BY <2>1, <2>2 DEF Register, Warm, TakeDown, Record, Download
<1>4. Published(catalog') = Published(catalog) /\ catalog'.recommended = catalog.recommended
  <2>1. CASE Register
    <3> DEFINE b == script.req.build
    <3>1. catalog' = [catalog EXCEPT !.entry[b].apk = script.req.apk]  BY <2>1 DEF Register
    <3> HIDE DEF b
    <3>2. \A c \in Builds : catalog'.entry[c].at = catalog.entry[c].at  BY <1>0, <3>1 DEF Catalogs
    <3>3. catalog'.recommended = catalog.recommended  BY <1>0, <3>1 DEF Catalogs
    <3>. QED  BY <3>2, <3>3 DEF Published
  <2>2. CASE TakeDown  BY <1>0, <2>2 DEF TakeDown, Catalogs, Published
  <2>3. CASE UNCHANGED catalog  BY <2>3
  <2>. QED  BY <2>1, <2>2, <2>3 DEF Warm, Record, files
<1>5. cache \subseteq cache'
  BY DEF Register, Warm, TakeDown, Record
<1>6. desk # None => Published(desk) = Published(catalog) /\ desk.recommended = catalog.recommended
  BY DEF Whole, Stored
<1>7. Undisturbed  BY <1>2, <1>3, <1>4, <1>5, <1>6 DEF Undisturbed, Steady
<1>. QED  BY <1>1, <1>7, Calmly

\* The journal is saved before anything is touched.
LEMMA Saving ==
    ASSUME Follows, Truths, Whole, Save
    PROVE  Whole'
<1> SUFFICES ASSUME NEW r, NEW left, NEW rest, r = script.req, left = Rem(script.todo), rest = Rem(script'.todo)
             PROVE  Whole'
  OBVIOUS
<1>1. At("save") /\ Advance /\ UNCHANGED <<data, policy, history, catalog, meta, cache, desk>>
  BY DEF Save, Step, files
<1>2. "save" \in Names /\ "save" \notin Returning  BY DEF Names, Returning, Back
<1>3. script.phase = "main"  BY <1>1, <1>2, Walking
<1>4. /\ r.mode \in {"promote", "withdraw"} /\ left = rest \union {"save"} /\ r.gateway \in BOOLEAN
      /\ rest \subseteq After(r.gateway)["save"]
      /\ script' = Idle \/ (script'.phase = "main" /\ script'.req = r)
  BY <1>1, <1>2, <1>3, Walking DEF Follows, Shaped, Scripts, Asked
<1>5. "save" \notin rest
  <2>1. After(r.gateway)["save"] = Names \ {"save"}  BY <1>4, AfterIs
  <2>. QED  BY <1>4, <2>1
<1>6. Onward(r, left)
  <2>1. Onward(script.req, Rem(script.todo))  BY <1>3 DEF Whole, Done
  <2>. QED  BY <2>1
<1>7. ~journal.dir /\ Steps(r) \subseteq left /\ ("name" \in left => Status(r.id) = "ABSENT")
  BY <1>4, <1>6 DEF Onward, Performed
<1>8. Topped(catalog) /\ NoneOpen /\ Settled  BY <1>7 DEF Whole, Stored
<1>9. /\ journal'.dir /\ journal'.env = policy /\ journal'.catalog = catalog
      /\ journal'.files = {"env", "history"} \union (IF r.gateway THEN {"catalog"} ELSE {})
  <2> DEFINE F == {"env", "history"} \union (IF script.req.gateway THEN {"catalog"} ELSE {})
  <2>1. journal' = [NoJournal EXCEPT !.dir = TRUE, !.env = policy, !.history = history, !.catalog = catalog, !.files = F]
    BY DEF Save
  <2> HIDE DEF F
  <2>2. journal'.dir /\ journal'.env = policy /\ journal'.catalog = catalog /\ journal'.files = F
    BY <2>1 DEF NoJournal
  <2>. QED  BY <2>2 DEF F
<1>10. Holds("env")' /\ ~Holds("operation")' /\ ~Holds("started")' /\ (Holds("catalog")' <=> r.gateway)
  BY <1>4, <1>9 DEF Holds
<1>11. NoneOpen' /\ Settled' /\ Topped(catalog)' /\ SamePublished' /\ ~Won'
  <2>1. SamePublished'  BY <1>1, <1>9 DEF SamePublished
  <2>2. ~Won'  BY <1>10 DEF Won
  <2>3. NoneOpen' /\ Settled' /\ Topped(catalog)'
    BY <1>1, <1>8 DEF NoneOpen, Open, Status, Settled, Served, Topped, data
  <2>. QED  BY <2>1, <2>2, <2>3
<1>12. Journalled'
  <2>1. /\ policy.build # 0 => Safe(policy.build)
        /\ \A b \in Published(catalog) : Safe(b)
    BY <1>8, ReleasesAssumption DEF Settled, NoneOpen, Safe
  <2>2. /\ journal'.env.build # 0 => Safe(journal.env.build)'
        /\ \A b \in Published(journal'.catalog) : Safe(b)'
    BY <1>1, <1>9, <2>1 DEF Safe, Open, Status, data
  <2>3. policy.gateway => /\ catalog.recommended = policy.build /\ policy.build \in Published(catalog)
                          /\ <<policy.build, artifact[policy.build]>> \in cache
    BY <1>8 DEF Settled, Served
  <2>4. policy' = policy /\ meta' = policy /\ Topped(catalog)  BY <1>1, <1>8 DEF Settled
  <2>5. journal'.env.gateway => /\ journal'.catalog.recommended = journal'.env.build
                                /\ journal'.env.build \in Published(journal'.catalog)
                                /\ <<journal'.env.build, artifact'[journal'.env.build]>> \in cache'
    BY <1>1, <1>9, <2>3 DEF data
  <2>6. /\ Topped(journal'.catalog) /\ Published(journal'.catalog) \subseteq Published(catalog')
        /\ Published(catalog') \subseteq Published(journal'.catalog) \union {catalog'.recommended}
    BY <1>1, <1>9, <2>4
  <2>7. \A o \in Operations : ~Open(o)'  BY <1>11 DEF NoneOpen
  <2>. QED  BY <1>1, <1>9, <1>10, <1>11, <2>2, <2>4, <2>5, <2>6, <2>7 DEF Journalled
<1>13. Stored'
  <2>1. desk' # None => Published(desk') = Published(catalog') /\ desk'.recommended = catalog'.recommended
    BY <1>1 DEF Whole, Stored
  <2>. QED  BY <1>9, <1>11, <1>12, <2>1 DEF Stored
<1>14. Performed(r, rest)'
  <2>1. /\ r.mode = "promote" => "name" \in rest /\ "finish" \in rest
        /\ r.mode = "promote" /\ r.gateway => "publish" \in rest
        /\ "flag" \in rest /\ "switch" \in rest /\ "restart" \in rest
    BY <1>4, <1>7 DEF Steps
  <2>. QED  BY <1>1, <1>5, <1>9, <1>10, <1>11, <2>1 DEF Performed
<1>15. "name" \in rest => Status(r.id)' = "ABSENT"  BY <1>1, <1>4, <1>7 DEF Status, data
<1>16. Done'  BY <1>4, <1>9, <1>14, <1>15, Forth
<1>. QED  BY <1>13, <1>16 DEF Whole

\* The journal gets the promotion's name before it begins, and the mark before the policy is switched.
LEMMA Marking ==
    ASSUME Follows, Truths, Whole, Name \/ Flag
    PROVE  Whole'
<1> SUFFICES ASSUME NEW r, NEW left, NEW rest, r = script.req, left = Rem(script.todo), rest = Rem(script'.todo),
                    NEW s \in {"name", "flag"}, (s = "name" /\ Name) \/ (s = "flag" /\ Flag)
             PROVE  Whole'
  OBVIOUS
<1>1. At(s) /\ Advance /\ UNCHANGED <<data, policy, history, catalog, meta, cache, desk>>
  BY DEF Name, Flag, Step, files
<1>2. s \in Names \ {"save"} /\ s \notin Returning /\ s # "clear"  BY DEF Names, Returning, Back
<1>3. script.phase = "main"  BY <1>1, <1>2, Walking
<1>4. /\ r.mode \in {"promote", "withdraw"} /\ r.gateway \in BOOLEAN /\ s \in Steps(r)
      /\ r.mode = "promote" => r.id \in Operations
      /\ left = rest \union {s} /\ rest \subseteq After(r.gateway)[s]
      /\ "name" \in left => Status(r.id) = "ABSENT"
      /\ journal.dir /\ Journalled /\ Performed(r, left) /\ ~Won
      /\ script' = Idle \/ (script'.phase = "main" /\ script'.req = r)
  BY <1>1, <1>2, <1>3, Underway
<1>5. s \notin rest
  <2>1. /\ After(r.gateway)["name"] = {"begin"} \union Promoting
        /\ After(r.gateway)["flag"] = {"switch", "restart", "record"} \union Ending(r.gateway)
    BY <1>4, AfterIs
  <2>. QED  BY <1>4, <2>1 DEF Promoting, Ending
<1>6. /\ journal'.dir /\ journal'.env = journal.env /\ journal'.catalog = journal.catalog
      /\ s = "name" => journal'.files = journal.files \union {"operation"} /\ journal'.id = r.id
      /\ s = "flag" => journal'.files = journal.files \union {"started"} /\ journal'.id = journal.id
  BY <1>4 DEF Name, Flag, Follows, Shaped, Journals
<1>7. /\ Holds("env")' <=> Holds("env")
      /\ Holds("catalog")' <=> Holds("catalog")
      /\ s = "name" => Holds("operation")' /\ (Holds("started")' <=> Holds("started"))
      /\ s = "flag" => Holds("started")' /\ (Holds("operation")' <=> Holds("operation"))
  BY <1>6 DEF Holds
<1>8. s = "name" => r.mode = "promote" /\ ~Holds("operation") /\ Status(r.id) = "ABSENT"
  BY <1>4 DEF Steps, Performed
<1>9. ~Won'  BY <1>1, <1>4, <1>6, <1>7, <1>8 DEF Won, Status, data
<1>10. SamePublished' <=> SamePublished  BY <1>1, <1>6 DEF SamePublished
<1>11. Journalled'
  <2>1. \A b : Safe(b)' <=> Safe(b)  BY <1>1 DEF Safe, Open, Status, data
  <2>2. \A o \in Operations : Open(o)' => Holds("operation")' /\ o = journal'.id
    BY <1>1, <1>4, <1>6, <1>7, <1>8 DEF Journalled, Open, Status, data
  <2>3. Holds("operation")' => journal'.id \in Operations  BY <1>4, <1>6, <1>7, <1>8 DEF Journalled
  <2>4. /\ journal'.env.build # 0 => Safe(journal.env.build)'
        /\ \A b \in Published(journal'.catalog) : Safe(b)'
    BY <1>4, <1>6, <2>1 DEF Journalled
  <2>5. journal'.env.gateway => /\ journal'.catalog.recommended = journal'.env.build
                                /\ journal'.env.build \in Published(journal'.catalog)
                                /\ <<journal'.env.build, artifact'[journal'.env.build]>> \in cache'
    BY <1>1, <1>4, <1>6 DEF Journalled, data
  <2>6. /\ Topped(journal'.catalog) /\ Published(journal'.catalog) \subseteq Published(catalog')
        /\ Published(catalog') \subseteq Published(journal'.catalog) \union {catalog'.recommended}
        /\ ~Holds("catalog")' => SamePublished'
        /\ ~Holds("started")' => policy' = journal'.env /\ meta' = policy'
    BY <1>1, <1>4, <1>6, <1>7, <1>10 DEF Journalled
  <2>7. Holds("env")'  BY <1>4, <1>7 DEF Journalled
  <2>. QED  BY <1>9, <2>2, <2>3, <2>4, <2>5, <2>6, <2>7 DEF Journalled
<1>12. Stored'
  <2>1. Topped(catalog)' /\ (desk' # None => Published(desk') = Published(catalog') /\ desk'.recommended = catalog'.recommended)
    BY <1>1 DEF Whole, Stored, Topped
  <2>. QED  BY <1>6, <1>11, <2>1 DEF Stored
<1>13. Performed(r, rest)'
  <2>1. Served(r.build)' <=> Served(r.build)  BY <1>1 DEF Served, data
  <2>2. \A x : x # s => (x \in left <=> x \in rest)  BY <1>4
  <2>3. /\ "save" \notin rest
        /\ ("publish" \in left <=> "publish" \in rest) /\ ("switch" \in left <=> "switch" \in rest)
        /\ ("restart" \in left <=> "restart" \in rest) /\ ("finish" \in left <=> "finish" \in rest)
    BY <1>4, <2>2 DEF Performed
  <2>4. IF r.mode = "promote" /\ "name" \notin rest THEN Holds("operation")' /\ journal'.id = r.id
        ELSE ~Holds("operation")'
    <3>1. CASE s = "name"  BY <1>5, <1>6, <1>7, <1>8, <3>1
    <3>2. CASE s = "flag"
      <4>1. "name" \in left <=> "name" \in rest  BY <2>2, <3>2
      <4>. QED  BY <1>4, <1>6, <1>7, <3>2, <4>1 DEF Performed
    <3>. QED  BY <3>1, <3>2
  <2>5. "flag" \notin rest => Holds("started")'
    <3>1. CASE s = "name"
      <4>1. "flag" \in left <=> "flag" \in rest  BY <2>2, <3>1
      <4>. QED  BY <1>4, <1>7, <3>1, <4>1 DEF Performed
    <3>2. CASE s = "flag"  BY <1>7, <3>2
    <3>. QED  BY <3>1, <3>2
  <2>. QED  BY <1>1, <1>4, <1>6, <1>7, <1>9, <1>10, <2>1, <2>3, <2>4, <2>5 DEF Performed, Aim
<1>14. "name" \in rest => Status(r.id)' = "ABSENT"  BY <1>1, <1>4 DEF Status, data
<1>15. Done'  BY <1>4, <1>6, <1>13, <1>14, Forth
<1>. QED  BY <1>12, <1>15 DEF Whole

\* The promotion begins; the journal already names it.
LEMMA Opening ==
    ASSUME Follows, Inv, Truths, Lasting, Whole, Step("begin"), UNCHANGED <<journal, files, meta, cache, desk>>,
           BeginPromotion(script.req.id, script.req.build, script.req.apk, script.req.revision)
    PROVE  Whole'
<1> SUFFICES ASSUME NEW r, NEW left, NEW rest, r = script.req, left = Rem(script.todo), rest = Rem(script'.todo)
             PROVE  Whole'
  OBVIOUS
<1>1. At("begin") /\ Advance  BY DEF Step
<1>2. "begin" \in Names \ {"save"} /\ "begin" \notin Returning  BY DEF Names, Returning, Back
<1>3. script.phase = "main"  BY <1>1, <1>2, Walking
<1>4. /\ r.mode \in {"promote", "withdraw"} /\ r.gateway \in BOOLEAN /\ "begin" \in Steps(r)
      /\ r.mode = "promote" => r.build \in Builds /\ r.id \in Operations
      /\ left = rest \union {"begin"} /\ rest \subseteq After(r.gateway)["begin"]
      /\ journal.dir /\ Journalled /\ Performed(r, left) /\ ~Won
      /\ script' = Idle \/ (script'.phase = "main" /\ script'.req = r)
  BY <1>1, <1>2, <1>3, Underway
<1>5. r.mode = "promote" /\ r.build \in Builds /\ r.id \in Operations  BY <1>4 DEF Steps
<1>6. "name" \notin rest /\ "name" \notin left
  <2>1. After(r.gateway)["begin"] = Promoting  BY <1>4, AfterIs
  <2>. QED  BY <1>4, <2>1 DEF Promoting
<1>7. Holds("operation") /\ journal.id = r.id  BY <1>4, <1>5, <1>6 DEF Performed
<1>8. UNCHANGED <<journal, policy, meta, cache, desk, catalog, artifact>>  BY DEF BeginPromotion, files
<1>9. /\ promotion'[r.id].status = "PREPARED" /\ promotion'[r.id].build = r.build
      /\ promotion'[r.id].previous = release[r.build].published
      /\ \A o \in Operations : o # r.id => promotion'[o] = promotion[o]
  BY <1>5 DEF BeginPromotion, Inv, DataOK
<1>10. \A b \in Builds : release'[b].published = release[b].published
  BY <1>5 DEF BeginPromotion, Inv, DataOK, Row
<1>11. \A o \in Operations : Open(o)' => o = r.id  BY <1>4, <1>7, <1>9 DEF Journalled, Open, Status
<1>12. ~Won'  BY <1>7, <1>8, <1>9 DEF Won, Status
<1>13. \A b \in Builds : Safe(b) => Safe(b)'
  BY <1>5, <1>9, <1>10, <1>11 DEF Safe
<1>14. SamePublished' <=> SamePublished  BY <1>8 DEF SamePublished
<1>15. \A x : Holds(x)' <=> Holds(x)  BY <1>8 DEF Holds
<1>16. Journalled'
  <2>1. journal.env.build # 0 => journal.env.build \in Builds  BY DEF Follows, Shaped, Journals, Policies
  <2>2. /\ journal'.env.build # 0 => Safe(journal.env.build)'
        /\ \A b \in Published(journal'.catalog) : Safe(b)'
    <3>1. Published(journal.catalog) \subseteq Builds  BY DEF Published
    <3>. QED  BY <1>4, <1>8, <1>13, <2>1, <3>1 DEF Journalled
  <2>3. \A o \in Operations : Open(o)' => Holds("operation")' /\ o = journal'.id
    BY <1>7, <1>8, <1>11, <1>15
  <2>. QED  BY <1>4, <1>8, <1>12, <1>14, <1>15, <2>2, <2>3 DEF Journalled
<1>17. Stored'
  <2>1. Topped(catalog)' /\ (desk' # None => Published(desk') = Published(catalog') /\ desk'.recommended = catalog'.recommended)
    BY <1>8 DEF Whole, Stored, Topped
  <2>. QED  BY <1>4, <1>8, <1>16, <2>1 DEF Stored
<1>18. Performed(r, rest)'
  <2>1. "begin" \in Quiet  BY DEF Quiet
  <2>2. Performed(r, rest)  BY <1>4, <2>1, Quietly
  <2>3. Served(r.build)' <=> Served(r.build)  BY <1>8 DEF Served
  <2>. QED  BY <1>4, <1>8, <1>12, <1>14, <1>15, <2>2, <2>3 DEF Performed, Aim
<1>19. Done'  BY <1>4, <1>6, <1>8, <1>18, Forth
<1>. QED  BY <1>17, <1>19 DEF Whole

\* The promotion succeeds after everything else was done.
LEMMA Finishing ==
    ASSUME Follows, Inv, Truths, Lasting, Whole, Step("finish"), UNCHANGED <<journal, files, meta, cache, desk>>,
           release[script.req.build].published = script.req.revision, Finish(script.req.id)
    PROVE  Whole'
<1> SUFFICES ASSUME NEW r, NEW left, NEW rest, r = script.req, left = Rem(script.todo), rest = Rem(script'.todo)
             PROVE  Whole'
  OBVIOUS
<1>1. At("finish") /\ Advance  BY DEF Step
<1>2. "finish" \in Names \ {"save"} /\ "finish" \notin Returning  BY DEF Names, Returning, Back
<1>3. script.phase = "main"  BY <1>1, <1>2, Walking
<1>4. /\ r.mode \in {"promote", "withdraw"} /\ r.gateway \in BOOLEAN /\ "finish" \in Steps(r)
      /\ r.mode = "promote" => r.build \in Builds /\ r.revision \in 1..MaxRevision /\ r.id \in Operations
      /\ left = rest \union {"finish"} /\ rest \subseteq After(r.gateway)["finish"]
      /\ journal.dir /\ Journalled /\ Performed(r, left) /\ ~Won
      /\ script' = Idle \/ (script'.phase = "main" /\ script'.req = r)
  BY <1>1, <1>2, <1>3, Underway
<1>5. r.mode = "promote" /\ r.build \in Builds /\ r.id \in Operations /\ r.revision # 0  BY <1>4 DEF Steps
<1>6. rest \subseteq {"clear"}
  <2>1. After(r.gateway)["finish"] = {"clear"}  BY <1>4, AfterIs
  <2>. QED  BY <1>4, <2>1
<1>7. /\ Holds("operation") /\ journal.id = r.id /\ Holds("started") /\ (Holds("catalog") <=> r.gateway)
      /\ IF r.gateway THEN /\ catalog.recommended = r.build /\ Served(r.build)
                           /\ Published(catalog) \subseteq Published(journal.catalog) \union {r.build}
         ELSE SamePublished
      /\ policy = [build |-> r.build, gateway |-> r.gateway] /\ meta = policy
  <2>1. "name" \notin left /\ "flag" \notin left /\ "publish" \notin left /\ "switch" \notin left /\ "restart" \notin left
    BY <1>4, <1>6
  <2>. QED  BY <1>4, <1>5, <2>1 DEF Performed, Aim
<1>8. UNCHANGED <<journal, policy, meta, cache, desk, catalog, artifact>>  BY DEF Finish, To, files
<1>9. /\ promotion'[r.id].status = "SUCCEEDED"
      /\ \A o \in Operations : o # r.id => promotion'[o] = promotion[o]
  BY <1>5 DEF Finish, To, Inv, DataOK, Entries
<1>10. \A b \in Builds : release'[b].published = release[b].published
  <2> DEFINE b == promotion[r.id].build
  <2>1. release' = [release EXCEPT ![b].lock = 0]  BY DEF Finish
  <2>2. release \in [Builds -> Row]  BY DEF Inv, DataOK
  <2> HIDE DEF b
  <2>. QED  BY <2>1, <2>2 DEF Row
<1>11. \A o \in Operations : ~Open(o)'
  BY <1>4, <1>7, <1>9 DEF Journalled, Open, Status
<1>12. Won'  BY <1>7, <1>8, <1>9 DEF Won, Status, Holds
<1>13. \A b \in Builds : Safe(b) => Safe(b)'  BY <1>10, <1>11 DEF Safe
<1>14. SamePublished' <=> SamePublished  BY <1>8 DEF SamePublished
<1>15. \A x : Holds(x)' <=> Holds(x)  BY <1>8 DEF Holds
<1>16. Settled'
  <2>1. meta' = policy' /\ (policy'.gateway => catalog'.recommended = policy'.build /\ Served(policy.build)')
    BY <1>4, <1>7, <1>8 DEF Served
  <2>2. release'[policy'.build].published # 0
    BY <1>5, <1>7, <1>8, <1>10
  <2>3. \A b \in Published(catalog) : release'[b].published # 0
    <3>1. Published(catalog) \subseteq Published(journal.catalog) \union {r.build}  BY <1>7 DEF SamePublished
    <3>2. \A b \in Published(journal.catalog) : release[b].published # 0  BY <1>4 DEF Journalled, Safe
    <3>3. Published(catalog) \subseteq Builds  BY DEF Published
    <3>. QED  BY <1>5, <1>10, <3>1, <3>2, <3>3
  <2>. QED  BY <1>8, <2>1, <2>2, <2>3 DEF Settled
<1>17. Journalled'
  <2>1. journal.env.build # 0 => journal.env.build \in Builds  BY DEF Follows, Shaped, Journals, Policies
  <2>2. /\ journal'.env.build # 0 => Safe(journal.env.build)'
        /\ \A b \in Published(journal'.catalog) : Safe(b)'
    <3>1. Published(journal.catalog) \subseteq Builds  BY DEF Published
    <3>. QED  BY <1>4, <1>8, <1>13, <2>1, <3>1 DEF Journalled
  <2>. QED  BY <1>4, <1>8, <1>11, <1>14, <1>15, <1>16, <2>2 DEF Journalled
<1>18. Stored'
  <2>1. Topped(catalog)' /\ (desk' # None => Published(desk') = Published(catalog') /\ desk'.recommended = catalog'.recommended)
    BY <1>8 DEF Whole, Stored, Topped
  <2>. QED  BY <1>4, <1>8, <1>17, <2>1 DEF Stored
<1>19. Performed(r, rest)'
  <2>1. Served(r.build)' <=> Served(r.build)  BY <1>8 DEF Served
  <2>2. "save" \notin rest /\ "name" \notin rest /\ "publish" \notin rest /\ "switch" \notin rest  BY <1>6
  <2>. QED  BY <1>5, <1>6, <1>7, <1>8, <1>12, <1>14, <1>15, <2>1, <2>2 DEF Performed, Aim
<1>20. Done'  BY <1>4, <1>6, <1>8, <1>19, Forth
<1>. QED  BY <1>18, <1>20 DEF Whole

\* The build is published in the catalogue of the gateway.
LEMMA Publishing ==
    ASSUME Follows, Inv, Truths, Lasting, Whole, Publish
    PROVE  Whole'
<1> SUFFICES ASSUME NEW r, NEW left, NEW rest, r = script.req, left = Rem(script.todo), rest = Rem(script'.todo)
             PROVE  Whole'
  OBVIOUS
<1>1. At("publish") /\ Advance  BY DEF Publish, Download, Step
<1>2. "publish" \in Names \ {"save"} /\ "publish" \notin Returning  BY DEF Names, Returning, Back
<1>3. script.phase = "main"  BY <1>1, <1>2, Walking
<1>4. /\ r.mode \in {"promote", "withdraw"} /\ r.gateway \in BOOLEAN /\ "publish" \in Steps(r)
      /\ r.mode = "promote" => r.build \in Builds /\ r.id \in Operations
      /\ left = rest \union {"publish"} /\ rest \subseteq After(r.gateway)["publish"]
      /\ "name" \in left => Status(r.id) = "ABSENT"
      /\ journal.dir /\ Journalled /\ Performed(r, left) /\ ~Won
      /\ script' = Idle \/ (script'.phase = "main" /\ script'.req = r)
  BY <1>1, <1>2, <1>3, Underway
<1>5. r.mode = "promote" /\ r.gateway /\ r.build \in Builds /\ r.id \in Operations  BY <1>4 DEF Steps
<1>6. "publish" \notin rest
  <2>1. After(r.gateway)["publish"] = Switching(r.gateway)  BY <1>4, AfterIs
  <2>. QED  BY <1>4, <2>1 DEF Switching, Ending
<1>7. SamePublished /\ Holds("catalog")  BY <1>4, <1>5 DEF Performed
<1>8. /\ UNCHANGED <<data, journal, policy, meta, cache, desk>> /\ desk = None
      /\ Proved(r.build) /\ r.build >= catalog.recommended /\ <<r.build, catalog.entry[r.build].apk>> \in cache
      /\ catalog' = [catalog EXCEPT !.state = "available", !.recommended = r.build,
                                    !.entry[r.build].at = release[r.build].by]
  BY DEF Publish, Download, Entry
<1>9. artifact[r.build] = catalog.entry[r.build].apk /\ release[r.build].by # 0
  BY <1>5, <1>8 DEF Proved, Entry, Truths, Marked
<1>10. /\ \A b \in Builds : b # r.build => catalog'.entry[b] = catalog.entry[b]
       /\ catalog'.entry[r.build].at = release[r.build].by
       /\ catalog'.recommended = r.build
  BY <1>5, <1>8 DEF Follows, Shaped, Catalogs
<1>11. Published(catalog') = Published(catalog) \union {r.build}  BY <1>5, <1>9, <1>10 DEF Published
<1>12. Topped(catalog)'
  <2>1. \A b \in Published(catalog) : b <= catalog.recommended  BY DEF Whole, Stored, Topped
  <2>2. catalog.recommended \in Nat /\ r.build \in Nat /\ Published(catalog) \subseteq Nat
    <3>1. Builds \subseteq Nat  BY ReleasesAssumption
    <3>2. catalog.recommended \in Builds \union {0}  BY DEF Follows, Shaped, Catalogs
    <3>3. Published(catalog) \subseteq Builds  BY DEF Published
    <3>4. r.build \in Builds  BY <1>5
    <3>5. catalog.recommended \in Nat
      <4>1. 0 \in Nat  OBVIOUS
      <4>. QED  BY <3>1, <3>2, <4>1
    <3>6. r.build \in Nat  BY <3>1, <3>4
    <3>7. Published(catalog) \subseteq Nat  BY <3>1, <3>3
    <3>. QED  BY <3>5, <3>6, <3>7
  <2>3. \A b \in Published(catalog) \union {r.build} : b <= r.build  BY <1>8, <2>1, <2>2
  <2>. QED  BY <1>10, <1>11, <2>3 DEF Topped
<1>13. Served(r.build)'  BY <1>8, <1>9, <1>11 DEF Served, data
<1>14. ~Won' /\ \A x : Holds(x)' <=> Holds(x)  BY <1>4, <1>8 DEF Won, Holds, Status, data
<1>15. Journalled'
  <2>1. \A b : Safe(b)' <=> Safe(b)  BY <1>8 DEF Safe, Open, Status, data
  <2>2. /\ journal'.env.build # 0 => Safe(journal.env.build)'
        /\ \A b \in Published(journal'.catalog) : Safe(b)'
    BY <1>4, <1>8, <2>1 DEF Journalled
  <2>3. \A o \in Operations : Open(o)' => Holds("operation")' /\ o = journal'.id
    BY <1>4, <1>8, <1>14 DEF Journalled, Open, Status, data
  <2>4. /\ Published(journal'.catalog) \subseteq Published(catalog')
        /\ Published(catalog') \subseteq Published(journal'.catalog) \union {catalog'.recommended}
    BY <1>7, <1>8, <1>10, <1>11 DEF SamePublished
  <2>5. journal'.env.gateway => /\ journal'.catalog.recommended = journal'.env.build
                                /\ journal'.env.build \in Published(journal'.catalog)
                                /\ <<journal'.env.build, artifact'[journal'.env.build]>> \in cache'
    BY <1>4, <1>8 DEF Journalled, data
  <2>6. /\ Holds("env")' /\ (Holds("operation")' => journal'.id \in Operations) /\ Topped(journal'.catalog)
        /\ ~Holds("started")' => policy' = journal'.env /\ meta' = policy'
        /\ Holds("catalog")'
    BY <1>4, <1>7, <1>8, <1>14 DEF Journalled
  <2>. QED  BY <1>14, <2>2, <2>3, <2>4, <2>5, <2>6 DEF Journalled
<1>16. Stored'  BY <1>4, <1>8, <1>12, <1>15 DEF Stored
<1>17. Performed(r, rest)'
  <2>1. Published(catalog') \subseteq Published(journal'.catalog) \union {r.build}
    BY <1>7, <1>8, <1>11 DEF SamePublished
  <2>2. \A x : x # "publish" => (x \in left <=> x \in rest)  BY <1>4
  <2>3. /\ ("name" \in left <=> "name" \in rest) /\ ("switch" \in left <=> "switch" \in rest)
        /\ ("restart" \in left <=> "restart" \in rest) /\ ("finish" \in left <=> "finish" \in rest)
        /\ ("flag" \in left <=> "flag" \in rest) /\ ("save" \in left <=> "save" \in rest)
    BY <2>2
  <2>. QED  BY <1>4, <1>5, <1>6, <1>8, <1>10, <1>13, <1>14, <2>1, <2>3 DEF Performed, Aim
<1>18. "name" \in rest => Status(r.id)' = "ABSENT"  BY <1>4, <1>8 DEF Status, data
<1>19. Done'  BY <1>4, <1>8, <1>17, <1>18, Forth
<1>. QED  BY <1>16, <1>19 DEF Whole

\* The policy is switched, the backend restarted with it.
LEMMA Restarting ==
    ASSUME Follows, Truths, Whole, Switch \/ (Restart /\ script.phase = "main")
    PROVE  Whole'
<1> SUFFICES ASSUME NEW r, NEW left, NEW rest, r = script.req, left = Rem(script.todo), rest = Rem(script'.todo),
                    NEW s \in {"switch", "restart"}, (s = "switch" /\ Switch) \/ (s = "restart" /\ Restart /\ script.phase = "main")
             PROVE  Whole'
  OBVIOUS
<1>1. At(s) /\ Advance
  <2>1. CASE s = "switch"  BY <2>1 DEF Switch, Step
  <2>2. CASE s = "restart"
    <3>1. At("restart") \/ At("old restart")  BY <2>2 DEF Restart, Step
    <3>2. "old restart" \notin Steps(script.req)  BY DEF Steps
    <3>3. Advance  BY <2>2 DEF Restart, Step
    <3>4. ~At("old restart")
      <4>1. At("old restart") => "old restart" \in Steps(script.req)  BY <2>2, <3>3, Walking
      <4>. QED  BY <3>2, <4>1
    <3>. QED  BY <2>2, <3>1, <3>3, <3>4
  <2>. QED  BY <2>1, <2>2
<1>2. s \in Names \ {"save"} /\ s \notin Returning /\ s # "clear"  BY DEF Names, Returning, Back
<1>3. script.phase = "main"  BY <1>1, <1>2, Walking
<1>4. /\ r.mode \in {"promote", "withdraw"} /\ r.gateway \in BOOLEAN
      /\ left = rest \union {s} /\ rest \subseteq After(r.gateway)[s]
      /\ "name" \in left => Status(r.id) = "ABSENT"
      /\ journal.dir /\ Journalled /\ Performed(r, left) /\ ~Won
      /\ script' = Idle \/ (script'.phase = "main" /\ script'.req = r)
  BY <1>1, <1>2, <1>3, Underway
<1>5. s \notin rest /\ "flag" \notin left /\ "switch" \notin rest
  <2>1. /\ After(r.gateway)["switch"] = {"restart", "record"} \union Ending(r.gateway)
        /\ After(r.gateway)["restart"] = {"record"} \union Ending(r.gateway)
    BY <1>4, AfterIs
  <2>. QED  BY <1>4, <2>1 DEF Ending
<1>6. s = "switch" => "restart" \in rest
  <2>1. "switch" \in left => "restart" \in left  BY <1>3 DEF Follows, Planned
  <2>. QED  BY <1>4, <2>1
<1>7. UNCHANGED <<data, journal, catalog, cache, desk>>
  BY DEF Switch, Restart, Step, files
<1>8. /\ s = "switch" => policy' = Aim(r) /\ meta' = meta
      /\ s = "restart" => policy' = policy /\ meta' = policy
  BY DEF Switch, Restart, Aim, files
<1>9. /\ \A x : Holds(x)' <=> Holds(x)
      /\ ~Won' /\ (SamePublished' <=> SamePublished) /\ (Served(r.build)' <=> Served(r.build))
  BY <1>4, <1>7 DEF Holds, Won, Status, SamePublished, Served, data
<1>10. Holds("started")  BY <1>4, <1>5 DEF Performed
<1>11. Journalled'
  <2>1. \A b : Safe(b)' <=> Safe(b)  BY <1>7 DEF Safe, Open, Status, data
  <2>2. /\ journal'.env.build # 0 => Safe(journal.env.build)'
        /\ \A b \in Published(journal'.catalog) : Safe(b)'
    BY <1>4, <1>7, <2>1 DEF Journalled
  <2>3. \A o \in Operations : Open(o)' => Holds("operation")' /\ o = journal'.id
    BY <1>4, <1>7, <1>9 DEF Journalled, Open, Status, data
  <2>4. journal'.env.gateway => /\ journal'.catalog.recommended = journal'.env.build
                                /\ journal'.env.build \in Published(journal'.catalog)
                                /\ <<journal'.env.build, artifact'[journal'.env.build]>> \in cache'
    BY <1>4, <1>7 DEF Journalled, data
  <2>. QED  BY <1>4, <1>7, <1>9, <1>10, <2>2, <2>3, <2>4 DEF Journalled
<1>12. Stored'
  <2>1. Topped(catalog)' /\ (desk' # None => Published(desk') = Published(catalog') /\ desk'.recommended = catalog'.recommended)
    BY <1>7 DEF Whole, Stored, Topped
  <2>. QED  BY <1>4, <1>7, <1>11, <2>1 DEF Stored
<1>13. Performed(r, rest)'
  <2>1. \A x : x # s => (x \in left <=> x \in rest)  BY <1>4
  <2>2. /\ ("name" \in left <=> "name" \in rest) /\ ("publish" \in left <=> "publish" \in rest)
        /\ ("finish" \in left <=> "finish" \in rest)
        /\ ("flag" \in left <=> "flag" \in rest) /\ ("save" \in left <=> "save" \in rest)
    BY <2>1
  <2>3. policy' = Aim(r) /\ ("restart" \notin rest => meta' = policy')
    <3>1. CASE s = "switch"  BY <1>6, <1>8, <3>1
    <3>2. CASE s = "restart"
      <4>1. "switch" \notin left  BY <1>4, <1>5, <3>2
      <4>2. policy = Aim(r)  BY <1>4, <4>1 DEF Performed
      <4>. QED  BY <1>8, <3>2, <4>2
    <3>. QED  BY <3>1, <3>2
  <2>4. Aim(r)' = Aim(r)  BY DEF Aim
  <2>. QED  BY <1>4, <1>5, <1>7, <1>9, <2>2, <2>3, <2>4 DEF Performed
<1>14. "name" \in rest => Status(r.id)' = "ABSENT"  BY <1>4, <1>7 DEF Status, data
<1>15. Done'  BY <1>4, <1>7, <1>13, <1>14, Forth
<1>. QED  BY <1>12, <1>15 DEF Whole

\* The journal is removed when all is done, or undone.
LEMMA Closing ==
    ASSUME Follows, Inv, Truths, Whole, Clear
    PROVE  Whole'
<1> SUFFICES ASSUME NEW r, NEW left, NEW rest, r = script.req, left = Rem(script.todo), rest = Rem(script'.todo)
             PROVE  Whole'
  OBVIOUS
<1>1. At("clear") /\ Advance /\ journal' = NoJournal /\ UNCHANGED <<data, policy, history, catalog, meta, cache, desk>>
  BY DEF Clear, Step, files
<1>2. /\ left = rest \union {"clear"} /\ (script'.todo = <<>> <=> rest = {})
      /\ script' = Idle \/ (script'.phase = script.phase /\ script'.req = r)
      /\ script.phase = "main" \/ (script.phase \in {"recover", "compensate"} /\ rest \subseteq BackAfter["clear"])
  BY <1>1, Walking
<1>3. \A b \in Published(journal.catalog) : b \in Builds  BY DEF Published
<1>4. rest = {} /\ NoneOpen /\ Settled
  <2>1. ASSUME journal.dir, Won, Holds("operation") => journal.id \in Operations PROVE NoneOpen /\ Settled
    BY <2>1 DEF Whole, Stored, Journalled, Won, NoneOpen, Open
  <2>2. ASSUME journal.dir, SamePublished, policy = journal.env, meta = policy,
               Holds("operation") => ~Open(journal.id)
        PROVE  NoneOpen /\ Settled
    <3>1. Journalled  BY <2>2 DEF Whole, Stored
    <3>2. NoneOpen  BY <2>2, <3>1 DEF Journalled, NoneOpen
    <3>3. policy.build # 0 => release[policy.build].published # 0  BY <2>2, <3>1 DEF Journalled, Safe
    <3>4. policy.gateway => catalog.recommended = policy.build /\ Served(policy.build)
      BY <2>2, <3>1 DEF Journalled, SamePublished, Served
    <3>5. \A b \in Published(catalog) : release[b].published # 0
      BY <2>2, <3>1 DEF Journalled, SamePublished, Safe
    <3>. QED  BY <2>2, <3>2, <3>3, <3>4, <3>5 DEF Settled
  <2>3. CASE script.phase = "main"
    <3>1. "clear" \in Names \ {"save"}  BY DEF Names
    <3>2. /\ r.mode \in {"promote", "withdraw"} /\ r.gateway \in BOOLEAN
          /\ rest \subseteq After(r.gateway)["clear"] /\ journal.dir /\ Journalled /\ Performed(r, left)
      BY <1>1, <2>3, <3>1, Underway
    <3>3. rest = {}  BY <3>2, AfterIs
    <3>4. left = {"clear"}  BY <1>2, <3>3
    <3>5. CASE r.mode = "promote"
      <4>1. Won  BY <3>2, <3>4, <3>5 DEF Performed
      <4>. QED  BY <2>1, <3>2, <3>3, <4>1 DEF Journalled
    <3>6. CASE r.mode = "withdraw"
      <4>1. ~Holds("operation") /\ SamePublished /\ policy = NoPolicy /\ meta = policy
        BY <3>2, <3>4, <3>6 DEF Performed, Aim
      <4>2. NoneOpen  BY <3>2, <4>1 DEF Journalled, NoneOpen
      <4>3. policy.build = 0 /\ ~policy.gateway  BY <4>1 DEF NoPolicy
      <4>4. \A b \in Published(catalog) : release[b].published # 0
        BY <3>2, <4>1 DEF Journalled, SamePublished, Safe
      <4>. QED  BY <3>3, <4>1, <4>2, <4>3, <4>4 DEF Settled
    <3>. QED  BY <3>2, <3>5, <3>6
  <2>4. CASE script.phase \in {"recover", "compensate"}
    <3>1. rest = {}
      <4>1. rest \subseteq BackAfter["clear"]  BY <1>2, <2>4
      <4>. QED  BY <4>1, BackAfterIs
    <3>2. left = {"clear"}  BY <1>2, <3>1
    <3>3. script.todo # <<>>  BY <1>1 DEF At
    <3>4. journal.dir /\ Backward(left)
      <4>1. journal.dir /\ Backward(Rem(script.todo))  BY <2>4, <3>3 DEF Whole, Done
      <4>. QED  BY <4>1
    <3>5. Journalled  BY <3>4 DEF Whole, Stored
    <3>6. CASE Won  BY <2>1, <3>1, <3>4, <3>5, <3>6 DEF Journalled
    <3>7. CASE ~Won
      <4>1. Undone(left)  BY <3>2, <3>4, <3>7 DEF Backward
      <4>2. SamePublished /\ policy = journal.env /\ meta = policy /\ (Holds("operation") => ~Open(journal.id))
        BY <3>2, <3>5, <4>1 DEF Undone, Journalled
      <4>. QED  BY <2>2, <3>1, <3>4, <4>2
    <3>. QED  BY <3>6, <3>7
  <2>. QED  BY <1>2, <2>3, <2>4
<1>5. ~journal'.dir /\ journal'.id = 0  BY <1>1 DEF NoJournal
<1>6. Stored'
  <2>1. Topped(catalog)' /\ (desk' # None => Published(desk') = Published(catalog') /\ desk'.recommended = catalog'.recommended)
    BY <1>1 DEF Whole, Stored, Topped
  <2>2. NoneOpen' /\ Settled'  BY <1>1, <1>4 DEF NoneOpen, Open, Status, Settled, Served, data
  <2>. QED  BY <1>5, <2>1, <2>2 DEF Stored
<1>7. Done'
  <2>1. CASE script' = Idle
    <3>1. script'.phase = "idle"  BY <2>1 DEF Idle
    <3>. QED  BY <3>1 DEF Done
  <2>2. CASE script' # Idle
    <3>1. script'.phase = script.phase /\ script'.req = r /\ script'.todo = <<>>  BY <1>2, <1>4, <2>2
    <3>2. script.phase = "recover"
      <4>1. Leads(script.phase, Tail(script.todo))  BY <1>1 DEF Advance
      <4>2. script' = [script EXCEPT !.phase = script.phase, !.todo = Tail(script.todo)]
            /\ ~(Tail(script.todo) = <<>> /\ script.phase # "recover")
        BY <2>2, <4>1 DEF Leads
      <4>3. script'.todo = Tail(script.todo)  BY <4>2 DEF Follows, Shaped, Scripts
      <4>. QED  BY <3>1, <4>2, <4>3
    <3>3. r.mode = "promote" => Status(r.id) = "ABSENT" /\ r.id # 0
      <4>1. r.mode = "promote" => r.id \in Operations  BY DEF Follows, Shaped, Requested
      <4>2. 0 \notin Operations  BY ReleasesAssumption
      <4>3. r.mode = "promote" => Status(r.id) = "ABSENT"  BY <3>2 DEF Whole, Done
      <4>. QED  BY <4>1, <4>2, <4>3
    <3>4. r.mode = "promote" => Status(r.id)' = "ABSENT"  BY <1>1, <3>3 DEF Status, data
    <3>. QED  BY <1>5, <3>1, <3>2, <3>3, <3>4 DEF Done
  <2>. QED  BY <2>1, <2>2
<1>. QED  BY <1>6, <1>7 DEF Whole

-----------------------------------------------------------------------------
(* Back                                                                    *)

\* A step of the way back: the promotion did not succeed, and what is left keeps its order.
LEMMA Turning ==
    ASSUME Follows, Whole, NEW s \in Back \ {"status"}, At(s), Advance
    PROVE  LET left == Rem(script.todo)
               rest == Rem(script'.todo) IN
           /\ script.phase \in {"recover", "compensate"}
           /\ journal.dir /\ Journalled /\ ~Won /\ Backward(left)
           /\ left = rest \union {s} /\ s \notin rest /\ rest \subseteq BackAfter[s] /\ "status" \notin rest
           /\ "old policy" \in left => "old restart" \in left
           /\ script.phase = "recover" => "clear" \in rest
           /\ script' = Idle \/ (script'.phase = script.phase /\ script'.req = script.req)
           /\ script'.todo = <<>> <=> rest = {}
<1> DEFINE left == Rem(script.todo)
           rest == Rem(script'.todo)
<1>1. s \in Back \ {"status"} /\ s \notin Steps(script.req)  BY DEF Back, Steps
<1>2. /\ script.phase \in {"recover", "compensate"}
      /\ left = rest \union {s} /\ rest \subseteq BackAfter[s]
      /\ script' = Idle \/ (script'.phase = script.phase /\ script'.req = script.req)
      /\ script'.todo = <<>> <=> rest = {}
  BY <1>1, Walking
<1> HIDE DEF left, rest
<1>3. "status" \notin rest /\ s \notin rest /\ s # "clear"
  <2>1. /\ BackAfter["old catalogue"] = {"old policy", "old history", "old restart", "abort", "clear"}
        /\ BackAfter["old policy"] = {"old history", "old restart", "abort", "clear"}
        /\ BackAfter["old history"] = {"old restart", "abort", "clear"}
        /\ BackAfter["old restart"] = {"abort", "clear"} /\ BackAfter["abort"] = {"clear"}
    BY BackAfterIs
  <2>2. s \in {"old catalogue", "old policy", "old history", "old restart", "abort"}  BY DEF Back
  <2>3. CASE s = "old catalogue"  BY <1>2, <2>1, <2>3
  <2>4. CASE s = "old policy"  BY <1>2, <2>1, <2>4
  <2>5. CASE s = "old history"  BY <1>2, <2>1, <2>5
  <2>6. CASE s = "old restart"  BY <1>2, <2>1, <2>6
  <2>7. CASE s = "abort"  BY <1>2, <2>1, <2>7
  <2>. QED  BY <2>2, <2>3, <2>4, <2>5, <2>6, <2>7
<1>4. script.todo # <<>>  BY DEF At
<1>5. /\ journal.dir /\ Backward(left)
      /\ script.phase = "recover" => "clear" \in left \/ "status" \in left
  <2>1. /\ journal.dir /\ Backward(Rem(script.todo))
        /\ script.phase = "recover" => "clear" \in Rem(script.todo) \/ "status" \in Rem(script.todo)
    BY <1>2, <1>4 DEF Whole, Done
  <2>. QED  BY <2>1 DEF left
<1>6. Journalled  BY <1>5 DEF Whole, Stored
<1>7. ~Won
  <2>1. s \in left /\ s \notin {"status", "clear"}  BY <1>2, <1>3
  <2>. QED  BY <1>5, <2>1 DEF Backward
<1>8. "old policy" \in left => "old restart" \in left  BY <1>2 DEF Follows, Planned, left
<1>9. script.phase = "recover" => "clear" \in rest  BY <1>2, <1>3, <1>5
<1>. QED  BY <1>2, <1>3, <1>5, <1>6, <1>7, <1>8, <1>9 DEF left, rest

\* The script goes on back.
LEMMA Hence ==
    ASSUME NEW r, NEW rest, rest = Rem(script'.todo), NEW phase \in {"recover", "compensate"},
           script' = Idle \/ (script'.phase = phase /\ script'.req = r),
           journal'.dir, Backward(rest)',
           phase = "recover" => /\ "clear" \in rest \/ "status" \in rest
                                /\ r.mode = "promote" => Status(r.id)' = "ABSENT" /\ r.id # journal'.id
    PROVE  Done'
<1>1. CASE script' = Idle
  <2>1. script'.phase = "idle"  BY <1>1 DEF Idle
  <2>. QED  BY <2>1 DEF Done
<1>2. CASE script'.phase = phase /\ script'.req = r
  <2>1. Backward(Rem(script.todo))'  BY <1>2
  <2>2. script'.phase = "recover" /\ script'.req.mode = "promote" => Status(script.req.id)' = "ABSENT"  BY <1>2
  <2>. QED  BY <1>2, <2>1, <2>2 DEF Done
<1>. QED  BY <1>1, <1>2

\* The catalogue, the policy and the history are put back, and the backend is restarted with the old policy.
LEMMA Restored ==
    ASSUME Follows, Truths, Whole, ~astray',
           OldCatalogue \/ OldPolicy \/ OldHistory \/ (Restart /\ script.phase # "main")
    PROVE  Whole'
<1> SUFFICES ASSUME NEW r, NEW left, NEW rest, r = script.req, left = Rem(script.todo), rest = Rem(script'.todo)
             PROVE  Whole'
  OBVIOUS
<1>0. PICK s \in Back \ {"status"} :
          \/ s = "old catalogue" /\ OldCatalogue
          \/ s = "old policy" /\ OldPolicy
          \/ s = "old history" /\ OldHistory
          \/ s = "old restart" /\ Restart /\ script.phase # "main"
  BY DEF Back
<1>1. At(s) /\ Advance
  <2>1. CASE ~(s = "old restart" /\ Restart)  BY <1>0, <2>1 DEF OldCatalogue, OldPolicy, OldHistory, Step
  <2>2. CASE s = "old restart" /\ Restart
    <3>1. (At("restart") \/ At("old restart")) /\ Advance /\ script.phase # "main"  BY <1>0, <2>2 DEF Restart, Step
    <3>2. "restart" \notin Returning  BY DEF Returning, Back
    <3>3. ~At("restart")
      <4>1. At("restart") => "restart" \in Returning  BY <3>1, Walking
      <4>. QED  BY <3>2, <4>1
    <3>. QED  BY <2>2, <3>1, <3>3
  <2>. QED  BY <2>1, <2>2
<1>2. s \in Back \ {"status"}  OBVIOUS
<1>3. /\ script.phase \in {"recover", "compensate"}
      /\ journal.dir /\ Journalled /\ ~Won
      /\ left = rest \union {s} /\ s \notin rest /\ "status" \notin rest
      /\ "old policy" \in left \/ "old restart" \in left => Holds("started")
      /\ "old policy" \in left => "old restart" \in left
      /\ "abort" \in left => Holds("operation")
      /\ "clear" \in left => Undone(left)
      /\ script.phase = "recover" => "clear" \in rest
      /\ script' = Idle \/ (script'.phase = script.phase /\ script'.req = r)
  <2>1. /\ script.phase \in {"recover", "compensate"}
        /\ journal.dir /\ Journalled /\ ~Won /\ Backward(Rem(script.todo))
        /\ Rem(script.todo) = Rem(script'.todo) \union {s} /\ s \notin Rem(script'.todo)
        /\ "status" \notin Rem(script'.todo)
        /\ "old policy" \in Rem(script.todo) => "old restart" \in Rem(script.todo)
        /\ script.phase = "recover" => "clear" \in Rem(script'.todo)
        /\ script' = Idle \/ (script'.phase = script.phase /\ script'.req = script.req)
    BY <1>1, <1>2, Turning
  <2>2. Backward(left)  BY <2>1
  <2>. QED  BY <2>1, <2>2 DEF Backward
<1>4. /\ UNCHANGED <<data, journal, cache, desk>>
      /\ s # "old catalogue" => catalog' = catalog
      /\ s = "old catalogue" => catalog' = journal.catalog /\ desk = None
      /\ s = "old policy" => policy' = journal.env /\ meta' = meta
      /\ s = "old restart" => policy' = policy /\ meta' = policy
      /\ s \in {"old catalogue", "old history"} => policy' = policy /\ meta' = meta
  BY <1>0 DEF OldCatalogue, OldPolicy, OldHistory, Restart, Step, files
<1>5. /\ \A x : Holds(x)' <=> Holds(x)
      /\ ~Won' /\ (Open(journal.id)' <=> Open(journal.id))
  BY <1>3, <1>4 DEF Holds, Won, Status, Open, data
<1>6. (s = "old catalogue" => SamePublished') /\ (SamePublished => SamePublished')  BY <1>4 DEF SamePublished
<1>7. Journalled'
  <2>1. \A b : Safe(b)' <=> Safe(b)  BY <1>4 DEF Safe, Open, Status, data
  <2>2. /\ journal'.env.build # 0 => Safe(journal.env.build)'
        /\ \A b \in Published(journal'.catalog) : Safe(b)'
    BY <1>3, <1>4, <2>1 DEF Journalled
  <2>3. \A o \in Operations : Open(o)' => Holds("operation")' /\ o = journal'.id
    BY <1>3, <1>4, <1>5 DEF Journalled, Open, Status, data
  <2>4. journal'.env.gateway => /\ journal'.catalog.recommended = journal'.env.build
                                /\ journal'.env.build \in Published(journal'.catalog)
                                /\ <<journal'.env.build, artifact'[journal'.env.build]>> \in cache'
    BY <1>3, <1>4 DEF Journalled, data
  <2>5. /\ Published(journal'.catalog) \subseteq Published(catalog')
        /\ Published(catalog') \subseteq Published(journal'.catalog) \union {catalog'.recommended}
    <3>1. CASE s = "old catalogue"  BY <1>4, <3>1
    <3>2. CASE s # "old catalogue"  BY <1>3, <1>4, <3>2 DEF Journalled
    <3>. QED  BY <3>1, <3>2
  <2>6. ~Holds("started") => policy' = journal.env /\ meta' = policy'
    <3>1. s \in {"old policy", "old restart"} => Holds("started")  BY <1>3
    <3>2. CASE s \in {"old policy", "old restart"}  BY <3>1, <3>2
    <3>3. CASE s \notin {"old policy", "old restart"}  BY <1>0, <1>3, <1>4, <3>3 DEF Journalled
    <3>. QED  BY <3>2, <3>3
  <2>7. /\ Holds("env")' /\ (Holds("operation")' => journal'.id \in Operations) /\ Topped(journal'.catalog)
        /\ ~Holds("started")' => policy' = journal'.env /\ meta' = policy'
        /\ ~Holds("catalog")' => SamePublished'
    BY <1>3, <1>4, <1>5, <1>6, <2>6 DEF Journalled
  <2>. QED  BY <1>5, <2>2, <2>3, <2>4, <2>5, <2>7 DEF Journalled
<1>8. Stored'
  <2>1. Topped(catalog)'
    <3>1. Topped(catalog) /\ Topped(journal.catalog)  BY <1>3 DEF Whole, Stored, Journalled
    <3>. QED  BY <1>4, <3>1 DEF Topped
  <2>2. desk' # None => Published(desk') = Published(catalog') /\ desk'.recommended = catalog'.recommended
    BY <1>4 DEF Whole, Stored
  <2>. QED  BY <1>3, <1>4, <1>7, <2>1, <2>2 DEF Stored
<1>9. Backward(rest)'
  <2>1. "clear" \in rest => Undone(rest)'
    <3> SUFFICES ASSUME "clear" \in rest PROVE Undone(rest)'  OBVIOUS
    <3>1. Undone(left)  BY <1>3
    <3>2. \A x : x # s => (x \in left <=> x \in rest)  BY <1>3
    <3>3. Holds("catalog") /\ "old catalogue" \notin rest => SamePublished'
      <4>1. s # "old catalogue" => ("old catalogue" \in left <=> "old catalogue" \in rest)  BY <3>2
      <4>. QED  BY <1>6, <3>1, <4>1 DEF Undone
    <3>4. Holds("started") /\ "old policy" \notin rest => policy' = journal'.env
      <4>1. s # "old policy" => ("old policy" \in left <=> "old policy" \in rest)  BY <3>2
      <4>. QED  BY <1>0, <1>4, <3>1, <4>1 DEF Undone
    <3>5. Holds("started") /\ "old restart" \notin rest => meta' = policy'
      <4>1. s # "old restart" => ("old restart" \in left <=> "old restart" \in rest)  BY <3>2
      <4>2. s = "old policy" => "old restart" \in rest  BY <1>3
      <4>. QED  BY <1>0, <1>4, <3>1, <4>1, <4>2 DEF Undone
    <3>6. Holds("operation") /\ "abort" \notin rest => ~Open(journal.id)'
      <4>1. "abort" \in left <=> "abort" \in rest  BY <1>0, <3>2
      <4>. QED  BY <1>5, <3>1, <4>1 DEF Undone
    <3>. QED  BY <1>5, <3>3, <3>4, <3>5, <3>6 DEF Undone
  <2>. QED  BY <1>3, <1>5, <2>1 DEF Backward
<1>10. script.phase = "recover" /\ r.mode = "promote" => Status(r.id)' = "ABSENT" /\ r.id # journal'.id
  BY <1>4 DEF Whole, Done, Status, data
<1>11. Done'  BY <1>3, <1>4, <1>9, <1>10, Hence
<1>. QED  BY <1>8, <1>11 DEF Whole

\* The promotion is aborted: its notes are taken back unless they were public before.
LEMMA Aborting ==
    ASSUME Follows, Inv, Truths, Lasting, Whole, AbortStep
    PROVE  Whole'
<1> SUFFICES ASSUME NEW r, NEW left, NEW rest, r = script.req, left = Rem(script.todo), rest = Rem(script'.todo)
             PROVE  Whole'
  OBVIOUS
<1>1. At("abort") /\ Advance /\ Abort(journal.id) /\ UNCHANGED <<journal, policy, history, catalog, meta, cache, desk>>
  BY DEF AbortStep, Database, Step, files
<1>2. "abort" \in Back \ {"status"}  BY DEF Back
<1>3. /\ script.phase \in {"recover", "compensate"}
      /\ journal.dir /\ Journalled /\ ~Won /\ Backward(left)
      /\ left = rest \union {"abort"} /\ rest \subseteq BackAfter["abort"]
      /\ script.phase = "recover" => "clear" \in rest
      /\ script' = Idle \/ (script'.phase = script.phase /\ script'.req = r)
  <2>1. /\ script.phase \in {"recover", "compensate"}
        /\ journal.dir /\ Journalled /\ ~Won /\ Backward(Rem(script.todo))
        /\ Rem(script.todo) = Rem(script'.todo) \union {"abort"}
        /\ Rem(script'.todo) \subseteq BackAfter["abort"]
        /\ script.phase = "recover" => "clear" \in Rem(script'.todo)
        /\ script' = Idle \/ (script'.phase = script.phase /\ script'.req = script.req)
    BY <1>1, <1>2, Turning
  <2>2. Backward(left)  BY <2>1
  <2>. QED  BY <2>1, <2>2
<1>4. rest \subseteq {"clear"}  BY <1>3, BackAfterIs
<1>5. Holds("operation") /\ journal.id \in Operations
  <2>1. "abort" \in left  BY <1>3
  <2>. QED  BY <1>3, <2>1 DEF Backward, Journalled
<1> DEFINE o == journal.id
<1>6. /\ UNCHANGED artifact /\ promotion'[o].status \in {"ABSENT", "ABORTED"}
      /\ \A p \in Operations : p # o => promotion'[p] = promotion[p]
  <2>1. CASE Open(o)
    <3>1. To(o, "ABORTED")  BY <1>1, <2>1 DEF Abort
    <3>. QED  BY <1>5, <3>1 DEF To, Inv, DataOK, Entries
  <2>2. CASE ~Open(o)
    <3>1. UNCHANGED data /\ CanAbort(o)  BY <1>1, <2>2 DEF Abort
    <3>2. Status(o) \in {"ABSENT", "ABORTED"}  BY <2>2, <3>1 DEF CanAbort, InForce
    <3>. QED  BY <3>1, <3>2 DEF data, Status
  <2>. QED  BY <2>1, <2>2
<1>7. \A p \in Operations : ~Open(p)'
  <2>1. \A p \in Operations : p # o => ~Open(p)  BY <1>3 DEF Journalled
  <2>. QED  BY <1>6, <2>1 DEF Open, Status
<1>8. \A b \in Builds : Safe(b) => release'[b].published # 0
  <2> SUFFICES ASSUME NEW b \in Builds, Safe(b) PROVE release'[b].published # 0  OBVIOUS
  <2>1. CASE Open(o)
    <3> DEFINE c == promotion[o].build
    <3>1. release' = [release EXCEPT ![c] = TakenBack(o, release[c])] /\ c \in Builds
      <4>1. c \in Builds  BY <1>5, <2>1 DEF Inv, Known, Open
      <4>. QED  BY <1>1, <2>1, <4>1 DEF Abort, Inv, DataOK
    <3>2. b = c => promotion[o].previous # 0  BY <1>5, <2>1 DEF Safe
    <3>3. promotion[o].previous # 0 => TakenBack(o, release[c]) = [release[c] EXCEPT !.lock = 0]  BY DEF TakenBack
    <3>4. release \in [Builds -> Row]  BY DEF Inv, DataOK
    <3>5. [release[c] EXCEPT !.lock = 0].published = release[c].published  BY <3>1, <3>4 DEF Row
    <3> HIDE DEF c
    <3>6. b # c => release'[b] = release[b]  BY <3>1, <3>4
    <3>7. b = c => release'[b] = TakenBack(o, release[c])  BY <3>1, <3>4
    <3>. QED  BY <3>2, <3>3, <3>5, <3>6, <3>7 DEF Safe
  <2>2. CASE ~Open(o)  BY <1>1, <2>2 DEF Abort, data, Safe
  <2>. QED  BY <2>1, <2>2
<1>9. \A b \in Builds : Safe(b) => Safe(b)'  BY <1>7, <1>8 DEF Safe
<1>10. /\ \A x : Holds(x)' <=> Holds(x)
       /\ ~Won' /\ (SamePublished' <=> SamePublished)
  BY <1>1, <1>6 DEF Holds, Won, Status, SamePublished
<1> HIDE DEF o
<1>11. Journalled'
  <2>1. journal.env.build # 0 => journal.env.build \in Builds  BY DEF Follows, Shaped, Journals, Policies
  <2>2. /\ journal'.env.build # 0 => Safe(journal.env.build)'
        /\ \A b \in Published(journal'.catalog) : Safe(b)'
    <3>1. Published(journal.catalog) \subseteq Builds  BY DEF Published
    <3>. QED  BY <1>1, <1>3, <1>9, <2>1, <3>1 DEF Journalled
  <2>3. journal'.env.gateway => /\ journal'.catalog.recommended = journal'.env.build
                                /\ journal'.env.build \in Published(journal'.catalog)
                                /\ <<journal'.env.build, artifact'[journal'.env.build]>> \in cache'
    BY <1>1, <1>3, <1>6 DEF Journalled
  <2>. QED  BY <1>1, <1>3, <1>7, <1>10, <2>2, <2>3 DEF Journalled
<1>12. Stored'
  <2>1. Topped(catalog)' /\ (desk' # None => Published(desk') = Published(catalog') /\ desk'.recommended = catalog'.recommended)
    BY <1>1 DEF Whole, Stored, Topped
  <2>. QED  BY <1>1, <1>3, <1>11, <2>1 DEF Stored
<1>13. Backward(rest)'
  <2>1. "clear" \in rest => Undone(rest)'
    <3> SUFFICES ASSUME "clear" \in rest PROVE Undone(rest)'  OBVIOUS
    <3>1. Undone(left)  BY <1>3 DEF Backward
    <3>2. ~Open(journal.id)'  BY <1>1, <1>5, <1>7
    <3>3. ("old catalogue" \in left <=> "old catalogue" \in rest) /\ ("old policy" \in left <=> "old policy" \in rest)
          /\ ("old restart" \in left <=> "old restart" \in rest)
      BY <1>3
    <3>. QED  BY <1>1, <1>10, <3>1, <3>2, <3>3 DEF Undone
  <2>. QED  BY <1>4, <1>10, <2>1 DEF Backward
<1>14. script.phase = "recover" /\ r.mode = "promote" => Status(r.id)' = "ABSENT" /\ r.id # journal'.id
  <2>1. script.phase = "recover" /\ r.mode = "promote" => Status(r.id) = "ABSENT" /\ r.id # journal.id
    BY DEF Whole, Done
  <2>2. r.mode = "promote" => r.id \in Operations  BY DEF Follows, Shaped, Requested
  <2>. QED  BY <1>1, <1>6, <2>1, <2>2 DEF Status, o
<1>15. Done'  BY <1>1, <1>3, <1>13, <1>14, Hence
<1>. QED  BY <1>12, <1>15 DEF Whole

\* What a restored journal has to go through is a way back.
LEMMA Returned ==
    ASSUME Follows, journal.dir
    PROVE  /\ Backward(Rem(Restore)) /\ ("clear" \in Rem(Restore) \/ "status" \in Rem(Restore))
           /\ \A failed \in BOOLEAN : ~Won => Backward(StepsBack(journal, failed))
<1>1. \A failed \in BOOLEAN : ~Won => Backward(StepsBack(journal, failed))
  <2> SUFFICES ASSUME NEW failed \in BOOLEAN, ~Won PROVE Backward(StepsBack(journal, failed))  OBVIOUS
  <2>1. Undone(StepsBack(journal, failed)) \/ failed  BY DEF Undone, StepsBack, Holds
  <2>2. "clear" \in StepsBack(journal, failed) => ~failed  BY DEF StepsBack
  <2>3. /\ "old policy" \in StepsBack(journal, failed) \/ "old restart" \in StepsBack(journal, failed) => Holds("started")
        /\ "abort" \in StepsBack(journal, failed) \/ "status" \in StepsBack(journal, failed) => Holds("operation")
    BY DEF StepsBack, Holds
  <2>. QED  BY <2>1, <2>2, <2>3 DEF Backward
<1>2. CASE "operation" \in journal.files
  <2>1. Rem(Restore) = {"status"}  BY <1>2, Restoring DEF Follows
  <2>. QED  BY <1>1, <1>2, <2>1 DEF Backward, Holds
<1>3. CASE "operation" \notin journal.files
  <2>1. Rem(Restore) = StepsBack(journal, FALSE)  BY <1>3, Restoring DEF Follows
  <2>2. ~Won  BY <1>3 DEF Won, Holds
  <2>3. "clear" \in StepsBack(journal, FALSE)  BY DEF StepsBack
  <2>. QED  BY <1>1, <2>1, <2>2, <2>3
<1>. QED  BY <1>1, <1>2, <1>3

\* The script starts, turns back, is killed, reads the status, and goes on with the request.
LEMMA Steered ==
    ASSUME Follows, Inv, Truths, Lasting, Whole, ~astray',
           (\E r \in Requests : Start(r)) \/ Proceed \/ Fail \/ Crash \/ ReadStatus \/ StatusUnknown
    PROVE  Whole'
<1>0. Shaped /\ script.phase \in Phases  BY DEF Follows, Shaped, Scripts
<1>1. UNCHANGED <<data, journal, policy, history, catalog, meta, cache, desk>>
  BY DEF Start, Proceed, Fail, Crash, ReadStatus, StatusUnknown, files
<1>2. Undisturbed
  <2>1. Steady  BY <1>1, Steadily DEF Truths
  <2>2. desk # None => Published(desk) = Published(catalog) /\ desk.recommended = catalog.recommended
    BY DEF Whole, Stored
  <2>. QED  BY <1>1, <2>1, <2>2 DEF Undisturbed, Steady
<1>3. Stored' /\ (journal.dir => \A left : Backward(left) => Backward(left)')  BY <1>2, Undisturbing DEF Whole
<1> SUFFICES Done'  BY <1>3 DEF Whole
<1>4. ASSUME script' = Idle PROVE Done'
  <2>1. script'.phase = "idle"  BY <1>4 DEF Idle
  <2>. QED  BY <2>1 DEF Done
<1>5. ASSUME NEW phase \in {"recover", "compensate"}, journal.dir, NEW todo \in Seq(Names \union Back),
             Planned(phase, todo, script.req, journal.id), Leads(phase, todo), Backward(Rem(todo)),
             phase = "recover" => /\ "clear" \in Rem(todo) \/ "status" \in Rem(todo)
                                  /\ script.req.mode = "promote" => Status(script.req.id) = "ABSENT" /\ script.req.id # journal.id
      PROVE  Done'
  <2> SUFFICES ASSUME NEW r, NEW rest, r = script.req, rest = Rem(todo) PROVE Done'  OBVIOUS
  <2>1. script'.todo = todo /\ (script' = Idle \/ (script'.phase = phase /\ script'.req = script.req))
    <3>1. phase \in Phases  BY DEF Phases
    <3>. QED  BY <1>0, <1>5, <3>1, Led
  <2>2. Backward(rest)'  BY <1>3, <1>5
  <2>3. phase = "recover" => /\ "clear" \in rest \/ "status" \in rest
                             /\ r.mode = "promote" => Status(r.id)' = "ABSENT" /\ r.id # journal'.id
    BY <1>1, <1>5 DEF Status, data
  <2>. QED  BY <1>1, <1>5, <2>1, <2>2, <2>3, Hence
<1>6. ASSUME NEW r \in Requests, Start(r) PROVE Done'
  <2>1. script' = [phase |-> "recover", todo |-> Restore, req |-> r]  BY <1>6 DEF Start
  <2>2. r.mode = "promote" => Status(r.id) = "ABSENT" /\ r.id # journal.id
    BY DEF Requests, Fresh, Unused
  <2>3. r.mode = "promote" => Status(r.id)' = "ABSENT" /\ r.id # journal'.id  BY <1>1, <2>2 DEF Status, data
  <2>4. ~journal.dir => Restore = <<>>  BY DEF Restore
  <2>5. journal.dir => /\ Backward(Rem(Restore)) /\ ("clear" \in Rem(Restore) \/ "status" \in Rem(Restore))
    BY Returned
  <2> SUFFICES ASSUME NEW todo, todo = Restore PROVE Done'  OBVIOUS
  <2>6. script'.phase = "recover" /\ script'.todo = todo /\ script'.req = r  BY <2>1
  <2>7. journal.dir => Backward(Rem(todo))'
    <3> SUFFICES ASSUME NEW rest, rest = Rem(todo) PROVE journal.dir => Backward(rest)'  BY DEF Rem
    <3>. QED  BY <1>3, <2>5
  <2>8. journal.dir => Backward(Rem(script.todo))'
    <3>1. Rem(todo)' = Rem(script.todo)'  BY <2>6
    <3>. QED  BY <2>6, <2>7
  <2>9. script'.req.mode = "promote" => Status(script.req.id)' = "ABSENT" /\ script'.req.id # journal'.id
    BY <2>3, <2>6
  <2>10. IF journal'.dir THEN "clear" \in Rem(script'.todo) \/ "status" \in Rem(script'.todo) ELSE script'.todo = <<>>
    BY <1>1, <2>4, <2>5, <2>6
  <2>11. script'.todo # <<>> => journal'.dir  BY <1>1, <2>4, <2>6
  <2>. QED  BY <1>1, <2>6, <2>8, <2>9, <2>10, <2>11 DEF Done
<1>7. CASE Proceed
  <2>1. script.phase = "recover" /\ script.todo = <<>>  BY <1>7 DEF Proceed
  <2>2. ~journal.dir /\ (script.req.mode = "promote" => Status(script.req.id) = "ABSENT")
    <3>1. Rem(script.todo) = {}
      <4>1. "save" \in Names  BY DEF Names
      <4>. QED  BY <2>1, <4>1, Few
    <3>2. /\ IF journal.dir THEN "clear" \in Rem(script.todo) \/ "status" \in Rem(script.todo) ELSE script.todo = <<>>
          /\ script.req.mode = "promote" => Status(script.req.id) = "ABSENT"
      BY <2>1 DEF Whole, Done
    <3>. QED  BY <3>1, <3>2
  <2>3. ASSUME NEW r, r.mode \in {"promote", "withdraw"}, r.gateway \in BOOLEAN,
               r.mode = "promote" => Status(r.id) = "ABSENT",
               script' = [phase |-> "main", todo |-> Plan(r), req |-> r]
        PROVE  Done'
    <3>1. Rem(Plan(r)) = Steps(r)  BY <2>3, PlanIs
    <3>2. script'.phase = "main" /\ script'.req = r /\ Rem(script'.todo) = Steps(r)  BY <2>3, <3>1
    <3>3. "name" \in Steps(r) => r.mode = "promote"  BY DEF Steps
    <3>4. "name" \in Steps(r) => Status(r.id)' = "ABSENT"  BY <1>1, <2>3, <3>3 DEF Status, data
    <3>5. ~journal'.dir  BY <1>1, <2>2
    <3>6. Onward(script.req, Rem(script.todo))'
      <4>1. "name" \in Rem(script'.todo) => Status(script.req.id)' = "ABSENT"  BY <3>2, <3>4
      <4>2. Steps(script.req)' \subseteq Rem(script'.todo)
        <5>1. Steps(script.req)' = Steps(r)  BY <3>2 DEF Steps
        <5>. QED  BY <3>2, <5>1
      <4>. QED  BY <3>5, <4>1, <4>2 DEF Onward
    <3>. QED  BY <3>2, <3>6 DEF Done
  <2>4. script.req \in Asked /\ script.req.gateway \in BOOLEAN  BY <1>0 DEF Shaped, Scripts, Asked
  <2>5. CASE Accepted(script.req)
    <3>1. script.req.mode = "promote"  BY <2>5 DEF Accepted
    <3>2. script' = [phase |-> "main", todo |-> Plan(script.req), req |-> script.req]
      BY <1>7, <2>5, <3>1 DEF Proceed
    <3> SUFFICES ASSUME NEW r, r = script.req PROVE Done'  OBVIOUS
    <3>. QED  BY <2>2, <2>3, <2>4, <3>1, <3>2
  <2>6. CASE ~Accepted(script.req)
    <3> DEFINE w == [script.req EXCEPT !.gateway = @ \/ policy.gateway]
    <3>1. script' = Idle \/ (script.req.mode = "withdraw" /\ script' = [phase |-> "main", todo |-> Plan(w), req |-> w])
      BY <1>7, <2>6 DEF Proceed
    <3>2. w.gateway \in BOOLEAN /\ w.mode = script.req.mode  BY <2>4 DEF Asked
    <3> HIDE DEF w
    <3> SUFFICES ASSUME NEW v, v = w PROVE Done'  OBVIOUS
    <3>. QED  BY <1>4, <2>3, <3>1, <3>2
  <2>. QED  BY <2>5, <2>6
<1>8. CASE Fail
  <2>1. Leads("compensate", Restore)  BY <1>8 DEF Fail
  <2>2. CASE journal.dir
    <3>1. /\ Restore \in Seq(Names \union Back) /\ Planned("compensate", Restore, script.req, journal.id)
      BY <1>0, Restoring
    <3>2. Backward(Rem(Restore))  BY <2>2, Returned
    <3>. QED  BY <1>5, <2>1, <2>2, <3>1, <3>2
  <2>3. CASE ~journal.dir
    <3>1. Restore = <<>>  BY <2>3 DEF Restore
    <3>2. script' = Idle  BY <2>1, <3>1 DEF Leads
    <3>. QED  BY <1>4, <3>2
  <2>. QED  BY <2>2, <2>3
<1>9. CASE Crash  BY <1>4, <1>9 DEF Crash
<1>10. CASE ReadStatus \/ StatusUnknown
  <2>1. journal.id \in Operations /\ At("status")  BY <1>0, <1>10 DEF ReadStatus, StatusUnknown, Shaped, Journals
  <2>2. "status" \in Rem(script.todo) /\ script.todo # <<>>
    <3>1. script.todo \in Seq(Names \union Back) /\ script.todo # <<>> /\ Head(script.todo) = "status"
      BY <1>0, <2>1 DEF Shaped, Scripts, At
    <3>2. 1 \in DOMAIN script.todo /\ Head(script.todo) = script.todo[1]  BY <3>1
    <3>. QED  BY <3>1, <3>2 DEF Rem
  <2>3. script.phase \in {"recover", "compensate"}
    <3>1. "status" \notin Steps(script.req)  BY DEF Steps
    <3>. QED  BY <1>0, <2>2, <3>1 DEF Follows, Planned, Phases
  <2>4. /\ journal.dir /\ Holds("operation")
        /\ script.phase = "recover" /\ script.req.mode = "promote"
           => Status(script.req.id) = "ABSENT" /\ script.req.id # journal.id
    BY <2>2, <2>3 DEF Whole, Done, Backward
  <2>5. ASSUME NEW failed \in BOOLEAN
        PROVE  /\ Undo(journal, failed) \in Seq(Names \union Back)
               /\ Rem(Undo(journal, failed)) = StepsBack(journal, failed)
               /\ \A phase \in {"recover", "compensate"} : Planned(phase, Undo(journal, failed), script.req, journal.id)
    BY <1>0, <2>1, Returns
  <2>6. CASE ReadStatus /\ Compensated(Status(journal.id))
    <3>1. ~Won  BY <2>6 DEF Compensated, Won
    <3>2. Leads(script.phase, Undo(journal, FALSE))  BY <2>6 DEF ReadStatus
    <3>3. Backward(Rem(Undo(journal, FALSE))) /\ "clear" \in Rem(Undo(journal, FALSE))
      <4>1. Backward(StepsBack(journal, FALSE))  BY <2>4, <3>1, Returned
      <4>2. "clear" \in StepsBack(journal, FALSE)  BY DEF StepsBack
      <4>. QED  BY <2>5, <4>1, <4>2
    <3>4. /\ Undo(journal, FALSE) \in Seq(Names \union Back)
          /\ Planned(script.phase, Undo(journal, FALSE), script.req, journal.id)
      BY <2>3, <2>5
    <3>. QED  BY <1>5, <2>3, <2>4, <3>2, <3>3, <3>4
  <2>7. CASE ReadStatus /\ ~Compensated(Status(journal.id))
    <3>1. Leads(script.phase, <<"clear">>)  BY <2>7 DEF ReadStatus
    <3>2. Rem(<<"clear">>) = {"clear"} /\ <<"clear">> \in Seq(Names \union Back) /\ Sorted(<<"clear">>, BackAfter)
      <4>1. "clear" \in Names \union Back  BY DEF Names
      <4>. QED  BY <4>1, Few
    <3>3. Won  BY <2>4, <2>7 DEF Compensated, Won
    <3>4. Backward({"clear"})  BY <3>3 DEF Backward
    <3>5. Planned(script.phase, <<"clear">>, script.req, journal.id)  BY <2>3, <3>2 DEF Planned, Returning
    <3>6. Backward(Rem(<<"clear">>))  BY <3>2, <3>4
    <3>. QED  BY <1>5, <2>3, <2>4, <3>1, <3>2, <3>5, <3>6
  <2>8. CASE StatusUnknown
    <3>1. ~Won  BY <2>8 DEF StatusUnknown, Won
    <3>2. Leads("compensate", Undo(journal, TRUE))  BY <2>8 DEF StatusUnknown
    <3>3. Backward(Rem(Undo(journal, TRUE)))
      <4>1. Backward(StepsBack(journal, TRUE))  BY <2>4, <3>1, Returned
      <4>. QED  BY <2>5, <4>1
    <3>4. /\ Undo(journal, TRUE) \in Seq(Names \union Back)
          /\ Planned("compensate", Undo(journal, TRUE), script.req, journal.id)
      BY <2>5
    <3>. QED  BY <1>5, <2>4, <3>2, <3>3, <3>4
  <2>. QED  BY <1>10, <2>6, <2>7, <2>8
<1>. QED  BY <1>6, <1>7, <1>8, <1>9, <1>10

-----------------------------------------------------------------------------
(* All together                                                            *)

\* Every step keeps a release whole, unless it leads astray.
LEMMA WholeStep == ASSUME Follows, Inv, Truths, Whole, [Next]_vars, ~astray' PROVE Whole'
<1>0. Lasting  BY Lasts
<1>1. CASE UNCHANGED vars
  <2>1. Steady  BY <1>1, Steadily DEF vars, Truths
  <2>2. desk # None => Published(desk) = Published(catalog) /\ desk.recommended = catalog.recommended
    BY DEF Whole, Stored
  <2>3. Undisturbed  BY <1>1, <2>1, <2>2 DEF vars, files, Undisturbed, Steady
  <2>. QED  BY <1>0, <1>1, <2>3, Aside DEF vars
<1>2. CASE (\E r \in Requests : Start(r)) \/ Proceed \/ Fail \/ Crash \/ ReadStatus \/ StatusUnknown
  BY <1>0, <1>2, Steered
<1>3. CASE Save  BY <1>3, Saving
<1>4. CASE Name \/ Flag  BY <1>4, Marking
<1>5. CASE Clear  BY <1>5, Closing
<1>6. CASE Tear  BY <1>6 DEF Tear
<1>7. CASE InDatabase
  <2> DEFINE r == script.req
  <2>1. PICK s \in {"register download", "begin", "stage", "commit", "finish"} :
            /\ Step(s) /\ UNCHANGED <<journal, files, meta, cache, desk>>
            /\ \/ s = "register download" /\ RegisterDownload(r.build, r.apk)
               \/ s = "begin" /\ BeginPromotion(r.id, r.build, r.apk, r.revision)
               \/ s = "stage" /\ Stage(r.id)
               \/ s = "commit" /\ Commit(r.id)
               \/ s = "finish" /\ meta.build = r.build /\ release[r.build].published = r.revision /\ Finish(r.id)
    BY <1>7 DEF InDatabase, Database
  <2>2. r.build \in Builds /\ r.apk \in Apks /\ r.id \in Operations
    <3>1. s \notin Returning /\ At(s) /\ Advance  BY <2>1 DEF Returning, Back, Step
    <3>2. r.mode \in {"promote", "withdraw"} /\ s \in Steps(r)  BY <3>1, Walking
    <3>3. r.mode = "promote"  BY <2>1, <3>2 DEF Steps
    <3>. QED  BY <3>3 DEF Follows, Shaped, Requested
  <2>3. CASE s \in {"register download", "stage", "commit"}
    <3>1. \E x \in {"register download", "stage", "commit"} :
             /\ Step(x) /\ UNCHANGED <<journal, files, meta, cache, desk>>
             /\ \/ \E b \in Builds, apk \in Apks : RegisterDownload(b, apk)
                \/ \E o \in Operations : Stage(o) \/ Commit(o)
      BY <2>1, <2>2, <2>3
    <3>. QED  BY <1>0, <3>1, Quieting
  <2>4. CASE s = "begin"
    <3>1. Step("begin") /\ UNCHANGED <<journal, files, meta, cache, desk>>
          /\ BeginPromotion(script.req.id, script.req.build, script.req.apk, script.req.revision)
      BY <2>1, <2>4
    <3>. QED  BY <1>0, <3>1, Opening
  <2>5. CASE s = "finish"
    <3>1. Step("finish") /\ UNCHANGED <<journal, files, meta, cache, desk>>
          /\ release[script.req.build].published = script.req.revision /\ Finish(script.req.id)
      BY <2>1, <2>5
    <3>. QED  BY <1>0, <3>1, Finishing
  <2>. QED  BY <2>3, <2>4, <2>5
<1>8. CASE Register \/ Warm \/ TakeDown \/ Record  BY <1>0, <1>8, Quieting
<1>9. CASE Publish  BY <1>0, <1>9, Publishing
<1>10. CASE Switch  BY <1>10, Restarting
<1>11. CASE Restart
  <2>1. CASE script.phase = "main"  BY <1>11, <2>1, Restarting
  <2>2. CASE script.phase # "main"  BY <1>11, <2>2, Restored
  <2>. QED  BY <2>1, <2>2
<1>12. CASE OldCatalogue \/ OldPolicy \/ OldHistory  BY <1>12, Restored
<1>13. CASE AbortStep  BY <1>0, <1>13, Aborting
<1>14. CASE (\E b \in Builds : Administer(b)) \/ Operate \/ Operated \/ Prune  BY <1>0, <1>14, Besides
<1>. QED
  BY <1>1, <1>2, <1>3, <1>4, <1>5, <1>6, <1>7, <1>8, <1>9, <1>10, <1>11, <1>12, <1>13, <1>14 DEF Next

\* What led astray is not forgotten.
LEMMA Astray == ASSUME [Next]_vars, ~astray' PROVE ~astray
<1>1. UNCHANGED astray \/ Tear \/ StatusUnknown \/ OldCatalogue
  BY DEF Next, vars, Start, Proceed, Fail, Crash, Save, Name, Flag, Clear, InDatabase, Database, Register, Warm,
         Publish, TakeDown, Download, Switch, Restart, Record, ReadStatus, OldPolicy, OldHistory, AbortStep, Step,
         Administer, Operate, Operated, Prune
<1>. QED  BY <1>1 DEF Tear, StatusUnknown, OldCatalogue

\* The inductive invariant of releases
Certain == Follows /\ Inv /\ Truths /\ (~astray => Whole)

\* In the beginning nothing is released and no script runs.
LEMMA Beginnings == Init => Certain
<1> SUFFICES ASSUME Init PROVE Certain  OBVIOUS
<1> USE ReleasesAssumption
<1>0. /\ InitData /\ load \in Loads /\ script = Idle /\ journal = NoJournal /\ policy = NoPolicy /\ meta = NoPolicy
      /\ history = {} /\ catalog = NoCatalog /\ desk = None
  BY DEF Init
<1>1. Inv  BY <1>0, Begins
<1>2. /\ Idle.phase = "idle" /\ Idle.todo = <<>> /\ Idle.req = NoRequest /\ Idle \in Scripts /\ Requested(NoRequest)
      /\ NoPolicy \in Policies /\ NoPolicy.build = 0 /\ NoPolicy.gateway = FALSE
  BY DEF Idle, NoRequest, Scripts, Asked, Phases, Requested, NoPolicy, Policies
<1>3. NoCatalog \in Catalogs /\ Published(NoCatalog) = {} /\ NoCatalog.recommended = 0
  BY DEF NoCatalog, Catalogs, Published
<1>4. NoJournal \in Journals /\ NoJournal.dir = FALSE /\ NoJournal.catalog = NoCatalog
  BY <1>2, <1>3 DEF NoJournal, Journals
<1>5. Follows
  <2>1. Planned(script.phase, script.todo, script.req, journal.id)  BY <1>0, <1>2 DEF Planned
  <2>. QED  BY <1>0, <1>2, <1>3, <1>4, <2>1 DEF Follows, Shaped
<1>6. Truths
  <2>1. Marked
    <3>1. \A o \in Operations : Status(o) = "ABSENT" /\ promotion[o].build = 0  BY <1>0 DEF InitData, Status, Absent
    <3>2. \A b \in Builds : release[b].published = 0
      <4>1. [NoRelease EXCEPT !.revision = 1, !.confirmed = 1].published = 0 /\ NoRelease.published = 0  BY DEF NoRelease
      <4>. QED  BY <1>0, <4>1 DEF InitData
    <3>. QED  BY <3>1, <3>2 DEF Marked
  <2>2. Truthful(NoCatalog, artifact, promotion)  BY <1>3 DEF Truthful
  <2>. QED  BY <1>0, <1>4, <2>1, <2>2 DEF Truths
<1>7. Whole
  <2>1. NoneOpen
    <3>1. \A o \in Operations : Status(o) = "ABSENT"  BY <1>0 DEF InitData, Status, Absent
    <3>. QED  BY <3>1 DEF NoneOpen, Open
  <2>2. Settled  BY <1>0, <1>2, <1>3 DEF Settled
  <2>3. Topped(catalog)  BY <1>0, <1>3 DEF Topped
  <2>4. Stored  BY <1>0, <1>4, <2>1, <2>2, <2>3 DEF Stored
  <2>5. Done  BY <1>0, <1>2 DEF Done
  <2>. QED  BY <2>4, <2>5 DEF Whole
<1>. QED  BY <1>1, <1>5, <1>6, <1>7 DEF Certain

\* The invariant of a release is inductive.
LEMMA CertainStep == Certain /\ [Next]_vars => Certain'
<1> SUFFICES ASSUME Certain, [Next]_vars PROVE Certain'  OBVIOUS
<1>1. Follows /\ Inv /\ Truths  BY DEF Certain
<1>2. Follows'  BY <1>1, Following
<1>3. Inv'  BY <1>1, Implementing, DataStep
<1>4. Truths'  BY <1>1, TruthStep
<1>5. ASSUME ~astray' PROVE Whole'
  <2>1. Whole  BY <1>5, Astray DEF Certain
  <2>. QED  BY <1>1, <1>5, <2>1, WholeStep
<1>. QED  BY <1>2, <1>3, <1>4, <1>5 DEF Certain

\* So the invariant of releases holds, whatever fails or is killed.
LEMMA CertainAlways == Spec => []Certain
BY Beginnings, CertainStep, PTL DEF Spec

\* The script with its journal, failures, crashes and recoveries implements the data base's own specification:
\* each of its steps is an operation of mobile-release-publication.ts about a build, APK, revision and promotion
\* that exist, or leaves the data base alone.
THEOREM Implements == Spec => DataSpec
<1>1. Init => InitData  BY DEF Init
<1>2. Certain /\ [Next]_vars => [NextData]_data  BY Implementing DEF Certain
<1>. QED  BY <1>1, <1>2, CertainAlways, PTL DEF Spec, DataSpec

\* A release interrupted anywhere and recovered however often publishes what was confirmed and leaves no notes
\* locked but those of a promotion under way (mobile-release-publication.ts).
THEOREM ReleasedAsConfirmed == Spec => []PublishedAsConfirmed
BY Implements, ConfirmedIsPublic, PTL

\* However releases of a build fail and are repeated, those that succeed are of one APK.
THEOREM ReleasedAsOneApk == Spec => []OneApkPerBuild
BY Implements, OneApk, PTL

\* No failure, compensation, recovery or correction takes back the notes of a build that was released
\* (docs/mobile-release-operations.md: what was published before is kept).
THEOREM ReleasedForGood == Spec => NeverRetracted
BY Implements, NothingRetracted, PTL

\* The catalogue of the gateway serves a published build under the APK it was promoted with, and one whose notes
\* are not public only until the journal that is left has been undone (download-publication-proof.ts).
THEOREM ServedTruthfully == Spec => []ServedAsPromoted
<1>1. Certain => ServedAsPromoted
  <2> SUFFICES ASSUME Certain PROVE ServedAsPromoted  OBVIOUS
  <2>1. OneApkPerBuild  BY DEF Certain, Inv, OneApkPerBuild, Succeeded, Followed
  <2>2. Truthful(catalog, artifact, promotion)  BY DEF Certain, Truths
  <2>3. ASSUME NEW b \in Published(catalog), release[b].published = 0 PROVE journal.dir \/ astray
    BY <2>3 DEF Certain, Whole, Stored, Settled
  <2>. QED  BY <2>1, <2>2, <2>3 DEF ServedAsPromoted, Truthful, Entry
<1>. QED  BY <1>1, CertainAlways, PTL

\* Whatever failed, was killed or was pruned, a release at rest is whole: no notes are locked, the backend runs
\* with the environment it will find at its next start, the recommended build is public and the gateway has it
\* (promote-android-release.sh restore_journal).
THEOREM RestsWhole == Spec => []RestIsSettled
<1>1. Certain => RestIsSettled
  <2> SUFFICES ASSUME Certain, script = Idle, ~journal.dir, ~astray
               PROVE  /\ \A b \in Builds : release[b].lock = 0
                      /\ meta = policy
                      /\ policy # NoPolicy => release[policy.build].published # 0
                      /\ policy.gateway => Entry(policy.build).at # 0 /\ <<policy.build, Entry(policy.build).apk>> \in cache
    BY DEF RestIsSettled
  <2>1. NoneOpen /\ Settled /\ Locked  BY DEF Certain, Whole, Stored, Inv
  <2>2. \A b \in Builds : release[b].lock = 0  BY <2>1 DEF NoneOpen, Locked
  <2>3. 0 \notin Published(catalog)  BY ReleasesAssumption DEF Published
  <2>4. policy \in Policies  BY DEF Certain, Follows, Shaped
  <2>5. policy.build = 0 => policy = NoPolicy
    <3>1. policy.build = 0 => policy.gateway = FALSE  BY <2>1, <2>3, <2>4 DEF Settled, Served, Policies
    <3>. QED  BY <2>4, <3>1 DEF Policies, NoPolicy
  <2>6. policy.gateway => Entry(policy.build).at # 0 /\ <<policy.build, Entry(policy.build).apk>> \in cache
    <3> SUFFICES ASSUME policy.gateway
                 PROVE  Entry(policy.build).at # 0 /\ <<policy.build, Entry(policy.build).apk>> \in cache
      OBVIOUS
    <3>1. policy.build \in Published(catalog) /\ <<policy.build, artifact[policy.build]>> \in cache
      BY <2>1 DEF Settled, Served
    <3>2. artifact[policy.build] = Entry(policy.build).apk  BY <3>1 DEF Certain, Truths, Truthful, Entry
    <3>. QED  BY <3>1, <3>2 DEF Published, Entry
  <2>. QED  BY <2>1, <2>2, <2>5, <2>6 DEF Settled
<1>. QED  BY <1>1, CertainAlways, PTL

\* The next command is one of those left.
LEMMA HeadLeft == ASSUME NEW S, NEW q \in Seq(S), q # <<>>  PROVE Head(q) \in Rem(q)
<1>1. 1 \in DOMAIN q /\ Head(q) = q[1]  OBVIOUS
<1>. QED  BY <1>1 DEF Rem

\* An interrupted release can be recovered in whatever state it was left: no command of restore_journal is
\* refused, by the data base or for a file of the journal that is missing (promote-android-release.sh).
THEOREM RecoversAlways == Spec => []Recoverable
<1>1. Certain => Recoverable
  <2> SUFFICES ASSUME Certain, ~astray, NEW s \in {"abort", "old policy"}, At(s)
               PROVE  IF s = "abort" THEN CanAbort(journal.id) ELSE "env" \in journal.files
    BY DEF Recoverable
  <2>1. s \in Rem(script.todo) /\ script.todo # <<>> /\ script.phase \in Phases
    <3>1. script.phase \in Phases /\ Head(script.todo) = s  BY DEF Certain, Follows, Shaped, Scripts, At
    <3>2. script.todo \in Seq(Names \union Back)  BY DEF Certain, Follows, Shaped, Scripts
    <3>3. script.todo # <<>>  BY DEF At
    <3>. QED  BY <3>1, <3>2, <3>3, HeadLeft
  <2>2. script.phase \in {"recover", "compensate"}
    <3>1. s \notin Steps(script.req)  BY DEF Steps
    <3>2. Planned(script.phase, script.todo, script.req, journal.id)  BY DEF Certain, Follows
    <3>. QED  BY <2>1, <3>1, <3>2 DEF Planned, Phases
  <2>3. journal.dir /\ Backward(Rem(script.todo)) /\ Journalled
    BY <2>1, <2>2 DEF Certain, Whole, Done, Stored
  <2>4. CASE s = "abort"
    <3>1. ~Won /\ Holds("operation") /\ journal.id \in Operations  BY <2>1, <2>3, <2>4 DEF Backward, Journalled
    <3>2. Status(journal.id) \in {"ABSENT", "ABORTED"} \/ Open(journal.id)
      <4>1. promotion[journal.id].status \in Statuses  BY <3>1 DEF Certain, Inv, DataOK, Entries
      <4>. QED  BY <3>1, <4>1 DEF Won, Open, Status, Statuses
    <3>3. Open(journal.id) => InForce(journal.id)  BY <3>1 DEF Certain, Inv, Locked
    <3>. QED  BY <2>4, <3>2, <3>3 DEF CanAbort
  <2>5. CASE s = "old policy"  BY <2>3, <2>5 DEF Journalled, Holds
  <2>. QED  BY <2>4, <2>5
<1>. QED  BY <1>1, CertainAlways, PTL
=============================================================================
