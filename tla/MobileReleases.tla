---------------------------- MODULE MobileReleases ----------------------------
(***************************************************************************)
(* The notes of the mobile releases and their promotions in the data base  *)
(* (src/src/mobile-releases): staff edits and confirms the notes of a      *)
(* build, the restricted command line promotes it.                         *)
(*                                                                         *)
(* Every operation is one transaction that locks the row of the release    *)
(* and reads it again, so each is one action; a refused one changes        *)
(* nothing.  An edit, whose words do not matter, is a new revision; the    *)
(* first one creates the row.                                              *)
(***************************************************************************)
EXTENDS Naturals

CONSTANTS Builds, Operations,   \* positive numbers: builds, and the ids of promotions
          Apks,                 \* what an APK is known by: digest, size and URL
          None,
          MaxRevision           \* bound

ASSUME ReleasesAssumption ==
    /\ Builds \subseteq Nat \ {0} /\ Operations \subseteq Nat \ {0}
    /\ None \notin Apks /\ MaxRevision \in Nat

VARIABLES release,     \* build -> [revision, confirmed, published, by, lock]; revision 0: no row;
                       \* by: the promotion that set publishedAt; lock: promotionId, 0 is null
          promotion,   \* id -> [status, build, revision, apk, previous]
          artifact     \* build -> its row of mobile_download_artifacts, None if there is none

data == <<release, promotion, artifact>>

NoRelease == [revision |-> 0, confirmed |-> 0, published |-> 0, by |-> 0, lock |-> 0]
Absent == [status |-> "ABSENT", build |-> 0, revision |-> 0, apk |-> None, previous |-> 0]

InitData ==
    /\ release \in [Builds -> {NoRelease, [NoRelease EXCEPT !.revision = 1, !.confirmed = 1]}]
    /\ promotion = [o \in Operations |-> Absent]
    /\ artifact = [b \in Builds |-> None]

----------------------------------------------------------------------------
(* mobile-releases.service.ts                                              *)

\* Mutant: the lock of a promotion is not looked at.
BugEditable(b) == TRUE

Editable(b) == release[b].lock = 0

Edit(b) ==
    /\ Editable(b) /\ release[b].revision < MaxRevision
    /\ release' = [release EXCEPT ![b].revision = @ + 1]
    /\ UNCHANGED <<promotion, artifact>>

\* Confirming the notes of a published build corrects what is public.
Confirm(b) == LET row == release[b] IN
    /\ Editable(b) /\ row.confirmed # row.revision
    /\ release' = [release EXCEPT ![b].confirmed = row.revision,
                                  ![b].published = IF @ = 0 THEN 0 ELSE row.revision]
    /\ UNCHANGED <<promotion, artifact>>

----------------------------------------------------------------------------
(* mobile-release-publication.ts                                           *)

Status(o) == promotion[o].status
Open(o) == Status(o) \in {"PREPARED", "STAGED", "COMMITTED"}
Succeeded(b) == {o \in Operations : Status(o) = "SUCCEEDED" /\ promotion[o].build = b}

Ready(b) == release[b].revision # 0 /\ release[b].confirmed = release[b].revision

\* Mutant: only the data base's unique key guards the row, not the promotions that succeeded.
BugBound(b, apk) == TRUE

\* A build that was promoted once stays bound to its APK.
Bound(b, apk) == \A o \in Succeeded(b) : promotion[o].apk = apk

CanBegin(o, b, apk, revision) ==
    /\ Status(o) = "ABSENT" /\ release[b].lock = 0
    /\ Ready(b) /\ release[b].revision = revision /\ Bound(b, apk)

BeginPromotion(o, b, apk, revision) ==
    /\ CanBegin(o, b, apk, revision)
    /\ promotion' = [promotion EXCEPT ![o] =
           [status |-> "PREPARED", build |-> b, revision |-> revision, apk |-> apk,
            previous |-> release[b].published]]
    /\ release' = [release EXCEPT ![b].lock = o]
    /\ UNCHANGED artifact

RegisterDownload(b, apk) ==
    /\ Ready(b) /\ Bound(b, apk) /\ artifact[b] \in {None, apk}
    /\ artifact' = [artifact EXCEPT ![b] = apk]
    /\ UNCHANGED <<release, promotion>>

\* What every transition of an open promotion asserts
InForce(o) == LET row == release[promotion[o].build] IN
    /\ Open(o) /\ row.lock = o
    /\ row.revision = promotion[o].revision /\ row.confirmed = promotion[o].revision

To(o, status) == promotion' = [promotion EXCEPT ![o].status = status] /\ UNCHANGED artifact

Stage(o) ==
    /\ InForce(o) /\ Status(o) \in {"PREPARED", "STAGED"}
    /\ To(o, "STAGED") /\ UNCHANGED release

\* The notes become public, unless the build is public already.
Commit(o) == LET b == promotion[o].build IN
    /\ InForce(o) /\ Status(o) \in {"STAGED", "COMMITTED"}
    /\ To(o, "COMMITTED")
    /\ release' = IF release[b].published # 0 THEN release
                  ELSE [release EXCEPT ![b].published = release[b].confirmed, ![b].by = o]

Finish(o) == LET b == promotion[o].build IN
    /\ InForce(o) /\ Status(o) = "COMMITTED" /\ release[b].published = promotion[o].revision
    /\ To(o, "SUCCEEDED") /\ release' = [release EXCEPT ![b].lock = 0]

CanAbort(o) == Status(o) \in {"ABSENT", "ABORTED"} \/ InForce(o)

\* Mutant: the notes are taken back even when an earlier promotion had published them.
BugTakenBack(o, row) == [row EXCEPT !.lock = 0, !.published = 0, !.by = 0]

\* Only the first publication is taken back.
TakenBack(o, row) ==
    IF promotion[o].previous = 0 THEN [row EXCEPT !.lock = 0, !.published = 0, !.by = 0]
                                 ELSE [row EXCEPT !.lock = 0]

\* abort; nothing is left to do when the promotion never began or was aborted before.
Abort(o) ==
    /\ CanAbort(o)
    /\ IF Open(o)
       THEN /\ To(o, "ABORTED")
            /\ LET b == promotion[o].build IN release' = [release EXCEPT ![b] = TakenBack(o, @)]
       ELSE UNCHANGED data

----------------------------------------------------------------------------
NextData ==
    \/ \E b \in Builds : Edit(b) \/ Confirm(b) \/ \E apk \in Apks : RegisterDownload(b, apk)
    \/ \E o \in Operations :
        \/ Stage(o) \/ Commit(o) \/ Finish(o) \/ Abort(o)
        \/ \E b \in Builds, apk \in Apks, revision \in 1..MaxRevision : BeginPromotion(o, b, apk, revision)

\* Whoever calls, in any order
DataSpec == InitData /\ [][NextData]_data

----------------------------------------------------------------------------
(* Properties                                                              *)

\* What the public reads of a build is the revision a super administrator confirmed; the notes are locked
\* exactly as long as a promotion of them is open, and it is the locked revision that it will publish
\* (mobile-release-publication.ts transition; an edit between begin and commit must not slip in).
PublishedAsConfirmed ==
    /\ \A b \in Builds :
        /\ release[b].published # 0 => release[b].published = release[b].confirmed
        /\ release[b].lock # 0 => release[b].lock \in Operations /\ InForce(release[b].lock)
    /\ \A o \in Operations : Open(o) => InForce(o)

\* However promotions of a build fail and are repeated, those that succeed are of one APK
\* (mobile-release-publication.ts begin looks for an earlier success under the lock of the release).
OneApkPerBuild == \A b \in Builds : \A o, p \in Succeeded(b) : promotion[o].apk = promotion[p].apk

\* The notes of a build that was promoted stay public: the failure of a later promotion of it
\* takes nothing back (docs/mobile-release-operations.md: what was published before is kept).
NeverRetracted ==
    [][\A b \in Builds : Succeeded(b) # {} => release[b].published # 0 /\ release'[b].published # 0]_data
=============================================================================
