--------------------------- MODULE ReleasePromotion ---------------------------
(***************************************************************************)
(* Promoting, withdrawing and recovering an Android release                *)
(* (scripts/promote-android-release.sh) over the data base of              *)
(* MobileReleases, the catalogue of the download gateway                   *)
(* (src/src/app-downloads) and the environment of the backend.             *)
(*                                                                         *)
(* The script holds one lock and does one thing after the other: `todo` is *)
(* what remains of its plan, named as in Plan and Undo.  Any command may   *)
(* fail; the trap then undoes what the journal says, and a SIGKILL or a    *)
(* power cut leaves that to the next run.  A lost answer is an effect      *)
(* followed by a failure of the next command.                              *)
(***************************************************************************)
EXTENDS MobileReleases, Sequences, FiniteSets

CONSTANTS Loads,   \* bound: what occurs in one behaviour, [ops, promotions, apks, builds]
          Kept     \* published builds prune keeps besides the recommended one, 2 in the code

\* A compensation goes back to the build recommended before, so prune has to keep at least that one.
ASSUME PromotionAssumption ==
    Kept \in Nat \ {0} /\ \A l \in Loads : 1..l.promotions \subseteq Operations /\ l.apks \subseteq Apks /\ l.builds \subseteq Builds

VARIABLES script,    \* [phase, todo, req]
          journal,   \* the directory .mobile-release.pending: [dir, files, env, catalog, history, id]
          policy,    \* what the environment file recommends: [build, gateway]
          meta,      \* what the running backend was started with
          history,   \* the promotions registered in the TSV: <<build, apk>>
          catalog,   \* [state, recommended, entry]; entry: build -> [apk, at], at: publishedAt
          cache,     \* APKs in the cache of the gateway: <<build, apk>>
          desk,      \* an operator's download command under the publisher lock: the catalogue to save
          astray,    \* history: something happened that can leave a release half undone
          load

files == <<policy, history, catalog>>
vars == <<data, script, journal, files, meta, cache, desk, astray, load>>

NoPolicy == [build |-> 0, gateway |-> FALSE]
NoRequest == [mode |-> "none", build |-> 0, gateway |-> FALSE, apk |-> None, revision |-> 0, id |-> 0]
Idle == [phase |-> "idle", todo |-> <<>>, req |-> NoRequest]
NoCatalog == [state |-> "no_release", recommended |-> 0, entry |-> [b \in Builds |-> [apk |-> None, at |-> 0]]]
NoJournal == [dir |-> FALSE, files |-> {}, env |-> NoPolicy, catalog |-> NoCatalog, history |-> {}, id |-> 0]

Init ==
    /\ InitData /\ load \in Loads
    /\ \A b \in Builds : release[b] = NoRelease <=> "admin" \in load.ops
    /\ script = Idle /\ journal = NoJournal /\ policy = NoPolicy /\ meta = NoPolicy
    /\ history = {} /\ catalog = NoCatalog /\ cache = {} /\ desk = None /\ astray = FALSE

Occurs(op) == op \in load.ops
Published(c) == {b \in Builds : c.entry[b].at # 0}

----------------------------------------------------------------------------
(* The plan                                                                *)

Public == <<"stage", "commit">>
Plan(r) ==
    <<"save">>
    \o (IF ~r.gateway THEN <<>> ELSE IF r.mode = "withdraw" THEN <<"take down">>
        ELSE <<"register download", "register", "warm">>)
    \o (IF r.mode = "promote" THEN <<"name", "begin">> ELSE <<>>)
    \o (IF r.mode = "promote" /\ r.gateway THEN Public \o <<"publish">> ELSE <<>>)
    \o <<"flag", "switch", "restart">>
    \o (IF r.mode = "promote" THEN <<"record">> ELSE <<>>)
    \o (IF r.mode = "promote" /\ ~r.gateway THEN Public ELSE <<>>)
    \o (IF r.mode = "promote" THEN <<"finish">> ELSE <<>>)
    \o <<"clear">>

\* Mutant: the catalogue is restored only when the policy had been touched.
BugUndo(j, failed) ==
    (IF "started" \in j.files THEN <<"old catalogue", "old policy", "old history", "old restart">> ELSE <<>>)
    \o (IF failed THEN <<>>
        ELSE (IF "operation" \in j.files THEN <<"abort">> ELSE <<>>) \o <<"clear">>)

\* restore_journal after the status is known; the trap and the next run do the same.
Undo(j, failed) ==
    (IF "catalog" \in j.files THEN <<"old catalogue">> ELSE <<>>)
    \o (IF "started" \in j.files THEN <<"old policy", "old history", "old restart">> ELSE <<>>)
    \o (IF failed THEN <<>>
        ELSE (IF "operation" \in j.files THEN <<"abort">> ELSE <<>>) \o <<"clear">>)

Restore == IF ~journal.dir THEN <<>>
           ELSE IF "operation" \in journal.files THEN <<"status">> ELSE Undo(journal, FALSE)

Leads(phase, todo) == script' = IF todo = <<>> /\ phase # "recover" THEN Idle
                                ELSE [script EXCEPT !.phase = phase, !.todo = todo]
At(step) == script.todo # <<>> /\ Head(script.todo) = step
Advance == Leads(script.phase, Tail(script.todo))
Step(step) == At(step) /\ Advance /\ UNCHANGED <<astray, load>>

\* A command line; the revision is the one an earlier preflight answered with.
Start(r) ==
    /\ script = Idle /\ Occurs(IF r.gateway THEN "gateway" ELSE "plain") /\ Occurs(r.mode)
    /\ script' = [phase |-> "recover", todo |-> Restore, req |-> r]
    /\ UNCHANGED <<data, journal, files, meta, cache, desk, astray, load>>

\* No lower build than the recommended one, and no other URL for the same.
Accepted(r) ==
    r.mode = "promote" /\ r.build >= policy.build
                       /\ (r.build = policy.build /\ policy.gateway => r.gateway)

\* What was left behind is undone: the request itself
Proceed == LET r == script.req IN
    /\ script.phase = "recover" /\ script.todo = <<>>
    /\ LET w == [r EXCEPT !.gateway = @ \/ policy.gateway] IN
       script' = CASE Accepted(r) -> [phase |-> "main", todo |-> Plan(r), req |-> r]
                   [] r.mode = "withdraw" /\ (w.gateway \/ policy # NoPolicy) ->
                          [phase |-> "main", todo |-> Plan(w), req |-> w]
                   [] OTHER -> Idle
    /\ UNCHANGED <<data, journal, files, meta, cache, desk, astray, load>>

\* The trap: a failed command of the plan is followed by restore_journal.
Fail ==
    /\ script.phase = "main" /\ Leads("compensate", Restore)
    /\ UNCHANGED <<data, journal, files, meta, cache, desk, astray, load>>

\* SIGKILL, a power cut, or a failure of restore_journal itself: the journal stays.
Crash ==
    /\ script.phase # "idle" /\ script' = Idle
    /\ UNCHANGED <<data, journal, files, meta, cache, desk, astray, load>>

----------------------------------------------------------------------------
(* The journal                                                             *)

Save ==
    /\ Step("save")
    /\ journal' = [NoJournal EXCEPT !.dir = TRUE, !.env = policy, !.history = history, !.catalog = catalog,
                       !.files = {"env", "history"} \union (IF script.req.gateway THEN {"catalog"} ELSE {})]
    /\ UNCHANGED <<data, files, meta, cache, desk>>

Name ==
    /\ Step("name") /\ journal' = [journal EXCEPT !.id = script.req.id, !.files = @ \union {"operation"}]
    /\ UNCHANGED <<data, files, meta, cache, desk>>

Flag ==
    /\ Step("flag") /\ journal' = [journal EXCEPT !.files = @ \union {"started"}]
    /\ UNCHANGED <<data, files, meta, cache, desk>>

Clear == Step("clear") /\ journal' = NoJournal /\ UNCHANGED <<data, files, meta, cache, desk>>

\* Killed in the middle: rm -rf has removed some of the files, or the file of the operation is still empty.
Tear ==
    /\ Occurs("tear") /\ script' = Idle /\ astray' = TRUE
    /\ \/ At("clear") /\ \E left \in SUBSET journal.files \ {journal.files} : journal' = [journal EXCEPT !.files = left]
       \/ At("name") /\ journal' = [journal EXCEPT !.files = @ \union {"operation"}]
    /\ UNCHANGED <<data, files, meta, cache, desk, load>>

----------------------------------------------------------------------------
(* Forward                                                                 *)

Database(step, action) == Step(step) /\ action /\ UNCHANGED <<journal, files, meta, cache, desk>>

InDatabase == LET r == script.req IN
    \/ Database("register download", RegisterDownload(r.build, r.apk))
    \/ Database("begin", BeginPromotion(r.id, r.build, r.apk, r.revision))
    \/ Database("stage", Stage(r.id))
    \/ Database("commit", Commit(r.id))
    \* after /meta and the public notes were read back
    \/ Database("finish", meta.build = r.build /\ release[r.build].published = r.revision /\ Finish(r.id))

\* A download command waits for the publisher lock.
Download(step) == Step(step) /\ desk = None /\ UNCHANGED <<data, journal, policy, history, meta, desk>>
Entry(b) == catalog.entry[b]

Register == LET r == script.req IN
    /\ Download("register") /\ Entry(r.build).apk \in {None, r.apk}
    /\ catalog' = [catalog EXCEPT !.entry[r.build].apk = r.apk] /\ UNCHANGED cache

Warm == LET r == script.req IN
    /\ Download("warm") /\ cache' = cache \union {<<r.build, Entry(r.build).apk>>} /\ UNCHANGED catalog

\* downloadProof: what the committed promotion is about is what the gateway will serve.
Proved(b) == /\ release[b].published # 0
             /\ \E o \in Operations : /\ Status(o) \in {"COMMITTED", "SUCCEEDED"} /\ promotion[o].build = b
                                      /\ promotion[o].apk = artifact[b] /\ artifact[b] = Entry(b).apk

Publish == LET b == script.req.build IN
    /\ Download("publish") /\ Proved(b)
    /\ b >= catalog.recommended /\ <<b, Entry(b).apk>> \in cache /\ Entry(b).at \in {0, release[b].by}
    /\ catalog' = [catalog EXCEPT !.state = "available", !.recommended = b, !.entry[b].at = release[b].by]
    /\ UNCHANGED cache

TakeDown == Download("take down") /\ catalog' = [catalog EXCEPT !.state = "withdrawn"] /\ UNCHANGED cache

Switch ==
    /\ Step("switch") /\ policy' = IF script.req.mode = "withdraw" THEN NoPolicy
                                   ELSE [build |-> script.req.build, gateway |-> script.req.gateway]
    /\ UNCHANGED <<data, journal, history, catalog, meta, cache, desk>>

Restart == (Step("restart") \/ Step("old restart")) /\ meta' = policy
           /\ UNCHANGED <<data, journal, files, cache, desk>>

Record == LET r == script.req IN
    /\ Step("record") /\ \A h \in history : h[1] = r.build => h[2] = r.apk
    /\ history' = history \union {<<r.build, r.apk>>}
    /\ UNCHANGED <<data, journal, policy, catalog, meta, cache, desk>>

----------------------------------------------------------------------------
(* Back                                                                    *)

\* Mutant: a promotion that succeeded is compensated like any other.
BugCompensated(status) == TRUE

Compensated(status) == status # "SUCCEEDED"

\* An id that is not one is refused, and the journal stays.
ReadStatus ==
    /\ At("status") /\ journal.id # 0
    /\ Leads(script.phase, IF Compensated(Status(journal.id)) THEN Undo(journal, FALSE) ELSE <<"clear">>)
    /\ UNCHANGED <<data, journal, files, meta, cache, desk, astray, load>>

\* The data base does not answer: the policy is restored all the same, the journal kept. When the promotion
\* had succeeded, the next run will find that out and drop the journal with a part of it undone.
StatusUnknown ==
    /\ Occurs("database") /\ At("status") /\ journal.id # 0 /\ Leads("compensate", Undo(journal, TRUE))
    /\ astray' = (astray \/ Status(journal.id) = "SUCCEEDED")
    /\ UNCHANGED <<data, journal, files, meta, cache, desk, load>>

\* cp and mv of the saved file, without the publisher lock: an operator who had read the catalogue before
\* will save it over the restored one.
OldCatalogue ==
    /\ At("old catalogue") /\ Advance
    /\ catalog' = journal.catalog /\ astray' = (astray \/ desk # None)
    /\ UNCHANGED <<data, journal, policy, history, meta, cache, desk, load>>

OldPolicy ==
    /\ Step("old policy") /\ "env" \in journal.files /\ policy' = journal.env
    /\ UNCHANGED <<data, journal, history, catalog, meta, cache, desk>>

OldHistory ==
    /\ Step("old history") /\ history' = IF "history" \in journal.files THEN journal.history ELSE {}
    /\ UNCHANGED <<data, journal, policy, catalog, meta, cache, desk>>

AbortStep == Database("abort", Abort(journal.id))

----------------------------------------------------------------------------
(* Staff and operators meanwhile                                           *)

Administer(b) ==
    /\ Occurs("admin") /\ (Edit(b) \/ Confirm(b))
    /\ UNCHANGED <<script, journal, files, meta, cache, desk, astray, load>>

\* pause, resume: read under the publisher lock and, in a second step, saved
Operate ==
    /\ Occurs("desk") /\ desk = None
    /\ \/ /\ catalog.state \in {"available", "paused"} /\ desk' = [catalog EXCEPT !.state = "paused"]
       \/ LET b == catalog.recommended IN
          /\ catalog.state = "paused" /\ b # 0 /\ Entry(b).at # 0 /\ <<b, Entry(b).apk>> \in cache
          /\ desk' = [catalog EXCEPT !.state = "available"]
    /\ UNCHANGED <<data, script, journal, files, meta, cache, astray, load>>

Operated ==
    /\ desk # None /\ catalog' = desk /\ desk' = None
    /\ UNCHANGED <<data, script, journal, policy, history, meta, cache, astray, load>>

\* Mutant: prune keeps the recommended build alone.
BugRecent == {}

\* The last published builds besides the recommended one
Recent == LET others == Published(catalog) \ {catalog.recommended} IN
          {b \in others : Cardinality({c \in others : c > b}) < Kept}

Prune ==
    /\ Occurs("prune") /\ desk = None
    /\ cache' = {c \in cache : c[1] \in Recent \union {catalog.recommended} \/ Entry(c[1]).apk # c[2]}
    /\ UNCHANGED <<data, script, journal, files, meta, desk, astray, load>>

----------------------------------------------------------------------------
\* A random UUID
Unused == {o \in 1..load.promotions : Status(o) = "ABSENT" /\ o # journal.id}
Fresh == {o \in Unused : \A p \in Unused : o <= p}
Requests ==
    [mode : {"recover", "withdraw"}, build : {0}, gateway : BOOLEAN, apk : {None}, revision : {0}, id : {0}]
    \union [mode : {"promote"}, build : load.builds, gateway : BOOLEAN, apk : load.apks,
            revision : 1..MaxRevision, id : Fresh]

Next ==
    \/ \E r \in Requests : Start(r)
    \/ Proceed \/ Fail \/ Crash
    \/ Save \/ Name \/ Flag \/ Clear \/ Tear
    \/ InDatabase \/ Register \/ Warm \/ Publish \/ TakeDown \/ Switch \/ Restart \/ Record
    \/ ReadStatus \/ StatusUnknown \/ OldCatalogue \/ OldPolicy \/ OldHistory \/ AbortStep
    \/ \E b \in Builds : Administer(b)
    \/ Operate \/ Operated \/ Prune

Spec == Init /\ [][Next]_vars

----------------------------------------------------------------------------
(* Properties                                                              *)

\* A release at rest is whole: when no script runs and none left a journal, no notes are locked, the backend
\* runs with the environment it will find at its next start, the notes of the recommended build are public, and
\* a build recommended through the gateway is published in its catalogue and in its cache; whatever failed,
\* crashed or was pruned before. Excepted are a crash while a file of the journal was being
\* written or the journal removed, a promotion that succeeded and whose status could not be read, and an
\* operator's command under way while the catalogue is restored (astray).
RestIsSettled ==
    script = Idle /\ ~journal.dir /\ ~astray =>
        /\ \A b \in Builds : release[b].lock = 0
        /\ meta = policy
        /\ policy # NoPolicy => release[policy.build].published # 0
        /\ policy.gateway => Entry(policy.build).at # 0 /\ <<policy.build, Entry(policy.build).apk>> \in cache

\* An interrupted release can always be recovered: no command of restore_journal is ever refused, in whatever
\* state the run before, its compensation or an earlier recovery was killed.
Recoverable ==
    ~astray => /\ At("abort") => CanAbort(journal.id)
               /\ At("old policy") => "env" \in journal.files

\* A build means one APK: promotions that succeed agree on it, and the gateway serves the build only under the
\* APK it was promoted with, and only when its notes are public or a compensation is on its way
\* (download-publication-proof.ts).
ServedAsPromoted ==
    /\ OneApkPerBuild
    /\ \A b \in Published(catalog) :
         /\ artifact[b] = Entry(b).apk
         /\ \E o \in Operations : promotion[o].build = b /\ promotion[o].apk = Entry(b).apk
         /\ release[b].published = 0 => journal.dir \/ astray
=============================================================================
