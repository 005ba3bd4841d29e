---- MODULE RuntimeLibrary ----
(***************************************************************************)
(* The life of one managed Runtime in the Runtime library                  *)
(* (internal/infra/dockerruntime): its creation, builds of its editable    *)
(* source, restores of a revision whose image is gone, pruning of unused   *)
(* images, and its deletion.  Every operation holds the lifecycle and the  *)
(* store lock, so one runs at a time; each writes a journal before its     *)
(* first effect and may stop (die, or return an error) before any step,    *)
(* and a later command resumes from the journal.  Docker is shared: a      *)
(* build the command gave up on may still land, containers come and go,    *)
(* and someone may remove an image.                                        *)
(*                                                                         *)
(* A revision is the content of a source, an image is the attempt that     *)
(* built it and its digest; whether two builds of one source give one      *)
(* digest is Docker's choice.  An image is labelled with its revision, so  *)
(* digests are only ever compared within one revision.                     *)
(***************************************************************************)
EXTENDS Integers, Sequences, FiniteSets, SequencesExt, FiniteSetsExt

CONSTANTS
    Revisions,      \* contents the editable source may have
    Digests,        \* image digests a build may produce
    Compatible,     \* those of images that Tobari can run
    ReceiptLimit,   \* prune receipts that are kept
    MaxAttempts,    \* builds and restores begun
    MaxStops,       \* times a command stops before its next step
    MaxFaults,      \* Docker inspections and builds that fail
    MaxVanishes,    \* images removed by someone else
    MaxUses         \* containers started on an image

ASSUME LibraryAssumption ==
    /\ Revisions \subseteq Nat \ {0} /\ Digests \subseteq Nat \ {0}
    /\ Compatible \subseteq Digests /\ ReceiptLimit \in Nat \ {0}
    /\ {MaxAttempts, MaxStops, MaxFaults, MaxVanishes, MaxUses} \subseteq Nat

VARIABLES
    pc,         \* next step of the command that holds the locks, or "idle"
    op,         \* what that command is
    jr,         \* the build journal, build.json
    snap,       \* staging directory: NoDir, EmptyDir or the revision in it
    manifest,   \* history: recorded image digest of each revision, 0 if none
    parents,    \* revisions with a directory in the revision store
    store,      \* revisions with a snapshot in that directory
    staging,    \* image each revision's staging tag names
    final,      \* digest each revision's published tag names, 0 if none
    flights,    \* Docker builds that may still land
    used,       \* whether a container runs on each revision's image, and
                \* whether that image then has a tag that is not Tobari's
    pj,         \* the prune journal, prune.json
    receipts,   \* number and plan of the last prunes, oldest first
    super,      \* receipt number each revision's last restore supersedes
    dj,         \* the delete journal, delete.json
    cj,         \* phase of the create journal, create.json
    conf,       \* where the configuration directory is
    stt,        \* where the state directory is
    refs,       \* revisions bound by a Template, Context or Workspace
    last,       \* how each revision was last published or retired (ghost)
    late,       \* containers started after the last look at their tag (ghost)
    spent       \* budgets used

journals == <<jr, pj, dj, cj, receipts, super>>
disk     == <<snap, manifest, parents, store, conf, stt>>
images   == <<staging, final, flights, used>>
ghosts   == <<last, late>>
vars     == <<pc, op, journals, disk, images, refs, ghosts, spent>>

NoDir    == -1
EmptyDir == 0
NoImage  == [attempt |-> 0, digest |-> 0]

NoJournal == [phase |-> "none", restore |-> FALSE, attempt |-> 0, rev |-> 0,
              digest |-> 0, from |-> "none", orphan |-> "none",
              remove |-> FALSE, artifact |-> "none", settled |-> FALSE]

NoPrune  == [active |-> FALSE, plan |-> <<>>, items |-> <<>>]
NoDelete == [phase |-> "none", kinds |-> <<>>, items |-> <<>>]

Images == [attempt : 1..MaxAttempts, digest : Digests] \cup {NoImage}

Publication == {"built", "final_tagged", "staging_released",
                "snapshot_published", "manifest_committed"}

Init ==
    /\ pc = "idle" /\ op = "none" /\ jr = NoJournal /\ snap = NoDir
    /\ manifest = [r \in Revisions |-> 0] /\ parents = {} /\ store = {}
    /\ staging = [r \in Revisions |-> NoImage]
    /\ final = [r \in Revisions |-> 0] /\ flights = {}
    /\ used = [r \in Revisions |-> "none"]
    /\ pj = NoPrune /\ receipts = <<>> /\ super = [r \in Revisions |-> 0]
    /\ dj = NoDelete /\ cj = "none" /\ conf = "none" /\ stt = "none"
    /\ refs = {} /\ last = [r \in Revisions |-> "none"] /\ late = {}
    /\ spent = [stops |-> 0, faults |-> 0, vanishes |-> 0, uses |-> 0, attempts |-> 0]

Spend(what, bound) ==
    /\ spent[what] < bound
    /\ spent' = [spent EXCEPT ![what] = @ + 1]

(***************************************************************************)
(* What a command observes before it acts.                                 *)
(***************************************************************************)
History == {r \in Revisions : manifest[r] # 0}
InUse   == {r \in Revisions : used[r] # "none"}
Origin(j) == IF j.phase = "completing" THEN j.from ELSE j.phase

\* readStrictRuntimeBuildJournalInventory and readStrictRuntimeCatalogObserved:
\* every reader refuses a library whose files the journal does not explain.
JournalInventory ==
    /\ cj = "none"
    /\ jr.phase = "none" => snap = NoDir
    /\ snap = EmptyDir => Origin(jr) = "snapshotting"
    /\ snap = NoDir => jr.phase \in {"none", "snapshotting", "snapshot_published",
                                     "manifest_committed", "completing"}

CatalogInventory ==
    conf = "live" =>
        /\ stt = "live"
        /\ parents = History \cup (IF jr.phase = "snapshot_published" THEN {jr.rev} ELSE {})
        /\ store = parents

Observable == JournalInventory /\ CatalogInventory

\* A settled failed build whose image is kept is material to retire, any other
\* build journal is an active operation (observeRuntimeLifecycleDocker).
FailedBuild == /\ ~jr.restore /\ jr.phase = "failed"
               /\ jr.artifact = "owned" /\ jr.settled
ActiveBuild == jr.phase # "none" /\ ~FailedBuild

Retires(plan, r) == r \in DOMAIN plan.cands /\ plan.cands[r] = "revision"

\* runtimePruneLatestReceiptRevision, of the receipts given
LatestOf(kept, r) ==
    Max({0} \cup {x.number : x \in {x \in ToSet(kept) : Retires(x.plan, r)}})

LatestReceipt(r) == LatestOf(receipts, r)

\* runtimeRestoreCommittedButNotSuperseded
RestoreCommitted(r) == jr.restore /\ jr.rev = r /\ Origin(jr) = "manifest_committed"

Retired(r) == LatestReceipt(r) > super[r] /\ ~RestoreCommitted(r)

Availability(r) ==
    CASE final[r] # 0 /\ final[r] = manifest[r] -> "available"
      [] final[r] # 0 /\ final[r] # manifest[r] -> "mismatched"
      [] final[r] = 0 /\ Retired(r)             -> "pruned"
      [] OTHER                                  -> "missing"

Idle == pc = "idle"
Begin(label, what) == Idle /\ pc' = label /\ op' = what
Go(label) == pc' = label /\ UNCHANGED op
Return == pc' = "idle" /\ op' = "none"

(***************************************************************************)
(* Creation: both directories are staged, the journal is written, the      *)
(* state directory and then the configuration directory are moved in.      *)
(***************************************************************************)
BeginCreate ==
    /\ Begin("create", "create")
    /\ conf = "none"
    /\ conf' = "stage" /\ stt' = "stage" /\ cj' = "prepared"
    /\ UNCHANGED <<jr, pj, dj, receipts, super, snap, manifest, parents, store,
                   images, refs, ghosts, spent>>

ResumeCreate ==
    /\ Begin("create", "create")
    /\ cj # "none"
    /\ UNCHANGED <<journals, disk, images, refs, ghosts, spent>>

PublishDirectories ==
    /\ pc = "create"
    /\ \/ stt = "stage" /\ stt' = "live" /\ UNCHANGED <<conf, cj>>
       \/ stt = "live" /\ cj = "prepared" /\ cj' = "state_published" /\ UNCHANGED <<conf, stt>>
       \/ cj = "state_published" /\ conf = "stage" /\ conf' = "live" /\ UNCHANGED <<stt, cj>>
       \/ cj = "state_published" /\ conf = "live" /\ cj' = "config_published"
          /\ UNCHANGED <<conf, stt>>
    /\ UNCHANGED <<pc, op, jr, pj, dj, receipts, super, snap, manifest, parents, store,
                   images, refs, ghosts, spent>>

\* The new Runtime's directories are read strictly, as with no build journal,
\* before the journal is removed.
EndCreate ==
    /\ pc = "create" /\ cj = "config_published" /\ Return
    /\ cj' = IF parents = History /\ store = History THEN "none" ELSE cj
    /\ UNCHANGED <<jr, pj, dj, receipts, super, disk, images, refs, ghosts, spent>>

(***************************************************************************)
(* Build and restore, up to the Docker build.                              *)
(***************************************************************************)
\* beginRuntimeBuildJournal, beginRuntimeRestoreJournal: no journal stands and
\* nothing is left in the staging directory.
NothingPending == jr.phase = "none" /\ ~pj.active /\ dj.phase = "none" /\ snap = NoDir

BeginBuild ==
    /\ Begin("mkdir", "build")
    /\ conf = "live" /\ stt = "live" /\ NothingPending
    /\ Spend("attempts", MaxAttempts)
    /\ jr' = [NoJournal EXCEPT !.phase = "snapshotting", !.attempt = spent.attempts + 1]
    /\ UNCHANGED <<pj, dj, cj, receipts, super, disk, images, refs, ghosts>>

BeginRestore(r) ==
    /\ Begin("mkdir", "restore")
    /\ conf = "live" /\ Observable /\ NothingPending
    /\ r \in History /\ Availability(r) \in {"missing", "pruned"}
    /\ Spend("attempts", MaxAttempts)
    /\ jr' = [NoJournal EXCEPT !.phase = "snapshotting", !.attempt = spent.attempts + 1,
                               !.restore = TRUE, !.rev = r]
    /\ UNCHANGED <<pj, dj, cj, receipts, super, disk, images, refs, ghosts>>

MakeStagingDirectory ==
    /\ pc = "mkdir" /\ snap' = EmptyDir /\ Go("copy")
    /\ UNCHANGED <<journals, manifest, parents, store, conf, stt, images, refs, ghosts, spent>>

\* A build copies the editable source, whatever a person has made of it by now
\* (it is read nowhere else), a restore the retained snapshot of its revision.
CopySource ==
    /\ pc = "copy" /\ Go("prepare")
    /\ snap' \in IF jr.restore THEN {jr.rev} ELSE Revisions
    /\ UNCHANGED <<journals, manifest, parents, store, conf, stt, images, refs, ghosts, spent>>

Prepare ==
    /\ pc = "prepare" /\ Go("observe")
    /\ jr' = [jr EXCEPT !.phase = "prepared", !.rev = snap]
    /\ UNCHANGED <<pj, dj, cj, receipts, super, disk, images, refs, ghosts, spent>>

\* observeUnusedRuntimeStagingTag: an image under the staging tag that no
\* journal owns is noted and left; so is one that cannot be inspected.
OrphanOf(img) == [jr EXCEPT !.phase = "orphan_staging", !.digest = img.digest,
                           !.orphan = IF img = NoImage THEN "unknown" ELSE "exact"]

ObserveStaging ==
    /\ pc = "observe"
    /\ \/ /\ staging[jr.rev] # NoImage
          /\ jr' = OrphanOf(staging[jr.rev]) /\ Return /\ UNCHANGED spent
       \/ /\ Spend("faults", MaxFaults)
          /\ jr' = OrphanOf(NoImage) /\ Return
       \/ /\ staging[jr.rev] = NoImage
          /\ Go("start") /\ UNCHANGED <<jr, spent>>
    /\ UNCHANGED <<pj, dj, cj, receipts, super, disk, images, refs, ghosts>>

\* A build of a revision already in the history reports no change, or that
\* the revision is not ready, and cleans up.
KnownRevision ==
    /\ pc = "start" /\ ~jr.restore /\ jr.rev \in History
    /\ pc' = "complete"
    /\ op' = IF final[jr.rev] = manifest[jr.rev] THEN "no_change" ELSE "not_ready"
    /\ UNCHANGED <<journals, disk, images, refs, ghosts, spent>>

StartDocker ==
    /\ pc = "start" /\ (jr.restore \/ jr.rev \notin History)
    /\ jr' = [jr EXCEPT !.phase = "building", !.artifact = "unknown"]
    /\ flights' = flights \cup {[rev |-> jr.rev, attempt |-> jr.attempt]}
    /\ Go("docker")
    /\ UNCHANGED <<pj, dj, cj, receipts, super, disk, staging, final, used, refs, ghosts, spent>>

\* The Docker build finishes: the staging tag names what it built, whoever
\* still waits for it.
Land(f) ==
    /\ f \in flights /\ flights' = flights \ {f}
    /\ \E d \in Digests : staging' = [staging EXCEPT ![f.rev] = [attempt |-> f.attempt, digest |-> d]]
    /\ UNCHANGED <<pc, op, journals, disk, final, used, refs, ghosts, spent>>

\* The Docker build fails or is given up on.
DockerFails ==
    /\ pc = "docker" /\ Spend("faults", MaxFaults)
    /\ flights' \in {flights, {f \in flights : f.attempt # jr.attempt}}
    /\ Go("retain")
    /\ UNCHANGED <<journals, disk, staging, final, used, refs, ghosts>>

Expected(d) == jr.restore => d = manifest[jr.rev]
Owned == staging[jr.rev].attempt = jr.attempt

Built(d) == [jr EXCEPT !.phase = "built", !.digest = d, !.artifact = "owned", !.settled = TRUE]

\* The build returned: its image is inspected for what Tobari needs and, for a
\* restore, compared with the recorded digest.
InspectBuild ==
    /\ pc = "docker" /\ ~\E f \in flights : f.attempt = jr.attempt
    /\ IF Owned /\ staging[jr.rev].digest \in Compatible /\ Expected(staging[jr.rev].digest)
       THEN jr' = Built(staging[jr.rev].digest) /\ Go("publish")
       ELSE Go("retain") /\ UNCHANGED jr
    /\ UNCHANGED <<pj, dj, cj, receipts, super, disk, images, refs, ghosts, spent>>

\* retainRuntimeBuildFailure
RetainFailure ==
    /\ pc = "retain" /\ Return
    /\ LET failed == [jr EXCEPT !.phase = "failed"] IN
       \/ Owned /\ UNCHANGED spent
          /\ jr' = [failed EXCEPT !.artifact = "owned", !.digest = staging[jr.rev].digest]
       \/ staging[jr.rev] = NoImage /\ UNCHANGED spent /\ jr' = [failed EXCEPT !.artifact = "absent"]
       \/ ~Owned /\ staging[jr.rev] # NoImage /\ UNCHANGED spent /\ jr' = failed
       \/ Spend("faults", MaxFaults) /\ jr' = failed
    /\ UNCHANGED <<pj, dj, cj, receipts, super, disk, images, refs, ghosts>>

\* rollbackRuntimeBuildBeforeDocker: an error before Docker starts cleans up.
RollBack ==
    /\ pc \in {"mkdir", "copy", "prepare", "start"} /\ Spend("faults", MaxFaults)
    /\ pc' = "complete" /\ op' = "rollback"
    /\ UNCHANGED <<journals, disk, images, refs, ghosts>>

(***************************************************************************)
(* Publication of a built image (resumeManagedRuntimePublicationLocked).   *)
(***************************************************************************)
Advance(phase, label) == jr' = [jr EXCEPT !.phase = phase] /\ Go(label)

\* publishManagedRuntimeTag: the tag is set from the name of the staging tag.
TagFinal ==
    /\ pc = "publish" /\ jr.phase \in {"built", "final_tagged", "staging_released"}
    /\ LET new == staging[jr.rev].digest IN
       \/ final[jr.rev] = jr.digest /\ Go("verify") /\ UNCHANGED final
       \/ final[jr.rev] = 0 /\ new # 0 /\ Go("verify") /\ final' = [final EXCEPT ![jr.rev] = new]
       \/ final[jr.rev] # jr.digest /\ (final[jr.rev] # 0 \/ new = 0) /\ Return /\ UNCHANGED final
    /\ UNCHANGED <<journals, disk, staging, flights, used, refs, ghosts, spent>>

VerifyFinal ==
    /\ pc = "verify"
    /\ \/ final[jr.rev] # jr.digest /\ Return /\ UNCHANGED jr
       \/ final[jr.rev] = jr.digest /\ jr.phase = "built" /\ Advance("final_tagged", "publish")
       \/ final[jr.rev] = jr.digest /\ jr.phase = "final_tagged" /\ Go("release") /\ UNCHANGED jr
       \/ final[jr.rev] = jr.digest /\ jr.phase = "staging_released" /\ Go("parent") /\ UNCHANGED jr
    /\ UNCHANGED <<pj, dj, cj, receipts, super, disk, images, refs, ghosts, spent>>

Untag(r) == staging' = [staging EXCEPT ![r] = NoImage]

\* releaseManagedRuntimeStagingTag: inspected, removed by name, looked for again
ReleaseStaging ==
    /\ pc \in {"release", "released"}
    /\ LET img == staging[jr.rev]
           exact == pc = "release" /\ Owned /\ img.digest = jr.digest
       IN \/ img = NoImage /\ Advance("staging_released", "publish")
          \/ img # NoImage /\ exact /\ Go("unstage") /\ UNCHANGED jr
          \/ img # NoImage /\ ~exact /\ Return /\ UNCHANGED jr
    /\ UNCHANGED <<pj, dj, cj, receipts, super, disk, images, refs, ghosts, spent>>

RemoveReleased ==
    /\ pc = "unstage" /\ Untag(jr.rev) /\ Go("released")
    /\ UNCHANGED <<journals, disk, final, flights, used, refs, ghosts, spent>>

\* Altered: a build's snapshot is taken to be in the store.
SnapshotAssumed == jr.restore => snap = jr.rev /\ jr.rev \in store

\* publishManagedRuntimeSnapshot: a build moves its snapshot to the revision
\* store, a restore finds it there.
SnapshotStands == IF jr.restore THEN snap = jr.rev /\ jr.rev \in store
                                ELSE snap # jr.rev /\ jr.rev \in store

MakeParent ==
    /\ pc = "parent"
    /\ \/ SnapshotStands /\ Go("published") /\ UNCHANGED parents
       \/ /\ ~jr.restore /\ snap = jr.rev /\ jr.rev \notin store
          /\ parents' = parents \cup {jr.rev} /\ Go("rename")
    /\ UNCHANGED <<journals, snap, manifest, store, conf, stt, images, refs, ghosts, spent>>

RenameSnapshot ==
    /\ pc = "rename" /\ Go("published")
    /\ store' = store \cup {jr.rev} /\ snap' = EmptyDir
    /\ UNCHANGED <<journals, manifest, parents, conf, stt, images, refs, ghosts, spent>>

SnapshotPublished ==
    /\ pc = "published" /\ Advance("snapshot_published", "publish")
    /\ UNCHANGED <<pj, dj, cj, receipts, super, disk, images, refs, ghosts, spent>>

\* publishManagedRuntimeManifestRevision: a revision is appended once, and a
\* restore leaves the history as it is.
PublishManifest ==
    /\ pc = "publish" /\ jr.phase = "snapshot_published" /\ SnapshotStands
    /\ \/ jr.rev \notin History /\ ~jr.restore /\ manifest' = [manifest EXCEPT ![jr.rev] = jr.digest]
       \/ manifest[jr.rev] = jr.digest /\ UNCHANGED manifest
    /\ Go("commit")
    /\ UNCHANGED <<journals, snap, parents, store, conf, stt, images, refs, ghosts, spent>>

CommitManifest ==
    /\ pc = "commit" /\ Advance("manifest_committed", "complete")
    /\ last' = [last EXCEPT ![jr.rev] = "published"]
    /\ UNCHANGED <<pj, dj, cj, receipts, super, disk, images, refs, late, spent>>

ResumeCommitted ==
    /\ pc = "publish" /\ jr.phase = "manifest_committed" /\ Go("complete")
    /\ UNCHANGED <<journals, disk, images, refs, ghosts, spent>>

(***************************************************************************)
(* Cleanup of the journal (completeRuntimeBuildJournal).                   *)
(***************************************************************************)
\* validateCompletedRuntimeBuildAuthority
Committed == Origin(jr) = "manifest_committed"
CommittedStands == jr.rev \in store /\ manifest[jr.rev] = jr.digest /\ final[jr.rev] = jr.digest

RefuseCleanup ==
    /\ pc = "complete" /\ Return
    /\ \/ Committed /\ ~CommittedStands
       \/ jr.phase \in {"prepared", "failed"} /\ snap # jr.rev
    /\ UNCHANGED <<journals, disk, images, refs, ghosts, spent>>

\* Altered: the restore leaves the older prune receipt in force.
SupersedeNothing ==
    /\ pc = "complete" /\ jr.restore /\ Committed /\ CommittedStands
    /\ UNCHANGED super /\ Go("completing")
    /\ UNCHANGED <<jr, pj, dj, cj, receipts, disk, images, refs, ghosts, spent>>

\* supersedeRuntimePruneAvailability, before the journal may be cleaned up
Supersede ==
    /\ pc = "complete" /\ jr.restore /\ Committed /\ CommittedStands
    /\ super' = [super EXCEPT ![jr.rev] = LatestReceipt(jr.rev)] /\ Go("completing")
    /\ UNCHANGED <<jr, pj, dj, cj, receipts, disk, images, refs, ghosts, spent>>

\* runtimeBuildCompletingJournal after validateRuntimeBuildCleanupStart
EnterCleanup ==
    /\ \/ pc = "completing"
       \/ pc = "complete" /\ (Committed => ~jr.restore /\ CommittedStands)
    /\ \/ jr.phase = "completing" /\ UNCHANGED jr
       \/ /\ jr.phase \in {"snapshotting", "prepared", "failed", "manifest_committed"}
          /\ jr.phase \in {"prepared", "failed"} => snap = jr.rev
          /\ jr' = [jr EXCEPT !.phase = "completing", !.from = jr.phase,
                              !.remove = jr.phase = "failed" /\ jr.artifact = "owned"]
    /\ Go("clean")
    /\ UNCHANGED <<pj, dj, cj, receipts, super, disk, images, refs, ghosts, spent>>

CleanStaging ==
    /\ pc \in {"clean", "cleaned"}
    /\ LET img == IF jr.rev = 0 THEN NoImage ELSE staging[jr.rev]
           exact == /\ pc = "clean" /\ jr.remove /\ img.digest = jr.digest
                    /\ jr.from = "failed" => Owned
       IN \/ img = NoImage /\ Go("unlink")
          \/ img # NoImage /\ exact /\ Go("untag")
          \/ img # NoImage /\ ~exact /\ Return
    /\ UNCHANGED <<journals, disk, images, refs, ghosts, spent>>

RemoveCleaned ==
    /\ pc = "untag" /\ Untag(jr.rev) /\ Go("cleaned")
    /\ UNCHANGED <<journals, disk, final, flights, used, refs, ghosts, spent>>

\* removeRuntimeSnapshot: the copied source goes before its directory.
UnlinkSnapshot ==
    /\ pc = "unlink" /\ snap # NoDir
    /\ snap' = IF snap = EmptyDir THEN NoDir ELSE EmptyDir
    /\ UNCHANGED <<pc, op, journals, manifest, parents, store, conf, stt, images, refs, ghosts, spent>>

RemoveJournal ==
    /\ pc = "unlink" /\ snap = NoDir
    /\ jr' = NoJournal
    /\ \/ op = "prune" /\ Go("items")
       \/ op = "delete" /\ Go("delete")
       \/ op \notin {"prune", "delete"} /\ Return
    /\ UNCHANGED <<pj, dj, cj, receipts, super, disk, images, refs, ghosts, spent>>

(***************************************************************************)
(* Recovery of an interrupted build or restore: `review runtimes` reads    *)
(* the journal, refusing a library it cannot explain, and runs the         *)
(* recovery of its phase.                                                  *)
(***************************************************************************)
BeginRecovery(label) == Begin(label, "recover") /\ Observable /\ conf = "live" /\ dj.phase = "none"

\* RecoverRuntimeBuildPreDocker
RecoverPreDocker ==
    /\ jr.phase \in {"snapshotting", "prepared"}
    /\ LET img == IF jr.phase = "prepared" THEN staging[jr.rev] ELSE NoImage IN
       \/ img = NoImage /\ BeginRecovery("complete") /\ UNCHANGED <<jr, spent>>
       \/ img # NoImage /\ BeginRecovery("idle") /\ jr' = OrphanOf(img) /\ UNCHANGED spent
       \/ /\ jr.phase = "prepared" /\ BeginRecovery("idle") /\ Spend("faults", MaxFaults)
          /\ jr' = OrphanOf(NoImage)
    /\ UNCHANGED <<pj, dj, cj, receipts, super, disk, images, refs, ghosts>>

\* RecoverRuntimeBuildOrphanStaging
RecoverOrphan ==
    /\ jr.phase = "orphan_staging"
    /\ LET img == staging[jr.rev]
           cleanup == [jr EXCEPT !.phase = "completing", !.from = "orphan_staging"]
       IN \/ /\ img = NoImage /\ jr.orphan = "unknown"
             /\ BeginRecovery("orphan") /\ jr' = [jr EXCEPT !.orphan = "absent"]
          \/ img = NoImage /\ jr.orphan # "unknown" /\ BeginRecovery("complete") /\ jr' = cleanup
          \/ /\ img # NoImage /\ jr.orphan = "exact" /\ img.digest = jr.digest
             /\ BeginRecovery("complete") /\ jr' = [cleanup EXCEPT !.remove = TRUE]
          \/ pc = "orphan" /\ Go("complete") /\ jr' = cleanup
    /\ UNCHANGED <<pj, dj, cj, receipts, super, disk, images, refs, ghosts, spent>>

\* RecoverRuntimeBuildBuilding: an image that Tobari cannot run is left alone,
\* with the journal as it is.
RecoverBuilding ==
    /\ jr.phase = "building" /\ BeginRecovery("idle")
    /\ LET d == staging[jr.rev].digest
           failed == [jr EXCEPT !.phase = "failed", !.digest = d]
           adopted == Owned /\ d \in Compatible /\ snap = jr.rev
       IN \/ d = 0 /\ jr' = [failed EXCEPT !.artifact = "absent"]
          \/ adopted /\ Expected(d) /\ jr' = Built(d)
          \/ adopted /\ ~Expected(d) /\ jr' = [failed EXCEPT !.artifact = "owned", !.settled = TRUE]
    /\ UNCHANGED <<pj, dj, cj, receipts, super, disk, images, refs, ghosts, spent>>


\* RecoverRuntimeBuildFailed, and RecoverRuntimeBuildCleanup of a failed build:
\* the attempt's image, if it is there after all, becomes the journal's.
RecoverFailed ==
    /\ Origin(jr) = "failed" /\ BeginRecovery("complete")
    /\ LET img == staging[jr.rev]
           settled == [jr EXCEPT !.settled = TRUE]
       IN \/ img = NoImage /\ jr' = IF jr.phase = "failed" /\ ~jr.settled
                                    THEN [settled EXCEPT !.artifact = "absent", !.digest = 0]
                                    ELSE jr
          \/ /\ Owned /\ jr.artifact = "owned" /\ img.digest = jr.digest /\ jr' = settled
          \/ /\ Owned /\ jr.artifact # "owned"
             /\ jr' = [settled EXCEPT !.artifact = "owned", !.digest = img.digest,
                                      !.remove = jr.phase = "completing"]
    /\ UNCHANGED <<pj, dj, cj, receipts, super, disk, images, refs, ghosts, spent>>

\* RecoverRuntimeBuildCleanup, RecoverRuntimeBuildPublication
RecoverRest ==
    /\ \/ jr.phase = "completing" /\ jr.from # "failed" /\ BeginRecovery("complete")
       \/ jr.phase \in Publication /\ BeginRecovery("publish")
    /\ UNCHANGED <<journals, disk, images, refs, ghosts, spent>>

Recover == RecoverPreDocker \/ RecoverOrphan \/ RecoverBuilding \/ RecoverFailed \/ RecoverRest

(***************************************************************************)
(* Pruning and deletion remove image tags item by item: a published tag    *)
(* for a revision of the history, the staging tag for a failed build.      *)
(***************************************************************************)
\* observeRuntimeMaterial of a failed build's staging tag
FailedMissing    == FailedBuild /\ staging[jr.rev] = NoImage
FailedMismatched == FailedBuild /\ staging[jr.rev].digest \notin {0, jr.digest}
FailedCandidate  == FailedBuild /\ staging[jr.rev].digest = jr.digest

Mismatched == (\E r \in History : Availability(r) = "mismatched") \/ FailedMismatched

\* PlanRuntimePrune: what may go, and everything its reference is made from.
Kinds(revs, failed) == [r \in revs \cup failed |-> IF r \in failed THEN "failed_build" ELSE "revision"]

PrunePlan ==
    LET eligible == {r \in History \ (refs \cup InUse) : Availability(r) = "available"}
    IN [cands |-> Kinds(eligible, IF FailedCandidate THEN {jr.rev} ELSE {}),
        refs |-> refs, avail |-> [r \in History |-> Availability(r)], used |-> InUse,
        failed |-> IF FailedBuild THEN jr.rev ELSE 0, lost |-> FailedMissing, gens |-> super]

Applicable == ~ActiveBuild /\ ~pj.active /\ dj.phase = "none" /\ ~Mismatched

Pending(kinds) == [r \in DOMAIN kinds |-> "pending"]

Applied(plan) == \E x \in ToSet(receipts) : x.plan = plan

\* A plan whose reference a receipt already holds is answered from it.
BeginPrune ==
    /\ Begin("items", "prune")
    /\ conf = "live" /\ Observable /\ Applicable
    /\ DOMAIN PrunePlan.cands # {} /\ ~Applied(PrunePlan)
    /\ pj' = [active |-> TRUE, plan |-> PrunePlan, items |-> Pending(PrunePlan.cands)]
    /\ UNCHANGED <<jr, dj, cj, receipts, super, disk, images, refs, ghosts, spent>>

ResumePrune ==
    /\ pj.active
    /\ \/ ~Applied(pj.plan) /\ Begin("items", "prune") /\ UNCHANGED pj
       \/ Applied(pj.plan) /\ Begin("idle", "none") /\ pj' = NoPrune
    /\ UNCHANGED <<jr, dj, cj, receipts, super, disk, images, refs, ghosts, spent>>

\* Altered: the retained failed build is not part of the deletion.
DeleteHistoryOnly ==
    /\ Begin("items", "delete")
    /\ conf = "live" /\ Observable /\ Applicable
    /\ refs = {} /\ InUse = {}
    /\ dj' = [phase |-> "materials", kinds |-> Kinds(History, {}), items |-> Pending(Kinds(History, {}))]
    /\ UNCHANGED <<jr, pj, cj, receipts, super, disk, images, refs, ghosts, spent>>

\* RuntimeDeleteTargetFrom
BeginDelete ==
    /\ Begin("items", "delete")
    /\ conf = "live" /\ Observable /\ Applicable
    /\ refs = {} /\ InUse = {}
    /\ LET kinds == Kinds(History, IF FailedBuild THEN {jr.rev} ELSE {})
       IN dj' = [phase |-> "materials", kinds |-> kinds, items |-> Pending(kinds)]
    /\ UNCHANGED <<jr, pj, cj, receipts, super, disk, images, refs, ghosts, spent>>

ResumeDelete ==
    /\ dj.phase # "none"
    /\ Begin(IF dj.phase = "materials" THEN "items" ELSE "delete", "delete")
    /\ UNCHANGED <<journals, disk, images, refs, ghosts, spent>>

Kind(r) == IF op = "prune" THEN pj.plan.cands[r] ELSE dj.kinds[r]
Items   == IF op = "prune" THEN pj.items ELSE dj.items
SetItem(r, state) ==
    IF op = "prune" THEN pj' = [pj EXCEPT !.items[r] = state] /\ UNCHANGED dj
                    ELSE dj' = [dj EXCEPT !.items[r] = state] /\ UNCHANGED pj

\* validateRuntimePruneResumeSnapshot: every blocker belongs to an item.
PruneBlocked ==
    {r \in History : Availability(r) # "available" \/ r \in InUse}
    \cup (IF FailedMissing \/ FailedMismatched \/ ActiveBuild THEN {jr.rev} ELSE {})

PruneStands ==
    /\ Observable /\ dj.phase = "none" /\ ~Mismatched
    /\ PruneBlocked \subseteq DOMAIN pj.items /\ InUse \cap History = {}
    /\ ActiveBuild => pj.plan.cands[jr.rev] = "failed_build"

\* validateRuntimeDeleteResumeSnapshotAll
DeleteStands == Observable /\ ~ActiveBuild /\ ~pj.active /\ refs = {}

\* validateRuntimePruneCandidate
CandidateStands(r) ==
    /\ r \notin refs
    /\ IF Kind(r) = "revision"
       THEN r \in History \ InUse /\ Availability(r) # "mismatched"
       ELSE /\ jr.rev = r
            /\ \/ FailedBuild /\ ~FailedMismatched
               \/ Items[r] = "removing" /\ jr.phase \in {"failed", "completing"}

TagPresent(r) == IF Kind(r) = "revision" THEN final[r] # 0
                                         ELSE FailedBuild /\ jr.rev = r /\ staging[r] # NoImage

ItemStands(r) == (IF op = "prune" THEN PruneStands ELSE DeleteStands) /\ CandidateStands(r)

Todo == {r \in DOMAIN Items : Items[r] # "done"}
Item == Min(Todo)

\* completeRuntimePrunedFailedBuild, for an item that is done
FailedLeft == \E r \in DOMAIN Items : Kind(r) = "failed_build" /\ Items[r] = "done" /\ jr.phase # "none"

PruneItem ==
    /\ pc = "items" /\ Todo # {} /\ ~(op = "prune" /\ FailedLeft)
    /\ \/ ~ItemStands(Item) /\ Return /\ UNCHANGED <<pj, dj>>
       \/ /\ ItemStands(Item) /\ Items[Item] = "pending" /\ Go("items")
          /\ SetItem(Item, IF TagPresent(Item) THEN "removing" ELSE "done")
       \/ /\ ItemStands(Item) /\ Items[Item] = "removing" /\ UNCHANGED <<pj, dj>>
          /\ Go(IF TagPresent(Item) THEN "rm" ELSE "after")
    /\ UNCHANGED <<jr, cj, receipts, super, disk, images, refs, ghosts, spent>>

\* Altered: the image is removed by force.
ForcedRemoveTag ==
    /\ pc = "rm" /\ Go("after") /\ late' = {}
    /\ \/ Kind(Item) = "revision" /\ UNCHANGED staging /\ final' = [final EXCEPT ![Item] = 0]
       \/ Kind(Item) = "failed_build" /\ UNCHANGED final /\ Untag(Item)
    /\ UNCHANGED <<journals, disk, flights, used, refs, last, spent>>

\* docker image rm of the tag: a container prevents it only when the tag is
\* the last name of the image.
RemoveTag ==
    /\ pc = "rm" /\ Go("after") /\ late' = {}
    /\ \/ /\ Kind(Item) = "revision" /\ UNCHANGED staging
          /\ final' = IF used[Item] = "sole" THEN final ELSE [final EXCEPT ![Item] = 0]
       \/ /\ Kind(Item) = "failed_build" /\ UNCHANGED final
          /\ Untag(Item)
    /\ UNCHANGED <<journals, disk, flights, used, refs, last, spent>>

TagRemoved ==
    /\ pc = "after"
    /\ IF ItemStands(Item) /\ ~TagPresent(Item)
       THEN SetItem(Item, "done") /\ Go("items")
       ELSE Return /\ UNCHANGED <<pj, dj>>
    /\ UNCHANGED <<jr, cj, receipts, super, disk, images, refs, ghosts, spent>>

PruneFailedBuild ==
    /\ pc = "items" /\ op = "prune" /\ FailedLeft
    /\ jr.phase \in {"failed", "completing"} /\ Go("complete")
    /\ UNCHANGED <<journals, disk, images, refs, ghosts, spent>>

\* writeRuntimePruneReceipt: the oldest receipts beyond the limit go, and more
\* of them while the file is too large; a supersession goes with its receipt.
\* The prune's journal is removed after that.
PruneReceipt ==
    /\ pc = "items" /\ op = "prune" /\ Todo = {} /\ ~FailedLeft /\ Go("unjournal")
    /\ LET number == IF receipts = <<>> THEN 1 ELSE Last(receipts).number + 1
           all == Append(receipts, [number |-> number, plan |-> pj.plan])
       IN \E keep \in 1..Min({ReceiptLimit, Len(all)}) :
             LET kept == SubSeq(all, Len(all) - keep + 1, Len(all)) IN
             /\ receipts' = kept
             /\ super' = [r \in Revisions |->
                    IF \E x \in ToSet(kept) : x.number = super[r] /\ Retires(x.plan, r) THEN super[r] ELSE 0]
    /\ last' = [r \in Revisions |-> IF Retires(pj.plan, r) THEN "pruned" ELSE last[r]]
    /\ UNCHANGED <<jr, pj, dj, cj, disk, images, refs, late, spent>>

EndPrune ==
    /\ pc = "unjournal" /\ pj' = NoPrune /\ Return
    /\ UNCHANGED <<jr, dj, cj, receipts, super, disk, images, refs, ghosts, spent>>

(***************************************************************************)
(* The rest of a deletion (applyRuntimeDeleteLocked).                      *)
(***************************************************************************)
DeletePhase(phase) == dj' = [dj EXCEPT !.phase = phase] /\ Go("delete")

\* All tags are gone; the look that found the last one gone is still good, as
\* nobody else takes the locks.
LeaveMaterials ==
    /\ pc = "items" /\ op = "delete" /\ Todo = {}
    /\ DeleteStands /\ DeletePhase("quarantining")
    /\ UNCHANGED <<jr, pj, cj, receipts, super, disk, images, refs, ghosts, spent>>

\* quarantineRuntimeDeleteTarget: the configuration moves first.
Quarantine ==
    /\ pc = "delete" /\ dj.phase = "quarantining"
    /\ \/ conf = "live" /\ conf' = "quarantine" /\ Go("delete") /\ UNCHANGED <<stt, dj>>
       \/ conf # "live" /\ stt = "live" /\ stt' = "quarantine" /\ Go("delete") /\ UNCHANGED <<conf, dj>>
       \/ conf # "live" /\ stt # "live" /\ DeletePhase("quarantined") /\ UNCHANGED <<conf, stt>>
    /\ UNCHANGED <<jr, pj, cj, receipts, super, snap, manifest, parents, store,
                   images, refs, ghosts, spent>>

DeleteFailedBuild ==
    /\ pc = "delete" /\ dj.phase = "quarantined"
    /\ \/ ~DeleteStands /\ Return /\ UNCHANGED dj
       \/ DeleteStands /\ FailedLeft /\ Go("complete") /\ UNCHANGED dj
       \/ DeleteStands /\ ~FailedLeft /\ DeletePhase("removing")
    /\ UNCHANGED <<jr, pj, cj, receipts, super, disk, images, refs, ghosts, spent>>

\* removeRuntimeDeleteQuarantine: both directories are complete before the
\* first is removed.
CheckQuarantine ==
    /\ pc = "delete" /\ dj.phase = "removing"
    /\ \/ DeleteStands /\ conf = "quarantine" /\ stt = "quarantine" /\ Go("purge") /\ UNCHANGED dj
       \/ DeleteStands /\ conf = "gone" /\ stt = "gone" /\ DeletePhase("removed")
       \/ (~DeleteStands \/ {conf, stt} \notin {{"quarantine"}, {"gone"}}) /\ Return /\ UNCHANGED dj
    /\ UNCHANGED <<jr, pj, cj, receipts, super, disk, images, refs, ghosts, spent>>

Purged(dir) == IF dir = "quarantine" THEN "partial" ELSE "gone"

PurgeQuarantine ==
    /\ pc = "purge"
    /\ \/ conf # "gone" /\ conf' = Purged(conf) /\ Go("purge") /\ UNCHANGED <<stt, dj>>
       \/ conf = "gone" /\ stt # "gone" /\ stt' = Purged(stt) /\ Go("purge") /\ UNCHANGED <<conf, dj>>
       \/ conf = "gone" /\ stt = "gone" /\ DeletePhase("removed") /\ UNCHANGED <<conf, stt>>
    /\ UNCHANGED <<jr, pj, cj, receipts, super, snap, manifest, parents, store,
                   images, refs, ghosts, spent>>

EndDelete ==
    /\ pc = "delete" /\ dj.phase = "removed" /\ dj' = NoDelete /\ Return
    /\ UNCHANGED <<jr, pj, cj, receipts, super, disk, images, refs, ghosts, spent>>

(***************************************************************************)
(* Around the library.                                                     *)
(***************************************************************************)
\* A Template, Context or Workspace binds an available revision, under the
\* lifecycle lock, or lets go of it.
Bind(r) ==
    /\ Idle /\ Observable /\ conf = "live" /\ ~ActiveBuild /\ ~pj.active /\ dj.phase = "none"
    /\ r \in History \ refs /\ Availability(r) = "available"
    /\ refs' = refs \cup {r}
    /\ UNCHANGED <<pc, op, journals, disk, images, ghosts, spent>>

Unbind(r) ==
    /\ r \in refs /\ refs' = refs \ {r}
    /\ UNCHANGED <<pc, op, journals, disk, images, ghosts, spent>>

\* A container starts on the published image, which may have got another tag
\* by then, or is removed.
Use(r) ==
    /\ r \in History \ InUse /\ Availability(r) = "available" /\ Spend("uses", MaxUses)
    /\ \E names \in {"sole", "shared"} : used' = [used EXCEPT ![r] = names]
    /\ late' = IF pc = "rm" THEN late \cup {r} ELSE late
    /\ UNCHANGED <<pc, op, journals, disk, staging, final, flights, refs, last>>

Unuse(r) ==
    /\ r \in InUse /\ used' = [used EXCEPT ![r] = "none"]
    /\ UNCHANGED <<pc, op, journals, disk, staging, final, flights, refs, ghosts, spent>>

\* Someone else removes an image tag.
Vanish(r) ==
    /\ Spend("vanishes", MaxVanishes)
    /\ \/ final[r] # 0 /\ used[r] # "sole" /\ final' = [final EXCEPT ![r] = 0] /\ UNCHANGED staging
       \/ staging[r] # NoImage /\ staging' = [staging EXCEPT ![r] = NoImage] /\ UNCHANGED final
    /\ UNCHANGED <<pc, op, journals, disk, flights, used, refs, ghosts>>

\* The command dies, or returns an error, before its next step; a Docker
\* build it waits for may go on.
Stop ==
    /\ ~Idle /\ Return /\ Spend("stops", MaxStops) /\ late' = {}
    /\ \/ UNCHANGED flights
       \/ pc = "docker" /\ flights' = {f \in flights : f.attempt # jr.attempt}
    /\ UNCHANGED <<journals, disk, staging, final, used, refs, last>>

BuildStep == MakeStagingDirectory \/ CopySource \/ Prepare \/ ObserveStaging \/ KnownRevision
             \/ StartDocker \/ InspectBuild \/ RetainFailure

PublishStep == TagFinal \/ VerifyFinal \/ ReleaseStaging \/ RemoveReleased \/ MakeParent \/ RenameSnapshot
               \/ SnapshotPublished \/ PublishManifest \/ CommitManifest \/ ResumeCommitted

CleanupStep == RefuseCleanup \/ Supersede \/ EnterCleanup \/ CleanStaging \/ RemoveCleaned \/ UnlinkSnapshot \/ RemoveJournal

CreateStep == PublishDirectories \/ EndCreate

PruneStep == PruneItem \/ RemoveTag \/ TagRemoved \/ PruneFailedBuild \/ PruneReceipt \/ EndPrune

DeleteStep == LeaveMaterials \/ Quarantine \/ DeleteFailedBuild \/ CheckQuarantine
              \/ PurgeQuarantine \/ EndDelete

Next ==
    \/ BeginPrune \/ ResumePrune \/ BeginDelete \/ ResumeDelete \/ PruneStep \/ DeleteStep
    \/ BeginCreate \/ ResumeCreate \/ CreateStep
    \/ BeginBuild \/ (\E r \in Revisions : BeginRestore(r)) \/ BuildStep \/ DockerFails \/ RollBack
    \/ PublishStep \/ CleanupStep \/ Recover \/ Stop
    \/ \E f \in flights : Land(f)
    \/ \E r \in Revisions : Bind(r) \/ Unbind(r) \/ Use(r) \/ Unuse(r) \/ Vanish(r)

Spec == Init /\ [][Next]_vars

Command == CreateStep \/ BuildStep \/ PublishStep \/ CleanupStep \/ PruneStep \/ DeleteStep

\* A person told of an unfinished operation runs the command that resumes it; a
\* prune or a deletion tried meanwhile does not keep them from the recovery.
Fairness ==
    /\ WF_vars(Command)
    /\ WF_vars(\E f \in flights : Land(f))
    /\ SF_vars(Recover)
    /\ WF_vars(ResumePrune) /\ WF_vars(ResumeDelete) /\ WF_vars(ResumeCreate)

FairSpec == Spec /\ Fairness

-----------------------------------------------------------------------------
Phases == {"none", "snapshotting", "prepared", "orphan_staging", "building", "failed",
           "completing"} \cup Publication

TypeOK ==
    /\ jr.phase \in Phases /\ jr.from \in Phases /\ jr.rev \in Revisions \cup {0}
    /\ jr.digest \in Digests \cup {0} /\ jr.attempt \in 0..MaxAttempts
    /\ snap \in Revisions \cup {NoDir, EmptyDir}
    /\ staging \in [Revisions -> Images] /\ final \in [Revisions -> Digests \cup {0}]
    /\ manifest \in [Revisions -> Digests \cup {0}]
    /\ Len(receipts) <= ReceiptLimit
    /\ \A r \in Revisions : super[r] \in {0} \cup {x.number : x \in ToSet(receipts)}
    /\ UNION {parents, store, refs} \subseteq Revisions
    /\ used \in [Revisions -> {"none", "sole", "shared"}] /\ late \subseteq Revisions

\* A revision of the history always has its snapshot, and from the moment the
\* staging tag is released a build's only snapshot is in the staging directory
\* or in the revision store, whatever stops or dies in between.  A published tag
\* names the image the history records, or is the journaled publication's.
HistoryBacked ==
    /\ TypeOK
    /\ History \subseteq store /\ store \subseteq parents
    /\ jr.phase \in Publication => snap = jr.rev \/ jr.rev \in store
    /\ \A r \in Revisions : final[r] # 0 =>
          final[r] = manifest[r] \/ (jr.phase \in Publication /\ jr.rev = r)

\* Tobari removes a published tag only for a prune or a deletion that lists it,
\* and never one that is referenced; it never moves one.  A tag that a container
\* runs on goes only when the container started after the command's last look at
\* Docker and the image has another name to live on under.
TagsKept ==
    [][\A r \in Revisions : final'[r] # final[r] /\ spent'.vanishes = spent.vanishes =>
        \/ final[r] = 0 /\ jr.phase \in Publication /\ jr.rev = r
        \/ /\ final'[r] = 0 /\ r \notin refs
           /\ used[r] = "none" \/ (used[r] = "shared" /\ r \in late)
           /\ r \in DOMAIN pj.items \cup DOMAIN dj.items]_vars

\* A revision counts as pruned exactly when its last publication is older than
\* its last prune, although old receipts and their supersessions are discarded:
\* while a revision counts as pruned no other prune gets past
\* validateRuntimePruneResumeSnapshot to push its receipt out.
RetirementFollows == \A r \in Revisions : Retired(r) <=> last[r] = "pruned"

\* A Runtime whose deletion is over has left no directory, journal, reference
\* or published tag behind.
RuntimeLeavesNothing ==
    conf = "gone" /\ dj.phase = "none" =>
        /\ stt = "gone" /\ jr.phase = "none" /\ ~pj.active /\ snap = NoDir /\ refs = {}
        /\ \A r \in Revisions : final[r] = 0

Settled == jr.phase = "none" /\ ~pj.active /\ dj.phase = "none" /\ cj = "none"

\* What no command gets past, as the states it leaves behind:

\* a staging directory emptied and not removed, or a snapshot in the revision
\* store that neither the history nor the journal's phase accounts for;
Unexplained ==
    \/ snap = EmptyDir /\ jr.phase # "none" /\ Origin(jr) # "snapshotting"
    \/ jr.rev \in parents \ History /\ (jr.phase = "staging_released" \/ cj # "none")

\* an image that Tobari cannot run, landed after its build's command died;
Incompatible == jr.phase = "building" /\ Owned /\ staging[jr.rev].digest \notin Compatible

\* an image under the staging tag that the journal does not own;
ForeignStaging ==
    LET img == staging[jr.rev]
    IN /\ jr.rev # 0 /\ img # NoImage
       /\ CASE Origin(jr) \in {"building", "failed"} -> ~Owned \/ (jr.artifact = "owned" /\ img.digest # jr.digest)
            [] jr.phase = "orphan_staging" -> jr.orphan # "exact" \/ img.digest # jr.digest
            [] jr.phase = "completing" -> ~jr.remove \/ img.digest # jr.digest
            [] jr.phase \in {"built", "final_tagged"} -> ~Owned
            [] OTHER -> FALSE

\* a published tag that a publication needs, gone or naming something else;
FinalLost ==
    /\ jr.phase \in Publication \/ Committed
    /\ final[jr.rev] # jr.digest
    /\ final[jr.rev] # 0 \/ staging[jr.rev] = NoImage \/ Committed

\* a prune beside a container, a retagged image, a revision or a failed build
\* that it does not list and whose tag is missing, or with a failed build on its
\* list that recovery was the first to clean up;
PruneObstructed ==
    /\ pj.active
    /\ \/ InUse # {} \/ Mismatched
       \/ \E r \in History \ DOMAIN pj.items : final[r] = 0
       \/ FailedMissing /\ jr.rev \notin DOMAIN pj.items
       \/ \E r \in DOMAIN pj.items : /\ pj.plan.cands[r] = "failed_build" /\ pj.items[r] # "done"
                                     /\ jr.phase = "none"

\* a deletion beside a container or a retagged image, or stopped while it cleaned
\* up a failed build or removed its quarantine.
DeleteObstructed ==
    \/ dj.phase = "materials" /\ (InUse # {} \/ Mismatched)
    \/ dj.phase = "quarantined" /\ jr.phase = "completing"
    \/ dj.phase = "removing" /\ (conf # "quarantine" \/ stt # "quarantine") /\ stt # "gone"

Stranded == Idle /\ (Unexplained \/ Incompatible \/ ForeignStaging \/ FinalLost
                     \/ PruneObstructed \/ DeleteObstructed)


\* A prune whose journal is written is finished by it or by its retries.
PruneFinishes == pj.active ~> ~pj.active
====
