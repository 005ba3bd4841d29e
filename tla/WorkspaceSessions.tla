---- MODULE WorkspaceSessions ----
(***************************************************************************)
(* The sessions of one Workspace, and everything that must not happen      *)
(* under them.  An entry confirms or repairs the Workspace container under *)
(* the installation's lifecycle lock, has Gateway replaced where the new   *)
(* authority needs it, and begins a session before it lets the lock go.    *)
(* The first session owns the row of the attachment registry: it serves an *)
(* endpoint and renews a lease; later sessions borrow it.  Against them    *)
(* work the deletion of the Workspace, forced or not, the commands that    *)
(* replace Gateway or stop the cluster, and the Configurator.              *)
(*                                                                         *)
(* Two fences of file locks keep them apart, and one file names the owner. *)
(* Whatever a process locks or serves ends with the process; the row does  *)
(* not, and goes when its lease is over and nobody listens any more.       *)
(***************************************************************************)
EXTENDS Naturals

CONSTANTS
  Entries,      \* commands that enter the Workspace at a time, each with one epoch
  Forces,       \* the forms of Workspace deletion: FALSE, TRUE for --force
  Lease,        \* PermissionSessionLease, in heartbeat periods
  WaitTicks,    \* how long a forced deletion waits for the owner to go
  MaxDrifts, MaxRollbacks,
  Free, NoRow, None

\* The wait is the lease, a heartbeat period and the time for the cleanup.
ASSUME SessionsAssumption ==
  /\ Lease \in Nat \ {0} /\ WaitTicks \in Nat /\ WaitTicks > Lease
  /\ {MaxDrifts, MaxRollbacks} \subseteq Nat /\ Forces \subseteq BOOLEAN
  /\ {Free, None, "retire", "admin", "configurator"} \cap Entries = {}
  /\ Free \notin {"retire", "admin"} /\ None \notin {"retire", "configurator"}
  /\ None \notin {"entry", "firstEntry", "admin", "adminFenced"}
  /\ NoRow \notin [owner : Entries, left : 0..(Lease + 1)]

VARIABLES
  lifecycle,  \* holder of lifecycle.lock
  entry,      \* Context and Project fence: shared by entries, or exclusive
  fence,      \* workspace-sessions-global: shared by sessions, or exclusive
  row,        \* the Workspace's row of sessions.json: its owner and what is left of its lease
  pc,         \* where an entry stands
  att,        \* the epoch the session of an entry is attached to
  own,        \* what became of an entry's endpoint and authority
  pend,       \* what is left of the lease of a row not yet published
  box,        \* the container is up or gone
  record,     \* which plan the entry record holds: none, the one that made the Home,
              \* an outdated one, or the plan in force
  owed,       \* the durable decision not yet carried out
  retire,     \* the Workspace deletion: its place, and the phase on disk
  wait,       \* what is left of the wait for an owner to go
  admin,      \* a command that replaces Gateway or stops the cluster
  bound,      \* the Workspace is still part of the authority
  drifts, rollbacks

locks  == <<lifecycle, entry, fence>>
proc   == <<pc, att, own, pend>>
runtime == <<box, record>>
others == <<retire, wait, admin, bound>>
bounds == <<drifts, rollbacks>>
vars == <<lifecycle, entry, fence, row, pc, att, own, pend, box, record, owed,
          retire, wait, admin, bound, drifts, rollbacks>>

\* Processes inside an entry: they hold the lifecycle lock.
Entering == {"plan", "reconcile", "settle", "gateway", "begin",
             "listen", "insert", "serve", "borrow", "verify"}

\* Processes with a session: from the release of the lock to the end of Close.
Attached == {"attached", "confirmed", "running", "closing"}

Sessions == {p \in Entries : pc[p] \in Attached}

\* A connection to the endpoint is accepted, be it by the kernel.
Dialable(p) == own[p] \in {"listening", "serving"}

\* permissionSessionActive: only a serving owner can answer, and even that one
\* may be too slow; a probe that fails shows nothing.
MayAnswer(p) == own[p] = "serving"

Current == row # NoRow /\ row.left > 0

\* Altered: a row whose lease is over goes, whoever still listens.
ExpiredIsEnough == row # NoRow => row.left = 0

\* reconcileExpiredInteractiveSessionsLocked: a row that stays or can go.
Removable == row # NoRow => row.left = 0 /\ ~Dialable(row.owner)

\* observeFinalWorkspaceSessionOwner answers "absent".
ObservedAbsent == row # NoRow => row.left = 0

\* observeFinalWorkspaceSessionOwner answers "live".
ObservedLive == row # NoRow /\ MayAnswer(row.owner)

FenceFree(f) == f.shared = {} /\ f.excl = None

Join(f, p) == [f EXCEPT !.shared = @ \cup {p}]
Leave(f, p) == [shared |-> f.shared \ {p}, excl |-> IF f.excl = p THEN None ELSE f.excl]
Close(f, h) == [f EXCEPT !.excl = h]
Open(f) == [f EXCEPT !.excl = None]

\* over: when the wait began nobody served the row (auxiliary, for the property).
NotRetiring == [at |-> "idle", force |-> FALSE, phase |-> "none", over |-> FALSE]

Init ==
  /\ lifecycle = Free
  /\ entry = [shared |-> {}, excl |-> None]
  /\ fence = [shared |-> {}, excl |-> None]
  /\ row = NoRow
  /\ pc = [p \in Entries |-> "out"]
  /\ att = [p \in Entries |-> None]
  /\ own = [p \in Entries |-> "none"]
  /\ pend = [p \in Entries |-> 0]
  /\ box = "gone"
  /\ record = "none"
  /\ owed = None
  /\ retire = NotRetiring
  /\ wait = 0
  /\ admin = "idle"
  /\ bound = TRUE
  /\ drifts = 0
  /\ rollbacks = 0

-----------------------------------------------------------------------------
(* Entry, under the lifecycle lock *)

\* WithLifecycleLock, the selection, and the shared Context and Project fence.
Enter(p) ==
  /\ pc[p] = "out"
  /\ bound
  /\ lifecycle = Free
  /\ owed \in {None, "entry", "firstEntry"}
  /\ entry.excl = None
  /\ lifecycle' = p
  /\ entry' = Join(entry, p)
  /\ pc' = [pc EXCEPT ![p] = "plan"]
  /\ UNCHANGED <<fence, row, att, own, pend, runtime, owed, others, bounds>>

\* The plan an entry decides on, or has decided: the first makes the Home.
Planned(decision) == IF decision = "firstEntry" THEN "first" ELSE "plan"

\* confirmEntry: the record holds the plan in force, or the one of the terminal
\* receipt, and the container is up.  Nothing has to be published.
ConfirmCurrent(p) ==
  /\ pc[p] = "plan"
  /\ owed = None
  /\ box = "up"
  /\ record \in {"first", "plan"}
  /\ pc' = [pc EXCEPT ![p] = "begin"]
  /\ UNCHANGED <<locks, row, att, own, pend, runtime, owed, others, bounds>>

\* acquireReconciliation, then the durable decision, or the one already there.
Decide(p) ==
  /\ pc[p] = "plan"
  /\ owed = None => box = "gone" \/ record # "plan"
  /\ FenceFree(fence)
  /\ fence' = Close(fence, p)
  /\ owed' = IF owed # None THEN owed ELSE IF record = "none" THEN "firstEntry" ELSE "entry"
  /\ pc' = [pc EXCEPT ![p] = "reconcile"]
  /\ UNCHANGED <<lifecycle, entry, row, att, own, pend, runtime, others, bounds>>

\* ReconcileWorkspaceEntry, and the release of the session fence.  A record of
\* this very plan is confirmed against the container, which is not repaired.
Reconcile(p) ==
  /\ pc[p] = "reconcile"
  /\ IF record = Planned(owed) THEN box = "up" ELSE ObservedAbsent
  /\ box' = "up"
  /\ record' = Planned(owed)
  /\ fence' = Leave(fence, p)
  /\ pc' = [pc EXCEPT ![p] = "settle"]
  /\ UNCHANGED <<lifecycle, entry, row, att, own, pend, owed, others, bounds>>

\* SettleFinalAuthority, for which the policy alone changes, and publication.
SettlePolicyOnly(p) ==
  /\ pc[p] = "settle"
  /\ owed' = None
  /\ pc' = [pc EXCEPT ![p] = "begin"]
  /\ UNCHANGED <<locks, row, att, own, pend, runtime, others, bounds>>

\* Altered: the registry is read, the session fence is not tried.
RegistryOnly == Removable /\ row' = NoRow

\* ConfirmNoFinalWorkspaceSessions: the fence is tried and given back, every
\* expired row goes, and none may be left.
ConfirmNoFinalWorkspaceSessions ==
  /\ FenceFree(fence)
  /\ Removable
  /\ row' = NoRow

\* SettleFinalAuthority, for which Gateway has to be replaced.
SettleGateway(p) ==
  /\ pc[p] = "settle"
  /\ ConfirmNoFinalWorkspaceSessions
  /\ pc' = [pc EXCEPT ![p] = "gateway"]
  /\ UNCHANGED <<locks, att, own, pend, runtime, owed, others, bounds>>

PublishEntry(p) ==
  /\ pc[p] = "gateway"
  /\ owed' = None
  /\ pc' = [pc EXCEPT ![p] = "begin"]
  /\ UNCHANGED <<locks, row, att, own, pend, runtime, others, bounds>>

\* BeginFinalWorkspaceSession: the container, the shared session fence, and
\* the first section under the registry lock, which finds no row of the pair.
BeginOwner(p) ==
  /\ pc[p] = "begin"
  /\ box # "gone"
  /\ fence.excl = None
  /\ Removable
  /\ fence' = Join(fence, p)
  /\ row' = NoRow
  /\ pc' = [pc EXCEPT ![p] = "listen"]
  /\ UNCHANGED <<lifecycle, entry, att, own, pend, runtime, owed, others, bounds>>

\* The same section, which finds a current row whose owner answers.
BeginBorrower(p) ==
  /\ pc[p] = "begin"
  /\ box # "gone"
  /\ fence.excl = None
  /\ Current
  /\ MayAnswer(row.owner)
  /\ fence' = Join(fence, p)
  /\ att' = [att EXCEPT ![p] = row.owner]
  /\ pc' = [pc EXCEPT ![p] = "borrow"]
  /\ UNCHANGED <<lifecycle, entry, row, own, pend, runtime, owed, others, bounds>>

\* listenPermissionSession, and the session with its first lease.
Listen(p) ==
  /\ pc[p] = "listen"
  /\ own' = [own EXCEPT ![p] = "listening"]
  /\ pend' = [pend EXCEPT ![p] = Lease]
  /\ att' = [att EXCEPT ![p] = p]
  /\ pc' = [pc EXCEPT ![p] = "insert"]
  /\ UNCHANGED <<locks, row, runtime, owed, others, bounds>>

\* The second section under the registry lock publishes the row.
Insert(p) ==
  /\ pc[p] = "insert"
  /\ row = NoRow
  /\ row' = [owner |-> p, left |-> pend[p]]
  /\ pend' = [pend EXCEPT ![p] = 0]
  /\ pc' = [pc EXCEPT ![p] = "serve"]
  /\ UNCHANGED <<locks, att, own, runtime, owed, others, bounds>>

\* go serve(), startHeartbeat(), and the lifecycle lock is let go.
Serve(p) ==
  /\ pc[p] = "serve"
  /\ own' = [own EXCEPT ![p] = "serving"]
  /\ lifecycle' = Free
  /\ pc' = [pc EXCEPT ![p] = "attached"]
  /\ UNCHANGED <<entry, fence, row, att, pend, runtime, owed, others, bounds>>

\* borrowInteractiveWorkspaceAttachment: the owner found before still answers,
Borrow(p) ==
  /\ pc[p] = "borrow"
  /\ MayAnswer(att[p])
  /\ pc' = [pc EXCEPT ![p] = "verify"]
  /\ UNCHANGED <<locks, row, att, own, pend, runtime, owed, others, bounds>>

\* and its row is still there and current.
VerifyBorrowed(p) ==
  /\ pc[p] = "verify"
  /\ Current
  /\ row.owner = att[p]
  /\ lifecycle' = Free
  /\ pc' = [pc EXCEPT ![p] = "attached"]
  /\ UNCHANGED <<entry, fence, row, att, own, pend, runtime, owed, others, bounds>>

\* An error, a cancellation, or a check above that does not hold.  A row of
\* this very process cannot be there yet; its listener is closed.
Abandon(p) ==
  /\ pc[p] \in Entering \ {"serve"}
  /\ lifecycle' = Free
  /\ entry' = Leave(entry, p)
  /\ fence' = Leave(fence, p)
  /\ pc' = [pc EXCEPT ![p] = "out"]
  /\ own' = [own EXCEPT ![p] = "none"]
  /\ att' = [att EXCEPT ![p] = None]
  /\ pend' = [pend EXCEPT ![p] = 0]
  /\ UNCHANGED <<row, runtime, owed, others, bounds>>

EnterStep(p) ==
  \/ ConfirmCurrent(p) \/ Decide(p) \/ Reconcile(p)
  \/ SettlePolicyOnly(p) \/ SettleGateway(p) \/ PublishEntry(p)
  \/ BeginOwner(p) \/ BeginBorrower(p) \/ Listen(p) \/ Insert(p) \/ Serve(p)
  \/ Borrow(p) \/ VerifyBorrowed(p) \/ Abandon(p)

-----------------------------------------------------------------------------
(* The session, after the lock *)

\* confirmExactInteractiveWorkspaceAttachment: the row, then its owner,
ConfirmExact(p) ==
  /\ pc[p] = "attached"
  /\ box # "gone"
  /\ Current
  /\ row.owner = att[p]
  /\ MayAnswer(att[p])
  /\ pc' = [pc EXCEPT ![p] = "confirmed"]
  /\ UNCHANGED <<locks, row, att, own, pend, runtime, owed, others, bounds>>

\* and the row once more, before the child is started.
Run(p) ==
  /\ pc[p] = "confirmed"
  /\ Current
  /\ row.owner = att[p]
  /\ pc' = [pc EXCEPT ![p] = "running"]
  /\ UNCHANGED <<locks, row, att, own, pend, runtime, owed, others, bounds>>

\* The child ends, with its container or by itself, or was never started.
Finish(p) ==
  /\ pc[p] \in {"attached", "confirmed", "running"}
  /\ pc' = [pc EXCEPT ![p] = "closing"]
  /\ UNCHANGED <<locks, row, att, own, pend, runtime, owed, others, bounds>>

\* Close reaches failClosed: closeTransport, and the waits are invalidated.
CloseTransport(p) ==
  /\ pc[p] = "closing"
  /\ own[p] = "serving"
  /\ own' = [own EXCEPT ![p] = "closed"]
  /\ UNCHANGED <<locks, row, pc, att, pend, runtime, owed, others, bounds>>

\* failClosed out of serve: the accept loop failed or was exhausted.
AcceptFails(p) ==
  /\ pc[p] \in {"attached", "confirmed", "running"}
  /\ own[p] = "serving"
  /\ own' = [own EXCEPT ![p] = "closed"]
  /\ UNCHANGED <<locks, row, pc, att, pend, runtime, owed, others, bounds>>

\* Altered: every renewal begins where the lease before it ends.
RenewAdds(p) ==
  /\ own[p] = "serving"
  /\ Current
  /\ row.owner = p
  /\ row' = [row EXCEPT !.left = @ + Lease]
  /\ UNCHANGED <<locks, proc, runtime, owed, others, bounds>>

\* renew: this very owner, a lease that is not over, a clock that advanced.
Renew(p) ==
  /\ own[p] = "serving"
  /\ Current
  /\ row.owner = p
  /\ row.left < Lease
  /\ row' = [row EXCEPT !.left = Lease]
  /\ UNCHANGED <<locks, proc, runtime, owed, others, bounds>>

\* Altered: a row that is not there any more is no failure.
HeartbeatIgnoresLoss(p) ==
  /\ own[p] = "serving"
  /\ row # NoRow
  /\ row.owner = p
  /\ row.left = 0 \/ row.left > Lease
  /\ own' = [own EXCEPT ![p] = "closed"]
  /\ UNCHANGED <<locks, row, pc, att, pend, runtime, owed, others, bounds>>

\* A renewal finds another row, none, an expired one or a clock set back.
HeartbeatFails(p) ==
  /\ own[p] = "serving"
  /\ row # NoRow => row.owner # p \/ row.left = 0 \/ row.left > Lease
  /\ own' = [own EXCEPT ![p] = "closed"]
  /\ UNCHANGED <<locks, row, pc, att, pend, runtime, owed, others, bounds>>

\* cleanupAuthority, once: the exact row, or an error that leaves it there.
CleanupAuthority(p) ==
  /\ own[p] = "closed"
  /\ own' = [own EXCEPT ![p] = "ended"]
  /\ \/ row # NoRow /\ row.owner = p /\ row' = NoRow
     \/ UNCHANGED row
  /\ UNCHANGED <<locks, pc, att, pend, runtime, owed, others, bounds>>

\* The end of Close: the session fence, then the Context and Project fence.
Release(p) ==
  /\ pc[p] = "closing"
  /\ own[p] \in {"none", "ended"}
  /\ entry' = Leave(entry, p)
  /\ fence' = Leave(fence, p)
  /\ pc' = [pc EXCEPT ![p] = "gone"]
  /\ att' = [att EXCEPT ![p] = None]
  /\ UNCHANGED <<lifecycle, row, own, pend, runtime, owed, others, bounds>>

\* The process dies: locks and endpoint end with it, files do not.
Die(p) ==
  /\ pc[p] \notin {"out", "gone"}
  /\ lifecycle' = IF lifecycle = p THEN Free ELSE lifecycle
  /\ entry' = Leave(entry, p)
  /\ fence' = Leave(fence, p)
  /\ pc' = [pc EXCEPT ![p] = "gone"]
  /\ own' = [own EXCEPT ![p] = "ended"]
  /\ att' = [att EXCEPT ![p] = None]
  /\ pend' = [pend EXCEPT ![p] = 0]
  /\ UNCHANGED <<row, runtime, owed, others, bounds>>

\* Nothing names the epoch of an ended command any more; another one is started.
NewCommand(p) ==
  /\ pc[p] = "gone"
  /\ row # NoRow => row.owner # p
  /\ \A q \in Entries : att[q] # p
  /\ pc' = [pc EXCEPT ![p] = "out"]
  /\ own' = [own EXCEPT ![p] = "none"]
  /\ UNCHANGED <<locks, row, att, pend, runtime, owed, others, bounds>>

SessionStep(p) ==
  \/ ConfirmExact(p) \/ Run(p) \/ Finish(p)
  \/ CloseTransport(p) \/ CleanupAuthority(p) \/ Release(p)

-----------------------------------------------------------------------------
(* Workspace deletion *)

At(place) == [retire EXCEPT !.at = place]

\* DeleteWorkspaceByReference, new or repeated as it was decided.
RetireStart(f) ==
  /\ retire.at = "idle"
  /\ bound
  /\ lifecycle = Free
  /\ owed = None \/ (owed = "retire" /\ retire.force = f)
  /\ lifecycle' = "retire"
  /\ retire' = [retire EXCEPT !.force = f, !.at = IF owed = None THEN "allowed" ELSE "prepare"]
  /\ UNCHANGED <<entry, fence, row, proc, runtime, owed, wait, admin, bound, bounds>>

\* confirmWorkspaceRetirementAllowedLocked: nobody is there or force is given.
RetirementAllowed ==
  /\ ObservedAbsent \/ (retire.force /\ ObservedLive)
  /\ box # "gone"

\* ConfirmWorkspaceRetirementAllowed, and the durable decision.
RetireAllowed ==
  /\ retire.at = "allowed"
  /\ retire.force \/ FenceFree(entry)
  /\ RetirementAllowed
  /\ owed' = "retire"
  /\ retire' = At("prepare")
  /\ UNCHANGED <<locks, row, proc, runtime, wait, admin, bound, bounds>>

\* PrepareWorkspaceRetirement: the fence, and its own decision on disk.
RetirePrepare ==
  /\ retire.at = "prepare"
  /\ retire.force \/ FenceFree(entry)
  /\ retire.phase = "none" => RetirementAllowed
  /\ entry' = IF retire.force THEN entry ELSE Close(entry, "retire")
  /\ retire' = [retire EXCEPT !.at = "remove", !.phase = IF @ = "none" THEN "prepared" ELSE @]
  /\ UNCHANGED <<lifecycle, fence, row, proc, runtime, owed, wait, admin, bound, bounds>>

\* The container is removed; a forced deletion then waits for the owner.
RetireRemove ==
  /\ retire.at = "remove"
  /\ retire.phase = "prepared"
  /\ retire.force \/ ObservedAbsent
  /\ box' = "gone"
  /\ UNCHANGED record
  /\ wait' = IF retire.force THEN WaitTicks ELSE 0
  /\ retire' = [retire EXCEPT !.at = IF retire.force THEN "wait" ELSE "removed",
                              !.over = row # NoRow => ~Dialable(row.owner)]
  /\ UNCHANGED <<locks, row, proc, owed, admin, bound, bounds>>

\* waitFinalWorkspaceSessionOwnerAbsent: no row, or one that is compacted,
\* over and without an answer.
RetireAbsent ==
  /\ retire.at = "wait"
  /\ wait > 0
  /\ ObservedAbsent
  /\ row' = NoRow
  /\ wait' = 0
  /\ retire' = At("removed")
  /\ UNCHANGED <<locks, proc, runtime, owed, admin, bound, bounds>>

\* Altered: every poll gives the owner the whole time again.
DeadlineRestarts ==
  /\ retire.at = "wait"
  /\ wait = 0
  /\ wait' = WaitTicks
  /\ UNCHANGED <<locks, row, proc, runtime, owed, retire, admin, bound, bounds>>

\* The deadline of the wait; the owner is still there.
RetireDeadline ==
  /\ retire.at = "wait"
  /\ wait = 0
  /\ retire' = At("failed")
  /\ UNCHANGED <<locks, row, proc, runtime, owed, wait, admin, bound, bounds>>

\* Altered: the first phase on disk is taken for the second.
PreparedEarly ==
  /\ retire.at \in {"remove", "removed"}
  /\ entry' = IF entry.excl = "retire" THEN Open(entry) ELSE entry
  /\ retire' = [retire EXCEPT !.at = "settle", !.phase = "containerRetired", !.over = FALSE]
  /\ UNCHANGED <<lifecycle, fence, row, proc, runtime, owed, wait, admin, bound, bounds>>

\* The second phase reaches the disk, now or already, and the fence opens.
RetirePrepared ==
  /\ \/ retire.at = "removed"
     \/ retire.at = "remove" /\ retire.phase = "containerRetired"
  /\ entry' = IF entry.excl = "retire" THEN Open(entry) ELSE entry
  /\ retire' = [retire EXCEPT !.at = "settle", !.phase = "containerRetired", !.over = FALSE]
  /\ UNCHANGED <<lifecycle, fence, row, proc, runtime, owed, wait, admin, bound, bounds>>

\* SettleFinalWorkspaceRetirement replaces Gateway.
RetireSettle ==
  /\ retire.at = "settle"
  /\ ConfirmNoFinalWorkspaceSessions
  /\ retire' = At("gateway")
  /\ UNCHANGED <<locks, proc, runtime, owed, wait, admin, bound, bounds>>

\* CompleteWorkspaceRetirement, and the publication without the Workspace.
RetireComplete ==
  /\ retire.at = "gateway"
  /\ lifecycle' = Free
  /\ owed' = None
  /\ bound' = FALSE
  /\ retire' = NotRetiring
  /\ UNCHANGED <<entry, fence, row, proc, runtime, wait, admin, bounds>>

\* An error or the death of the process; what was decided stays decided.
RetireStop ==
  /\ retire.at # "idle"
  /\ lifecycle' = Free
  /\ entry' = IF entry.excl = "retire" THEN Open(entry) ELSE entry
  /\ retire' = [retire EXCEPT !.at = "idle", !.force = @ /\ owed = "retire", !.over = FALSE]
  /\ wait' = 0
  /\ UNCHANGED <<fence, row, proc, runtime, owed, admin, bound, bounds>>

\* A deletion goes on or returns an error; out of the wait it comes by what the
\* wait finds or by its deadline.
RetireProgress ==
  \/ RetireAllowed \/ RetirePrepare \/ RetireRemove \/ RetireAbsent
  \/ RetireDeadline \/ RetirePrepared \/ RetireSettle \/ RetireComplete
  \/ (RetireStop /\ retire.at # "wait")

-----------------------------------------------------------------------------
(* Commands on the cluster, the Configurator, and the world *)

\* A settlement or a cluster down that is not about this Workspace: decided,
\* or taken up again where its journal stands.
AdminStart ==
  /\ admin = "idle"
  /\ lifecycle = Free
  /\ owed \in {None, "admin", "adminFenced"}
  /\ lifecycle' = "admin"
  /\ owed' = IF owed = None THEN "admin" ELSE owed
  /\ admin' = IF owed = "adminFenced" THEN "gateway" ELSE "confirm"
  /\ UNCHANGED <<entry, fence, row, proc, runtime, retire, wait, bound, bounds>>

AdminConfirm ==
  /\ admin = "confirm"
  /\ ConfirmNoFinalWorkspaceSessions
  /\ owed' = "adminFenced"
  /\ admin' = "gateway"
  /\ UNCHANGED <<locks, proc, runtime, retire, wait, bound, bounds>>

AdminDone ==
  /\ admin = "gateway"
  /\ lifecycle' = Free
  /\ owed' = None
  /\ admin' = "idle"
  /\ UNCHANGED <<entry, fence, row, proc, runtime, retire, wait, bound, bounds>>

AdminStop ==
  /\ admin # "idle"
  /\ lifecycle' = Free
  /\ admin' = "idle"
  /\ UNCHANGED <<entry, fence, row, proc, runtime, owed, retire, wait, bound, bounds>>

AdminStep == AdminConfirm \/ AdminDone \/ AdminStop

\* AcquireConfiguratorAttachment takes no lifecycle lock.
Configure ==
  /\ FenceFree(entry)
  /\ entry' = Close(entry, "configurator")
  /\ UNCHANGED <<lifecycle, fence, row, proc, runtime, owed, others, bounds>>

Configured ==
  /\ entry.excl = "configurator"
  /\ entry' = Open(entry)
  /\ UNCHANGED <<lifecycle, fence, row, proc, runtime, owed, others, bounds>>

\* A published change gives the next entry another plan.
PlanChanges ==
  /\ lifecycle = Free
  /\ owed = None
  /\ record \in {"first", "plan"}
  /\ drifts < MaxDrifts
  /\ record' = "old"
  /\ drifts' = drifts + 1
  /\ UNCHANGED <<locks, row, proc, box, owed, others, rollbacks>>

\* The container ends by itself or by a hand that is not tobari's.
ContainerLost ==
  /\ box = "up"
  /\ drifts < MaxDrifts
  /\ box' = "gone"
  /\ drifts' = drifts + 1
  /\ UNCHANGED <<locks, row, proc, record, owed, others, rollbacks>>

Elapse(left) == IF left = 0 THEN 0 ELSE left - 1

\* The wall clock advances by a heartbeat period.  The wait for an owner polls
\* many times in one.
Tick ==
  /\ ~(retire.at = "wait" /\ wait > 0 /\ ObservedAbsent)
  /\ row' = IF row = NoRow THEN NoRow ELSE [row EXCEPT !.left = Elapse(@)]
  /\ pend' = [p \in Entries |-> Elapse(pend[p])]
  /\ wait' = Elapse(wait)
  /\ UNCHANGED <<locks, pc, att, own, runtime, owed, retire, admin, bound, bounds>>

\* The wall clock is set back, to before the lease was issued.
ClockSetBack ==
  /\ rollbacks < MaxRollbacks
  /\ row # NoRow
  /\ row' = [row EXCEPT !.left = Lease + 1]
  /\ rollbacks' = rollbacks + 1
  /\ UNCHANGED <<locks, proc, runtime, owed, others, drifts>>

Next ==
  \/ \E p \in Entries :
       \/ Enter(p) \/ EnterStep(p) \/ SessionStep(p)
       \/ AcceptFails(p) \/ Renew(p) \/ HeartbeatFails(p)
       \/ Die(p) \/ NewCommand(p)
  \/ \E f \in Forces : RetireStart(f)
  \/ RetireProgress \/ RetireStop
  \/ AdminStart \/ AdminStep
  \/ Configure \/ Configured
  \/ PlanChanges \/ ContainerLost \/ Tick \/ ClockSetBack

Spec == Init /\ [][Next]_vars

\* Who holds the lifecycle lock goes on until it lets go, a heartbeat that has
\* nothing to renew comes to its next tick, and time passes.  Nothing is
\* assumed of new commands, or of sessions, which may last.
FairSpec ==
  /\ Spec
  /\ \A p \in Entries : WF_vars(EnterStep(p)) /\ WF_vars(HeartbeatFails(p))
  /\ WF_vars(RetireProgress)
  /\ WF_vars(AdminStep)
  /\ WF_vars(Tick)

-----------------------------------------------------------------------------
(* What the code promises *)

Fences(who) == [shared : SUBSET Entries, excl : who \cup {None}]

Retirements ==
  [at : {"idle", "allowed", "prepare", "remove", "wait", "removed", "failed", "settle", "gateway"},
   force : BOOLEAN, phase : {"none", "prepared", "containerRetired"}, over : BOOLEAN]

\* Every variable stays in its domain.
TypeOK ==
  /\ lifecycle \in Entries \cup {Free, "retire", "admin"}
  /\ entry \in Fences({"retire", "configurator"})
  /\ fence \in Fences(Entries)
  /\ row \in {NoRow} \cup [owner : Entries, left : 0..(Lease + 1)]
  /\ pc \in [Entries -> Entering \cup Attached \cup {"out", "gone"}]
  /\ att \in [Entries -> Entries \cup {None}]
  /\ own \in [Entries -> {"none", "listening", "serving", "closed", "ended"}]
  /\ pend \in [Entries -> 0..Lease]
  /\ box \in {"up", "gone"}
  /\ record \in {"none", "first", "old", "plan"}
  /\ owed \in {None, "entry", "firstEntry", "retire", "admin", "adminFenced"}
  /\ retire \in Retirements
  /\ wait \in 0..WaitTicks
  /\ admin \in {"idle", "confirm", "gateway"}
  /\ bound \in BOOLEAN
  /\ drifts \in 0..MaxDrifts
  /\ rollbacks \in 0..MaxRollbacks

Replacing ==
  \/ \E p \in Entries : pc[p] \in {"reconcile", "gateway"}
  \/ retire.at = "gateway" \/ (retire.at \in {"remove", "removed"} /\ ~retire.force)
  \/ admin = "gateway"

\* While an entry repairs the container, while Gateway is replaced for anybody,
\* and while an unforced deletion takes the container away, no session is
\* attached: not the owner's, not a borrower's whose owner has left, and not
\* one whose own row failed closed under it (AcquireWorkspaceReconciliationFence,
\* ConfirmNoFinalWorkspaceSessions, PrepareWorkspaceRetirement).
SessionsUndisturbed == Replacing => Sessions = {}

\* An entry that saw no row of its Workspace, and then opened its endpoint,
\* publishes its own: nobody got there in between, and no other endpoint of the
\* Workspace listens (beginInteractiveWorkspaceAttachmentForPrincipal).
OneOwner ==
  /\ TypeOK
  /\ \A p \in Entries : pc[p] \in {"listen", "insert"} => row = NoRow
  /\ \A p, q \in Entries : Dialable(p) /\ Dialable(q) => p = q

\* A deleted Workspace leaves no row, no container and no session, whatever
\* died or was forced on the way (DeleteWorkspaceByReference).
DeletionLeavesNothing == ~bound => row = NoRow /\ box = "gone" /\ Sessions = {}

\* The wait of a forced deletion is long enough: it gives up only on an owner
\* that still served the Workspace after its container was gone, unless the
\* clock was set back (waitFinalWorkspaceSessionOwnerAbsent).
WaitOutlastsLease == retire.at = "failed" /\ rollbacks = 0 => ~retire.over

\* An owner whose row is not there any more, or is another's, stops serving, and
\* neither its cleanup nor anybody else takes away the row of an owner that
\* serves on a current lease (renew, failClosed, cleanupAuthority).
OrphansFailClosed ==
  /\ \A p \in Entries :
       (own[p] = "serving" /\ (row = NoRow \/ row.owner # p)) ~> (own[p] # "serving")
  /\ [][Current /\ Dialable(row.owner) => row' # NoRow]_vars

\* Nobody keeps the lifecycle lock for ever: while it is held the fences are
\* tried, never waited for, and the wait for an owner that keeps renewing ends
\* at its deadline (acquireAttachmentKeys, waitFinalWorkspaceSessionOwnerAbsent).
LifecycleLockFreed == lifecycle # Free ~> lifecycle = Free
====
