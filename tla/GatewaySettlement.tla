---- MODULE GatewaySettlement ----
(***************************************************************************)
(* The settlement of one durable decision on Gateway and OPA:              *)
(* settleFinalAuthorityWithIdentity with its bootstrap, its full and its   *)
(* OPA-only path, and SettleFinalClusterDown.  Every step is one write of  *)
(* a journal or a receipt, one change of the principal registry or one     *)
(* Docker operation; between any two the process may die, and the repeated *)
(* command starts from the files and from what Docker runs.                *)
(*                                                                         *)
(* A plan is abstracted to the Workspaces it admits (prin) and the Gateway *)
(* configuration it needs (cfg); plans that agree on both differ in the    *)
(* policy alone.  The decision comes from the mutation protocol, which     *)
(* admits no other until this one is carried out.                          *)
(***************************************************************************)
EXTENDS Naturals

CONSTANTS
  Plans,        \* projections to settle: records with fields prin and cfg
  Purges,       \* the forms of cluster down: FALSE, TRUE for --purge
  Addrs,        \* addresses on the shared networks
  ContainerIDs, \* names Docker gives to Gateway containers
  Drifts,       \* what may happen to the containers behind tobari's back
  MaxRevision, MaxFaults, MaxDrifts,
  None, Fence

VARIABLES
  decision,   \* the decision being carried out
  coll,       \* the published collection: its revision, and the plan its receipts name
  session,    \* a Workspace session is attached
  pc, rec,    \* the command's place, and the activation record it holds
  journal,    \* gateway-settlement journal
  activation, \* activation.json: journal of a policy activation
  receipt,    \* active.json of the policy activation
  boot, down, \* bootstrap and cluster-down journals
  stopped,    \* receipt of a completed cluster down
  registry,   \* principal registry read by Gateway
  gateway, opa, \* the containers
  bundle,     \* what the policy volume holds, which is what a running OPA serves
  faults, drifts

worker == <<pc, rec>>
outer  == <<decision, coll, session>>
marks  == <<boot, down, stopped>>
docker == <<gateway, opa, bundle>>
bounds == <<faults, drifts>>
vars == <<decision, coll, session, pc, rec, journal, activation, receipt, boot,
          down, stopped, registry, gateway, opa, bundle, faults, drifts>>

Principals == UNION {p.prin : p \in Plans}
Configs == {p.cfg : p \in Plans}

Up(c) == c # None /\ c.up

\* Both components run and are healthy.
Healthy == Up(gateway) /\ Up(opa)

NoSettlement == journal = None /\ activation = None /\ boot = None /\ down = None

\* No session owner, under the exclusive session fence.
ConfirmNoFinalWorkspaceSessions == ~session

\* The exact container closure a journal selects, shared addresses included.
SelectedClosure ==
  /\ Healthy
  /\ gateway.nets = journal.plan.prin
  /\ gateway.addr = journal.gaddr
  /\ opa.addr = journal.oaddr
  /\ opa.cur

\* What a complete observation of Gateway for plan p records.
Material(p) == [plan |-> p, gid |-> gateway.id, addr |-> gateway.addr, nets |-> gateway.nets]

Observable(p) == Up(gateway) /\ p.prin \subseteq gateway.nets

\* The live Gateway is exactly the one the record r was made of.
LiveRecord(r) ==
  /\ Observable(r.plan)
  /\ Material(r.plan) = r
  /\ registry = r.plan.prin
  /\ gateway.cfg = r.plan.cfg

ConfirmFinalPolicyRecord(r) == LiveRecord(r) /\ Up(opa) /\ bundle = r.plan

ObserveExactSettledGateway ==
  /\ SelectedClosure
  /\ Observable(journal.plan)
  /\ gateway.cfg = journal.plan.cfg

\* classifyFinalSettlementEffect: only the policy differs from what is live.
OPAOnly(p) ==
  /\ receipt # None
  /\ Healthy
  /\ opa.cur
  /\ gateway.nets = p.prin
  /\ gateway.cfg = p.cfg
  /\ registry = p.prin
  /\ receipt.plan.prin = p.prin
  /\ receipt.plan.cfg = p.cfg
  /\ receipt.addr = gateway.addr
  /\ receipt.nets = gateway.nets

\* Nothing of a cluster exists, or a purge removed all of it.
FreshResources ==
  /\ gateway = None
  /\ opa = None
  /\ bundle = None
  /\ registry = {}
  /\ stopped # None => stopped.purge /\ receipt = None

\* A cluster stopped with its volumes kept.
StoppedRetained ==
  /\ gateway = None
  /\ opa = None
  /\ stopped # None
  /\ ~stopped.purge
  /\ receipt = None
  /\ bundle # None

\* A completed cluster down as confirmFinalClusterStoppedRuntime sees it.
StoppedRuntime == receipt = None /\ gateway = None /\ opa = None

\* A repeated cluster down on a collection that did not move since.
Unmoved == decision.prev = decision.next /\ stopped.next = decision.prev

PurgeUpgrade == decision.purge /\ ~stopped.purge /\ Unmoved

PurgeSatisfies == ~decision.purge /\ stopped.purge /\ Unmoved

ExactCompletedAction ==
  /\ decision.purge = stopped.purge
  /\ decision.next = stopped.next
  /\ decision.prev = stopped.prev \/ Unmoved

\* What SettleFinalClusterDown demands before it starts, resumes or returns.
DownAdmitted ==
  /\ journal = None
  /\ boot = None
  /\ \/ /\ down # None
        /\ down.next = decision.next
        /\ down.prev = decision.prev
        /\ down.purge = decision.purge
     \/ /\ down = None
        /\ stopped # None
        /\ PurgeUpgrade \/ PurgeSatisfies \/ ExactCompletedAction
        /\ PurgeUpgrade => ConfirmNoFinalWorkspaceSessions
        /\ PurgeSatisfies \/ (ExactCompletedAction /\ decision.purge) => bundle = None
        /\ StoppedRuntime
     \/ /\ down = None
        /\ stopped = None
        /\ ConfirmNoFinalWorkspaceSessions
        /\ receipt # None
        /\ Healthy
        /\ receipt.gid = gateway.id

\* What ensureFinalClusterBaseComponents demands.
BaseAdmitted ==
  \/ Healthy
  \/ boot # None /\ boot.ref = decision.next /\ boot.phase = "prepared"
  \/ boot = None /\ (FreshResources \/ StoppedRetained)

\* Stopped containers are restarted only if they are the journaled ones.
Restartable ==
  /\ gateway.id = journal.reviewed
  /\ gateway.nets = journal.plan.prin
  /\ opa.cur
  /\ ConfirmNoFinalWorkspaceSessions

RestoreAdmitted ==
  /\ journal.class = "full" => ConfirmNoFinalWorkspaceSessions
  /\ gateway # None
  /\ opa # None
  /\ Healthy \/ Restartable

\* The conditions under which the step at place s goes ahead; otherwise the
\* command returns an error.
Passes(s) ==
  CASE s = "settle" -> down = None /\ (journal # None => journal.ref = decision.next /\ journal.plan = decision.plan)
    [] s = "base" -> BaseAdmitted
    [] s = "booted" -> Healthy
    [] s = "prepare" -> activation = None /\ (Healthy \/ (gateway = None /\ stopped # None /\ decision.plan.prin = {}))
    [] s = "resume" -> boot # None => boot.ref = journal.ref
    [] s = "restore" -> RestoreAdmitted
    [] s = "restored" -> SelectedClosure
    [] s \in {"fence", "close"} -> opa # None /\ bundle # None
    [] s \in {"fenced", "open", "opened"} -> Up(opa)
    [] s = "publish" -> ConfirmNoFinalWorkspaceSessions /\ registry \in {journal.plan.prin, journal.prev}
    [] s = "replace" -> opa # None
    [] s = "refresh" -> Healthy
    [] s = "confirm" -> ObserveExactSettledGateway
    [] s = "replaced" -> Up(gateway)
    [] s = "receipt" -> ConfirmFinalPolicyRecord(rec)
    [] s = "terminal" -> ConfirmFinalPolicyRecord(journal.applied)
    [] s = "activate" -> SelectedClosure /\ (activation # None => activation.plan = journal.plan)
    [] s = "reviewed" -> rec.gid = journal.reviewed
                         /\ IF receipt = rec THEN ConfirmFinalPolicyRecord(rec) ELSE LiveRecord(rec)
    [] s = "settled" -> receipt # None /\ receipt.plan = decision.plan
    [] s = "down" -> DownAdmitted
    [] s = "removeGateway" -> ConfirmNoFinalWorkspaceSessions
    [] OTHER -> TRUE

Step(s, t) == pc = s /\ Passes(s) /\ pc' = t

-----------------------------------------------------------------------------
\* The command around the settlement

Decide(d) ==
  /\ decision = None
  /\ pc = "idle"
  /\ decision' = d
  /\ UNCHANGED <<coll, session, worker, journal, activation, receipt, marks, registry, docker, bounds>>

\* A Workspace is entered only while the cluster is up; a cluster up of what the
\* collection names already leaves the collection alone.
DecideSettle(p) ==
  /\ coll.plan = None => p.prin = {}
  /\ coll.plan # p => coll.rev < MaxRevision
  /\ Decide([op |-> "settle", plan |-> p, purge |-> FALSE, prev |-> coll.rev,
             next |-> IF coll.plan = p THEN coll.rev ELSE coll.rev + 1])

\* Zero Workspaces before a cluster down.
DecideDown(purge) ==
  /\ coll.plan # None => coll.plan.prin = {} /\ coll.rev < MaxRevision
  /\ Decide([op |-> "down", plan |-> None, purge |-> purge, prev |-> coll.rev,
             next |-> IF coll.plan = None THEN coll.rev ELSE coll.rev + 1])

\* A mutation without an effect (mutateWithFence) moves the collection only.
PureApply ==
  /\ decision = None
  /\ pc = "idle"
  /\ coll.rev < MaxRevision
  /\ coll' = [coll EXCEPT !.rev = @ + 1]
  /\ UNCHANGED <<decision, session, worker, journal, activation, receipt, marks, registry, docker, bounds>>

\* The first run of the decision's effect, or the repeated command.
Run ==
  /\ decision # None
  /\ pc = "idle"
  /\ pc' = decision.op
  /\ UNCHANGED <<outer, rec, journal, activation, receipt, marks, registry, docker, bounds>>

\* The process dies or an operation fails: the memory is gone.
Abort ==
  /\ pc # "idle"
  /\ faults < MaxFaults
  /\ faults' = faults + 1
  /\ pc' = "idle"
  /\ rec' = None
  /\ UNCHANGED <<outer, journal, activation, receipt, marks, registry, docker, drifts>>

\* A check of the code fails.
Refuse ==
  /\ pc # "idle"
  /\ ~Passes(pc)
  /\ pc' = "idle"
  /\ rec' = None
  /\ UNCHANGED <<outer, journal, activation, receipt, marks, registry, docker, bounds>>

\* The effect returned without error: the collection is published and the
\* decision cleared.
Finish ==
  /\ Step("done", "idle")
  /\ decision' = None
  /\ coll' = [rev |-> decision.next, plan |-> decision.plan]
  /\ rec' = None
  /\ UNCHANGED <<session, journal, activation, receipt, marks, registry, docker, bounds>>

\* Entry confirms the active projection under the lifecycle lock, then begins a
\* session in a Workspace of it; the session ends at any time.
BeginFinalWorkspaceSession ==
  /\ pc = "idle"
  /\ decision = None
  /\ ~session
  /\ NoSettlement
  /\ receipt # None
  /\ ConfirmFinalPolicyRecord(receipt)
  /\ receipt.plan.prin # {}
  /\ session' = TRUE
  /\ UNCHANGED <<decision, coll, worker, journal, activation, receipt, marks, registry, docker, bounds>>

EndSession ==
  /\ session
  /\ session' = FALSE
  /\ UNCHANGED <<decision, coll, worker, journal, activation, receipt, marks, registry, docker, bounds>>

-----------------------------------------------------------------------------
\* Entry of a settlement, bootstrap of a fresh cluster, preparation

SettleFinalAuthority ==
  /\ Step("settle", IF journal = None THEN "base" ELSE "resume")
  /\ UNCHANGED <<outer, rec, journal, activation, receipt, marks, registry, docker, bounds>>

EnsureBase ==
  /\ Step("base", IF Healthy \/ (boot = None /\ StoppedRetained) THEN "prepare" ELSE "bundle")
  /\ boot' = IF pc' = "bundle" /\ boot = None THEN [ref |-> decision.next, phase |-> "prepared"] ELSE boot
  /\ UNCHANGED <<outer, rec, journal, activation, receipt, down, stopped, registry, docker, bounds>>

PrepareFinalPolicyBundle ==
  /\ Step("bundle", "composeOPA")
  /\ bundle' = decision.plan
  /\ UNCHANGED <<outer, rec, journal, activation, receipt, marks, registry, gateway, opa, bounds>>

\* compose up leaves a running container alone, starts a stopped one and
\* creates a missing one.
ComposeOPA ==
  /\ Step("composeOPA", "composeGateway")
  /\ \E a \in Addrs :
       opa' = IF Up(opa) THEN opa ELSE [addr |-> a, cur |-> TRUE, up |-> TRUE]
  /\ UNCHANGED <<outer, rec, journal, activation, receipt, marks, registry, gateway, bundle, bounds>>

UsedIDs ==
  {c.id : c \in {gateway} \ {None}} \cup {r.gid : r \in {receipt, activation} \ {None}}
    \cup {j.reviewed : j \in {journal} \ {None}} \cup {c.gateway.id : c \in {stopped, down} \ {None}}

FreshID == CHOOSE i \in ContainerIDs : i \notin UsedIDs

NewGateway(a, nets, cfg) == [id |-> FreshID, addr |-> a, nets |-> nets, cfg |-> cfg, up |-> TRUE]

ComposeGateway ==
  /\ Step("composeGateway", "booted")
  /\ \E a \in Addrs :
       gateway' = IF gateway = None THEN NewGateway(a, {}, decision.plan.cfg)
                  ELSE IF gateway.up THEN gateway
                  ELSE [gateway EXCEPT !.addr = a, !.up = TRUE]
  /\ UNCHANGED <<outer, rec, journal, activation, receipt, marks, registry, opa, bundle, bounds>>

BaseRunning ==
  /\ Step("booted", "prepare")
  /\ boot' = [boot EXCEPT !.phase = "running"]
  /\ UNCHANGED <<outer, rec, journal, activation, receipt, down, stopped, registry, docker, bounds>>

\* The candidate takes its addresses from the live containers, or from the
\* stopped receipt when the cluster is down.
PrepareFinalGatewaySettlement ==
  /\ Step("prepare", "resume")
  /\ LET p == decision.plan
         g == IF gateway = None THEN stopped.gateway ELSE gateway
         o == IF gateway = None THEN stopped.opa ELSE opa
     IN  journal' = [ref |-> decision.next, plan |-> p,
                     class |-> IF OPAOnly(p) THEN "opa" ELSE "full",
                     phase |-> "prepared", prev |-> registry, reviewed |-> g.id,
                     gaddr |-> g.addr, oaddr |-> o.addr, applied |-> None]
  /\ UNCHANGED <<outer, rec, activation, receipt, marks, registry, docker, bounds>>

-----------------------------------------------------------------------------
\* The settlement proper: each phase, its effect and its journal entry

Resumption ==
  CASE journal.phase = "prepared" -> "restore"
    [] journal.phase = "fenced" -> "publish"
    [] journal.phase = "principals" -> "observe"
    [] journal.phase = "replaced" -> "close"
    [] journal.phase = "policy" -> "writeReceipt"
    [] OTHER -> IF journal.class = "opa" THEN "unjournal" ELSE "terminal"

ResumeFinalGatewaySettlement ==
  /\ Step("resume", Resumption)
  /\ rec' = journal.applied
  /\ UNCHANGED <<outer, journal, activation, receipt, marks, registry, docker, bounds>>

AfterRestore == IF journal.class = "opa" THEN "activate" ELSE "fence"

RestoreHealthy ==
  /\ Healthy
  /\ Step("restore", AfterRestore)
  /\ UNCHANGED <<outer, rec, journal, activation, receipt, marks, registry, docker, bounds>>

RestorePreparedComponents ==
  /\ ~Healthy
  /\ Step("restore", "restored")
  /\ \E a, b \in Addrs :
       /\ gateway' = [gateway EXCEPT !.addr = a, !.up = TRUE]
       /\ opa' = [opa EXCEPT !.addr = b, !.up = TRUE]
  /\ UNCHANGED <<outer, rec, journal, activation, receipt, marks, registry, bundle, bounds>>

ConfirmRestored ==
  /\ Step("restored", AfterRestore)
  /\ UNCHANGED <<outer, rec, journal, activation, receipt, marks, registry, docker, bounds>>

\* Altered: the settlement goes on without the fence.
FenceSkipped ==
  /\ Step("fence", "fenced")
  /\ UNCHANGED <<outer, rec, journal, activation, receipt, marks, registry, docker, bounds>>

\* The archive is in the volume before OPA is seen to serve it.
PublishFence ==
  /\ Step("fence", "fenced")
  /\ bundle' = Fence
  /\ UNCHANGED <<outer, rec, journal, activation, receipt, marks, registry, gateway, opa, bounds>>

Journal(phase) == journal' = [journal EXCEPT !.phase = phase]

JournalFenced ==
  /\ Step("fenced", "publish")
  /\ Journal("fenced")
  /\ UNCHANGED <<outer, rec, activation, receipt, marks, registry, docker, bounds>>

PublishFinalSettlementPrincipals ==
  /\ Step("publish", "published")
  /\ registry' = journal.plan.prin
  /\ UNCHANGED <<outer, rec, journal, activation, receipt, marks, docker, bounds>>

JournalPrincipals ==
  /\ Step("published", "observe")
  /\ Journal("principals")
  /\ UNCHANGED <<outer, rec, activation, receipt, marks, registry, docker, bounds>>

ObserveSettled ==
  /\ Step("observe", IF ObserveExactSettledGateway THEN "replaced" ELSE "replace")
  /\ rec' = IF pc' = "replaced" THEN Material(journal.plan) ELSE rec
  /\ UNCHANGED <<outer, journal, activation, receipt, marks, registry, docker, bounds>>

\* OPA is recreated with Gateway when it comes from another Compose closure.
ReplaceFinalGateway ==
  /\ Step("replace", "refresh")
  /\ \E a, b \in Addrs :
       /\ gateway' = NewGateway(a, journal.plan.prin, journal.plan.cfg)
       /\ opa' = IF opa.cur THEN opa ELSE [addr |-> b, cur |-> TRUE, up |-> TRUE]
  /\ UNCHANGED <<outer, rec, journal, activation, receipt, marks, registry, bundle, bounds>>

\* Altered: the addresses Compose gave are not taken over.
AddressesKept ==
  /\ Step("refresh", "confirm")
  /\ UNCHANGED <<outer, rec, journal, activation, receipt, marks, registry, docker, bounds>>

\* The restart of the new Gateway keeps the address it was given.
RefreshFinalSharedNetworkAddresses ==
  /\ Step("refresh", "confirm")
  /\ journal' = [journal EXCEPT !.gaddr = gateway.addr, !.oaddr = opa.addr]
  /\ UNCHANGED <<outer, rec, activation, receipt, marks, registry, docker, bounds>>

ConfirmReplaced ==
  /\ Step("confirm", "replaced")
  /\ rec' = Material(journal.plan)
  /\ UNCHANGED <<outer, journal, activation, receipt, marks, registry, docker, bounds>>

JournalReplaced ==
  /\ Step("replaced", "close")
  /\ journal' = [journal EXCEPT !.applied = rec, !.phase = "replaced"]
  /\ UNCHANGED <<outer, rec, activation, receipt, marks, registry, docker, bounds>>

\* Altered: the target is applied over the old policy.
NotClosedBeforePolicy ==
  /\ Step("close", "open")
  /\ UNCHANGED <<outer, rec, journal, activation, receipt, marks, registry, docker, bounds>>

\* ApplyFinalAggregatePolicy: the fence, then the target, each awaited.
CloseBeforePolicy ==
  /\ Step("close", "open")
  /\ bundle' = Fence
  /\ UNCHANGED <<outer, rec, journal, activation, receipt, marks, registry, gateway, opa, bounds>>

OpenPolicy ==
  /\ Step("open", "opened")
  /\ bundle' = rec.plan
  /\ UNCHANGED <<outer, rec, journal, activation, receipt, marks, registry, gateway, opa, bounds>>

JournalPolicy ==
  /\ Step("opened", "writeReceipt")
  /\ IF journal.class = "full" THEN Journal("policy") ELSE UNCHANGED journal
  /\ UNCHANGED <<outer, rec, activation, receipt, marks, registry, docker, bounds>>

WriteActiveReceipt ==
  /\ Step("writeReceipt", "receipt")
  /\ receipt' = rec
  /\ UNCHANGED <<outer, rec, journal, activation, marks, registry, docker, bounds>>

\* The confirmed receipt ends the journal of its path.
ConfirmReceipt ==
  /\ Step("receipt", IF journal.class = "opa" THEN "opaReceipt" ELSE "unstop")
  /\ IF journal.class = "opa"
     THEN activation' = None /\ UNCHANGED journal
     ELSE Journal("receipt") /\ UNCHANGED activation
  /\ UNCHANGED <<outer, rec, receipt, marks, registry, docker, bounds>>

ConfirmTerminal ==
  /\ Step("terminal", "unstop")
  /\ UNCHANGED <<outer, rec, journal, activation, receipt, marks, registry, docker, bounds>>

RemoveStopped ==
  /\ Step("unstop", "unboot")
  /\ stopped' = None
  /\ UNCHANGED <<outer, rec, journal, activation, receipt, boot, down, registry, docker, bounds>>

RemoveBootstrap ==
  /\ Step("unboot", "unjournal")
  /\ boot' = None
  /\ UNCHANGED <<outer, rec, journal, activation, receipt, down, stopped, registry, docker, bounds>>

RemoveJournal ==
  /\ Step("unjournal", "settled")
  /\ journal' = None
  /\ UNCHANGED <<outer, rec, activation, receipt, marks, registry, docker, bounds>>

ReadSettledIdentity ==
  /\ Step("settled", "done")
  /\ UNCHANGED <<outer, rec, journal, activation, receipt, marks, registry, docker, bounds>>

-----------------------------------------------------------------------------
\* The OPA-only path

\* An activation.json of the same plan is taken over as it is.
PrepareFinalPolicyActivation ==
  /\ Step("activate", "reviewed")
  /\ rec' = IF activation # None THEN activation ELSE Material(journal.plan)
  /\ activation' = IF receipt = rec' /\ ConfirmFinalPolicyRecord(rec') THEN activation ELSE rec'
  /\ UNCHANGED <<outer, journal, receipt, marks, registry, docker, bounds>>

ResumeFinalPolicyActivation ==
  /\ Step("reviewed", IF receipt = rec THEN "opaReceipt" ELSE "close")
  /\ activation' = IF receipt = rec THEN None ELSE activation
  /\ UNCHANGED <<outer, rec, journal, receipt, marks, registry, docker, bounds>>

JournalOPAReceipt ==
  /\ Step("opaReceipt", "unjournal")
  /\ journal' = [journal EXCEPT !.applied = rec, !.phase = "receipt"]
  /\ UNCHANGED <<outer, rec, activation, receipt, marks, registry, docker, bounds>>

-----------------------------------------------------------------------------
\* Cluster down

DownResumption ==
  CASE down.phase = "prepared" -> "removeGateway"
    [] down.phase = "runtime" -> "volumes"
    [] OTHER -> "writeStopped"

ResumeDown ==
  /\ down # None
  /\ Step("down", DownResumption)
  /\ UNCHANGED <<outer, rec, journal, activation, receipt, marks, registry, docker, bounds>>

\* A completed down: --purge after a retained one goes on from its receipt.
CompletedDown ==
  /\ down = None
  /\ stopped # None
  /\ Step("down", IF PurgeUpgrade THEN "volumes" ELSE "done")
  /\ down' = IF PurgeUpgrade
             THEN [stopped EXCEPT !.prev = decision.prev, !.next = decision.next,
                                  !.purge = TRUE, !.phase = "runtime"]
             ELSE None
  /\ UNCHANGED <<outer, rec, journal, activation, receipt, boot, stopped, registry, docker, bounds>>

PrepareDown ==
  /\ down = None
  /\ stopped = None
  /\ Step("down", "removeGateway")
  /\ down' = [prev |-> decision.prev, next |-> decision.next, purge |-> decision.purge,
              phase |-> "prepared", gateway |-> gateway, opa |-> opa]
  /\ UNCHANGED <<outer, rec, journal, activation, receipt, boot, stopped, registry, docker, bounds>>

RemoveGateway ==
  /\ Step("removeGateway", "removeOPA")
  /\ gateway' = None
  /\ UNCHANGED <<outer, rec, journal, activation, receipt, marks, registry, opa, bundle, bounds>>

RemoveOPA ==
  /\ Step("removeOPA", "removed")
  /\ opa' = None
  /\ UNCHANGED <<outer, rec, journal, activation, receipt, marks, registry, gateway, bundle, bounds>>

JournalDown(phase) == down' = [down EXCEPT !.phase = phase]

JournalRemoved ==
  /\ Step("removed", "volumes")
  /\ JournalDown("runtime")
  /\ UNCHANGED <<outer, rec, journal, activation, receipt, boot, stopped, registry, docker, bounds>>

\* Altered: the purge forgets the policy volume.
VolumesKept ==
  /\ Step("volumes", "clear")
  /\ UNCHANGED <<outer, rec, journal, activation, receipt, marks, registry, docker, bounds>>

PurgeVolumes ==
  /\ Step("volumes", "clear")
  /\ bundle' = IF down.purge THEN None ELSE bundle
  /\ UNCHANGED <<outer, rec, journal, activation, receipt, marks, registry, gateway, opa, bounds>>

ClearRegistry ==
  /\ Step("clear", "cleared")
  /\ registry' = {}
  /\ UNCHANGED <<outer, rec, journal, activation, receipt, marks, docker, bounds>>

JournalCleared ==
  /\ Step("cleared", "writeStopped")
  /\ JournalDown("authority")
  /\ UNCHANGED <<outer, rec, journal, activation, receipt, boot, stopped, registry, docker, bounds>>

WriteStopped ==
  /\ Step("writeStopped", "unactivate")
  /\ stopped' = down
  /\ UNCHANGED <<outer, rec, journal, activation, receipt, boot, down, registry, docker, bounds>>

RemoveActivation ==
  /\ Step("unactivate", "unreceipt")
  /\ activation' = None
  /\ UNCHANGED <<outer, rec, journal, receipt, marks, registry, docker, bounds>>

RemoveActiveReceipt ==
  /\ Step("unreceipt", "undown")
  /\ receipt' = None
  /\ UNCHANGED <<outer, rec, journal, activation, marks, registry, docker, bounds>>

RemoveDown ==
  /\ Step("undown", "done")
  /\ down' = None
  /\ UNCHANGED <<outer, rec, journal, activation, receipt, boot, stopped, registry, docker, bounds>>

-----------------------------------------------------------------------------
\* What Docker, its users and an upgrade do to the containers meanwhile

Drifting(kind) ==
  /\ kind \in Drifts
  /\ drifts < MaxDrifts
  /\ drifts' = drifts + 1
  /\ UNCHANGED <<outer, worker, journal, activation, receipt, marks, registry, bundle, faults>>

StopGateway == Up(gateway) /\ gateway' = [gateway EXCEPT !.up = FALSE] /\ UNCHANGED opa

StopOPA == Up(opa) /\ opa' = [opa EXCEPT !.up = FALSE] /\ UNCHANGED gateway

Stop == Drifting("stop") /\ (StopGateway \/ StopOPA)

\* A host restart or an OOM kill before the fence of a settlement, which has
\* then to be resumed.
StopPrepared ==
  /\ Drifting("stopPrepared")
  /\ pc = "idle"
  /\ journal # None
  /\ journal.phase = "prepared"
  /\ StopGateway \/ StopOPA

\* A container started again may get another shared address.
Start ==
  /\ Drifting("start")
  /\ \E a \in Addrs :
       \/ /\ gateway # None
          /\ ~gateway.up
          /\ gateway' = [gateway EXCEPT !.addr = a, !.up = TRUE]
          /\ UNCHANGED opa
       \/ /\ opa # None
          /\ ~opa.up
          /\ opa' = [opa EXCEPT !.addr = a, !.up = TRUE]
          /\ UNCHANGED gateway

Lose ==
  /\ Drifting("lose")
  /\ \/ gateway # None /\ gateway' = None /\ UNCHANGED opa
     \/ opa # None /\ opa' = None /\ UNCHANGED gateway

\* A new release selects another Compose closure; OPA runs from the old one.
Upgrade ==
  /\ Drifting("upgrade")
  /\ pc = "idle"
  /\ NoSettlement
  /\ opa # None
  /\ opa.cur
  /\ opa' = [opa EXCEPT !.cur = FALSE]
  /\ UNCHANGED gateway

-----------------------------------------------------------------------------
Init ==
  /\ decision = None
  /\ coll = [rev |-> 0, plan |-> None]
  /\ session = FALSE
  /\ pc = "idle"
  /\ rec = None
  /\ journal = None
  /\ activation = None
  /\ receipt = None
  /\ boot = None
  /\ down = None
  /\ stopped = None
  /\ registry = {}
  /\ gateway = None
  /\ opa = None
  /\ bundle = None
  /\ faults = 0
  /\ drifts = 0

Prepare ==
  \/ SettleFinalAuthority \/ EnsureBase \/ PrepareFinalPolicyBundle \/ ComposeOPA
  \/ ComposeGateway \/ BaseRunning \/ PrepareFinalGatewaySettlement

Settle ==
  \/ ResumeFinalGatewaySettlement \/ RestoreHealthy \/ RestorePreparedComponents \/ ConfirmRestored
  \/ PublishFence \/ JournalFenced \/ PublishFinalSettlementPrincipals \/ JournalPrincipals
  \/ ObserveSettled \/ ReplaceFinalGateway \/ RefreshFinalSharedNetworkAddresses
  \/ ConfirmReplaced \/ JournalReplaced \/ CloseBeforePolicy \/ OpenPolicy \/ JournalPolicy
  \/ WriteActiveReceipt \/ ConfirmReceipt \/ ConfirmTerminal \/ RemoveStopped
  \/ RemoveBootstrap \/ RemoveJournal \/ ReadSettledIdentity
  \/ PrepareFinalPolicyActivation \/ ResumeFinalPolicyActivation \/ JournalOPAReceipt

TakeDown ==
  \/ ResumeDown \/ CompletedDown \/ PrepareDown \/ RemoveGateway \/ RemoveOPA
  \/ JournalRemoved \/ PurgeVolumes \/ ClearRegistry \/ JournalCleared \/ WriteStopped
  \/ RemoveActivation \/ RemoveActiveReceipt \/ RemoveDown

\* A command under the lifecycle lock.
Command == Prepare \/ Settle \/ TakeDown \/ Refuse \/ Finish

Others ==
  \/ \E p \in Plans : DecideSettle(p)
  \/ \E purge \in Purges : DecideDown(purge)
  \/ PureApply
  \/ BeginFinalWorkspaceSession
  \/ EndSession
  \/ Stop \/ StopPrepared \/ Start \/ Lose \/ Upgrade

Next == Command \/ Run \/ Abort \/ Others

Spec == Init /\ [][Next]_vars

\* A command that is not cut off runs on, and whoever was told to repeat the
\* command does so.
Fairness == WF_vars(Command) /\ WF_vars(Run)

FairSpec == Spec /\ Fairness

-----------------------------------------------------------------------------
Records == [plan : Plans, gid : ContainerIDs, addr : Addrs, nets : SUBSET Principals]

Gateways == [id : ContainerIDs, addr : Addrs, nets : SUBSET Principals, cfg : Configs, up : BOOLEAN]

OPAs == [addr : Addrs, cur : BOOLEAN, up : BOOLEAN]

Decisions ==
  [op : {"settle"}, plan : Plans, purge : {FALSE}, prev : Nat, next : Nat]
    \cup [op : {"down"}, plan : {None}, purge : BOOLEAN, prev : Nat, next : Nat]

Journals ==
  [ref : Nat, plan : Plans, class : {"full", "opa"},
   phase : {"prepared", "fenced", "principals", "replaced", "policy", "receipt"},
   prev : SUBSET Principals, reviewed : ContainerIDs, gaddr : Addrs, oaddr : Addrs,
   applied : Records \cup {None}]

DownJournals ==
  [prev : Nat, next : Nat, purge : BOOLEAN, phase : {"prepared", "runtime", "authority"},
   gateway : Gateways, opa : OPAs]

Places ==
  {"idle", "settle", "base", "bundle", "composeOPA", "composeGateway", "booted", "prepare",
   "resume", "restore", "restored", "fence", "fenced", "publish", "published", "observe",
   "replace", "refresh", "confirm", "replaced", "close", "open", "opened", "writeReceipt",
   "receipt", "terminal", "unstop", "unboot", "unjournal", "settled", "activate", "reviewed",
   "opaReceipt", "down", "removeGateway", "removeOPA", "removed", "volumes", "clear",
   "cleared", "writeStopped", "unactivate", "unreceipt", "undown", "done"}

ASSUME SettlementAssumption ==
  /\ {MaxRevision, MaxFaults, MaxDrifts} \subseteq Nat /\ Purges \subseteq BOOLEAN
  /\ Fence \notin Plans \cup {None}
  /\ None \notin Plans \cup Decisions \cup Records \cup Journals \cup DownJournals
  /\ None \notin Gateways \cup OPAs \cup [ref : Nat, phase : {"prepared", "running"}]
  /\ None \notin [op : {"settle", "down"}, plan : Plans \cup {None}]

\* Docker always has another name for a container: UsedIDs has six at most.
ASSUME IDsAssumption ==
  /\ ContainerIDs # {}
  /\ \A a, b, c, d, e, f \in ContainerIDs : \E i \in ContainerIDs : i \notin {a, b, c, d, e, f}

\* Type invariant.  Every file and container holds what the code can write
\* there; a settlement that opens the policy holds a record to publish.
TypeOK ==
  /\ decision \in Decisions \cup {None}
  /\ coll \in [rev : 0..MaxRevision, plan : Plans \cup {None}]
  /\ session \in BOOLEAN
  /\ pc \in Places
  /\ rec \in Records \cup {None}
  /\ pc \in {"close", "open", "opened", "writeReceipt", "receipt", "opaReceipt"} => rec # None
  /\ journal \in Journals \cup {None}
  /\ activation \in Records \cup {None}
  /\ receipt \in Records \cup {None}
  /\ boot \in [ref : Nat, phase : {"prepared", "running"}] \cup {None}
  /\ down \in DownJournals \cup {None}
  /\ stopped \in DownJournals \cup {None}
  /\ registry \in SUBSET Principals
  /\ gateway \in Gateways \cup {None}
  /\ opa \in OPAs \cup {None}
  /\ bundle \in Plans \cup {None, Fence}
  /\ faults \in 0..MaxFaults
  /\ drifts \in 0..MaxDrifts

\* The fence.  Whenever the policy volume holds a plan and both containers
\* exist, Gateway has that plan's configuration and networks and the principal
\* registry admits exactly its Workspaces: while settlement changes registry,
\* Gateway and policy one after the other, and after a death anywhere in
\* between, OPA has the deny-all fence.
FenceCoversDisagreement ==
  /\ TypeOK
  /\ (bundle \in Plans /\ gateway # None /\ opa # None) =>
       /\ gateway.cfg = bundle.cfg
       /\ gateway.nets = bundle.prin
       /\ registry = bundle.prin

\* With no journal left, the active receipt tells the truth about policy,
\* registry and Gateway, and the stopped receipt about what was removed.  Once
\* the decision is cleared no journal is left half way, at most one of the two
\* receipts stands, and the active one names the plan of the published collection.
ReceiptsTrue ==
  /\ NoSettlement =>
       /\ receipt # None =>
            /\ bundle = receipt.plan
            /\ registry = receipt.plan.prin
            /\ gateway # None => gateway.id = receipt.gid /\ gateway.cfg = receipt.plan.cfg
       /\ stopped # None =>
            /\ StoppedRuntime
            /\ registry = {}
            /\ stopped.purge => bundle = None
  /\ decision = None =>
       /\ NoSettlement
       /\ receipt # None => stopped = None
       /\ coll.plan = (IF receipt = None THEN None ELSE receipt.plan)

\* Settlement implements what it promises: enforcement goes from plan to plan
\* only through the fence, only under the decision that names the plan, and a
\* decision ends with its own plan enforced (or with the containers lost).
Promise == INSTANCE SettledPolicy WITH
  enforced <- IF bundle \in Plans /\ gateway # None /\ opa # None THEN bundle ELSE None,
  intent <- IF decision = None THEN None ELSE [op |-> decision.op, plan |-> decision.plan]

ImplementsPromise == Promise!Spec

\* A decided settlement is carried out if its command is repeated, or a session
\* is attached that keeps it waiting.
SettlementCompletes ==
  (decision # None /\ decision.op = "settle") ~> (decision = None \/ session)

\* After a completed purge, a later ordinary cluster down succeeds.
PurgeSatisfiesDown ==
  (decision # None /\ decision.op = "down" /\ ~decision.purge /\ stopped # None /\ stopped.purge)
    ~> (decision = None)
====
