---- MODULE ContextEntry ----
(***************************************************************************)
(* Entering a Context: what the entry leaves on disk and in Docker, and    *)
(* how it is taken up again after a death or a failure.  An entry plans    *)
(* against the published authority, stages the next one, makes its         *)
(* decision durable, reconciles the Workspace container and records the    *)
(* plan, has the policy settled, publishes, and retires its decision into  *)
(* the terminal receipt.  A later entry finds its way by these files: the  *)
(* active decision, the terminal receipt, or neither.                      *)
(*                                                                         *)
(* Everything runs under the lifecycle lock, so commands do not interleave *)
(* with one another; they interleave with deaths, failures, containers that*)
(* stop, and changes of the host that a plan was resolved from.  Sessions  *)
(* and their fences are WorkspaceSessions, the steps of a settlement       *)
(* GatewaySettlement, and those of a publication GenerationStore.          *)
(***************************************************************************)
EXTENDS Naturals

CONSTANTS
  PolicyOf,    \* the policy slice of each Template revision, in order
  MaxGen,      \* bound: publications
  MaxFaults,   \* bound: deaths and failed calls
  MaxLosses,   \* bound: containers that stop or vanish, material that changes
  Materials,   \* what a plan resolves: the image, Git identity, profile, assets
  None,
  Pointer,     \* the bytes of a publication's pointer
  Other        \* a terminal receipt that is not an entry's

VARIABLES
  pub,       \* the published collection, for one Context
  decision,  \* mutation-decision.json
  temp,      \* a decision that was never renamed
  done,      \* the terminal receipt
  stage,     \* active.tmp: a collection, or the pointer of a publication
  rec,       \* the entry record of the Workspace runtime
  box,       \* the Workspace container
  live,      \* the policy Gateway and OPA enforce
  material,  \* what a plan would resolve now
  lived,     \* a session has used the Context Home (auxiliary)
  pc, job,   \* the running entry: its place, its plan and next collection
  faults, losses

disk == <<pub, decision, temp, done, stage>>
docker == <<rec, box>>
bounds == <<faults, losses>>
vars == <<pub, decision, temp, done, stage, rec, box, live, material, lived, pc, job, faults,
          losses>>

Templates == DOMAIN PolicyOf

Policies == {PolicyOf[t] : t \in Templates}

Collections == [gen : 1..MaxGen, tpl : Templates, home : BOOLEAN, ws : 0..MaxGen,
                born : 0..MaxGen, entry : {0} \cup Templates, mat : {0} \cup Materials,
                active : Policies]

Plans == [ws : 1..MaxGen, tpl : Templates, mat : Materials, init : BOOLEAN]

\* An entry that is planned, with the collections before and after it.
Jobs == [plan : Plans, prev : Collections, next : Collections]

\* A container and the labels it was made with.
Boxes == [ws : 1..MaxGen, tpl : Templates, mat : Materials, up : BOOLEAN]

\* Revisions and materials are numbered from 1; 0 stands for no entry.
ASSUME EntryAssumption ==
  /\ MaxGen \in Nat \ {0} /\ {MaxFaults, MaxLosses} \subseteq Nat
  /\ 1 \in Templates /\ Templates \subseteq Nat \ {0}
  /\ 1 \in Materials /\ Materials \subseteq Nat \ {0}
  /\ None \notin Plans \cup Jobs \cup Boxes

Init ==
  /\ pub = [gen |-> 1, tpl |-> 1, home |-> FALSE, ws |-> 0, born |-> 0, entry |-> 0,
            mat |-> 0, active |-> PolicyOf[1]]
  /\ decision = None
  /\ temp = FALSE
  /\ done = None
  /\ stage = None
  /\ rec = None
  /\ box = None
  /\ live = PolicyOf[1]
  /\ material = 1
  /\ lived = FALSE
  /\ pc = "idle"
  /\ job = None
  /\ faults = 0
  /\ losses = 0

-----------------------------------------------------------------------------
(* Plans and what they publish *)

\* Altered: whether the Home is made follows the Workspace, not the Context.
PlanByWorkspace(c) == [ws   |-> IF c.ws = 0 THEN c.born + 1 ELSE c.ws,
                       tpl  |-> c.tpl,
                       mat  |-> material,
                       init |-> c.ws = 0]

\* IssueWorkspaceID and PlanWorkspaceEntry: the Home of a Context is made by
\* its first entry, and its authority outlives the Workspaces.  The plan holds
\* the digest of all it was resolved from.
PlanWorkspaceEntry(c) == [ws   |-> IF c.ws = 0 THEN c.born + 1 ELSE c.ws,
                          tpl  |-> c.tpl,
                          mat  |-> material,
                          init |-> ~c.home]

Applied(c, plan) ==
  [c EXCEPT !.home = TRUE, !.ws = plan.ws, !.born = IF plan.ws > @ THEN plan.ws ELSE @,
            !.entry = plan.tpl, !.mat = plan.mat, !.active = PolicyOf[c.tpl]]

\* PublishWorkspaceEntryAuthority: unchanged, or the next generation.
PublishWorkspaceEntryAuthority(c, plan) ==
  LET next == Applied(c, plan)
  IN  IF next = c THEN c ELSE [next EXCEPT !.gen = @ + 1]

Changed(j) == j.next.gen # j.prev.gen

Job(c) == [plan |-> PlanWorkspaceEntry(c), prev |-> c,
           next |-> PublishWorkspaceEntryAuthority(c, PlanWorkspaceEntry(c))]

\* WorkspaceEntryReconciliationPlan.ValidateFor: a plan that makes the Home
\* fits before it, or when nothing but its own publication has come after it.
ValidFor(plan, c) ==
  /\ plan.tpl = c.tpl
  /\ c.ws # 0 => plan.ws = c.ws
  /\ IF plan.init
     THEN ~c.home \/ (c.ws = plan.ws /\ c.entry = plan.tpl /\ c.mat = plan.mat)
     ELSE c.home

\* confirmCurrentActivations
ActivationsCurrent(c) == c.active = PolicyOf[c.tpl] /\ live = c.active

Up(plan) == box = [ws |-> plan.ws, tpl |-> plan.tpl, mat |-> plan.mat, up |-> TRUE]

\* ConfirmWorkspaceEntry: the record of this very plan, and its container.  The
\* material is not looked at again.
ConfirmWorkspaceEntry(plan) == rec = plan /\ Up(plan)

\* confirmEntry: confirmed, an exact drift of the runtime, or refused.
Confirmed(c, plan) == ValidFor(plan, c) /\ ActivationsCurrent(c) /\ ConfirmWorkspaceEntry(plan)
Drifted(c, plan)   == ValidFor(plan, c) /\ ActivationsCurrent(c) /\ ~ConfirmWorkspaceEntry(plan)

-----------------------------------------------------------------------------
(* reconcileAndBegin: the branch an entry takes *)

Goto(place) == pc' = place
Return == pc' = "idle" /\ job' = None

\* The lifecycle lock is taken; a decision never renamed is removed.
EnterContext ==
  /\ pc = "idle"
  /\ Goto("select")
  /\ temp' = FALSE
  /\ UNCHANGED <<pub, decision, done, stage, docker, live, material, lived, job, bounds>>

\* The terminal receipt is an entry into this Workspace, or into none.
TerminalEntry ==
  /\ decision = None
  /\ done \notin {None, Other}
  /\ pub.ws # 0 => done.plan.ws = pub.ws

\* entryTerminalConsequence: what that entry published is still published.
TerminalConsequence ==
  /\ TerminalEntry
  /\ pub.ws = done.plan.ws
  /\ pub.entry = done.plan.tpl /\ pub.mat = done.plan.mat
  /\ ValidFor(done.plan, pub)

\* The receipt is confirmed and a stage of that entry is removed.  Whatever is
\* not a drift of the runtime ends the entry.
EnterByTerminal ==
  /\ pc = "select"
  /\ TerminalConsequence
  /\ ~Drifted(pub, done.plan)
  /\ IF Confirmed(pub, done.plan) /\ stage \in {None, done.next}
     THEN stage' = None /\ Goto("attach") /\ UNCHANGED job
     ELSE Return /\ UNCHANGED stage
  /\ UNCHANGED <<pub, decision, temp, done, docker, live, material, lived, bounds>>

PastTerminal == TerminalConsequence => Drifted(pub, done.plan)

\* The active decision was published: confirmed, it is only left to retire.
ResumePublished ==
  /\ pc = "select"
  /\ decision # None
  /\ Changed(decision)
  /\ pub = decision.next
  /\ IF Confirmed(pub, decision.plan)
     THEN Goto("retire") /\ job' = decision
     ELSE Return
  /\ UNCHANGED <<disk, docker, live, material, lived, bounds>>

\* Altered: a decision without its stage is given up.
ResumeOrGiveUp ==
  /\ pc = "select"
  /\ decision # None
  /\ pub = decision.prev
  /\ IF stage \in {decision.next, Pointer}
     THEN Goto("reconcile") /\ job' = decision /\ UNCHANGED decision
     ELSE Return /\ decision' = None
  /\ UNCHANGED <<pub, temp, done, stage, docker, live, material, lived, bounds>>

\* Altered: only the stage itself counts, not the pointer that replaced it.
ResumeWithStage ==
  /\ pc = "select"
  /\ decision # None
  /\ pub = decision.prev
  /\ IF stage = decision.next THEN Goto("reconcile") /\ job' = decision ELSE Return
  /\ UNCHANGED <<disk, docker, live, material, lived, bounds>>

\* The active decision was not published: with its stage, or the pointer of its
\* own publication, it goes on from the reconciliation.
ResumeDecision ==
  /\ pc = "select"
  /\ decision # None
  /\ pub = decision.prev
  /\ IF stage \in {decision.next, Pointer}
     THEN Goto("reconcile") /\ job' = decision
     ELSE Return
  /\ UNCHANGED <<disk, docker, live, material, lived, bounds>>

\* Nothing has to be published and the runtime is confirmed.
EnterCurrent ==
  /\ pc = "select"
  /\ decision = None
  /\ ~TerminalEntry
  /\ ~Changed(Job(pub))
  /\ ~Drifted(pub, PlanWorkspaceEntry(pub))
  /\ IF Confirmed(pub, PlanWorkspaceEntry(pub))
     THEN Goto("attach") /\ UNCHANGED job
     ELSE Return
  /\ UNCHANGED <<disk, docker, live, material, lived, bounds>>

\* A new decision: the next collection is staged,
Stage ==
  /\ pc = "select"
  /\ decision = None
  /\ PastTerminal
  /\ Changed(Job(pub)) \/ TerminalEntry \/ Drifted(pub, PlanWorkspaceEntry(pub))
  /\ Job(pub).next.gen <= MaxGen
  /\ job' = Job(pub)
  /\ stage' = Job(pub).next
  /\ Goto("temp")
  /\ UNCHANGED <<pub, decision, temp, done, docker, live, material, lived, bounds>>

\* the decision is written aside
WriteTemp ==
  /\ pc = "temp"
  /\ temp' = TRUE
  /\ Goto("decide")
  /\ UNCHANGED <<pub, decision, done, stage, docker, live, material, lived, job, bounds>>

\* and takes its name.
Decide ==
  /\ pc = "decide"
  /\ temp' = FALSE
  /\ decision' = job
  /\ Goto("reconcile")
  /\ UNCHANGED <<pub, done, stage, docker, live, material, lived, job, bounds>>

-----------------------------------------------------------------------------
(* reconcileAndBegin: from the decision to the session *)

\* ReconcileWorkspaceEntry: with a record of this very plan the container is
\* only confirmed; with another one, or none, the plan is resolved again and,
\* if it comes out the same, the container is replaced or started.
ReconcileWorkspaceEntry ==
  /\ pc = "reconcile"
  /\ \/ /\ rec = job.plan
        /\ IF Up(job.plan) THEN Goto("settle") /\ UNCHANGED job ELSE Return
        /\ UNCHANGED box
     \/ /\ rec # job.plan /\ material # job.plan.mat
        /\ Return
        /\ UNCHANGED box
     \/ /\ rec # job.plan /\ material = job.plan.mat
        /\ box' = [ws |-> job.plan.ws, tpl |-> job.plan.tpl, mat |-> job.plan.mat, up |-> TRUE]
        /\ Goto("record")
        /\ UNCHANGED job
  /\ UNCHANGED <<disk, rec, live, material, lived, bounds>>

\* The entry record is written, and confirmed against the container.
RecordEntry ==
  /\ pc = "record"
  /\ rec' = job.plan
  /\ IF Up(job.plan) THEN Goto("settle") /\ UNCHANGED job ELSE Return
  /\ UNCHANGED <<disk, box, live, material, lived, bounds>>

\* SettleFinalAuthority: what the next collection asks for is enforced.
Settle ==
  /\ pc = "settle"
  /\ live' = job.next.active
  /\ Goto("confirm")
  /\ UNCHANGED <<disk, docker, material, lived, job, bounds>>

\* confirmEntry, and publishPreparedEffect takes the stage away,
Confirm ==
  /\ pc = "confirm"
  /\ IF ~Confirmed(job.next, job.plan)
     THEN Return /\ UNCHANGED stage
     ELSE /\ UNCHANGED job
          /\ IF Changed(job)
             THEN Goto("pointer") /\ stage' = None
             ELSE Goto("retire") /\ UNCHANGED stage
  /\ UNCHANGED <<pub, decision, temp, done, docker, live, material, lived, bounds>>

\* publishGeneration writes the pointer at the same path
WritePointer ==
  /\ pc = "pointer"
  /\ stage' = Pointer
  /\ Goto("publish")
  /\ UNCHANGED <<pub, decision, temp, done, docker, live, material, lived, job, bounds>>

\* and renames it.
Publish ==
  /\ pc = "publish"
  /\ stage' = None
  /\ pub' = job.next
  /\ Goto("retire")
  /\ UNCHANGED <<decision, temp, done, docker, live, material, lived, job, bounds>>

\* clearEffectDecision: the active decision becomes the terminal receipt.
Retire ==
  /\ pc = "retire"
  /\ done' = decision
  /\ decision' = None
  /\ Goto(IF Changed(job) THEN "attach" ELSE "unstage")
  /\ UNCHANGED <<pub, temp, stage, docker, live, material, lived, job, bounds>>

\* removeExactPreparedEntryStage: an entry without a publication has its stage.
Unstage ==
  /\ pc = "unstage"
  /\ stage' = None
  /\ Goto("attach")
  /\ UNCHANGED <<pub, decision, temp, done, docker, live, material, lived, job, bounds>>

Attachable == Up([ws |-> pub.ws, tpl |-> pub.entry, mat |-> pub.mat, init |-> FALSE])

\* beginSession: the session confirms the container once more.
BeginSession ==
  /\ pc = "attach"
  /\ lived' = (lived \/ Attachable)
  /\ Return
  /\ UNCHANGED <<disk, docker, live, material, bounds>>

\* Altered: a steady entry goes by what is published alone.
SteadyByPublished ==
  /\ pc = "idle"
  /\ ~temp
  /\ decision = None
  /\ stage = None
  /\ pub.entry # 0
  /\ ConfirmWorkspaceEntry([PlanWorkspaceEntry(pub) EXCEPT !.tpl = pub.entry])
  /\ Goto("attach")
  /\ UNCHANGED <<disk, docker, live, material, lived, job, bounds>>

\* confirmAndBeginCurrent: a steady entry never recovers or reconciles.
EnterSteady ==
  /\ pc = "idle"
  /\ ~temp
  /\ decision = None
  /\ stage = None
  /\ pub.entry # 0
  /\ ~Changed(Job(pub))
  /\ Confirmed(pub, PlanWorkspaceEntry(pub))
  /\ Goto("attach")
  /\ UNCHANGED <<disk, docker, live, material, lived, job, bounds>>

-----------------------------------------------------------------------------
(* Everything else *)

\* Another mutation, from beginning to end: none begins over a decision.  The
\* bound leaves room for the next entry and one after each change to come.
OtherMutation ==
  /\ pc = "idle"
  /\ decision = None
  /\ pub.gen + 1 + MaxLosses < MaxGen + losses
  /\ temp' = FALSE
  /\ stage' = None

\* A Template revision, or a change elsewhere: a pure publication, which leaves
\* the activation receipts as they are.
PurePublication ==
  /\ OtherMutation
  /\ \E t \in {pub.tpl, pub.tpl + 1} \cap Templates :
       pub' = [pub EXCEPT !.gen = @ + 1, !.tpl = t]
  /\ UNCHANGED <<decision, done, docker, live, material, lived, pc, job, bounds>>

\* A settled policy or cluster operation, which leaves its own receipt.
PolicyOperation ==
  /\ OtherMutation
  /\ pub' = [pub EXCEPT !.gen = @ + 1, !.active = PolicyOf[pub.tpl]]
  /\ live' = PolicyOf[pub.tpl]
  /\ done' = Other
  /\ UNCHANGED <<decision, docker, material, lived, pc, job, bounds>>

\* DeleteWorkspaceByReference: the Context and its Home remain.
DeleteWorkspace ==
  /\ OtherMutation
  /\ pub.ws # 0
  /\ pub' = [pub EXCEPT !.gen = @ + 1, !.ws = 0, !.entry = 0, !.mat = 0]
  /\ rec' = None
  /\ box' = None
  /\ done' = Other
  /\ UNCHANGED <<decision, live, material, lived, pc, job, bounds>>

\* A pure publication dies with its pointer written and not renamed.
PurePublicationDies ==
  /\ pc = "idle"
  /\ decision = None
  /\ faults < MaxFaults
  /\ faults' = faults + 1
  /\ stage' = Pointer
  /\ UNCHANGED <<pub, decision, temp, done, docker, live, material, lived, pc, job, losses>>

\* The entry dies, or a call it makes fails: what is on disk stays.
Die ==
  /\ pc # "idle"
  /\ faults < MaxFaults
  /\ faults' = faults + 1
  /\ Return
  /\ UNCHANGED <<disk, docker, live, material, lived, losses>>

\* The container stops (a restart of the host or of Docker), or is removed.
ContainerLost ==
  /\ losses < MaxLosses
  /\ box # None
  /\ losses' = losses + 1
  /\ box' \in {None} \cup (IF box.up THEN {[box EXCEPT !.up = FALSE]} ELSE {})
  /\ UNCHANGED <<disk, rec, live, material, lived, pc, job, faults>>

\* The Git identity, the profile, the image or the assets of the host change.
MaterialChanges ==
  /\ losses < MaxLosses
  /\ losses' = losses + 1
  /\ material' \in Materials \ {material}
  /\ UNCHANGED <<disk, docker, live, lived, pc, job, faults>>

EntryStep ==
  \/ EnterByTerminal \/ ResumePublished \/ ResumeDecision
  \/ EnterCurrent \/ Stage \/ WriteTemp \/ Decide
  \/ ReconcileWorkspaceEntry \/ RecordEntry \/ Settle \/ Confirm
  \/ WritePointer \/ Publish \/ Retire \/ Unstage \/ BeginSession

Next ==
  \/ EnterContext \/ EntryStep \/ EnterSteady
  \/ PurePublication \/ PolicyOperation \/ DeleteWorkspace \/ PurePublicationDies
  \/ Die \/ ContainerLost \/ MaterialChanges

Spec == Init /\ [][Next]_vars

\* An entry that was called goes on, and the user calls again.
FairSpec == Spec /\ WF_vars(EntryStep) /\ WF_vars(EnterContext)

-----------------------------------------------------------------------------
(* Properties *)

Effects == {"reconcile", "record", "settle", "confirm", "pointer", "publish", "retire"}

TypeOK ==
  /\ pub \in Collections
  /\ temp \in BOOLEAN /\ lived \in BOOLEAN
  /\ stage \in {None, Pointer} \cup Collections
  /\ rec \in {None} \cup Plans
  /\ box \in {None} \cup Boxes
  /\ live \in Policies /\ material \in Materials
  /\ faults \in 0..MaxFaults /\ losses \in 0..MaxLosses
  /\ pc \in Effects \cup {"idle", "select", "temp", "decide", "unstage", "attach"}
  /\ pc \in {"idle", "select"} => job = None

\* By whichever way an entry came to its session, the container it attaches to
\* was recorded for the Template revision in force, that entry is published,
\* the policy of that revision is enforced, and no decision is left behind.
AttachedToCurrent ==
  /\ TypeOK
  /\ pc = "attach" =>
    /\ decision = None
    /\ pub.entry = pub.tpl
    /\ ActivationsCurrent(pub)
    /\ rec # None /\ rec.ws = pub.ws /\ rec.tpl = pub.tpl

\* Without a pending decision the runtime is the one the published authority
\* names: its record is the last successful entry's, and a container that
\* exists was made for it.  A death on the way never leaves a container or a
\* record of another revision that nothing accounts for.
RuntimeFollowsAuthority ==
  decision = None =>
    /\ (rec # None) = (pub.entry # 0)
    /\ rec # None => rec.ws = pub.ws /\ rec.tpl = pub.entry /\ rec.mat = pub.mat
    /\ box # None => rec # None /\ box.ws = rec.ws /\ box.tpl = rec.tpl /\ box.mat = rec.mat

\* The Home of a Context is made by its first entry only: no recovery and no
\* later Workspace makes it again once a session has used it.
HomeMadeOnce ==
  [][pc = "reconcile" /\ pc' = "record" /\ job.plan.init => ~lived]_vars

\* The four states an entry cannot leave by itself: the stage was taken away
\* and the pointer was not written; the record holds the decided plan and its
\* container does not run; what the decided plan was resolved from has changed
\* before its container was made; or the stage of another command's publication
\* lies beside a terminal receipt that is confirmed.
StageLost     == decision # None /\ pub = decision.prev /\ stage = None
RuntimeLost   == decision # None /\ rec = decision.plan /\ ~Up(decision.plan)
PlanOutdated  == /\ decision # None /\ pub = decision.prev
                 /\ rec # decision.plan /\ material # decision.plan.mat
StageLeftover == TerminalConsequence /\ Confirmed(pub, done.plan)
                 /\ stage \notin {None, done.next}

\* An entry that is called again and again comes to its session, whatever died
\* or failed before and whatever changed on the host, but for the four states
\* above: with calls that succeed in the end there is no fifth.
EntryServed ==
  []<>(pc = "attach" \/ StageLost \/ RuntimeLost \/ PlanOutdated \/ StageLeftover)

\* "a later Workspace entry still revalidates and starts the container before
\* attaching a child process": called again and again, an entry comes to its
\* session although the container had stopped.
EntryStartsContainer == []<>(pc = "attach")
====
