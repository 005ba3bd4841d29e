---------------------------- MODULE EffectJournal ----------------------------
(***************************************************************************)
(* The mutation protocol of the final Workspace authority store.  A command  *)
(* that changes what Gateway and OPA enforce runs Mutator.effectfulMutate; a *)
(* command that changes desired authority only runs Mutator.mutateWithFence. *)
(* Both run under the installation lifecycle lock.                           *)
(*                                                                           *)
(* Files, all below the authority root:                                      *)
(*   active     active.json, the pointer to the published generation         *)
(*   stage      journal/active.tmp, the one reserved stage path              *)
(*   decision   journal/mutation-decision.json                               *)
(*   done       journal/mutation-decision.json.done                          *)
(* settled is outside the store: the Policy Memory version Gateway and OPA   *)
(* enforce for each Context, 0 where they enforce none (fenced or stopped).  *)
(*                                                                           *)
(* The objects and the manifest of a generation are the matter of            *)
(* GenerationStore; here a collection is one value.  The temporary file a    *)
(* decision is written to before its rename is not modelled: the next holder *)
(* of the lock removes it before it reads anything.                          *)
(***************************************************************************)
EXTENDS Naturals

CONSTANTS
  Procs,      \* host processes, each running one command at a time
  Contexts,   \* the Context bindings of the installation
  Requests,   \* the commands the processes issue
  None,       \* no process, no file, no plan
  MaxGen,     \* bound on generations; the code's counter is a uint64
  MaxFaults   \* bound on process deaths and error returns

PureKinds == {"apply", "narrow"}

\* Commands whose plan finalizes the decision after the effect.
FinalizedKinds == {"reviewed", "cluster"}

AllKinds == PureKinds \union FinalizedKinds \union {"allow", "reset", "down"}

(***************************************************************************)
(* What one generation says of each Context: des is the generation that last *)
(* changed its Policy Memory, mem the version its Policy Memory activation   *)
(* receipt names (0: no receipt), tpl whether it has a Template policy       *)
(* activation receipt.                                                       *)
(***************************************************************************)
Collections == [gen : Nat,
                des : [Contexts -> Nat],
                mem : [Contexts -> Nat],
                tpl : [Contexts -> BOOLEAN]]

Decisions == [req : Requests, prev : Collections, next : Collections,
              final : BOOLEAN]

Transitions == [prev : Collections, next : Collections]

StageFiles == [form : {"truncated", "collection", "pointer"}, of : Collections]

\* ref tells apart two commands of one kind on one Context: the candidate or
\* rule a policy command names.
ASSUME RequestsAssumption ==
  Requests \subseteq [kind : AllKinds, target : Contexts, ref : Nat]

ASSUME BoundAssumption == MaxGen \in Nat /\ MaxFaults \in Nat

ASSUME NoneAssumption ==
  None \notin Procs \union Decisions \union StageFiles \union Transitions

VARIABLES lock, active, stage, decision, done, settled,
          pc, req, plan, ret, faults

vars == <<lock, active, stage, decision, done, settled,
          pc, req, plan, ret, faults>>

-----------------------------------------------------------------------------
(***************************************************************************)
(* What a command makes of the current collection.                           *)
(***************************************************************************)
NoReceipts == [c \in Contexts |-> 0]

\* A publication that changes nothing keeps the previous collection.
Published(c, d) == IF d = c THEN c ELSE [d EXCEPT !.gen = c.gen + 1]

ActivateAll(c) ==
  Published(c, [c EXCEPT !.mem = c.des, !.tpl = [x \in Contexts |-> TRUE]])

DeactivateAll(c) ==
  Published(c, [c EXCEPT !.mem = NoReceipts, !.tpl = [x \in Contexts |-> FALSE]])

\* A Template Apply that leaves every Context's Policy Memory inside the
\* Template boundary changes no receipt.
ApplyTemplate(c) == [c EXCEPT !.gen = c.gen + 1]

\* A Template Apply that narrows the boundary supersedes the Allows outside it
\* and drops the Policy Memory receipt; the Template policy receipt stays.
NarrowTemplate(c, x) ==
  [c EXCEPT !.gen = c.gen + 1,
            !.des = [c.des EXCEPT ![x] = c.gen + 1],
            !.mem = [c.mem EXCEPT ![x] = 0]]

\* policy allow, deny and reset publish a Policy Memory revision and its
\* receipt; they leave the Template policy receipt as it is.
ActivateMemory(c, x) ==
  [c EXCEPT !.gen = c.gen + 1,
            !.des = [c.des EXCEPT ![x] = c.gen + 1],
            !.mem = [c.mem EXCEPT ![x] = c.gen + 1]]

NextCollection(c, r) ==
  CASE r.kind = "apply"   -> ApplyTemplate(c)
    [] r.kind = "narrow"  -> NarrowTemplate(c, r.target)
    [] r.kind = "cluster" -> ActivateAll(c)
    [] r.kind = "down"    -> DeactivateAll(c)
    [] OTHER              -> ActivateMemory(c, r.target)

\* The preconditions of a plan that depend on the collection.  A candidate is
\* observed by a Workspace, which only an activated Context has; a rule to reset
\* or an Allow to supersede needs a Policy Memory some command wrote.
Plannable(c, r) ==
  /\ r.kind \in {"allow", "reviewed"} => c.tpl[r.target]
  /\ r.kind \in {"reset", "narrow"} => c.des[r.target] > 1
  /\ NextCollection(c, r).gen <= MaxGen

\* One activation axis without the other.
PartialReceipts(c, x) == c.tpl[x] # (c.mem[x] # 0)

\* Cluster reconciliation and cluster down project every Context afresh; the
\* hot and reviewed projections refuse a collection with a partial Context.
Settleable(c, k) ==
  k \in {"cluster", "down"} \/ \A x \in Contexts : ~PartialReceipts(c, x)

\* The live projection is exactly the one the collection's receipts select.
Confirmed(c, k) == Settleable(c, k) /\ settled = c.mem

NoEnvelope(d) == d.next = d.prev

ConsequenceCurrent(c, d) ==
  IF d.req.kind \in {"cluster", "down"}
  THEN c = d.next
  ELSE /\ c.des[d.req.target] = d.next.des[d.req.target]
       /\ c.mem[d.req.target] = d.next.mem[d.req.target]

\* The stage is accepted as the encoded collection or as its pointer.
StageHolds(c) ==
  stage # None /\ stage.form \in {"collection", "pointer"} /\ stage.of = c

-----------------------------------------------------------------------------
(***************************************************************************)
(* Taking the lock, giving it back, dying.                                   *)
(***************************************************************************)
Held == {"read", "stage", "write", "decide", "effect", "finalize", "unstage",
         "point", "pointer", "rename", "clear"}

Goto(p, l) == pc' = [pc EXCEPT ![p] = l]

Return(p, result) ==
  /\ Goto(p, "idle")
  /\ ret' = [ret EXCEPT ![p] = result]
  /\ req' = [req EXCEPT ![p] = None]
  /\ plan' = [plan EXCEPT ![p] = None]
  /\ lock' = None

Init ==
  /\ lock = None
  /\ active = [gen |-> 1, des |-> [c \in Contexts |-> 1], mem |-> NoReceipts,
               tpl |-> [c \in Contexts |-> FALSE]]
  /\ stage = None
  /\ decision = None
  /\ done = None
  /\ settled = NoReceipts
  /\ pc = [p \in Procs |-> "idle"]
  /\ req = [p \in Procs |-> None]
  /\ plan = [p \in Procs |-> None]
  /\ ret = [p \in Procs |-> "none"]
  /\ faults = 0

\* A command starts: the read before the lock finds a collection.
Begin(p, r) ==
  /\ pc[p] = "idle"
  /\ Goto(p, "wait")
  /\ req' = [req EXCEPT ![p] = r]
  /\ ret' = [ret EXCEPT ![p] = "none"]
  /\ UNCHANGED <<lock, active, stage, decision, done, settled, plan, faults>>

Acquire(p) ==
  /\ pc[p] = "wait"
  /\ lock = None
  /\ lock' = p
  /\ Goto(p, "read")
  /\ UNCHANGED <<active, stage, decision, done, settled, req, plan, ret, faults>>

\* The process dies, or a file operation fails and the command returns: flock
\* is released by the kernel or by the deferred unlock, the files stay.
Abort(p) ==
  /\ pc[p] \in Held
  /\ faults < MaxFaults
  /\ faults' = faults + 1
  /\ Return(p, "error")
  /\ UNCHANGED <<active, stage, decision, done, settled>>

-----------------------------------------------------------------------------
(***************************************************************************)
(* The lock is held: read the decision, the terminal record and the current  *)
(* collection, and choose a branch.                                          *)
(***************************************************************************)
IsPure(p) == req[p].kind \in PureKinds

\* A pure mutation is refused while a decision is active, and so is an
\* effectful one that is not the command the decision records.
RefuseForeign(p) ==
  /\ pc[p] = "read"
  /\ decision # None
  /\ IsPure(p) \/ decision.req # req[p]
  /\ Return(p, "error")
  /\ UNCHANGED <<active, stage, decision, done, settled, faults>>

PlanPure(p) ==
  /\ pc[p] = "read"
  /\ IsPure(p)
  /\ decision = None
  /\ Plannable(active, req[p])
  /\ plan' = [plan EXCEPT ![p] = [req |-> req[p], prev |-> active, final |-> FALSE,
                                  next |-> NextCollection(active, req[p])]]
  /\ Goto(p, "point")
  /\ UNCHANGED <<lock, active, stage, decision, done, settled, req, ret, faults>>

\* The command already completed and its consequence is still the current one.
TerminalApplies(p) ==
  /\ decision = None
  /\ done # None
  /\ done.req = req[p]
  /\ ConsequenceCurrent(active, done)

\* ReplayTerminal without the confirmation of the live projection.
ReplayUnconfirmed(p) ==
  /\ pc[p] = "read"
  /\ TerminalApplies(p)
  /\ Return(p, "ok")
  /\ UNCHANGED <<active, stage, decision, done, settled, faults>>

ReplayTerminal(p) ==
  /\ pc[p] = "read"
  /\ TerminalApplies(p)
  /\ Return(p, IF Confirmed(active, req[p].kind) THEN "ok" ELSE "error")
  /\ UNCHANGED <<active, stage, decision, done, settled, faults>>

\* RecoverPublished that insists on the stage, which publication consumed.
RecoverNeedsStage(p) ==
  /\ pc[p] = "read"
  /\ ~IsPure(p)
  /\ decision # None
  /\ decision.req = req[p]
  /\ ~NoEnvelope(decision)
  /\ active = decision.next
  /\ \/ /\ StageHolds(decision.next)
        /\ plan' = [plan EXCEPT ![p] = decision]
        /\ Goto(p, "clear")
        /\ UNCHANGED <<lock, req, ret>>
     \/ /\ ~StageHolds(decision.next)
        /\ Return(p, "error")
  /\ UNCHANGED <<active, stage, decision, done, settled, faults>>

\* The decision is this command's and its collection is already published.
RecoverPublished(p) ==
  /\ pc[p] = "read"
  /\ ~IsPure(p)
  /\ decision # None
  /\ decision.req = req[p]
  /\ ~NoEnvelope(decision)
  /\ active = decision.next
  /\ \/ /\ Confirmed(active, req[p].kind)
        /\ plan' = [plan EXCEPT ![p] = decision]
        /\ Goto(p, "clear")
        /\ UNCHANGED <<lock, req, ret>>
     \/ /\ ~Confirmed(active, req[p].kind)
        /\ Return(p, "error")
  /\ UNCHANGED <<active, stage, decision, done, settled, faults>>

\* The decision is this command's and nothing is published: the plan is built
\* again, must equal the decision, and the stage must hold its collection.
Resumable(p) ==
  /\ active = decision.prev
  /\ Plannable(active, req[p])
  /\ NextCollection(active, req[p]) = decision.next
  /\ NoEnvelope(decision) \/ StageHolds(decision.next)

\* Resume that takes the effect for done because the decision exists.
ResumeSkipsEffect(p) ==
  /\ pc[p] = "read"
  /\ ~IsPure(p)
  /\ decision # None
  /\ decision.req = req[p]
  /\ NoEnvelope(decision) \/ active # decision.next
  /\ \/ /\ Resumable(p)
        /\ plan' = [plan EXCEPT ![p] = decision]
        /\ Goto(p, IF NoEnvelope(decision) THEN "effect" ELSE "unstage")
        /\ UNCHANGED <<lock, req, ret>>
     \/ /\ ~Resumable(p)
        /\ Return(p, "error")
  /\ UNCHANGED <<active, stage, decision, done, settled, faults>>

Resume(p) ==
  /\ pc[p] = "read"
  /\ ~IsPure(p)
  /\ decision # None
  /\ decision.req = req[p]
  /\ NoEnvelope(decision) \/ active # decision.next
  /\ \/ /\ Resumable(p)
        /\ plan' = [plan EXCEPT ![p] = decision]
        /\ Goto(p, "effect")
        /\ UNCHANGED <<lock, req, ret>>
     \/ /\ ~Resumable(p)
        /\ Return(p, "error")
  /\ UNCHANGED <<active, stage, decision, done, settled, faults>>

\* PlanEffect that writes the decision without preparing the stage.
PlanEffectUnstaged(p) ==
  /\ pc[p] = "read"
  /\ ~IsPure(p)
  /\ decision = None
  /\ ~TerminalApplies(p)
  /\ Plannable(active, req[p])
  /\ plan' = [plan EXCEPT ![p] = [req |-> req[p], prev |-> active, final |-> FALSE,
                                  next |-> NextCollection(active, req[p])]]
  /\ Goto(p, "decide")
  /\ UNCHANGED <<lock, active, stage, decision, done, settled, req, ret, faults>>

PlanEffect(p) ==
  /\ pc[p] = "read"
  /\ ~IsPure(p)
  /\ decision = None
  /\ ~TerminalApplies(p)
  /\ Plannable(active, req[p])
  /\ plan' = [plan EXCEPT ![p] = [req |-> req[p], prev |-> active, final |-> FALSE,
                                  next |-> NextCollection(active, req[p])]]
  /\ Goto(p, IF NextCollection(active, req[p]) = active THEN "decide" ELSE "stage")
  /\ UNCHANGED <<lock, active, stage, decision, done, settled, req, ret, faults>>

\* The planner returns an error and nothing has changed.
PlanRefused(p) ==
  /\ pc[p] = "read"
  /\ decision = None
  /\ ~TerminalApplies(p)
  /\ ~Plannable(active, req[p])
  /\ Return(p, "error")
  /\ UNCHANGED <<active, stage, decision, done, settled, faults>>

-----------------------------------------------------------------------------
(***************************************************************************)
(* The fresh effectful path: stage, decision, effect, finalized decision.    *)
(***************************************************************************)
\* TruncateStage followed by the decision, before the stage has its bytes.
TruncateThenDecide(p) ==
  /\ pc[p] = "stage"
  /\ stage' = [form |-> "truncated", of |-> plan[p].next]
  /\ Goto(p, "decide")
  /\ UNCHANGED <<lock, active, decision, done, settled, req, plan, ret, faults>>

TruncateStage(p) ==
  /\ pc[p] = "stage"
  /\ stage' = [form |-> "truncated", of |-> plan[p].next]
  /\ Goto(p, "write")
  /\ UNCHANGED <<lock, active, decision, done, settled, req, plan, ret, faults>>

WriteStage(p) ==
  /\ pc[p] = "write"
  /\ stage' = [form |-> "collection", of |-> plan[p].next]
  /\ Goto(p, "decide")
  /\ UNCHANGED <<lock, active, decision, done, settled, req, plan, ret, faults>>

\* WriteDecision followed by the publication, with the effect left for later.
WriteDecisionThenPublish(p) ==
  /\ pc[p] = "decide"
  /\ decision' = plan[p]
  /\ Goto(p, IF NoEnvelope(plan[p]) THEN "clear" ELSE "unstage")
  /\ UNCHANGED <<lock, active, stage, done, settled, req, plan, ret, faults>>

WriteDecision(p) ==
  /\ pc[p] = "decide"
  /\ decision' = plan[p]
  /\ Goto(p, "effect")
  /\ UNCHANGED <<lock, active, stage, done, settled, req, plan, ret, faults>>

AfterEffect(d) == IF NoEnvelope(d) THEN "clear" ELSE "unstage"

\* A reviewed publication that was recorded before is not recorded again.
Effect(p) ==
  /\ pc[p] = "effect"
  /\ Settleable(plan[p].next, req[p].kind)
  /\ settled' = plan[p].next.mem
  /\ Goto(p, IF /\ req[p].kind \in FinalizedKinds
                /\ ~(req[p].kind = "reviewed" /\ plan[p].final)
             THEN "finalize" ELSE AfterEffect(plan[p]))
  /\ UNCHANGED <<lock, active, stage, decision, done, req, plan, ret, faults>>

\* No projection can be built from the collection: the effect fails before it
\* reaches Gateway or OPA, and the decision stays.
EffectRefused(p) ==
  /\ pc[p] = "effect"
  /\ ~Settleable(plan[p].next, req[p].kind)
  /\ Return(p, "error")
  /\ UNCHANGED <<active, stage, decision, done, settled, faults>>

\* The effect fails, or the process dies, with Gateway and OPA fenced or
\* already changed; the decision stays.
EffectFails(p) ==
  /\ pc[p] = "effect"
  /\ Settleable(plan[p].next, req[p].kind)
  /\ faults < MaxFaults
  /\ faults' = faults + 1
  /\ settled' \in {NoReceipts, plan[p].next.mem}
  /\ Return(p, "error")
  /\ UNCHANGED <<active, stage, decision, done>>

Finalize(p) ==
  /\ pc[p] = "finalize"
  /\ decision' = [plan[p] EXCEPT !.final = TRUE]
  /\ plan' = [plan EXCEPT ![p] = decision']
  /\ Goto(p, AfterEffect(plan[p]))
  /\ UNCHANGED <<lock, active, stage, done, settled, req, ret, faults>>

-----------------------------------------------------------------------------
(***************************************************************************)
(* Publication: the stage of an effectful mutation is removed first, then    *)
(* publishGeneration writes the pointer through the same path and renames.   *)
(***************************************************************************)
RemoveStage(p) ==
  /\ pc[p] = "unstage"
  /\ stage # None
  /\ stage' = None
  /\ Goto(p, "point")
  /\ UNCHANGED <<lock, active, decision, done, settled, req, plan, ret, faults>>

TruncatePointer(p) ==
  /\ pc[p] = "point"
  /\ stage' = [form |-> "truncated", of |-> plan[p].next]
  /\ Goto(p, "pointer")
  /\ UNCHANGED <<lock, active, decision, done, settled, req, plan, ret, faults>>

WritePointer(p) ==
  /\ pc[p] = "pointer"
  /\ stage' = [form |-> "pointer", of |-> plan[p].next]
  /\ Goto(p, "rename")
  /\ UNCHANGED <<lock, active, decision, done, settled, req, plan, ret, faults>>

RenamePointer(p) ==
  /\ pc[p] = "rename"
  /\ active' = stage.of
  /\ stage' = None
  /\ \/ /\ IsPure(p)
        /\ Return(p, "ok")
     \/ /\ ~IsPure(p)
        /\ Goto(p, "clear")
        /\ UNCHANGED <<lock, req, plan, ret>>
  /\ UNCHANGED <<decision, done, settled, faults>>

ClearDecision(p) ==
  /\ pc[p] = "clear"
  /\ done' = decision
  /\ decision' = None
  /\ Return(p, "ok")
  /\ UNCHANGED <<active, stage, settled, faults>>

-----------------------------------------------------------------------------
\* What the holder of the lock does when nothing goes wrong.
Step(p) ==
  \/ RefuseForeign(p) \/ PlanPure(p) \/ ReplayTerminal(p)
  \/ RecoverPublished(p) \/ Resume(p) \/ PlanEffect(p)
  \/ PlanRefused(p)
  \/ TruncateStage(p) \/ WriteStage(p) \/ WriteDecision(p)
  \/ Effect(p) \/ EffectRefused(p) \/ Finalize(p)
  \/ RemoveStage(p) \/ TruncatePointer(p) \/ WritePointer(p)
  \/ RenamePointer(p) \/ ClearDecision(p)

Next ==
  \E p \in Procs :
    \/ \E r \in Requests : Begin(p, r)
    \/ Acquire(p)
    \/ Step(p)
    \/ EffectFails(p)
    \/ Abort(p)

Spec == Init /\ [][Next]_vars

-----------------------------------------------------------------------------
(***************************************************************************)
(* Properties.                                                               *)
(***************************************************************************)
Results == {"none", "ok", "error"}

\* Every variable keeps its type, and a process has a command and a plan
\* exactly while its program counter says so.
TypeOK ==
  /\ lock \in Procs \union {None}
  /\ active \in Collections
  /\ stage \in StageFiles \union {None}
  /\ decision \in Decisions \union {None}
  /\ done \in Decisions \union {None}
  /\ settled \in [Contexts -> Nat]
  /\ pc \in [Procs -> Held \union {"idle", "wait"}]
  /\ req \in [Procs -> Requests \union {None}]
  /\ plan \in [Procs -> Decisions \union {None}]
  /\ ret \in [Procs -> Results]
  /\ faults \in Nat
  /\ \A p \in Procs : pc[p] # "idle" => req[p] \in Requests
  /\ \A p \in Procs : pc[p] \in Held \ {"read"} => plan[p] \in Decisions

\* A Policy Memory activation receipt in the published generation is true of
\* Gateway and OPA.
ReceiptsTrue(c) == \A x \in Contexts : c.mem[x] # 0 => settled[x] = c.mem[x]

\* The receipts active.json publishes are true of what Gateway and OPA enforce,
\* whatever crashed: only an active decision excuses a difference, and then
\* Gateway and OPA are fenced or already at the decision's collection
\* (effectfulMutate runs the effect before publishPreparedEffect).
ReceiptsEnforced ==
  \/ ReceiptsTrue(active)
  \/ /\ decision # None
     /\ active = decision.prev
     /\ settled \in {NoReceipts, decision.next.mem}

\* While a decision is active the store is on one side of it: the published
\* collection is the decision's previous or its next one, and the next one is
\* published only once Gateway and OPA enforce it and the decision is final.
DecisionBindsAuthority ==
  decision # None =>
    /\ active \in {decision.prev, decision.next}
    /\ active = decision.next /\ ~NoEnvelope(decision) =>
         /\ settled = decision.next.mem
         /\ decision.req.kind \in FinalizedKinds => decision.final

\* Nobody can resume the decision: its stage is gone or damaged and its
\* collection is not published, and no process is about to publish it.
StageLost ==
  /\ decision # None
  /\ active = decision.prev
  /\ ~NoEnvelope(decision)
  /\ ~StageHolds(decision.next)
  /\ \A p \in Procs : pc[p] \notin {"point", "pointer", "rename"}

\* The stage of an active decision is lost only after Gateway and OPA took the
\* decision's collection: a loss never leaves them fenced or at the old one.
StageLostOnlyWhenSettled == StageLost => settled = decision.next.mem

\* A decision is retired only as carried out: its collection is published and
\* enforced (clearEffectDecision runs after publication and confirmation).
DecisionRetiredWhenDone ==
  [][decision # None /\ decision' = None =>
       /\ active' = decision.next
       /\ settled' = decision.next.mem]_vars

\* Publication is serial: generations follow one another by one, and while a
\* decision is active nothing but its collection is published.
PublicationSerial ==
  [][active' # active =>
       /\ active'.gen = active.gen + 1
       /\ decision # None => active' = decision.next]_vars

\* What a command promises when it returns success.
Promised(c, r) ==
  CASE r.kind \in PureKinds -> TRUE
    [] r.kind = "cluster"   -> c.mem = c.des /\ \A x \in Contexts : c.tpl[x]
    [] r.kind = "down"      -> c.mem = NoReceipts /\ \A x \in Contexts : ~c.tpl[x]
    [] OTHER                -> c.mem[r.target] = c.des[r.target]

\* An effectful command that returns success, first run, recovery or replay,
\* has its consequence published and enforced and leaves no active decision.
SuccessIsEnforced ==
  [][\A p \in Procs :
       ret[p] # "ok" /\ ret'[p] = "ok" /\ ~IsPure(p) =>
         /\ decision' = None
         /\ Promised(active', req[p])
         /\ settled' = active'.mem]_vars

-----------------------------------------------------------------------------
(***************************************************************************)
(* Recovery.                                                                 *)
(***************************************************************************)

\* After an interruption somebody repeats the command the decision records.
Retry(p) == decision # None /\ Begin(p, decision.req)

\* A running process proceeds, a waiting one is not starved by the lock's
\* polling loop, and an interrupted command is repeated.
Fairness ==
  \A p \in Procs : WF_vars(Step(p)) /\ SF_vars(Acquire(p)) /\ SF_vars(Retry(p))

FairSpec == Spec /\ Fairness

\* The projection of the decision's collection cannot be built.
Unsettleable ==
  decision # None /\ ~Settleable(decision.next, decision.req.kind)

\* Repeating the command carries every durable decision through, unless its
\* stage was lost or its collection has no projection.
DecisionCompletes == []<>(decision = None \/ StageLost \/ Unsettleable)

\* mutator.go:2173-2175: "Once the external authority confirms the exact
\* decision, cancellation cannot turn success into replay permission. Process
\* death remains recoverable from the durable decision."
ProcessDeathRecoverable == ~StageLost

\* mutator.go:2147-2150: an interrupted settlement is one to "recover ...
\* through the exact initiating command", so a durable decision has a
\* projection to settle.
DurableDecisionSettleable == ~Unsettleable

\* docs/02_architecture.md:496-497: "Template mutation publishes desired state
\* only and retains the prior active receipts until entry or cluster
\* reconciliation replaces them."
TemplateRetainsReceipts ==
  [][active' # active /\ decision = None =>
       active'.mem = active.mem /\ active'.tpl = active.tpl]_vars

-----------------------------------------------------------------------------
(***************************************************************************)
(* The abstract specification, and the invariant its proof rests on.         *)
(***************************************************************************)
Intent == IF decision = None THEN None
          ELSE [prev |-> decision.prev, next |-> decision.next]

Abstract == INSTANCE EnforcedAuthority
              WITH authority <- active, intent <- Intent, enforced <- settled

\* The protocol is one authority with at most one intent: it stages, decides,
\* settles, finalizes, publishes and retires, through any crash and any retry,
\* as EnforcedAuthority allows.
ImplementsEnforcedAuthority == Abstract!ASpec

Planned == Held \ {"read"}

\* Steps of an effectful command that follow its effect.
Settled(p) ==
  \/ pc[p] \in {"finalize", "unstage", "clear"}
  \/ pc[p] \in {"point", "pointer", "rename"} /\ ~IsPure(p)

LockInv == \A p \in Procs : pc[p] \in Held <=> lock = p

PlanOK(p) ==
  /\ plan[p].req = req[p]
  /\ plan[p].next = NextCollection(plan[p].prev, req[p])
  /\ active = IF pc[p] = "clear" THEN plan[p].next ELSE plan[p].prev
  /\ IsPure(p) => pc[p] \in {"point", "pointer", "rename"} /\ decision = None
  /\ ~IsPure(p) /\ NoEnvelope(plan[p]) =>
       pc[p] \in {"decide", "effect", "finalize", "clear"}
  /\ pc[p] \in {"stage", "write", "decide"} => decision = None
  /\ pc[p] = "effect" \/ Settled(p) => decision = plan[p]
  /\ Settled(p) => settled = plan[p].next.mem
  /\ Settled(p) /\ pc[p] # "finalize" /\ req[p].kind \in FinalizedKinds =>
       plan[p].final
  /\ pc[p] \in {"decide", "effect", "finalize", "unstage"} /\ ~NoEnvelope(plan[p]) =>
       StageHolds(plan[p].next)
  /\ pc[p] = "rename" => stage # None /\ stage.of = plan[p].next

PlanInv == \A p \in Procs : pc[p] \in Planned => PlanOK(p)

JournalInv ==
  /\ decision # None =>
       /\ decision.req.kind \notin PureKinds
       /\ decision.next = NextCollection(decision.prev, decision.req)
       /\ active = decision.prev /\ ~NoEnvelope(decision) =>
            StageHolds(decision.next) \/ settled = decision.next.mem
  /\ done # None =>
       /\ done.req.kind \notin PureKinds
       /\ done.next = NextCollection(done.prev, done.req)

\* ReceiptsEnforced and DecisionBindsAuthority are not inductive: what a process
\* between two file operations still holds in memory has to agree with the
\* files, the lock and Gateway and OPA.
IInv ==
  /\ TypeOK
  /\ LockInv
  /\ PlanInv
  /\ JournalInv
  /\ DecisionBindsAuthority
  /\ ReceiptsEnforced

=============================================================================
