------------------------- MODULE ContextEntryProofs -------------------------
(***************************************************************************)
(* Context entry for any set of Template revisions and their policies, any *)
(* number of generations, deaths, lost containers and changed hosts.  The  *)
(* inductive invariant says what the durable decision of an entry holds,   *)
(* that the Workspace's record and container are those of the published    *)
(* entry or of the decided one, and that nothing gives the decision up     *)
(* before what it decided is published and enforced.                       *)
(***************************************************************************)
EXTENDS ContextEntry, TLAPS

\* A published collection has at most as many Workspaces as generations before
\* it; a Workspace it names was entered, and has a Home.
Well(c) ==
  /\ c.ws <= c.born /\ c.born < c.gen
  /\ c.entry # 0 <=> c.ws # 0
  /\ c.ws # 0 => c.home

\* What an entry decides.
Planned(j) ==
  /\ j \in Jobs /\ Well(j.prev) /\ Well(j.next)
  /\ j.plan.tpl = j.prev.tpl /\ j.plan.init = ~j.prev.home
  /\ j.next.home /\ j.next.ws = j.plan.ws /\ j.next.entry = j.plan.tpl
  /\ j.next.mat = j.plan.mat
  /\ j.next.tpl = j.plan.tpl /\ j.next.active = PolicyOf[j.plan.tpl]
  /\ Changed(j) \/ j.next = j.prev

\* The decision and the place of the entry fit what is published.
PlanInv ==
  /\ Well(pub)
  /\ decision # None => Planned(decision) /\ pub \in {decision.prev, decision.next}
  /\ pc \in {"temp", "decide"} => decision = None /\ Planned(job) /\ pub = job.prev
  /\ pc \in Effects => decision # None /\ job = decision
  /\ pc \in Effects \ {"retire"} => pub = job.prev
  /\ pc = "retire" => pub = job.next
  /\ pc \in {"unstage", "attach"} => decision = None

\* The container was made for this plan; the record is that of collection c.
MadeFor(plan) == box.ws = plan.ws /\ box.tpl = plan.tpl /\ box.mat = plan.mat
RecordOf(c) ==
  /\ (rec # None) = (c.entry # 0)
  /\ rec # None => rec.ws = c.ws /\ rec.tpl = c.entry /\ rec.mat = c.mat

\* Under a decision, record and container are the old or the decided ones, and
\* from the record on the decided ones.
RuntimeInv ==
  /\ decision # None =>
       /\ rec = decision.plan \/ RecordOf(decision.prev)
       /\ box # None => MadeFor(decision.plan) \/ (rec # None /\ MadeFor(rec))
       /\ pub # decision.prev => rec = decision.plan
  /\ pc = "record" => (box # None => MadeFor(job.plan))
  /\ pc \in {"settle", "confirm", "pointer", "publish", "retire"} => rec = job.plan

\* What is published is enforced before the decision is given up.
SettledInv ==
  /\ pc \in {"confirm", "pointer", "publish", "retire"} => live = job.next.active
  /\ pc \in {"unstage", "attach"} => pub.entry = pub.tpl /\ ActivationsCurrent(pub)

\* A session used the Home only after it was made.
HomeInv == lived => pub.home

\* The inductive invariant.
EInv == TypeOK /\ PlanInv /\ RuntimeInv /\ RuntimeFollowsAuthority /\ SettledInv /\ HomeInv

----------------------------------------------------------------------------
\* The Workspace an entry plans fits the bound whenever its publication does.
LEMMA PlanFacts ==
  ASSUME NEW c \in Collections, Well(c), material \in Materials
  PROVE  PlanWorkspaceEntry(c) \in Plans
  BY EntryAssumption DEF Collections, Plans, Well, PlanWorkspaceEntry

\* What the entry makes of the collection: the same Template revision with a
\* Home, the planned Workspace entered, and the revision's policies active.
LEMMA AppliedFacts ==
  ASSUME NEW c \in Collections, Well(c), NEW plan \in Plans, plan = PlanWorkspaceEntry(c)
  PROVE  /\ Applied(c, plan) \in Collections /\ Applied(c, plan).gen = c.gen
         /\ Applied(c, plan).home /\ Applied(c, plan).ws = plan.ws
         /\ Applied(c, plan).entry = plan.tpl /\ Applied(c, plan).tpl = c.tpl
         /\ Applied(c, plan).active = PolicyOf[c.tpl] /\ Applied(c, plan).mat = plan.mat
         /\ plan.ws <= Applied(c, plan).born /\ Applied(c, plan).born <= c.gen
         /\ plan.tpl = c.tpl /\ plan.init = ~c.home
<1> DEFINE a == Applied(c, plan)
<1>1. c.born \in 0..MaxGen /\ c.gen \in 1..MaxGen /\ c.ws \in 0..MaxGen /\ c.tpl \in Templates
  BY Zenon DEF Collections
<1>2. plan.ws \in 1..MaxGen /\ plan.ws <= c.gen /\ plan.tpl = c.tpl /\ plan.init = ~c.home
      /\ plan.mat \in Materials
  BY <1>1 DEF Plans, Well, PlanWorkspaceEntry
<1>3. /\ a.gen = c.gen /\ a.tpl = c.tpl /\ a.home = TRUE /\ a.ws = plan.ws
      /\ a.born = (IF plan.ws > c.born THEN plan.ws ELSE c.born)
      /\ a.entry = plan.tpl /\ a.active = PolicyOf[c.tpl] /\ a.mat = plan.mat
  BY Zenon DEF Collections, Applied
<1>4. PolicyOf[c.tpl] \in Policies
  BY <1>1, Zenon DEF Policies
<1>5. plan.ws <= a.born /\ a.born <= c.gen /\ a.born \in 0..MaxGen
  BY <1>1, <1>2, <1>3 DEF Well
<1>6. a \in Collections
  <2> DEFINE b == IF plan.ws > c.born THEN plan.ws ELSE c.born
  <2>1. b \in 0..MaxGen
    BY <1>3, <1>5, Zenon
  <2>2. a = [c EXCEPT !.home = TRUE, !.ws = plan.ws, !.born = b, !.entry = plan.tpl,
                      !.mat = plan.mat, !.active = PolicyOf[c.tpl]]
    BY Zenon DEF Applied
  <2> HIDE DEF a, b
  <2>3. plan.ws \in 0..MaxGen /\ plan.tpl \in {0} \cup Templates
    BY <1>1, <1>2
  <2> QED
    BY <1>2, <1>4, <2>1, <2>2, <2>3, Zenon DEF Collections
<1> QED
  BY <1>2, <1>3, <1>5, <1>6, Zenon

\* What Stage makes durable is a decision.
LEMMA JobFacts ==
  ASSUME NEW c \in Collections, Well(c), material \in Materials, Job(c).next.gen <= MaxGen
  PROVE  Planned(Job(c)) /\ Job(c).prev = c /\ Job(c).next \in Collections
<1> DEFINE j == Job(c)
           plan == PlanWorkspaceEntry(c)
           a == Applied(c, plan)
<1>1. plan \in Plans
  BY PlanFacts, Zenon
<1>2. /\ a \in Collections /\ a.gen = c.gen /\ a.home /\ a.ws = plan.ws
      /\ a.entry = plan.tpl /\ a.tpl = c.tpl /\ a.active = PolicyOf[c.tpl]
      /\ a.mat = plan.mat /\ plan.ws <= a.born /\ a.born <= c.gen
      /\ plan.tpl = c.tpl /\ plan.init = ~c.home
  BY <1>1, AppliedFacts, Zenon
<1>3. j.plan = plan /\ j.prev = c /\ j.next = IF a = c THEN c ELSE [a EXCEPT !.gen = @ + 1]
  BY Zenon DEF Job, PublishWorkspaceEntryAuthority
<1>4. plan.ws \in 1..MaxGen /\ plan.tpl \in Templates /\ c.gen \in 1..MaxGen
  BY <1>1, Zenon DEF Plans, Collections
<1>5. j = [plan |-> plan, prev |-> c, next |-> j.next]
  BY Zenon DEF Job
<1> HIDE DEF j, plan, a
<1>6. CASE a = c
  <2>1. j.next = c
    BY <1>3, <1>6, Zenon
  <2>2. j \in Jobs
    BY <1>1, <1>5, <2>1 DEF Jobs
  <2> QED
    BY <1>2, <1>3, <1>6, <2>2, Zenon DEF Planned, j
<1>7. CASE a # c
  <2> DEFINE n == j.next
  <2>1. n = [a EXCEPT !.gen = @ + 1] /\ n.gen <= MaxGen
    BY <1>3, <1>7, Zenon DEF j
  <2>2. /\ n.gen = c.gen + 1 /\ n.home = a.home /\ n.ws = a.ws /\ n.entry = a.entry
        /\ n.tpl = a.tpl /\ n.active = a.active /\ n.born = a.born /\ n.mat = a.mat
    BY <1>2, <2>1, Zenon DEF Collections
  <2>3. n \in Collections
    BY <1>2, <2>1 DEF Collections
  <2> HIDE DEF n
  <2>4. j \in Jobs
    BY <1>1, <1>5, <2>3 DEF Jobs, n
  <2>5. Well(n)
    <3>1. n.born < n.gen
      BY <1>2, <2>2 DEF Collections
    <3>2. n.ws # 0 /\ n.entry # 0
      BY <1>2, <1>4, <2>2, EntryAssumption
    <3> QED
      BY <1>2, <2>2, <3>1, <3>2, Zenon DEF Well
  <2>6. n.gen # c.gen
    BY <1>4, <2>2
  <2> QED
    BY <1>2, <1>3, <2>2, <2>3, <2>4, <2>5, <2>6, Zenon DEF Planned, Changed, n, j
<1> QED
  BY <1>6, <1>7, Zenon

\* An entry has nothing to publish only where the last one was into this revision.
LEMMA CurrentFacts ==
  ASSUME NEW c \in Collections, Well(c), material \in Materials, ~Changed(Job(c))
  PROVE  c.entry = c.tpl
<1> DEFINE plan == PlanWorkspaceEntry(c)
           a == Applied(c, plan)
<1>1. plan \in Plans
  BY PlanFacts, Zenon
<1>2. a \in Collections /\ a.gen = c.gen /\ a.entry = plan.tpl /\ plan.tpl = c.tpl
  BY <1>1, AppliedFacts, Zenon
<1>3. Job(c).prev = c /\ Job(c).next = IF a = c THEN c ELSE [a EXCEPT !.gen = @ + 1]
  BY Zenon DEF Job, PublishWorkspaceEntryAuthority
<1> HIDE DEF plan, a
<1>4. a # c => Job(c).next.gen = c.gen + 1
  BY <1>2, <1>3, Zenon DEF Collections
<1>5. c.gen + 1 # c.gen
  BY DEF Collections
<1> QED
  BY <1>2, <1>3, <1>4, <1>5, Zenon DEF Changed

\* EInv holds initially.
LEMMA InitEInv == Init => EInv
<1> SUFFICES ASSUME Init PROVE EInv
  BY Zenon
<1>1. PolicyOf[1] \in Policies
  BY EntryAssumption, Zenon DEF Policies
<1>2. TypeOK
  <2>1. pub \in Collections
    BY <1>1, EntryAssumption DEF Init, Collections
  <2>2. 0 \in 0..MaxFaults /\ 0 \in 0..MaxLosses
    BY EntryAssumption
  <2> QED
    BY <1>1, <2>1, <2>2, EntryAssumption, Zenon DEF Init, TypeOK
<1> QED
  BY <1>2 DEF Init, EInv, PlanInv, RuntimeInv, RuntimeFollowsAuthority, SettledInv, HomeInv, Well,
     Effects

\* Every step preserves EInv.
LEMMA NextEInv == EInv /\ [Next]_vars => EInv'
<1> SUFFICES ASSUME EInv, [Next]_vars PROVE EInv'
  BY Zenon
<1> USE DEF Effects
<1>f. /\ pub \in Collections /\ pub.gen \in 1..MaxGen /\ pub.tpl \in Templates
      /\ pub.ws \in 0..MaxGen /\ pub.entry \in {0} \cup Templates
  BY Zenon DEF EInv, TypeOK, Collections
<1>1. CASE EnterContext
  <2>1. TypeOK'
    BY <1>1, Zenon DEF EnterContext, Goto, docker, bounds, EInv, TypeOK
  <2>2. PlanInv'
    BY <1>1, Zenon DEF EnterContext, Goto, EInv, PlanInv
  <2>3. RuntimeInv'
    BY <1>1, Zenon DEF EnterContext, Goto, docker, EInv, RuntimeInv, RecordOf, MadeFor
  <2>4. RuntimeFollowsAuthority'
    BY <1>1, Zenon DEF EnterContext, docker, EInv, RuntimeFollowsAuthority
  <2>5. SettledInv'
    BY <1>1, Zenon DEF EnterContext, Goto, SettledInv
  <2>6. HomeInv'
    BY <1>1, Zenon DEF EnterContext, EInv, HomeInv
  <2> QED
    BY <2>1, <2>2, <2>3, <2>4, <2>5, <2>6, Zenon DEF EInv
<1>2. CASE EnterByTerminal
  <2>1. TypeOK'
    BY <1>2 DEF EnterByTerminal, Goto, Return, docker, bounds, EInv, TypeOK
  <2>2. PlanInv'
    BY <1>2, Zenon DEF EnterByTerminal, Goto, Return, EInv, PlanInv, TerminalConsequence,
       TerminalEntry
  <2>3. RuntimeInv'
    BY <1>2, Zenon DEF EnterByTerminal, Goto, Return, docker, EInv, RuntimeInv, RecordOf, MadeFor
  <2>4. RuntimeFollowsAuthority'
    BY <1>2, Zenon DEF EnterByTerminal, docker, EInv, RuntimeFollowsAuthority
  <2>5. SettledInv'
    BY <1>2, Zenon DEF EnterByTerminal, Goto, Return, SettledInv, ActivationsCurrent, Confirmed,
       TerminalConsequence, ValidFor
  <2>6. HomeInv'
    BY <1>2, Zenon DEF EnterByTerminal, EInv, HomeInv
  <2> QED
    BY <2>1, <2>2, <2>3, <2>4, <2>5, <2>6, Zenon DEF EInv
<1>3. CASE ResumePublished
  <2>1. TypeOK'
    BY <1>3 DEF ResumePublished, Goto, Return, disk, docker, bounds, EInv, TypeOK
  <2>2. PlanInv'
    BY <1>3, Zenon DEF ResumePublished, Goto, Return, disk, EInv, PlanInv
  <2>3. RuntimeInv'
    BY <1>3, Zenon DEF ResumePublished, Return, disk, docker, EInv, RuntimeInv, RecordOf, MadeFor,
       Confirmed, ConfirmWorkspaceEntry
  <2>4. RuntimeFollowsAuthority'
    BY <1>3, Zenon DEF ResumePublished, disk, RuntimeFollowsAuthority
  <2>5. SettledInv'
    BY <1>3, Zenon DEF ResumePublished, Return, disk, EInv, PlanInv, Planned, SettledInv,
       ActivationsCurrent, Confirmed
  <2>6. HomeInv'
    BY <1>3, Zenon DEF ResumePublished, disk, EInv, HomeInv
  <2> QED
    BY <2>1, <2>2, <2>3, <2>4, <2>5, <2>6, Zenon DEF EInv
<1>4. CASE ResumeDecision
  <2>1. TypeOK'
    BY <1>4 DEF ResumeDecision, Goto, Return, disk, docker, bounds, EInv, TypeOK
  <2>2. PlanInv'
    BY <1>4, Zenon DEF ResumeDecision, Goto, Return, disk, bounds, EInv, PlanInv
  <2>3. RuntimeInv'
    BY <1>4, Zenon DEF ResumeDecision, Goto, Return, disk, docker, EInv, RuntimeInv, RecordOf,
       MadeFor
  <2>4. RuntimeFollowsAuthority'
    BY <1>4, Zenon DEF ResumeDecision, disk, RuntimeFollowsAuthority
  <2>5. SettledInv'
    BY <1>4, Zenon DEF ResumeDecision, Goto, Return, SettledInv
  <2>6. HomeInv'
    BY <1>4, Zenon DEF ResumeDecision, disk, EInv, HomeInv
  <2> QED
    BY <2>1, <2>2, <2>3, <2>4, <2>5, <2>6, Zenon DEF EInv
<1>5. CASE EnterCurrent
  <2>1. TypeOK'
    BY <1>5 DEF EnterCurrent, Goto, Return, disk, docker, bounds, EInv, TypeOK
  <2>2. PlanInv'
    BY <1>5, Zenon DEF EnterCurrent, Goto, Return, disk, EInv, PlanInv
  <2>3. RuntimeInv'
    BY <1>5, Zenon DEF EnterCurrent, Goto, Return, disk, RuntimeInv
  <2>4. RuntimeFollowsAuthority'
    BY <1>5, Zenon DEF EnterCurrent, disk, docker, EInv, RuntimeFollowsAuthority
  <2>5. SettledInv'
    <3>1. ~Changed(Job(pub)) => pub.entry = pub.tpl
      BY CurrentFacts, Zenon DEF EInv, TypeOK, PlanInv
    <3> QED
      BY <1>5, <3>1, Zenon DEF EnterCurrent, Goto, Return, disk, SettledInv, Confirmed,
         ActivationsCurrent
  <2>6. HomeInv'
    BY <1>5, Zenon DEF EnterCurrent, disk, EInv, HomeInv
  <2> QED
    BY <2>1, <2>2, <2>3, <2>4, <2>5, <2>6, Zenon DEF EInv
<1>6. CASE Stage
  <2>1. Planned(Job(pub)) /\ Job(pub).prev = pub /\ Job(pub).next \in Collections
    BY <1>6, JobFacts, Zenon DEF Stage, EInv, TypeOK, PlanInv
  <2>2. TypeOK'
    BY <1>6, <2>1, Zenon DEF Stage, Goto, docker, bounds, EInv, TypeOK
  <2>3. PlanInv'
    BY <1>6, <2>1, Zenon DEF Stage, Goto, EInv, PlanInv
  <2>4. RuntimeInv'
    BY <1>6, Zenon DEF Stage, Goto, RuntimeInv
  <2>5. RuntimeFollowsAuthority'
    BY <1>6, Zenon DEF Stage, docker, EInv, RuntimeFollowsAuthority
  <2>6. SettledInv'
    BY <1>6, Zenon DEF Stage, Goto, SettledInv
  <2>7. HomeInv'
    BY <1>6, Zenon DEF Stage, EInv, HomeInv
  <2> QED
    BY <2>2, <2>3, <2>4, <2>5, <2>6, <2>7, Zenon DEF EInv
<1>7. CASE WriteTemp
  <2>1. TypeOK'
    BY <1>7 DEF WriteTemp, Goto, docker, bounds, EInv, TypeOK
  <2>2. PlanInv'
    BY <1>7, Zenon DEF WriteTemp, Goto, EInv, PlanInv
  <2>3. RuntimeInv'
    BY <1>7, Zenon DEF WriteTemp, Goto, EInv, PlanInv, RuntimeInv
  <2>4. RuntimeFollowsAuthority'
    BY <1>7, Zenon DEF WriteTemp, docker, EInv, RuntimeFollowsAuthority
  <2>5. SettledInv'
    BY <1>7, Zenon DEF WriteTemp, Goto, SettledInv
  <2>6. HomeInv'
    BY <1>7, Zenon DEF WriteTemp, EInv, HomeInv
  <2> QED
    BY <2>1, <2>2, <2>3, <2>4, <2>5, <2>6, Zenon DEF EInv
<1>8. CASE Decide
  <2>1. TypeOK'
    BY <1>8, Zenon DEF Decide, Goto, docker, bounds, EInv, TypeOK
  <2>2. PlanInv'
    BY <1>8, EntryAssumption DEF Decide, Goto, EInv, PlanInv, Planned
  <2>3. RuntimeInv'
    BY <1>8, Zenon DEF Decide, Goto, Return, docker, EInv, PlanInv, RuntimeInv,
       RuntimeFollowsAuthority, RecordOf, MadeFor
  <2>4. RuntimeFollowsAuthority'
    BY <1>8, Zenon DEF Decide, disk, docker, EInv, PlanInv, RuntimeFollowsAuthority
  <2>5. SettledInv'
    BY <1>8, Zenon DEF Decide, Goto, SettledInv
  <2>6. HomeInv'
    BY <1>8, Zenon DEF Decide, EInv, HomeInv
  <2> QED
    BY <2>1, <2>2, <2>3, <2>4, <2>5, <2>6, Zenon DEF EInv
<1>9. CASE ReconcileWorkspaceEntry
  <2>0. job \in Jobs /\ job.plan \in Plans /\ Planned(job)
    BY <1>9, Zenon DEF ReconcileWorkspaceEntry, EInv, PlanInv, Planned, TypeOK, Jobs
  <2>a. [ws |-> job.plan.ws, tpl |-> job.plan.tpl, mat |-> job.plan.mat, up |-> TRUE] \in Boxes
    BY <2>0 DEF Plans, Boxes
  <2>b. /\ UNCHANGED <<disk, rec, live, material, lived, bounds>>
        /\ \/ box' = box /\ ((Goto("settle") /\ UNCHANGED job) \/ Return)
           \/ /\ box' = [ws |-> job.plan.ws, tpl |-> job.plan.tpl, mat |-> job.plan.mat, up |-> TRUE]
              /\ Goto("record") /\ UNCHANGED job
    BY <1>9, Zenon DEF ReconcileWorkspaceEntry
  <2>1. TypeOK'
    BY <2>a, <2>b, Zenon DEF Goto, Return, disk, bounds, EInv, TypeOK
  <2>2. PlanInv'
    BY <1>9, Zenon DEF ReconcileWorkspaceEntry, Goto, Return, disk, docker, bounds, EInv, PlanInv
  <2>c. box' # box => box'.ws = job.plan.ws /\ box'.tpl = job.plan.tpl /\ box'.mat = job.plan.mat
    BY <2>b
  <2>3. RuntimeInv'
    BY <1>9, <2>c DEF ReconcileWorkspaceEntry, Goto, Return, disk, docker, bounds, EInv, PlanInv,
       RuntimeInv, RecordOf, MadeFor
  <2>4. RuntimeFollowsAuthority'
    BY <1>9, Zenon DEF ReconcileWorkspaceEntry, disk, EInv, PlanInv, RuntimeFollowsAuthority
  <2>5. SettledInv'
    BY <1>9, Zenon DEF ReconcileWorkspaceEntry, Goto, Return, SettledInv
  <2>6. HomeInv'
    BY <1>9, Zenon DEF ReconcileWorkspaceEntry, disk, EInv, HomeInv
  <2> QED
    BY <2>1, <2>2, <2>3, <2>4, <2>5, <2>6, Zenon DEF EInv
<1>10. CASE RecordEntry
  <2>1. TypeOK'
    BY <1>10 DEF RecordEntry, Goto, Return, disk, bounds, EInv, TypeOK, PlanInv, Planned, Jobs
  <2>2. PlanInv'
    BY <1>10, Zenon DEF RecordEntry, Goto, Return, disk, docker, bounds, EInv, PlanInv
  <2>3. RuntimeInv'
    BY <1>10, Zenon DEF RecordEntry, Goto, Return, disk, bounds, EInv, PlanInv, RuntimeInv, MadeFor
  <2>4. RuntimeFollowsAuthority'
    BY <1>10, Zenon DEF RecordEntry, disk, EInv, PlanInv, RuntimeFollowsAuthority
  <2>5. SettledInv'
    BY <1>10, Zenon DEF RecordEntry, Goto, Return, SettledInv
  <2>6. HomeInv'
    BY <1>10, Zenon DEF RecordEntry, disk, EInv, HomeInv
  <2> QED
    BY <2>1, <2>2, <2>3, <2>4, <2>5, <2>6, Zenon DEF EInv
<1>11. CASE Settle
  <2>1. TypeOK'
    BY <1>11 DEF Settle, Goto, disk, docker, bounds, EInv, TypeOK, PlanInv, Planned, Jobs,
       Collections
  <2>2. PlanInv'
    BY <1>11, Zenon DEF Settle, Goto, disk, docker, bounds, EInv, TypeOK, PlanInv
  <2>3. RuntimeInv'
    BY <1>11, Zenon DEF Settle, disk, docker, EInv, PlanInv, RuntimeInv, MadeFor
  <2>4. RuntimeFollowsAuthority'
    BY <1>11, Zenon DEF Settle, disk, EInv, PlanInv, RuntimeFollowsAuthority
  <2>5. SettledInv'
    BY <1>11, Zenon DEF Settle, Goto, SettledInv
  <2>6. HomeInv'
    BY <1>11, Zenon DEF Settle, disk, EInv, HomeInv
  <2> QED
    BY <2>1, <2>2, <2>3, <2>4, <2>5, <2>6, Zenon DEF EInv
<1>12. CASE Confirm
  <2>1. TypeOK'
    BY <1>12 DEF Confirm, Goto, Return, docker, bounds, EInv, TypeOK
  <2>2. PlanInv'
    BY <1>12 DEF Confirm, Goto, Return, EInv, PlanInv, Planned
  <2>3. RuntimeInv'
    BY <1>12, Zenon DEF Confirm, Goto, Return, docker, EInv, RuntimeInv, RecordOf, MadeFor
  <2>4. RuntimeFollowsAuthority'
    BY <1>12, Zenon DEF Confirm, EInv, PlanInv, RuntimeFollowsAuthority
  <2>5. SettledInv'
    BY <1>12, Zenon DEF Confirm, Goto, Return, SettledInv, ActivationsCurrent, Confirmed
  <2>6. HomeInv'
    BY <1>12, Zenon DEF Confirm, EInv, HomeInv
  <2> QED
    BY <2>1, <2>2, <2>3, <2>4, <2>5, <2>6, Zenon DEF EInv
<1>13. CASE WritePointer
  <2>1. TypeOK'
    BY <1>13 DEF WritePointer, Goto, docker, bounds, EInv, TypeOK
  <2>2. PlanInv'
    BY <1>13, Zenon DEF WritePointer, Goto, Return, EInv, PlanInv
  <2>3. RuntimeInv'
    BY <1>13, Zenon DEF WritePointer, Return, docker, EInv, PlanInv, RuntimeInv, MadeFor
  <2>4. RuntimeFollowsAuthority'
    BY <1>13, Zenon DEF WritePointer, EInv, PlanInv, RuntimeFollowsAuthority
  <2>5. SettledInv'
    BY <1>13, Zenon DEF WritePointer, Goto, EInv, SettledInv
  <2>6. HomeInv'
    BY <1>13, Zenon DEF WritePointer, EInv, HomeInv
  <2> QED
    BY <2>1, <2>2, <2>3, <2>4, <2>5, <2>6, Zenon DEF EInv
<1>14. CASE Publish
  <2>1. TypeOK'
    BY <1>14 DEF Publish, Goto, docker, bounds, EInv, TypeOK, PlanInv, Planned, Jobs
  <2>2. PlanInv'
    BY <1>14 DEF Publish, Goto, EInv, PlanInv, Planned
  <2>3. RuntimeInv'
    BY <1>14, Zenon DEF Publish, Goto, Return, disk, docker, bounds, EInv, PlanInv, RuntimeInv,
       MadeFor
  <2>4. RuntimeFollowsAuthority'
    BY <1>14, Zenon DEF Publish, EInv, PlanInv, RuntimeFollowsAuthority
  <2>5. SettledInv'
    BY <1>14, EntryAssumption, Zenon DEF Publish, disk, docker, EInv, PlanInv, Planned,
       SettledInv, ActivationsCurrent
  <2>6. HomeInv'
    BY <1>14, Zenon DEF Publish, EInv, PlanInv, Planned, HomeInv
  <2> QED
    BY <2>1, <2>2, <2>3, <2>4, <2>5, <2>6, Zenon DEF EInv
<1>15. CASE Retire
  <2>1. TypeOK'
    BY <1>15 DEF Retire, Goto, docker, bounds, EInv, TypeOK
  <2>2. PlanInv'
    BY <1>15, Zenon DEF Retire, Goto, EInv, PlanInv
  <2>3. RuntimeInv'
    BY <1>15, Zenon DEF Retire, Goto, RuntimeInv
  <2>4. RuntimeFollowsAuthority'
    BY <1>15, EntryAssumption DEF Retire, docker, EInv, PlanInv, Planned, RuntimeInv,
       RuntimeFollowsAuthority, MadeFor, Jobs, Plans
  <2>5. SettledInv'
    BY <1>15 DEF Retire, EInv, PlanInv, Planned, SettledInv, ActivationsCurrent
  <2>6. HomeInv'
    BY <1>15, Zenon DEF Retire, EInv, HomeInv
  <2> QED
    BY <2>1, <2>2, <2>3, <2>4, <2>5, <2>6, Zenon DEF EInv
<1>16. CASE Unstage
  <2>1. TypeOK'
    BY <1>16 DEF Unstage, Goto, docker, bounds, EInv, TypeOK
  <2>2. PlanInv'
    BY <1>16, Zenon DEF Unstage, Goto, EInv, PlanInv
  <2>3. RuntimeInv'
    BY <1>16, Zenon DEF Unstage, Goto, EInv, PlanInv, RuntimeInv
  <2>4. RuntimeFollowsAuthority'
    BY <1>16, Zenon DEF Unstage, docker, EInv, RuntimeFollowsAuthority
  <2>5. SettledInv'
    BY <1>16, Zenon DEF Unstage, Goto, EInv, SettledInv, ActivationsCurrent
  <2>6. HomeInv'
    BY <1>16, Zenon DEF Unstage, EInv, HomeInv
  <2> QED
    BY <2>1, <2>2, <2>3, <2>4, <2>5, <2>6, Zenon DEF EInv
<1>17. CASE BeginSession
  <2>1. TypeOK'
    BY <1>17 DEF BeginSession, Return, disk, docker, bounds, EInv, TypeOK
  <2>2. PlanInv'
    BY <1>17, Zenon DEF BeginSession, Return, disk, EInv, PlanInv
  <2>3. RuntimeInv'
    BY <1>17, Zenon DEF BeginSession, Return, disk, EInv, PlanInv, RuntimeInv
  <2>4. RuntimeFollowsAuthority'
    BY <1>17, Zenon DEF BeginSession, disk, docker, EInv, RuntimeFollowsAuthority
  <2>5. SettledInv'
    BY <1>17, Zenon DEF BeginSession, Return, SettledInv
  <2>6. HomeInv'
    <3>1. pub.entry = pub.tpl
      BY <1>17, Zenon DEF BeginSession, EInv, SettledInv
    <3>2. pub.entry # 0 /\ pub.ws # 0
      BY <1>f, <3>1, EntryAssumption, Zenon DEF EInv, PlanInv, Well
    <3> QED
      BY <1>17, <3>2, Zenon DEF BeginSession, disk, EInv, PlanInv, Well, HomeInv
  <2> QED
    BY <2>1, <2>2, <2>3, <2>4, <2>5, <2>6, Zenon DEF EInv
<1>18. CASE EnterSteady
  <2>1. TypeOK'
    BY <1>18 DEF EnterSteady, Goto, disk, docker, bounds, EInv, TypeOK
  <2>2. PlanInv'
    BY <1>18, Zenon DEF EnterSteady, Goto, disk, EInv, PlanInv
  <2>3. RuntimeInv'
    BY <1>18, Zenon DEF EnterSteady, Goto, disk, RuntimeInv
  <2>4. RuntimeFollowsAuthority'
    BY <1>18, Zenon DEF EnterSteady, disk, docker, EInv, RuntimeFollowsAuthority
  <2>5. SettledInv'
    <3>1. ~Changed(Job(pub)) => pub.entry = pub.tpl
      BY CurrentFacts, Zenon DEF EInv, TypeOK, PlanInv
    <3> QED
      BY <1>18, <3>1, Zenon DEF EnterSteady, Goto, disk, SettledInv, Confirmed, ActivationsCurrent
  <2>6. HomeInv'
    BY <1>18, Zenon DEF EnterSteady, disk, EInv, HomeInv
  <2> QED
    BY <2>1, <2>2, <2>3, <2>4, <2>5, <2>6, Zenon DEF EInv
<1>19. CASE PurePublication
  <2>1. TypeOK'
    <3>1. PICK t \in Templates : pub' = [pub EXCEPT !.gen = @ + 1, !.tpl = t]
      BY <1>19, Zenon DEF PurePublication
    <3>2. pub.gen + 1 \in 1..MaxGen
      BY <1>19, <1>f, EntryAssumption DEF PurePublication, OtherMutation, EInv, TypeOK
    <3>3. pub' \in Collections
      BY <1>f, <3>1, <3>2, Zenon DEF Collections
    <3> QED
      BY <1>19, <3>3, Zenon DEF PurePublication, OtherMutation, docker, bounds, EInv, TypeOK
  <2>2. PlanInv'
    BY <1>19 DEF PurePublication, OtherMutation, EInv, TypeOK, PlanInv, Well, Collections
  <2>3. RuntimeInv'
    BY <1>19, Zenon DEF PurePublication, OtherMutation, RuntimeInv
  <2>4. RuntimeFollowsAuthority'
    BY <1>19 DEF PurePublication, docker, EInv, RuntimeFollowsAuthority
  <2>5. SettledInv'
    BY <1>19, Zenon DEF PurePublication, OtherMutation, SettledInv
  <2>6. HomeInv'
    BY <1>19 DEF PurePublication, EInv, HomeInv
  <2> QED
    BY <2>1, <2>2, <2>3, <2>4, <2>5, <2>6, Zenon DEF EInv
<1>20. CASE PolicyOperation
  <2>1. TypeOK'
    <3>1. pub.gen + 1 \in 1..MaxGen
      BY <1>20, <1>f, EntryAssumption DEF PolicyOperation, OtherMutation, EInv, TypeOK
    <3>2. PolicyOf[pub.tpl] \in Policies
      BY <1>f, Zenon DEF Policies
    <3>3. pub' \in Collections
      BY <1>20, <1>f, <3>1, <3>2, Zenon DEF PolicyOperation, Collections
    <3> QED
      BY <1>20, <3>2, <3>3, Zenon DEF PolicyOperation, OtherMutation, docker, bounds, EInv, TypeOK
  <2>2. PlanInv'
    BY <1>20 DEF PolicyOperation, OtherMutation, EInv, TypeOK, PlanInv, Well, Collections
  <2>3. RuntimeInv'
    BY <1>20, Zenon DEF PolicyOperation, OtherMutation, RuntimeInv
  <2>4. RuntimeFollowsAuthority'
    BY <1>20 DEF PolicyOperation, docker, EInv, RuntimeFollowsAuthority
  <2>5. SettledInv'
    BY <1>20, Zenon DEF PolicyOperation, OtherMutation, SettledInv
  <2>6. HomeInv'
    BY <1>20 DEF PolicyOperation, EInv, HomeInv
  <2> QED
    BY <2>1, <2>2, <2>3, <2>4, <2>5, <2>6, Zenon DEF EInv
<1>21. CASE DeleteWorkspace
  <2>1. TypeOK'
    <3>1. pub.gen + 1 \in 1..MaxGen /\ 0 \in 0..MaxGen
      BY <1>21, <1>f, EntryAssumption DEF DeleteWorkspace, OtherMutation, EInv, TypeOK
    <3>2. pub' \in Collections
      BY <1>21, <1>f, <3>1, Zenon DEF DeleteWorkspace, Collections
    <3> QED
      BY <1>21, <3>2, Zenon DEF DeleteWorkspace, OtherMutation, bounds, EInv, TypeOK
  <2>2. PlanInv'
    BY <1>21 DEF DeleteWorkspace, OtherMutation, EInv, TypeOK, PlanInv, Well, Collections
  <2>3. RuntimeInv'
    BY <1>21, Zenon DEF DeleteWorkspace, OtherMutation, RuntimeInv
  <2>4. RuntimeFollowsAuthority'
    BY <1>21 DEF DeleteWorkspace, RuntimeFollowsAuthority
  <2>5. SettledInv'
    BY <1>21, Zenon DEF DeleteWorkspace, OtherMutation, SettledInv
  <2>6. HomeInv'
    BY <1>21 DEF DeleteWorkspace, EInv, HomeInv
  <2> QED
    BY <2>1, <2>2, <2>3, <2>4, <2>5, <2>6, Zenon DEF EInv
<1>22. CASE PurePublicationDies
  <2>1. TypeOK'
    BY <1>22, EntryAssumption DEF PurePublicationDies, docker, EInv, TypeOK
  <2>2. PlanInv'
    BY <1>22, Zenon DEF PurePublicationDies, EInv, PlanInv
  <2>3. RuntimeInv'
    BY <1>22, Zenon DEF PurePublicationDies, RuntimeInv
  <2>4. RuntimeFollowsAuthority'
    BY <1>22, Zenon DEF PurePublicationDies, docker, EInv, RuntimeFollowsAuthority
  <2>5. SettledInv'
    BY <1>22, Zenon DEF PurePublicationDies, SettledInv
  <2>6. HomeInv'
    BY <1>22, Zenon DEF PurePublicationDies, EInv, HomeInv
  <2> QED
    BY <2>1, <2>2, <2>3, <2>4, <2>5, <2>6, Zenon DEF EInv
<1>23. CASE Die
  <2>1. TypeOK'
    BY <1>23, EntryAssumption DEF Die, Return, disk, docker, EInv, TypeOK
  <2>2. PlanInv'
    BY <1>23, Zenon DEF Die, Goto, Return, disk, docker, bounds, EInv, TypeOK, PlanInv
  <2>3. RuntimeInv'
    BY <1>23, Zenon DEF Die, Return, disk, docker, EInv, RuntimeInv, RecordOf, MadeFor
  <2>4. RuntimeFollowsAuthority'
    BY <1>23, Zenon DEF Die, disk, docker, EInv, RuntimeFollowsAuthority
  <2>5. SettledInv'
    BY <1>23, Zenon DEF Die, Return, SettledInv
  <2>6. HomeInv'
    BY <1>23, Zenon DEF Die, disk, EInv, HomeInv
  <2> QED
    BY <2>1, <2>2, <2>3, <2>4, <2>5, <2>6, Zenon DEF EInv
<1>24. CASE ContainerLost
  <2>1. box \in Boxes
    BY <1>24, Zenon DEF ContainerLost, EInv, TypeOK
  <2>2. box' = None \/ (box' \in Boxes /\ box'.ws = box.ws /\ box'.tpl = box.tpl
                      /\ box'.mat = box.mat)
    BY <1>24, <2>1, Zenon DEF ContainerLost, Boxes
  <2>3. TypeOK'
    <3>1. losses' \in 0..MaxLosses
      BY <1>24, EntryAssumption DEF ContainerLost, EInv, TypeOK
    <3> QED
      BY <1>24, <2>2, <3>1, Zenon DEF ContainerLost, disk, EInv, TypeOK
  <2>4. PlanInv'
    BY <1>24 DEF ContainerLost, disk, EInv, PlanInv
  <2>5. RuntimeInv'
    BY <1>24, <2>2, Zenon DEF ContainerLost, disk, EInv, RuntimeInv, RecordOf, MadeFor
  <2>6. RuntimeFollowsAuthority'
    BY <1>24, <2>2, Zenon DEF ContainerLost, disk, EInv, RuntimeFollowsAuthority
  <2>7. SettledInv'
    BY <1>24, Zenon DEF ContainerLost, disk, EInv, SettledInv, ActivationsCurrent
  <2>8. HomeInv'
    BY <1>24, Zenon DEF ContainerLost, disk, EInv, HomeInv
  <2> QED
    BY <2>3, <2>4, <2>5, <2>6, <2>7, <2>8, Zenon DEF EInv
<1>25. CASE MaterialChanges
  <2>1. losses' \in 0..MaxLosses /\ material' \in Materials
    BY <1>25, EntryAssumption DEF MaterialChanges, EInv, TypeOK
  <2>2. TypeOK'
    BY <1>25, <2>1, Zenon DEF MaterialChanges, disk, docker, EInv, TypeOK
  <2>3. PlanInv'
    BY <1>25, Zenon DEF MaterialChanges, disk, EInv, PlanInv
  <2>4. RuntimeInv'
    BY <1>25, Zenon DEF MaterialChanges, disk, docker, EInv, RuntimeInv, RecordOf, MadeFor
  <2>5. RuntimeFollowsAuthority'
    BY <1>25, Zenon DEF MaterialChanges, disk, docker, EInv, RuntimeFollowsAuthority
  <2>6. SettledInv'
    BY <1>25, Zenon DEF MaterialChanges, disk, EInv, SettledInv, ActivationsCurrent
  <2>7. HomeInv'
    BY <1>25, Zenon DEF MaterialChanges, disk, EInv, HomeInv
  <2> QED
    BY <2>2, <2>3, <2>4, <2>5, <2>6, <2>7, Zenon DEF EInv
<1>26. CASE UNCHANGED vars
  BY <1>26 DEF vars, EInv, TypeOK, PlanInv, RuntimeInv, RecordOf, MadeFor,
     RuntimeFollowsAuthority, SettledInv, ActivationsCurrent, HomeInv
<1> QED
  BY <1>1, <1>2, <1>3, <1>4, <1>5, <1>6, <1>7, <1>8, <1>9, <1>10, <1>11, <1>12, <1>13, <1>14,
     <1>15, <1>16, <1>17, <1>18, <1>19, <1>20, <1>21, <1>22, <1>23, <1>24, <1>25, <1>26, Zenon
  DEF Next, EntryStep

\* EInv holds in every reachable state, wherever an entry died.
THEOREM EntryInvariant == Spec => []EInv
  BY InitEInv, NextEInv, PTL DEF Spec

\* Whichever branch of reconcileAndBegin or confirmAndBeginCurrent led to beginSession,
\* the Workspace it attaches to is the one of the Template revision in force.
THEOREM SessionsAttachToCurrent == Spec => []AttachedToCurrent
<1>1. EInv => AttachedToCurrent
  <2> SUFFICES ASSUME EInv, pc = "attach" PROVE AttachedToCurrent
    BY Zenon DEF EInv, AttachedToCurrent
  <2>1. pub.entry # 0
    BY EntryAssumption, Zenon DEF EInv, SettledInv, TypeOK, Collections
  <2> QED
    BY <2>1, Zenon DEF EInv, PlanInv, SettledInv, RuntimeFollowsAuthority, AttachedToCurrent
<1> QED
  BY <1>1, EntryInvariant, PTL

\* Once clearEffectDecision has retired a decision, and before any is made, record and
\* container are those of the published entry.
THEOREM RuntimeAlwaysFollows == Spec => []RuntimeFollowsAuthority
<1>1. EInv => RuntimeFollowsAuthority
  BY Zenon DEF EInv
<1> QED
  BY <1>1, EntryInvariant, PTL

\* ReconcileWorkspaceEntry makes the Home only where no session has used it.
THEOREM HomeIsMadeOnce == Spec => HomeMadeOnce
<1>1. EInv /\ [Next]_vars => [pc = "reconcile" /\ pc' = "record" /\ job.plan.init => ~lived]_vars
  <2> SUFFICES ASSUME EInv, pc = "reconcile", job.plan.init PROVE ~lived
    BY Zenon
  <2>1. Planned(job) /\ pub = job.prev
    BY Zenon DEF EInv, PlanInv, Effects
  <2>2. ~pub.home
    BY <2>1, Zenon DEF Planned
  <2> QED
    BY <2>2, Zenon DEF EInv, HomeInv
<1> QED
  BY <1>1, EntryInvariant, PTL DEF Spec, HomeMadeOnce

=============================================================================
