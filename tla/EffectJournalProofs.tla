------------------------- MODULE EffectJournalProofs -------------------------
(***************************************************************************)
(* Proofs about EffectJournal: the inductive invariant, the safety           *)
(* properties that follow from it, and the refinement of EnforcedAuthority.  *)
(***************************************************************************)
EXTENDS EffectJournal, TLAPS

\* Every command turns a collection into a collection.
LEMMA NextCollectionType ==
  ASSUME NEW c \in Collections, NEW r \in Requests
  PROVE  NextCollection(c, r) \in Collections
<1>1. r.kind \in AllKinds /\ r.target \in Contexts
  BY RequestsAssumption, Zenon
<1>2. /\ c.gen + 1 \in Nat
      /\ c.des \in [Contexts -> Nat] /\ c.mem \in [Contexts -> Nat]
      /\ [x \in Contexts |-> TRUE] \in [Contexts -> BOOLEAN]
      /\ [x \in Contexts |-> FALSE] \in [Contexts -> BOOLEAN]
      /\ NoReceipts \in [Contexts -> Nat]
  BY DEF Collections, NoReceipts
<1>3. ASSUME NEW n \in Nat
      PROVE  /\ [c.des EXCEPT ![r.target] = n] \in [Contexts -> Nat]
             /\ [c.mem EXCEPT ![r.target] = n] \in [Contexts -> Nat]
  BY <1>1, <1>2, Zenon
<1>4. ApplyTemplate(c) \in Collections
  BY DEF ApplyTemplate, Collections
<1>5. NarrowTemplate(c, r.target) \in Collections
  <2>1. /\ [c.des EXCEPT ![r.target] = c.gen + 1] \in [Contexts -> Nat]
        /\ [c.mem EXCEPT ![r.target] = 0] \in [Contexts -> Nat]
    BY <1>2, <1>3, Zenon
  <2>2. QED
    BY <1>2, <2>1, Zenon DEF NarrowTemplate, Collections
<1>6. ActivateMemory(c, r.target) \in Collections
  <2>1. /\ [c.des EXCEPT ![r.target] = c.gen + 1] \in [Contexts -> Nat]
        /\ [c.mem EXCEPT ![r.target] = c.gen + 1] \in [Contexts -> Nat]
    BY <1>2, <1>3, Zenon
  <2>2. QED
    BY <1>2, <2>1, Zenon DEF ActivateMemory, Collections
<1>7. ActivateAll(c) \in Collections
  BY <1>2, Zenon DEF ActivateAll, Published, Collections
<1>8. DeactivateAll(c) \in Collections
  BY <1>2, Zenon DEF DeactivateAll, Published, Collections
<1>9. QED
  BY <1>4, <1>5, <1>6, <1>7, <1>8, Zenon DEF NextCollection

\* A command keeps the collection or makes its successor.
LEMMA NextCollectionGen ==
  ASSUME NEW c \in Collections, NEW r \in Requests
  PROVE  NextCollection(c, r) = c \/ NextCollection(c, r).gen = c.gen + 1
<1>1. ApplyTemplate(c).gen = c.gen + 1
  BY Zenon DEF ApplyTemplate, Collections
<1>2. \A x : NarrowTemplate(c, x).gen = c.gen + 1
  BY Zenon DEF NarrowTemplate, Collections
<1>3. \A x : ActivateMemory(c, x).gen = c.gen + 1
  BY Zenon DEF ActivateMemory, Collections
<1>4. ActivateAll(c) = c \/ ActivateAll(c).gen = c.gen + 1
  BY Zenon DEF ActivateAll, Published, Collections
<1>5. DeactivateAll(c) = c \/ DeactivateAll(c).gen = c.gen + 1
  BY Zenon DEF DeactivateAll, Published, Collections, NoReceipts
<1>6. QED
  BY <1>1, <1>2, <1>3, <1>4, <1>5, Zenon DEF NextCollection

\* A pure command makes a successor and invents no receipt.
LEMMA PureKeepsReceipts ==
  ASSUME NEW c \in Collections, NEW r \in Requests, r.kind \in PureKinds
  PROVE  LET n == NextCollection(c, r) IN
         /\ n.gen = c.gen + 1
         /\ \A x \in Contexts : n.mem[x] \in {c.mem[x], 0}
<1>1. r.target \in Contexts
  BY RequestsAssumption, Zenon
<1>2. CASE r.kind = "apply"
  <2>1. NextCollection(c, r) = ApplyTemplate(c)
    BY <1>2, Zenon DEF NextCollection
  <2>2. QED
    BY <2>1, Zenon DEF ApplyTemplate, Collections
<1>3. CASE r.kind = "narrow"
  <2>1. NextCollection(c, r) = NarrowTemplate(c, r.target)
    BY <1>3, Zenon DEF NextCollection
  <2>2. QED
    BY <1>1, <2>1, Zenon DEF NarrowTemplate, Collections
<1>4. QED
  BY <1>2, <1>3, Zenon DEF PureKinds

\* The collection an effectful command makes is the one it promises.
LEMMA PlanKeepsPromise ==
  ASSUME NEW c \in Collections, NEW r \in Requests, r.kind \notin PureKinds
  PROVE  Promised(NextCollection(c, r), r)
<1>1. r.target \in Contexts /\ r.kind \in AllKinds
  BY RequestsAssumption, Zenon
<1>2. CASE r.kind = "cluster"
  <2>1. NextCollection(c, r) = ActivateAll(c)
    BY <1>2, Zenon DEF NextCollection
  <2>2. ActivateAll(c).mem = ActivateAll(c).des
    BY Zenon DEF ActivateAll, Published, Collections
  <2>3. \A x \in Contexts : ActivateAll(c).tpl[x]
    BY Zenon DEF ActivateAll, Published, Collections
  <2>4. QED
    BY <1>2, <2>1, <2>2, <2>3, Zenon DEF Promised, PureKinds
<1>3. CASE r.kind = "down"
  <2>1. NextCollection(c, r) = DeactivateAll(c)
    BY <1>3, Zenon DEF NextCollection
  <2>2. DeactivateAll(c).mem = NoReceipts
    BY Zenon DEF DeactivateAll, Published, Collections, NoReceipts
  <2>3. \A x \in Contexts : ~DeactivateAll(c).tpl[x]
    BY Zenon DEF DeactivateAll, Published, Collections, NoReceipts
  <2>4. QED
    BY <1>3, <2>1, <2>2, <2>3, Zenon DEF Promised, PureKinds
<1>4. CASE r.kind \notin {"cluster", "down"}
  <2>1. NextCollection(c, r) = ActivateMemory(c, r.target)
    BY <1>4, Zenon DEF NextCollection, PureKinds
  <2>2. ActivateMemory(c, r.target).mem[r.target] = ActivateMemory(c, r.target).des[r.target]
    BY <1>1, Zenon DEF ActivateMemory, Collections
  <2>3. QED
    BY <1>4, <2>1, <2>2, Zenon DEF Promised
<1>5. QED
  BY <1>2, <1>3, <1>4, Zenon

-----------------------------------------------------------------------------
(***************************************************************************)
(* The inductive invariant, one lemma per kind of step.                      *)
(***************************************************************************)

\* A process that gives the lock back leaves nobody in the critical section.
LEMMA ReturnLemma ==
  ASSUME TypeOK, LockInv, NEW p \in Procs, pc[p] \in Held,
         NEW result \in Results, Return(p, result)
  PROVE  /\ lock' = None /\ \A q \in Procs : pc'[q] \notin Held
         /\ LockInv' /\ PlanInv'
         /\ lock' \in Procs \union {None}
         /\ pc' \in [Procs -> Held \union {"idle", "wait"}]
         /\ req' \in [Procs -> Requests \union {None}]
         /\ plan' \in [Procs -> Decisions \union {None}]
         /\ ret' \in [Procs -> Results]
         /\ \A q \in Procs : pc'[q] # "idle" => req'[q] \in Requests
         /\ \A q \in Procs : pc'[q] \in Planned => plan'[q] \in Decisions
<1>1. \A q \in Procs : q # p => pc[q] \notin Held
  BY Zenon DEF LockInv
<1>2. "idle" \notin Held
  BY Zenon DEF Held
<1>3. /\ pc' = [pc EXCEPT ![p] = "idle"] /\ ret' = [ret EXCEPT ![p] = result]
      /\ req' = [req EXCEPT ![p] = None] /\ plan' = [plan EXCEPT ![p] = None]
      /\ lock' = None
  BY Zenon DEF Return, Goto
<1>4. \A q \in Procs : pc'[q] \notin Held
  BY <1>1, <1>2, <1>3, Zenon DEF TypeOK
<1>5. LockInv'
  BY <1>3, <1>4, NoneAssumption, Zenon DEF LockInv
<1>6. PlanInv'
  BY <1>4, Zenon DEF PlanInv, Planned
<1>7. /\ pc' \in [Procs -> Held \union {"idle", "wait"}]
      /\ req' \in [Procs -> Requests \union {None}]
      /\ plan' \in [Procs -> Decisions \union {None}]
      /\ ret' \in [Procs -> Results]
  BY <1>3, Zenon DEF TypeOK
<1>8. \A q \in Procs : pc'[q] # "idle" => req'[q] \in Requests
  BY <1>3, Zenon DEF TypeOK
<1>9. \A q \in Procs : pc'[q] \in Planned => plan'[q] \in Decisions
  BY <1>4, Zenon DEF Planned
<1>10. QED
  BY <1>3, <1>4, <1>5, <1>6, <1>7, <1>8, <1>9, Zenon

\* A process that goes on in the critical section with its command keeps the
\* lock to itself.
LEMMA GotoLemma ==
  ASSUME TypeOK, LockInv, NEW p \in Procs, pc[p] \in Held,
         NEW l \in Planned, Goto(p, l), plan'[p] \in Decisions,
         plan' \in [Procs -> Decisions \union {None}],
         UNCHANGED <<lock, req, ret>>
  PROVE  /\ LockInv'
         /\ pc'[p] = l
         /\ \A q \in Procs : q # p => pc'[q] \notin Held
         /\ lock' \in Procs \union {None}
         /\ pc' \in [Procs -> Held \union {"idle", "wait"}]
         /\ req' \in [Procs -> Requests \union {None}]
         /\ ret' \in [Procs -> Results]
         /\ \A q \in Procs : pc'[q] # "idle" => req'[q] \in Requests
         /\ \A q \in Procs : pc'[q] \in Planned => plan'[q] \in Decisions
<1>1. \A q \in Procs : q # p => pc[q] \notin Held
  BY Zenon DEF LockInv
<1>2. l \in Held /\ "idle" \notin Held
  BY Zenon DEF Held, Planned
<1>3. pc' = [pc EXCEPT ![p] = l]
  BY Zenon DEF Goto
<1>4. pc'[p] = l /\ \A q \in Procs : q # p => pc'[q] = pc[q]
  BY <1>3, Zenon DEF TypeOK
<1>5. pc' \in [Procs -> Held \union {"idle", "wait"}]
  BY <1>2, <1>3, Zenon DEF TypeOK
<1>6. LockInv'
  BY <1>1, <1>2, <1>4, Zenon DEF LockInv
<1>7. \A q \in Procs : pc'[q] # "idle" => req'[q] \in Requests
  BY <1>2, <1>4, Zenon DEF TypeOK
<1>8. \A q \in Procs : pc'[q] \in Planned => plan'[q] \in Decisions
  BY <1>1, <1>4, Zenon DEF Planned
<1>9. QED
  BY <1>1, <1>4, <1>5, <1>6, <1>7, <1>8, Zenon DEF TypeOK

\* The steps that read, find they cannot go on, and return an error, and the
\* death of the lock holder: no file changes.
LEMMA QuietReturn ==
  ASSUME IInv, NEW p \in Procs, pc[p] \in Held, NEW result \in Results,
         Return(p, result), faults' \in Nat,
         UNCHANGED <<active, stage, decision, done, settled>>
  PROVE  IInv'
<1>1. TypeOK /\ LockInv
  BY Zenon DEF IInv
<1>2. LockInv' /\ PlanInv'
  BY <1>1, ReturnLemma, Zenon
<1>3. TypeOK'
  BY <1>1, ReturnLemma, Zenon DEF TypeOK, Planned
<1>4. JournalInv' /\ DecisionBindsAuthority' /\ ReceiptsEnforced'
  BY Zenon DEF IInv, JournalInv, DecisionBindsAuthority, ReceiptsEnforced,
         ReceiptsTrue, StageHolds
<1>5. QED
  BY <1>2, <1>3, <1>4, Zenon DEF IInv

\* The steps that only change where a process is in its command.
LEMMA BeginPreserves ==
  ASSUME IInv, NEW p \in Procs, NEW r \in Requests, Begin(p, r)
  PROVE  IInv'
<1>1. "wait" \notin Held /\ "idle" \notin Held
  BY Zenon DEF Held
<1>2. TypeOK'
  BY <1>1, Zenon DEF IInv, TypeOK, Begin, Goto, Results, Planned
<1>3. LockInv'
  BY <1>1, Zenon DEF IInv, TypeOK, LockInv, Begin, Goto
<1>4. PlanInv'
  <2> SUFFICES ASSUME NEW q \in Procs, pc'[q] \in Planned
               PROVE  PlanOK(q)'
    BY Zenon DEF PlanInv
  <2>1. q # p /\ pc'[q] = pc[q] /\ req'[q] = req[q]
    BY <1>1, Zenon DEF IInv, TypeOK, Begin, Goto, Planned
  <2>2. PlanOK(q)
    BY <2>1, Zenon DEF IInv, PlanInv
  <2>3. QED
    BY <2>1, <2>2, Zenon DEF PlanOK, Begin, IsPure, Settled, StageHolds
<1>5. JournalInv' /\ DecisionBindsAuthority' /\ ReceiptsEnforced'
  BY Zenon DEF IInv, JournalInv, DecisionBindsAuthority, ReceiptsEnforced,
         ReceiptsTrue, StageHolds, Begin
<1>6. QED
  BY <1>2, <1>3, <1>4, <1>5, Zenon DEF IInv

\* Taking the lock: whoever takes it is alone in the critical section.
LEMMA AcquirePreserves ==
  ASSUME IInv, NEW p \in Procs, Acquire(p)
  PROVE  IInv'
<1>1. "wait" \notin Held /\ "read" \in Held /\ "read" \notin Planned
  BY Zenon DEF Held, Planned
<1>2. TypeOK'
  BY <1>1, Zenon DEF IInv, TypeOK, Acquire, Goto, Planned
<1>3. \A q \in Procs : pc[q] \notin Held
  BY NoneAssumption, Zenon DEF IInv, LockInv, Acquire
<1>4. LockInv'
  BY <1>1, <1>3, Zenon DEF IInv, TypeOK, LockInv, Acquire, Goto
<1>5. PlanInv'
  BY <1>1, <1>3, Zenon DEF IInv, TypeOK, PlanInv, Acquire, Goto, Planned
<1>6. JournalInv' /\ DecisionBindsAuthority' /\ ReceiptsEnforced'
  BY Zenon DEF IInv, JournalInv, DecisionBindsAuthority, ReceiptsEnforced,
         ReceiptsTrue, StageHolds, Acquire
<1>7. QED
  BY <1>2, <1>4, <1>5, <1>6, Zenon DEF IInv

\* In a plan built from the published collection, what is promised and typed.
LEMMA FreshPlan ==
  ASSUME TypeOK, NEW r \in Requests
  PROVE  [req |-> r, prev |-> active, final |-> FALSE,
          next |-> NextCollection(active, r)] \in Decisions
BY NextCollectionType, Zenon DEF TypeOK, Decisions

\* mutateWithFence plans only while no decision is active.
LEMMA PlanPurePreserves ==
  ASSUME IInv, NEW p \in Procs, PlanPure(p)
  PROVE  IInv'
<1> DEFINE d == [req |-> req[p], prev |-> active, final |-> FALSE,
                 next |-> NextCollection(active, req[p])]
<1>1. TypeOK /\ LockInv /\ pc[p] \in Held /\ "point" \in Planned
  BY Zenon DEF IInv, PlanPure, Held, Planned
<1>2. req[p] \in Requests
  BY Zenon DEF IInv, TypeOK, PlanPure
<1>3. d \in Decisions
  BY <1>1, <1>2, FreshPlan, Zenon
<1>4. plan' = [plan EXCEPT ![p] = d] /\ Goto(p, "point")
  BY Zenon DEF PlanPure
<1>5. plan' \in [Procs -> Decisions \union {None}] /\ plan'[p] = d
  BY <1>1, <1>3, <1>4, Zenon DEF TypeOK
<1>6. UNCHANGED <<lock, active, stage, decision, done, settled, req, ret, faults>>
  BY Zenon DEF PlanPure
<1>7. /\ LockInv' /\ pc'[p] = "point"
      /\ \A q \in Procs : q # p => pc'[q] \notin Held
  BY <1>1, <1>3, <1>4, <1>5, <1>6, GotoLemma, Zenon
<1>8. TypeOK'
  BY <1>1, <1>3, <1>4, <1>5, <1>6, GotoLemma, Zenon DEF TypeOK, Planned
<1>9. PlanOK(p)'
  BY <1>5, <1>6, <1>7, Zenon DEF PlanOK, PlanPure, IsPure, Settled
<1>10. PlanInv'
  BY <1>7, <1>9, Zenon DEF PlanInv, Planned
<1>11. JournalInv' /\ DecisionBindsAuthority' /\ ReceiptsEnforced'
  BY <1>6, Zenon DEF IInv, JournalInv, DecisionBindsAuthority, ReceiptsEnforced,
         ReceiptsTrue, StageHolds
<1>12. QED
  BY <1>7, <1>8, <1>10, <1>11, Zenon DEF IInv

\* effectfulMutate plans afresh only while no decision is active.
LEMMA PlanEffectPreserves ==
  ASSUME IInv, NEW p \in Procs, PlanEffect(p)
  PROVE  IInv'
<1> DEFINE d == [req |-> req[p], prev |-> active, final |-> FALSE,
                 next |-> NextCollection(active, req[p])]
           l == IF NextCollection(active, req[p]) = active THEN "decide" ELSE "stage"
<1>1. TypeOK /\ LockInv /\ pc[p] \in Held /\ l \in Planned
  BY Zenon DEF IInv, PlanEffect, Held, Planned
<1>2. req[p] \in Requests
  BY Zenon DEF IInv, TypeOK, PlanEffect
<1>3. d \in Decisions
  BY <1>1, <1>2, FreshPlan, Zenon
<1>4. plan' = [plan EXCEPT ![p] = d] /\ Goto(p, l)
  BY Zenon DEF PlanEffect
<1>5. plan' \in [Procs -> Decisions \union {None}] /\ plan'[p] = d
  BY <1>1, <1>3, <1>4, Zenon DEF TypeOK
<1>6. UNCHANGED <<lock, active, stage, decision, done, settled, req, ret, faults>>
  BY Zenon DEF PlanEffect
<1>7. /\ LockInv' /\ pc'[p] = l
      /\ \A q \in Procs : q # p => pc'[q] \notin Held
  BY <1>1, <1>3, <1>4, <1>5, <1>6, GotoLemma, Zenon
<1>8. TypeOK'
  BY <1>1, <1>3, <1>4, <1>5, <1>6, GotoLemma, Zenon DEF TypeOK, Planned
<1>9. PlanOK(p)'
  BY <1>5, <1>6, <1>7, Zenon DEF PlanOK, PlanEffect, IsPure, Settled, NoEnvelope
<1>10. PlanInv'
  BY <1>7, <1>9, Zenon DEF PlanInv, Planned
<1>11. JournalInv' /\ DecisionBindsAuthority' /\ ReceiptsEnforced'
  BY <1>6, Zenon DEF IInv, JournalInv, DecisionBindsAuthority, ReceiptsEnforced,
         ReceiptsTrue, StageHolds
<1>12. QED
  BY <1>7, <1>8, <1>10, <1>11, Zenon DEF IInv

\* Recovery takes the decision for its plan.
LEMMA ResumePreserves ==
  ASSUME IInv, NEW p \in Procs, Resume(p) \/ RecoverPublished(p)
  PROVE  IInv'
<1>1. TypeOK /\ LockInv /\ pc[p] \in Held /\ pc[p] = "read"
  BY Zenon DEF IInv, Resume, RecoverPublished, Held
<1>2. UNCHANGED <<active, stage, decision, done, settled, faults>>
  BY Zenon DEF Resume, RecoverPublished
<1>3. CASE Return(p, "error")
  BY <1>1, <1>2, <1>3, QuietReturn, Zenon DEF Results, IInv, TypeOK
<1>4. CASE ~Return(p, "error")
  <2> DEFINE l == IF active = decision.next /\ ~NoEnvelope(decision) THEN "clear" ELSE "effect"
  <2>1. /\ decision \in Decisions /\ decision # None /\ decision.req = req[p]
        /\ plan' = [plan EXCEPT ![p] = decision]
        /\ Goto(p, l) /\ UNCHANGED <<lock, req, ret>> /\ ~IsPure(p)
    BY <1>4, Zenon DEF Resume, RecoverPublished, IInv, TypeOK
  <2>2. plan' \in [Procs -> Decisions \union {None}] /\ plan'[p] = decision
    BY <1>1, <2>1, Zenon DEF TypeOK
  <2>3. l \in Planned
    BY Zenon DEF Planned, Held
  <2>4. /\ LockInv' /\ pc'[p] = l
        /\ \A q \in Procs : q # p => pc'[q] \notin Held
    BY <1>1, <2>1, <2>2, <2>3, GotoLemma, Zenon
  <2>5. TypeOK'
    BY <1>1, <1>2, <2>1, <2>2, <2>3, GotoLemma, Zenon DEF TypeOK, Planned
  <2>6. PlanOK(p)'
    <3>1. CASE l = "clear"
      <4>1. /\ settled = decision.next.mem
            /\ decision.req.kind \in FinalizedKinds => decision.final
        BY <2>1, <3>1, Zenon DEF IInv, DecisionBindsAuthority
      <4>2. decision.next = NextCollection(decision.prev, decision.req)
        BY <2>1, Zenon DEF IInv, JournalInv
      <4>3. QED
        BY <1>2, <2>1, <2>2, <2>4, <3>1, <4>1, <4>2, Zenon DEF PlanOK, IsPure, Settled
    <3>2. CASE l = "effect"
      <4>1. Resumable(p)
        BY <1>4, <2>1, <3>2, Zenon DEF Resume, RecoverPublished
      <4>2. QED
        BY <1>2, <2>1, <2>2, <2>4, <3>2, <4>1, Zenon
           DEF PlanOK, IsPure, Settled, Resumable, StageHolds
    <3>3. QED
      BY <3>1, <3>2, Zenon
  <2>7. PlanInv'
    BY <2>4, <2>6, Zenon DEF PlanInv, Planned
  <2>8. JournalInv' /\ DecisionBindsAuthority' /\ ReceiptsEnforced'
    BY <1>2, Zenon DEF IInv, JournalInv, DecisionBindsAuthority, ReceiptsEnforced,
           ReceiptsTrue, StageHolds
  <2>9. QED
    BY <2>4, <2>5, <2>7, <2>8, Zenon DEF IInv
<1>5. QED
  BY <1>3, <1>4, Zenon

\* A step that keeps the plan: the process is still alone, its plan is typed,
\* and the plan invariant is its own.
LEMMA Advance ==
  ASSUME IInv, NEW p \in Procs, pc[p] \in Planned, NEW l \in Planned, Goto(p, l),
         UNCHANGED <<lock, req, plan, ret>>,
         active' \in Collections, stage' \in StageFiles \union {None},
         decision' \in Decisions \union {None}, done' \in Decisions \union {None},
         settled' \in [Contexts -> Nat], faults' \in Nat
  PROVE  /\ TypeOK' /\ LockInv' /\ pc'[p] = l
         /\ plan[p] \in Decisions /\ plan[p].next \in Collections
         /\ req[p] \in Requests /\ PlanOK(p)
         /\ PlanOK(p)' => PlanInv'
<1>1. TypeOK /\ LockInv /\ pc[p] \in Held
  BY Zenon DEF IInv, Planned
<1>2. plan[p] \in Decisions /\ plan'[p] = plan[p] /\ req[p] \in Requests
  BY <1>1, Zenon DEF TypeOK, Planned, Held
<1>3. plan' \in [Procs -> Decisions \union {None}]
  BY <1>1, Zenon DEF TypeOK
<1>4. /\ LockInv' /\ pc'[p] = l
      /\ \A q \in Procs : q # p => pc'[q] \notin Held
  BY <1>1, <1>2, <1>3, GotoLemma, Zenon
<1>5. TypeOK'
  BY <1>1, <1>2, <1>3, GotoLemma, Zenon DEF TypeOK, Planned
<1>6. PlanOK(p)' => PlanInv'
  BY <1>4, Zenon DEF PlanInv, Planned
<1>7. PlanOK(p)
  BY Zenon DEF IInv, PlanInv
<1>8. plan[p].next \in Collections
  BY <1>2, Zenon DEF Decisions
<1>9. QED
  BY <1>2, <1>4, <1>5, <1>6, <1>7, <1>8, Zenon

\* Writing the stage: no decision is active yet.
LEMMA StagePreserves ==
  ASSUME IInv, NEW p \in Procs, TruncateStage(p) \/ WriteStage(p)
  PROVE  IInv'
<1> DEFINE l == IF pc[p] = "stage" THEN "write" ELSE "decide"
<1>1. /\ pc[p] \in {"stage", "write"} /\ pc[p] \in Planned /\ l \in Planned
      /\ Goto(p, l) /\ stage'.of = plan[p].next
      /\ pc[p] = "write" => stage'.form = "collection"
      /\ UNCHANGED <<lock, active, decision, done, settled, req, plan, ret, faults>>
  BY DEF TruncateStage, WriteStage, Planned, Held
<1>2. plan[p] \in Decisions /\ plan[p].next \in Collections
  BY <1>1, Zenon DEF IInv, TypeOK, Planned, Decisions
<1>3. stage' \in StageFiles
  BY <1>2, SMTT(40) DEF TruncateStage, WriteStage, StageFiles
<1>4. /\ TypeOK' /\ LockInv' /\ pc'[p] = l /\ PlanOK(p)
      /\ PlanOK(p)' => PlanInv'
  BY <1>1, <1>3, Advance, ZenonT(60) DEF IInv, TypeOK
<1>5. decision = None
  BY <1>1, <1>4, Zenon DEF PlanOK
<1>6. StageHolds(plan[p].next)' \/ pc[p] = "stage"
  BY <1>1, <1>3, NoneAssumption, ZenonT(60) DEF StageHolds
<1>7. PlanOK(p)'
  BY <1>1, <1>4, <1>5, <1>6, ZenonT(60) DEF PlanOK, IsPure, Settled, StageHolds
<1>8. JournalInv' /\ DecisionBindsAuthority' /\ ReceiptsEnforced'
  BY <1>1, <1>5, Zenon DEF IInv, JournalInv, DecisionBindsAuthority, ReceiptsEnforced,
                    ReceiptsTrue
<1>9. QED
  BY <1>4, <1>7, <1>8, Zenon DEF IInv

\* writeEffectDecision: the plan becomes the decision, its stage already holds.
LEMMA WriteDecisionPreserves ==
  ASSUME IInv, NEW p \in Procs, WriteDecision(p)
  PROVE  IInv'
<1>1. /\ pc[p] = "decide" /\ pc[p] \in Planned /\ "effect" \in Planned
      /\ Goto(p, "effect") /\ decision' = plan[p]
      /\ UNCHANGED <<lock, active, stage, done, settled, req, plan, ret, faults>>
  BY Zenon DEF WriteDecision, Planned, Held
<1>2. plan[p] \in Decisions
  BY <1>1, Zenon DEF IInv, TypeOK, Planned
<1>3. /\ TypeOK' /\ LockInv' /\ pc'[p] = "effect" /\ PlanOK(p)
      /\ PlanOK(p)' => PlanInv'
  BY <1>1, <1>2, Advance, ZenonT(60) DEF IInv, TypeOK
<1>4. decision = None /\ active = plan[p].prev /\ ~IsPure(p)
  BY <1>1, <1>3, ZenonT(60) DEF PlanOK
<1>5. PlanOK(p)'
  BY <1>1, <1>3, <1>4, ZenonT(60) DEF PlanOK, IsPure, Settled, StageHolds
<1>6. JournalInv'
  BY <1>1, <1>3, <1>4, ZenonT(60) DEF IInv, JournalInv, PlanOK, IsPure, StageHolds
<1>7. DecisionBindsAuthority'
  BY <1>1, <1>4, Zenon DEF DecisionBindsAuthority, NoEnvelope
<1>8. ReceiptsEnforced'
  BY <1>1, <1>4, Zenon DEF IInv, ReceiptsEnforced, ReceiptsTrue
<1>9. QED
  BY <1>3, <1>5, <1>6, <1>7, <1>8, Zenon DEF IInv

\* The effect: Gateway and OPA move while the decision still binds the
\* published collection to its previous side.
LEMMA EffectPreserves ==
  ASSUME IInv, NEW p \in Procs, Effect(p)
  PROVE  IInv'
<1> DEFINE l == IF /\ req[p].kind \in FinalizedKinds
                   /\ ~(req[p].kind = "reviewed" /\ plan[p].final)
                THEN "finalize" ELSE AfterEffect(plan[p])
<1>1. /\ pc[p] = "effect" /\ pc[p] \in Planned /\ l \in Planned
      /\ Goto(p, l) /\ settled' = plan[p].next.mem
      /\ UNCHANGED <<lock, active, stage, decision, done, req, plan, ret, faults>>
  BY Zenon DEF Effect, Planned, Held, AfterEffect
<1>2. plan[p] \in Decisions /\ plan[p].next \in Collections
  BY <1>1, ZenonT(60) DEF IInv, TypeOK, Planned, Decisions
<1>3. settled' \in [Contexts -> Nat]
  BY <1>1, <1>2, ZenonT(60) DEF Collections
<1>4. /\ TypeOK' /\ LockInv' /\ pc'[p] = l /\ PlanOK(p)
      /\ PlanOK(p)' => PlanInv'
  BY <1>1, <1>3, Advance, ZenonT(60) DEF IInv, TypeOK
<1>5. decision = plan[p] /\ active = plan[p].prev /\ ~IsPure(p) /\ decision # None
  BY <1>1, <1>2, <1>4, NoneAssumption, ZenonT(60) DEF PlanOK
<1>6. PlanOK(p)'
  BY <1>1, <1>4, <1>5, ZenonT(60)
     DEF PlanOK, IsPure, Settled, StageHolds, AfterEffect, NoEnvelope, FinalizedKinds
<1>7. JournalInv'
  BY <1>1, <1>4, <1>5, ZenonT(60) DEF IInv, JournalInv, PlanOK, StageHolds
<1>8. DecisionBindsAuthority'
  BY <1>1, <1>5, Zenon DEF DecisionBindsAuthority, NoEnvelope
<1>9. ReceiptsEnforced'
  BY <1>1, <1>5, Zenon DEF ReceiptsEnforced, ReceiptsTrue
<1>10. QED
  BY <1>4, <1>6, <1>7, <1>8, <1>9, Zenon DEF IInv

\* A failing effect leaves Gateway and OPA fenced or at the decision's
\* collection, which is what an active decision excuses.
LEMMA EffectFailsPreserves ==
  ASSUME IInv, NEW p \in Procs, EffectFails(p)
  PROVE  IInv'
<1>1. /\ pc[p] = "effect" /\ pc[p] \in Planned /\ pc[p] \in Held
      /\ settled' \in {NoReceipts, plan[p].next.mem} /\ faults' = faults + 1
      /\ Return(p, "error")
      /\ UNCHANGED <<active, stage, decision, done>>
  BY Zenon DEF EffectFails, Planned, Held
<1>2. plan[p] \in Decisions /\ plan[p].next \in Collections
  BY <1>1, Zenon DEF IInv, TypeOK, Planned, Decisions
<1>3. settled' \in [Contexts -> Nat] /\ "error" \in Results
  BY <1>1, <1>2 DEF Collections, NoReceipts, Results
<1>4. TypeOK /\ LockInv /\ PlanOK(p)
  BY <1>1, Zenon DEF IInv, PlanInv
<1>5. LockInv' /\ PlanInv'
  BY <1>1, <1>3, <1>4, ReturnLemma, ZenonT(60)
<1>6. TypeOK'
  <2>1. faults' \in Nat
    BY <1>1, <1>4 DEF TypeOK
  <2>2. QED
    BY <1>1, <1>3, <1>4, <2>1, ReturnLemma, ZenonT(60) DEF TypeOK, Planned
<1>7. decision = plan[p] /\ active = plan[p].prev /\ decision # None
  BY <1>1, <1>2, <1>4, NoneAssumption, ZenonT(60) DEF PlanOK
<1>8. JournalInv'
  BY <1>1, <1>4, <1>7, Zenon DEF IInv, JournalInv, PlanOK, StageHolds
<1>9. DecisionBindsAuthority'
  BY <1>1, <1>7, Zenon DEF DecisionBindsAuthority, NoEnvelope
<1>10. ReceiptsEnforced'
  BY <1>1, <1>7, Zenon DEF ReceiptsEnforced, ReceiptsTrue
<1>11. QED
  BY <1>5, <1>6, <1>8, <1>9, <1>10, Zenon DEF IInv

\* replaceEffectDecision records the result in the same transition.
LEMMA FinalizePreserves ==
  ASSUME IInv, NEW p \in Procs, Finalize(p)
  PROVE  IInv'
<1> DEFINE d == [plan[p] EXCEPT !.final = TRUE]
           l == AfterEffect(plan[p])
<1>1. /\ pc[p] = "finalize" /\ pc[p] \in Planned /\ pc[p] \in Held
      /\ l \in Planned /\ l \in {"clear", "unstage"} /\ Goto(p, l)
      /\ decision' = d /\ plan' = [plan EXCEPT ![p] = d]
      /\ UNCHANGED <<lock, active, stage, done, settled, req, ret, faults>>
  BY Zenon DEF Finalize, Planned, Held, AfterEffect
<1>2. plan[p] \in Decisions /\ TypeOK /\ LockInv /\ PlanOK(p)
  BY <1>1, Zenon DEF IInv, TypeOK, Planned, PlanInv
<1>3. /\ d \in Decisions /\ d.req = plan[p].req /\ d.prev = plan[p].prev
      /\ d.next = plan[p].next /\ d.final = TRUE
  BY <1>2, Zenon DEF Decisions
<1>4. plan' \in [Procs -> Decisions \union {None}] /\ plan'[p] = d
  BY <1>1, <1>2, <1>3, Zenon DEF TypeOK
<1>5. /\ LockInv' /\ pc'[p] = l
      /\ \A q \in Procs : q # p => pc'[q] \notin Held
  BY <1>1, <1>2, <1>3, <1>4, GotoLemma, Zenon
<1>6. TypeOK'
  BY <1>1, <1>2, <1>3, <1>4, GotoLemma, Zenon DEF TypeOK, Planned
<1>7. /\ decision = plan[p] /\ active = plan[p].prev /\ ~IsPure(p) /\ decision # None
      /\ settled = plan[p].next.mem /\ plan[p].req = req[p]
      /\ plan[p].next = NextCollection(plan[p].prev, req[p])
      /\ ~NoEnvelope(plan[p]) => StageHolds(plan[p].next)
  BY <1>1, <1>2, NoneAssumption, Zenon DEF PlanOK, Settled
<1>8. PlanOK(p)'
  BY <1>1, <1>3, <1>4, <1>5, <1>7, Zenon DEF PlanOK, IsPure, Settled, StageHolds, AfterEffect,
                                      NoEnvelope
<1>9. PlanInv'
  BY <1>5, <1>8, Zenon DEF PlanInv, Planned
<1>10. JournalInv'
  BY <1>1, <1>2, <1>3, <1>7, Zenon DEF IInv, JournalInv, IsPure, NoEnvelope, StageHolds
<1>11. DecisionBindsAuthority'
  BY <1>1, <1>3, <1>7, Zenon DEF DecisionBindsAuthority, NoEnvelope
<1>12. ReceiptsEnforced'
  BY <1>1, <1>3, <1>7, NoneAssumption, Zenon DEF ReceiptsEnforced, ReceiptsTrue
<1>13. QED
  BY <1>5, <1>6, <1>9, <1>10, <1>11, <1>12, Zenon DEF IInv

\* Removing the stage loses it only after Gateway and OPA took the decision.
LEMMA PointerPreserves ==
  ASSUME IInv, NEW p \in Procs,
         RemoveStage(p) \/ TruncatePointer(p) \/ WritePointer(p)
  PROVE  IInv'
<1> DEFINE l == CASE pc[p] = "unstage" -> "point"
                  [] pc[p] = "point"   -> "pointer"
                  [] OTHER             -> "rename"
<1>1. /\ pc[p] \in {"unstage", "point", "pointer"} /\ pc[p] \in Planned
      /\ l \in {"point", "pointer", "rename"} /\ l \in Planned /\ Goto(p, l)
      /\ UNCHANGED <<lock, active, decision, done, settled, req, plan, ret, faults>>
  BY Zenon DEF RemoveStage, TruncatePointer, WritePointer, Planned, Held
<1>2. plan[p] \in Decisions /\ plan[p].next \in Collections
  BY <1>1, Zenon DEF IInv, TypeOK, Planned, Decisions
<1>3. /\ stage' \in StageFiles \union {None}
      /\ l = "rename" => stage' # None /\ stage'.of = plan[p].next
  BY <1>1, <1>2, NoneAssumption DEF RemoveStage, TruncatePointer, WritePointer, StageFiles
<1>4. /\ TypeOK' /\ LockInv' /\ pc'[p] = l /\ PlanOK(p)
      /\ PlanOK(p)' => PlanInv'
  BY <1>1, <1>3, Advance DEF IInv, TypeOK
<1>5. PlanOK(p)'
  BY <1>1, <1>3, <1>4, Zenon DEF PlanOK, IsPure, Settled, StageHolds
<1>6. decision = None \/ settled = decision.next.mem
  BY <1>1, <1>4, Zenon DEF PlanOK, Settled
<1>7. JournalInv'
  BY <1>1, <1>6, Zenon DEF IInv, JournalInv
<1>8. DecisionBindsAuthority' /\ ReceiptsEnforced'
  BY <1>1, Zenon DEF IInv, DecisionBindsAuthority, ReceiptsEnforced, ReceiptsTrue
<1>9. QED
  BY <1>4, <1>5, <1>7, <1>8, Zenon DEF IInv

\* Publication: a pure command publishes no new receipt, an effectful one
\* publishes the receipts Gateway and OPA already enforce.
LEMMA RenamePreserves ==
  ASSUME IInv, NEW p \in Procs, RenamePointer(p)
  PROVE  IInv'
<1>1. /\ pc[p] = "rename" /\ pc[p] \in Planned /\ pc[p] \in Held
      /\ active' = stage.of /\ stage' = None
      /\ UNCHANGED <<decision, done, settled, faults>>
  BY Zenon DEF RenamePointer, Planned, Held
<1>2. /\ TypeOK /\ LockInv /\ PlanOK(p) /\ plan[p] \in Decisions
      /\ plan[p].prev \in Collections /\ plan[p].next \in Collections
      /\ req[p] \in Requests
  BY <1>1, ZenonT(60) DEF IInv, TypeOK, Planned, PlanInv, Decisions
<1>3. /\ active' = plan[p].next /\ active = plan[p].prev
      /\ plan[p].next = NextCollection(active, req[p])
      /\ plan[p].req = req[p]
  BY <1>1, <1>2, Zenon DEF PlanOK
<1>4. CASE IsPure(p)
  <2>1. Return(p, "ok") /\ "ok" \in Results /\ decision = None
    BY <1>1, <1>2, <1>4, Zenon DEF RenamePointer, Results, PlanOK
  <2>2. LockInv' /\ PlanInv'
    BY <1>1, <1>2, <2>1, ReturnLemma, ZenonT(60)
  <2>3. TypeOK'
    BY <1>1, <1>2, <1>3, <2>1, ReturnLemma, ZenonT(60) DEF TypeOK, Planned
  <2>4. JournalInv' /\ DecisionBindsAuthority'
    BY <1>1, <2>1, Zenon DEF IInv, JournalInv, DecisionBindsAuthority
  <2>5. \A x \in Contexts : active'.mem[x] \in {active.mem[x], 0}
    BY <1>2, <1>3, <1>4, PureKeepsReceipts, Zenon DEF IsPure
  <2>6. ReceiptsEnforced'
    BY <1>1, <2>1, <2>5, Zenon DEF IInv, ReceiptsEnforced, ReceiptsTrue
  <2>7. QED
    BY <2>2, <2>3, <2>4, <2>6, Zenon DEF IInv
<1>5. CASE ~IsPure(p)
  <2>1. /\ Goto(p, "clear") /\ "clear" \in Planned
        /\ UNCHANGED <<lock, req, plan, ret>>
    BY <1>5, ZenonT(60) DEF RenamePointer, Planned, Held
  <2>2. /\ TypeOK' /\ LockInv' /\ pc'[p] = "clear"
        /\ PlanOK(p)' => PlanInv'
    BY <1>1, <1>2, <1>3, <2>1, Advance, ZenonT(60) DEF TypeOK
  <2>3. /\ decision = plan[p] /\ decision # None /\ settled = plan[p].next.mem
        /\ req[p].kind \in FinalizedKinds => plan[p].final
        /\ ~NoEnvelope(plan[p])
    BY <1>1, <1>2, <1>5, NoneAssumption, ZenonT(60) DEF PlanOK, Settled
  <2>4. PlanOK(p)'
    BY <1>1, <1>2, <1>3, <1>5, <2>1, <2>2, <2>3, ZenonT(60) DEF PlanOK, IsPure, Settled
  <2>5. JournalInv' /\ DecisionBindsAuthority'
    BY <1>1, <1>3, <2>3, ZenonT(60) DEF IInv, JournalInv, DecisionBindsAuthority, NoEnvelope
  <2>6. ReceiptsEnforced'
    BY <1>1, <1>3, <2>3, Zenon DEF ReceiptsEnforced, ReceiptsTrue
  <2>7. QED
    BY <2>2, <2>4, <2>5, <2>6, Zenon DEF IInv
<1>6. QED
  BY <1>4, <1>5, Zenon

\* Retiring the decision: it is published and enforced.
LEMMA ClearPreserves ==
  ASSUME IInv, NEW p \in Procs, ClearDecision(p)
  PROVE  IInv'
<1>1. /\ pc[p] = "clear" /\ pc[p] \in Planned /\ pc[p] \in Held
      /\ done' = decision /\ decision' = None /\ Return(p, "ok")
      /\ "ok" \in Results
      /\ UNCHANGED <<active, stage, settled, faults>>
  BY Zenon DEF ClearDecision, Planned, Held, Results
<1>2. /\ TypeOK /\ LockInv /\ PlanOK(p) /\ plan[p] \in Decisions
  BY <1>1, Zenon DEF IInv, TypeOK, Planned, PlanInv
<1>3. /\ decision = plan[p] /\ decision # None
      /\ active = decision.next /\ settled = decision.next.mem
  BY <1>1, <1>2, NoneAssumption, Zenon DEF PlanOK, Settled
<1>4. LockInv' /\ PlanInv'
  BY <1>1, <1>2, ReturnLemma, Zenon
<1>5. TypeOK'
  BY <1>1, <1>2, ReturnLemma, ZenonT(60) DEF TypeOK, Planned
<1>6. JournalInv'
  BY <1>1, <1>3, Zenon DEF IInv, JournalInv
<1>7. DecisionBindsAuthority'
  BY <1>1, Zenon DEF DecisionBindsAuthority
<1>8. ReceiptsEnforced'
  BY <1>1, <1>3, Zenon DEF ReceiptsEnforced, ReceiptsTrue
<1>9. QED
  BY <1>4, <1>5, <1>6, <1>7, <1>8, Zenon DEF IInv

-----------------------------------------------------------------------------
(***************************************************************************)
(* The invariant holds in every reachable state.                             *)
(***************************************************************************)
\* A store whose first collection has no receipts and no journal.
LEMMA InitIInv == Init => IInv
<1> SUFFICES ASSUME Init PROVE IInv
  BY Zenon
<1>1. "idle" \notin Held
  BY Zenon DEF Held
<1>2. active \in Collections /\ settled \in [Contexts -> Nat]
  BY Zenon DEF Init, Collections, NoReceipts
<1>3. TypeOK
  BY <1>1, <1>2, Zenon DEF Init, TypeOK, Results
<1>4. LockInv
  BY <1>1, NoneAssumption, Zenon DEF Init, LockInv
<1>5. PlanInv
  BY <1>1, Zenon DEF Init, PlanInv, Planned
<1>6. JournalInv /\ DecisionBindsAuthority /\ ReceiptsEnforced
  BY Zenon DEF Init, JournalInv, DecisionBindsAuthority, ReceiptsEnforced, ReceiptsTrue, NoReceipts
<1>7. QED
  BY <1>3, <1>4, <1>5, <1>6, Zenon DEF IInv

\* Every step of every process preserves the invariant.
LEMMA NextIInv == IInv /\ [Next]_vars => IInv'
<1> SUFFICES ASSUME IInv, [Next]_vars PROVE IInv'
  BY Zenon
<1>1. CASE UNCHANGED vars
  BY <1>1, SMTT(40) DEF vars, IInv, TypeOK, LockInv, PlanInv, PlanOK, IsPure, Settled, JournalInv,
              StageHolds, DecisionBindsAuthority, ReceiptsEnforced, ReceiptsTrue
<1>2. ASSUME NEW p \in Procs, NEW r \in Requests, Begin(p, r) PROVE IInv'
  BY <1>2, BeginPreserves, Zenon
<1>3. ASSUME NEW p \in Procs, Acquire(p) PROVE IInv'
  BY <1>3, AcquirePreserves, Zenon
<1>4. ASSUME NEW p \in Procs, Abort(p) PROVE IInv'
  <2>1. /\ pc[p] \in Held /\ Return(p, "error") /\ "error" \in Results
        /\ faults' \in Nat
        /\ UNCHANGED <<active, stage, decision, done, settled>>
    BY <1>4 DEF Abort, Results, IInv, TypeOK
  <2>2. QED
    BY <2>1, QuietReturn, Zenon
<1>5. ASSUME NEW p \in Procs,
             \/ RefuseForeign(p) \/ ReplayTerminal(p)
             \/ PlanRefused(p) \/ EffectRefused(p)
      PROVE IInv'
  <2>1. /\ pc[p] \in Held /\ "error" \in Results /\ "ok" \in Results
        /\ Return(p, "error") \/ Return(p, "ok")
        /\ UNCHANGED <<active, stage, decision, done, settled, faults>>
    BY <1>5, ZenonT(30) DEF RefuseForeign, ReplayTerminal, PlanRefused, EffectRefused, Results, Held
  <2>2. faults' \in Nat
    BY <2>1, Zenon DEF IInv, TypeOK
  <2>3. QED
    BY <2>1, <2>2, QuietReturn, ZenonT(60)
<1>6. ASSUME NEW p \in Procs, Step(p) PROVE IInv'
  BY <1>5, <1>6, PlanPurePreserves, PlanEffectPreserves, ResumePreserves, StagePreserves,
     WriteDecisionPreserves, EffectPreserves, FinalizePreserves, PointerPreserves,
     RenamePreserves, ClearPreserves, Zenon DEF Step
<1>7. ASSUME NEW p \in Procs, EffectFails(p) PROVE IInv'
  BY <1>7, EffectFailsPreserves, Zenon
<1>8. QED
  BY <1>1, <1>2, <1>3, <1>4, <1>6, <1>7, Zenon DEF Next

\* The inductive invariant of the mutation protocol (effectfulMutate and
\* mutateWithFence under the lifecycle lock, any number of processes, deaths
\* and retries) holds in every reachable state.
THEOREM InvariantHolds == Spec => []IInv
<1>1. QED
  BY InitIInv, NextIInv, PTL DEF Spec

\* Every variable keeps its type.
THEOREM TypeCorrect == Spec => []TypeOK
<1>1. IInv => TypeOK
  BY Zenon DEF IInv
<1>2. QED
  BY <1>1, InvariantHolds, PTL

\* The receipts active.json publishes are true of Gateway and OPA, unless an
\* active decision says what else they may be.
THEOREM ReceiptsAreEnforced == Spec => []ReceiptsEnforced
<1>1. IInv => ReceiptsEnforced
  BY Zenon DEF IInv
<1>2. QED
  BY <1>1, InvariantHolds, PTL

\* An active decision binds what is published, and its collection is published
\* only when it is enforced and recorded as final.
THEOREM DecisionsBind == Spec => []DecisionBindsAuthority
<1>1. IInv => DecisionBindsAuthority
  BY Zenon DEF IInv
<1>2. QED
  BY <1>1, InvariantHolds, PTL

\* publishPreparedEffect removes the stage only behind a settled effect.
THEOREM StageIsLostOnlyWhenSettled == Spec => []StageLostOnlyWhenSettled
<1>1. IInv => StageLostOnlyWhenSettled
  BY Zenon DEF IInv, JournalInv, StageLostOnlyWhenSettled, StageLost
<1>2. QED
  BY <1>1, InvariantHolds, PTL

-----------------------------------------------------------------------------
(***************************************************************************)
(* What a step may do.                                                       *)
(***************************************************************************)

\* The steps that change the published collection, the decision or what is
\* enforced, and what each of them knows.
LEMMA StepEffects ==
  ASSUME IInv, [Next]_vars
  PROVE  \/ UNCHANGED <<active, decision, settled>>
         \/ /\ decision = None /\ active'.gen = active.gen + 1
            /\ \A x \in Contexts : active'.mem[x] \in {active.mem[x], 0}
            /\ UNCHANGED <<decision, settled>>
         \/ /\ decision = None /\ decision' # None /\ decision'.prev = active
            /\ decision'.next = active \/ decision'.next.gen = active.gen + 1
            /\ UNCHANGED <<active, settled>>
         \/ /\ decision # None /\ decision' # None
            /\ decision'.prev = decision.prev /\ decision'.next = decision.next
            /\ UNCHANGED <<active, settled>>
         \/ /\ decision # None /\ active = decision.prev
            /\ settled' \in {NoReceipts, decision.next.mem}
            /\ UNCHANGED <<active, decision>>
         \/ /\ decision # None /\ active = decision.prev /\ settled = decision.next.mem
            /\ active' = decision.next /\ decision.next.gen = active.gen + 1
            /\ UNCHANGED <<decision, settled>>
         \/ /\ decision # None /\ active = decision.next /\ settled = decision.next.mem
            /\ decision' = None
            /\ UNCHANGED <<active, settled>>
<1>1. CASE UNCHANGED vars
  BY <1>1, Zenon DEF vars
<1>2. ASSUME NEW p \in Procs, pc[p] \in Planned
      PROVE  /\ PlanOK(p) /\ plan[p] \in Decisions /\ plan[p] # None
             /\ req[p] \in Requests
             /\ plan[p].prev \in Collections /\ plan[p].next \in Collections
             /\ \/ plan[p].next = plan[p].prev
                \/ plan[p].next.gen = plan[p].prev.gen + 1
  <2>1. PlanOK(p) /\ plan[p] \in Decisions /\ req[p] \in Requests
    BY <1>2, Zenon DEF IInv, PlanInv, TypeOK, Planned, Held
  <2>2. plan[p].prev \in Collections /\ plan[p].next \in Collections
    BY <2>1, Zenon DEF Decisions
  <2>3. plan[p].next = NextCollection(plan[p].prev, req[p])
    BY <2>1, ZenonT(60) DEF PlanOK
  <2>4. QED
    BY <2>1, <2>2, <2>3, NextCollectionGen, NoneAssumption, Zenon
<1>3. ASSUME NEW p \in Procs,
             \/ \E r \in Requests : Begin(p, r)
             \/ Acquire(p) \/ Abort(p) \/ RefuseForeign(p) \/ PlanPure(p)
             \/ ReplayTerminal(p) \/ RecoverPublished(p) \/ Resume(p) \/ PlanEffect(p)
             \/ PlanRefused(p) \/ TruncateStage(p) \/ WriteStage(p)
             \/ EffectRefused(p) \/ RemoveStage(p) \/ TruncatePointer(p)
             \/ WritePointer(p)
      PROVE  UNCHANGED <<active, decision, settled>>
  BY <1>3, ZenonT(60) DEF Begin, Acquire, Abort, RefuseForeign, PlanPure, ReplayTerminal,
     RecoverPublished, Resume, PlanEffect, PlanRefused, TruncateStage, WriteStage,
     EffectRefused, RemoveStage, TruncatePointer, WritePointer
<1>4. ASSUME NEW p \in Procs, WriteDecision(p)
      PROVE  /\ decision = None /\ decision' # None /\ decision'.prev = active
             /\ decision'.next = active \/ decision'.next.gen = active.gen + 1
             /\ UNCHANGED <<active, settled>>
  <2>1. pc[p] = "decide" /\ pc[p] \in Planned
    BY <1>4, ZenonT(60) DEF WriteDecision, Planned, Held
  <2>2. QED
    BY <1>2, <1>4, <2>1, ZenonT(60) DEF WriteDecision, PlanOK
<1>5. ASSUME NEW p \in Procs, Effect(p) \/ EffectFails(p)
      PROVE  /\ decision # None /\ active = decision.prev
             /\ settled' \in {NoReceipts, decision.next.mem}
             /\ UNCHANGED <<active, decision>>
  <2>1. pc[p] = "effect" /\ pc[p] \in Planned
    BY <1>5, ZenonT(60) DEF Effect, EffectFails, Planned, Held
  <2>2. decision = plan[p] /\ active = plan[p].prev /\ decision # None
    BY <1>2, <2>1, Zenon DEF PlanOK
  <2>3. QED
    BY <1>5, <2>2, Zenon DEF Effect, EffectFails
<1>6. ASSUME NEW p \in Procs, Finalize(p)
      PROVE  /\ decision # None /\ decision' # None
             /\ decision'.prev = decision.prev /\ decision'.next = decision.next
             /\ UNCHANGED <<active, settled>>
  <2>1. pc[p] = "finalize" /\ pc[p] \in Planned
    BY <1>6, Zenon DEF Finalize, Planned, Held
  <2>2. decision = plan[p] /\ plan[p] \in Decisions /\ decision # None
    BY <1>2, <2>1, Zenon DEF PlanOK, Settled
  <2>3. decision' = [plan[p] EXCEPT !.final = TRUE] /\ UNCHANGED <<active, settled>>
    BY <1>6, Zenon DEF Finalize
  <2>4. decision' \in Decisions
    BY <2>2, <2>3, ZenonT(60) DEF Decisions
  <2>5. QED
    BY <2>2, <2>3, <2>4, NoneAssumption, Zenon DEF Decisions
<1>7. ASSUME NEW p \in Procs, RenamePointer(p)
      PROVE  \/ /\ decision = None /\ active'.gen = active.gen + 1
                /\ \A x \in Contexts : active'.mem[x] \in {active.mem[x], 0}
                /\ UNCHANGED <<decision, settled>>
             \/ /\ decision # None /\ active = decision.prev
                /\ settled = decision.next.mem
                /\ active' = decision.next /\ decision.next.gen = active.gen + 1
                /\ UNCHANGED <<decision, settled>>
  <2>1. pc[p] = "rename" /\ pc[p] \in Planned /\ UNCHANGED <<decision, settled>>
    BY <1>7, Zenon DEF RenamePointer, Planned, Held
  <2>2. /\ active' = plan[p].next /\ active = plan[p].prev
        /\ plan[p].next = NextCollection(active, req[p])
    BY <1>2, <1>7, <2>1, Zenon DEF RenamePointer, PlanOK
  <2>3. CASE IsPure(p)
    <3>1. decision = None
      BY <1>2, <2>1, <2>3, ZenonT(60) DEF PlanOK
    <3>2. active \in Collections /\ req[p] \in Requests /\ req[p].kind \in PureKinds
      BY <1>2, <2>1, <2>3, Zenon DEF PlanOK, IsPure
    <3>3. /\ NextCollection(active, req[p]).gen = active.gen + 1
          /\ \A x \in Contexts :
               NextCollection(active, req[p]).mem[x] \in {active.mem[x], 0}
      BY <3>2, PureKeepsReceipts, Zenon
    <3>4. active' = NextCollection(active, req[p])
      BY <2>2, ZenonT(60)
    <3>5. QED
      BY <2>1, <3>1, <3>3, <3>4, ZenonT(60)
  <2>4. CASE ~IsPure(p)
    BY <1>2, <2>1, <2>2, <2>4, ZenonT(60) DEF PlanOK, Settled, NoEnvelope
  <2>5. QED
    BY <2>3, <2>4, Zenon
<1>8. ASSUME NEW p \in Procs, ClearDecision(p)
      PROVE  /\ decision # None /\ active = decision.next /\ settled = decision.next.mem
             /\ decision' = None
             /\ UNCHANGED <<active, settled>>
  <2>1. pc[p] = "clear" /\ pc[p] \in Planned
    BY <1>8, ZenonT(60) DEF ClearDecision, Planned, Held
  <2>2. QED
    BY <1>2, <1>8, <2>1 DEF ClearDecision, PlanOK, Settled
<1>9. CASE Next
  <2>1. PICK p \in Procs : \/ \E r \in Requests : Begin(p, r)
                           \/ Acquire(p) \/ Step(p) \/ EffectFails(p) \/ Abort(p)
    BY <1>9, Zenon DEF Next
  <2>2. QED
    BY <1>3, <1>4, <1>5, <1>6, <1>7, <1>8, <2>1, Zenon DEF Step
<1>10. QED
  BY <1>1, <1>9, Zenon

\* clearEffectDecision retires a decision only as carried out.
THEOREM RetiredWhenDone == Spec => DecisionRetiredWhenDone
<1>1. IInv /\ [Next]_vars =>
        [decision # None /\ decision' = None =>
           active' = decision.next /\ settled' = decision.next.mem]_vars
  BY StepEffects, Zenon
<1>2. QED
  BY <1>1, InvariantHolds, PTL DEF Spec, DecisionRetiredWhenDone

\* Generations are published one by one, and none but the decided one while a
\* decision is active.
THEOREM PublishesSerially == Spec => PublicationSerial
<1>1. IInv /\ [Next]_vars =>
        [active' # active =>
           /\ active'.gen = active.gen + 1
           /\ decision # None => active' = decision.next]_vars
  BY StepEffects, Zenon
<1>2. QED
  BY <1>1, InvariantHolds, PTL DEF Spec, PublicationSerial

\* A success is returned by the clear step or by a terminal replay, and both
\* have confirmed what they return.
LEMMA SuccessStep ==
  ASSUME IInv, [Next]_vars, NEW p \in Procs,
         ret[p] # "ok", ret'[p] = "ok", ~IsPure(p)
  PROVE  /\ decision' = None
         /\ Promised(active', req[p])
         /\ settled' = active'.mem
<1>1. ret \in [Procs -> Results]
  BY Zenon DEF IInv, TypeOK
<1>2. Next
  BY Zenon DEF vars
<1>3. PICK q \in Procs : \/ \E r \in Requests : Begin(q, r)
                         \/ Acquire(q) \/ Step(q) \/ EffectFails(q) \/ Abort(q)
  BY <1>2, Zenon DEF Next
<1>4. q = p
  <2>1. ret' = ret \/ \E v : ret' = [ret EXCEPT ![q] = v]
    BY <1>3, Zenon DEF Begin, Acquire, Step, EffectFails, Abort, RefuseForeign, PlanPure,
         ReplayTerminal, RecoverPublished, Resume, PlanEffect, PlanRefused,
         TruncateStage, WriteStage, WriteDecision, Effect, EffectRefused, Finalize,
         RemoveStage, TruncatePointer, WritePointer, RenamePointer, ClearDecision, Return
  <2>2. QED
    BY <1>1, <2>1, Zenon
<1>5. ClearDecision(p) \/ ReplayTerminal(p)
  <2>1. ret' # ret /\ ret'[p] # "error" /\ ret'[p] # "none"
    BY Zenon
  <2>2. ASSUME Return(p, "error") PROVE FALSE
    BY <1>1, <2>1, <2>2, Zenon DEF Return
  <2>3. ASSUME NEW r \in Requests, Begin(p, r) PROVE FALSE
    BY <1>1, <2>1, <2>3, Zenon DEF Begin
  <2>4. QED
    BY <1>3, <1>4, <2>1, <2>2, <2>3, Zenon DEF Acquire, Step, EffectFails, Abort, RefuseForeign,
         PlanPure, RecoverPublished, Resume, PlanEffect, PlanRefused,
         TruncateStage, WriteStage, WriteDecision, Effect, EffectRefused, Finalize,
         RemoveStage, TruncatePointer, WritePointer, RenamePointer
<1>6. CASE ClearDecision(p)
  <2>1. pc[p] = "clear" /\ pc[p] \in Planned /\ UNCHANGED <<active, settled>> /\ decision' = None
    BY <1>6, Zenon DEF ClearDecision, Planned, Held
  <2>2. PlanOK(p) /\ plan[p] \in Decisions /\ req[p] \in Requests
    BY <2>1, ZenonT(60) DEF IInv, PlanInv, TypeOK, Planned
  <2>3. /\ active = plan[p].next /\ settled = active.mem
        /\ active = NextCollection(plan[p].prev, req[p])
    BY <2>1, <2>2, Zenon DEF PlanOK, Settled
  <2>4. plan[p].prev \in Collections
    BY <2>2, Zenon DEF Decisions
  <2>5. Promised(active, req[p])
    BY <2>2, <2>3, <2>4, PlanKeepsPromise, Zenon DEF IsPure
  <2>6. QED
    BY <2>1, <2>3, <2>5, Zenon
<1>7. CASE ReplayTerminal(p)
  <2>1. /\ pc[p] = "read" /\ TerminalApplies(p)
        /\ UNCHANGED <<active, decision, settled>>
        /\ Confirmed(active, req[p].kind)
    <3>1. Return(p, IF Confirmed(active, req[p].kind) THEN "ok" ELSE "error")
      BY <1>7, Zenon DEF ReplayTerminal
    <3>2. Confirmed(active, req[p].kind)
      BY <1>1, <3>1, Zenon DEF Return
    <3>3. QED
      BY <1>7, <3>2, Zenon DEF ReplayTerminal
  <2>2. /\ done \in Decisions /\ done.req = req[p] /\ decision = None
        /\ ConsequenceCurrent(active, done) /\ settled = active.mem
    BY <2>1, Zenon DEF TerminalApplies, IInv, TypeOK, Confirmed
  <2>3. /\ done.req \in Requests /\ done.prev \in Collections
        /\ done.next = NextCollection(done.prev, done.req)
        /\ done.req.kind \notin PureKinds
    BY <2>1, <2>2, Zenon DEF IInv, JournalInv, TerminalApplies, Decisions
  <2>4. Promised(done.next, done.req)
    BY <2>3, PlanKeepsPromise, Zenon
  <2>5. Promised(active, req[p])
    BY <2>2, <2>3, <2>4, Zenon DEF Promised, ConsequenceCurrent
  <2>6. QED
    BY <2>1, <2>2, <2>5, Zenon
<1>8. QED
  BY <1>5, <1>6, <1>7, Zenon

\* What an effectful command reports as success is published, enforced and
\* retired.
THEOREM SuccessesAreEnforced == Spec => SuccessIsEnforced
<1>1. IInv /\ [Next]_vars =>
        [\A p \in Procs :
           ret[p] # "ok" /\ ret'[p] = "ok" /\ ~IsPure(p) =>
             /\ decision' = None
             /\ Promised(active', req[p])
             /\ settled' = active'.mem]_vars
  BY SuccessStep, Zenon
<1>2. QED
  BY <1>1, InvariantHolds, PTL DEF Spec, SuccessIsEnforced

-----------------------------------------------------------------------------
(***************************************************************************)
(* The protocol implements EnforcedAuthority.                                *)
(***************************************************************************)
\* An empty journal is an authority without an intent.
LEMMA InitImplements == Init => Abstract!AInit
BY DEF Init, Abstract!AInit, Abstract!Nothing, NoReceipts, Intent

\* Every step is a step of EnforcedAuthority or leaves its state alone.
LEMMA StepImplements ==
  IInv /\ [Next]_vars => [Abstract!ANext]_(Abstract!avars)
<1> SUFFICES ASSUME IInv, [Next]_vars PROVE [Abstract!ANext]_(Abstract!avars)
  BY Zenon
<1>1. Abstract!Nothing = NoReceipts
  BY ZenonT(60) DEF Abstract!Nothing, NoReceipts
<1>2. ASSUME NEW d \in Decisions PROVE [prev |-> d.prev, next |-> d.next] # None
  BY NoneAssumption, SMTT(40) DEF Decisions, Transitions
<1>3. IInv'
  BY NextIInv, Zenon
<1>4. /\ decision # None => Intent # None
      /\ decision' # None => Intent' # None
  BY <1>2, <1>3, Zenon DEF IInv, TypeOK, Intent
<1>5. QED
  BY StepEffects, <1>1, <1>4, Zenon DEF Abstract!ANext, Abstract!avars, Abstract!PublishDesired,
     Abstract!Intend, Abstract!Enforce, Abstract!Commit, Abstract!Retire, Intent

\* The mutation protocol implements EnforcedAuthority: seen from the published
\* collection, the active decision and Gateway and OPA, it is one authority
\* that moves only through durable intents.
THEOREM Refinement == Spec => ImplementsEnforcedAuthority
<1>1. QED
  BY InitImplements, StepImplements, InvariantHolds, PTL
     DEF Spec, ImplementsEnforcedAuthority, Abstract!ASpec

=============================================================================
