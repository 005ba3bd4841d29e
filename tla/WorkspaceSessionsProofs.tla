---- MODULE WorkspaceSessionsProofs ----
(***************************************************************************)
(* Sessions are never disturbed, one owner serves, a deletion leaves       *)
(* nothing behind and a forced one waits long enough: for every number of  *)
(* entries, every lease and every wait that is longer.                     *)
(*                                                                         *)
(* None of this is inductive.  What carries it: who is where in the code   *)
(* holds which lock; a closed fence is empty; a decision that is not an    *)
(* entry's keeps entries out until it is carried out; and the row of an    *)
(* endpoint that can be reached is taken away by a deletion only.          *)
(***************************************************************************)
EXTENDS WorkspaceSessions, TLAPS

\* Entries between the session fence and their session.
Joined == {"listen", "insert", "serve", "borrow", "verify"}

\* The lifecycle lock has one holder, who is at work.
LockInv ==
  /\ \A p \in Entries : pc[p] \in Entering <=> lifecycle = p
  /\ retire.at # "idle" <=> lifecycle = "retire"
  /\ admin # "idle" <=> lifecycle = "admin"

\* Who has joined a fence, and who has closed it; a closed fence is empty.
FenceInv ==
  /\ \A p \in Entries :
       /\ p \in entry.shared <=> pc[p] \in Entering \cup Attached
       /\ p \in fence.shared <=> pc[p] \in Joined \cup Attached
       /\ fence.excl = p <=> pc[p] = "reconcile"
  /\ entry.excl # None => entry.shared = {}
  /\ fence.excl # None => fence.shared = {}

\* What a decision that is not an entry's keeps out, and how far a deletion is.
DecisionInv ==
  /\ \A p \in Entries : pc[p] \in Entering => bound /\ owed \in {None, "entry", "firstEntry"}
  /\ admin # "idle" => owed \in {"admin", "adminFenced"}
  /\ retire.at = "allowed" => owed = None
  /\ retire.at \notin {"idle", "allowed"} \/ retire.phase # "none" => owed = "retire"
  /\ retire.phase = "containerRetired" \/ retire.at \in {"wait", "removed"} => box = "gone"
  /\ retire.at = "wait" => retire.force
  /\ retire.at \in {"settle", "gateway"} => retire.phase = "containerRetired"
  /\ retire.at \in {"remove", "removed"} /\ ~retire.force => entry.excl = "retire"

\* While Gateway is replaced, or may be by a decision already fenced, nobody has
\* joined the session fence.
GatewayInv ==
  /\ \A p \in Entries : pc[p] = "gateway" => fence.shared = {}
  /\ admin = "gateway" => owed = "adminFenced"
  /\ owed = "adminFenced" => fence.shared = {}
  /\ retire.at = "gateway" => fence.shared = {} /\ row = NoRow
  /\ ~bound => fence.shared = {}

LockingInv == LockInv /\ FenceInv /\ DecisionInv /\ GatewayInv

\* An endpoint that can be reached is the row's, or about to be; a deletion
\* alone takes the row from under it, and after that nobody enters.
OwnerInv ==
  \A p \in Entries :
    /\ pc[p] \in {"insert", "serve"} => own[p] = "listening"
    /\ Dialable(p) =>
         pc[p] = "insert" \/ (row # NoRow /\ row.owner = p) \/ owed = "retire" \/ ~bound

\* A lease is never longer than it was issued, but for the clock; a row nobody
\* serves runs out before the wait for it does.
WaitInv ==
  /\ rollbacks = 0 /\ row # NoRow => row.left <= Lease
  /\ retire.at = "wait" /\ retire.over /\ rollbacks = 0 =>
       wait > 0 /\ (row # NoRow => ~Dialable(row.owner) /\ row.left < wait)

SInv ==
  /\ OneOwner /\ DeletionLeavesNothing /\ WaitOutlastsLease
  /\ LockingInv /\ OwnerInv /\ WaitInv

-----------------------------------------------------------------------------
\* Nobody is there and nothing is locked.
LEMMA InitSInv == Init => SInv
  BY SessionsAssumption DEF Init, NotRetiring, SInv, OneOwner, TypeOK, Fences, Retirements,
     DeletionLeavesNothing, WaitOutlastsLease, LockingInv, LockInv, FenceInv, DecisionInv,
     GatewayInv, OwnerInv, WaitInv, Dialable, Sessions, Entering, Attached, Joined

\* An entry under the lifecycle lock.
LEMMA EnterSInv ==
  ASSUME SInv, NEW p \in Entries, Enter(p) \/ EnterStep(p)
  PROVE  SInv'
<1> USE SessionsAssumption
<1>1. CASE Enter(p)
  <2>1. TypeOK'
    BY <1>1 DEF Enter, runtime, others, bounds, Entering, Join, Fences, TypeOK, OneOwner, SInv
  <2>2. LockingInv'
    BY <1>1, <2>1 DEF Enter, others, Attached, Join, TypeOK, Joined, LockInv, FenceInv,
           DecisionInv, GatewayInv, LockingInv, SInv
  <2>3. (OneOwner /\ DeletionLeavesNothing /\ WaitOutlastsLease /\ OwnerInv /\ WaitInv)'
    BY <1>1, <2>1 DEF Enter, others, bounds, Dialable, OneOwner, DeletionLeavesNothing,
           WaitOutlastsLease, OwnerInv, WaitInv, SInv
  <2> QED
    BY <2>2, <2>3, Zenon DEF SInv
<1>2. CASE ConfirmCurrent(p) \/ SettlePolicyOnly(p) \/ PublishEntry(p) \/ Borrow(p)
  <2>1. TypeOK'
    BY <1>2 DEF ConfirmCurrent, SettlePolicyOnly, PublishEntry, Borrow, locks, runtime, others,
           bounds, Entering, TypeOK, OneOwner, SInv
  <2>2. LockingInv'
    BY <1>2, <2>1 DEF ConfirmCurrent, SettlePolicyOnly, PublishEntry, Borrow, locks, others,
           Attached, TypeOK, OneOwner, Joined, LockInv, FenceInv, DecisionInv, GatewayInv,
           LockingInv, SInv
  <2>3. (OneOwner /\ DeletionLeavesNothing /\ WaitOutlastsLease /\ OwnerInv /\ WaitInv)'
    BY <1>2, <2>1 DEF ConfirmCurrent, SettlePolicyOnly, PublishEntry, Borrow, others, bounds,
           Attached, Dialable, TypeOK, OneOwner, DeletionLeavesNothing, WaitOutlastsLease,
           DecisionInv, LockingInv, OwnerInv, WaitInv, SInv
  <2> QED
    BY <2>2, <2>3, Zenon DEF SInv
<1>3. CASE Decide(p)
  <2>1. TypeOK'
    BY <1>3 DEF Decide, runtime, others, bounds, Entering, Close, Fences, TypeOK, OneOwner, SInv
  <2>2. LockingInv'
    BY <1>3, <2>1 DEF Decide, others, Attached, FenceFree, Close, TypeOK, OneOwner, Joined,
           LockInv, FenceInv, DecisionInv, GatewayInv, LockingInv, SInv
  <2>3. (OneOwner /\ DeletionLeavesNothing /\ WaitOutlastsLease /\ OwnerInv /\ WaitInv)'
    BY <1>3, <2>1 DEF Decide, runtime, others, bounds, Attached, Sessions, Dialable, OneOwner,
           DeletionLeavesNothing, WaitOutlastsLease, OwnerInv, WaitInv, SInv
  <2> QED
    BY <2>2, <2>3, Zenon DEF SInv
<1>4. CASE Reconcile(p)
  <2>1. TypeOK'
    BY <1>4 DEF Reconcile, others, bounds, Entering, Leave, Planned, Fences, TypeOK, OneOwner, SInv
  <2>2. LockingInv'
    BY <1>4, <2>1 DEF Reconcile, others, Attached, Leave, TypeOK, OneOwner, Joined, LockInv,
           FenceInv, DecisionInv, GatewayInv, LockingInv, SInv
  <2>3. (OneOwner /\ DeletionLeavesNothing /\ WaitOutlastsLease /\ OwnerInv /\ WaitInv)'
    BY <1>4, <2>1 DEF Reconcile, others, bounds, Dialable, TypeOK, OneOwner, DeletionLeavesNothing,
           WaitOutlastsLease, FenceInv, DecisionInv, LockingInv, OwnerInv, WaitInv, SInv
  <2> QED
    BY <2>2, <2>3, Zenon DEF SInv
<1>5. CASE SettleGateway(p)
  <2>1. TypeOK'
    BY <1>5 DEF SettleGateway, locks, runtime, others, bounds, Entering,
           ConfirmNoFinalWorkspaceSessions, TypeOK, OneOwner, SInv
  <2>2. LockingInv'
    BY <1>5, <2>1 DEF SettleGateway, locks, others, Attached, FenceFree,
           ConfirmNoFinalWorkspaceSessions, TypeOK, OneOwner, Joined, LockInv, FenceInv,
           DecisionInv, GatewayInv, LockingInv, SInv
  <2>3. (OneOwner /\ DeletionLeavesNothing /\ WaitOutlastsLease /\ OwnerInv /\ WaitInv)'
    BY <1>5, <2>1 DEF SettleGateway, others, Dialable, Removable, FenceFree,
           ConfirmNoFinalWorkspaceSessions, TypeOK, OneOwner, DeletionLeavesNothing,
           WaitOutlastsLease, FenceInv, DecisionInv, LockingInv, OwnerInv, WaitInv, SInv
  <2> QED
    BY <2>2, <2>3, Zenon DEF SInv
<1>6. CASE BeginOwner(p)
  <2>1. TypeOK'
    BY <1>6 DEF BeginOwner, runtime, others, bounds, Entering, Join, Fences, TypeOK, OneOwner, SInv
  <2>2. LockingInv'
    BY <1>6, <2>1 DEF BeginOwner, others, Attached, Join, TypeOK, OneOwner, Joined, LockInv,
           FenceInv, DecisionInv, GatewayInv, LockingInv, SInv
  <2>3. (OneOwner /\ DeletionLeavesNothing /\ WaitOutlastsLease /\ OwnerInv /\ WaitInv)'
    BY <1>6, <2>1 DEF BeginOwner, others, bounds, Dialable, Removable, OneOwner,
           DeletionLeavesNothing, WaitOutlastsLease, OwnerInv, WaitInv, SInv
  <2> QED
    BY <2>2, <2>3, Zenon DEF SInv
<1>7. CASE BeginBorrower(p)
  <2>1. TypeOK'
    BY <1>7 DEF BeginBorrower, runtime, others, bounds, Entering, Current, Join, Fences, TypeOK,
           OneOwner, SInv
  <2>2. LockingInv'
    BY <1>7, <2>1 DEF BeginBorrower, others, Attached, Join, TypeOK, OneOwner, Joined, LockInv,
           FenceInv, DecisionInv, GatewayInv, LockingInv, SInv
  <2>3. (OneOwner /\ DeletionLeavesNothing /\ WaitOutlastsLease /\ OwnerInv /\ WaitInv)'
    BY <1>7, <2>1 DEF BeginBorrower, others, bounds, Dialable, OneOwner, DeletionLeavesNothing,
           WaitOutlastsLease, OwnerInv, WaitInv, SInv
  <2> QED
    BY <2>2, <2>3, Zenon DEF SInv
<1>8. CASE Listen(p)
  <2>1. TypeOK'
    BY <1>8 DEF Listen, locks, runtime, others, bounds, Entering, TypeOK, OneOwner, SInv
  <2>2. LockingInv'
    BY <1>8, <2>1 DEF Listen, locks, others, Attached, TypeOK, OneOwner, Joined, LockInv, FenceInv,
           DecisionInv, GatewayInv, LockingInv, SInv
  <2>3. (OneOwner /\ DeletionLeavesNothing /\ WaitOutlastsLease /\ OwnerInv /\ WaitInv)'
    BY <1>8, <2>1 DEF Listen, others, Attached, Dialable, TypeOK, OneOwner, DeletionLeavesNothing,
           WaitOutlastsLease, LockInv, DecisionInv, LockingInv, OwnerInv, WaitInv, SInv
  <2> QED
    BY <2>2, <2>3, Zenon DEF SInv
<1>9. CASE Insert(p)
  <2>1. TypeOK'
    BY <1>9 DEF Insert, locks, runtime, others, bounds, Entering, TypeOK, OneOwner, SInv
  <2>2. LockingInv'
    BY <1>9, <2>1 DEF Insert, locks, others, Attached, TypeOK, OneOwner, Joined, LockInv, FenceInv,
           DecisionInv, GatewayInv, LockingInv, SInv
  <2>3. (OneOwner /\ DeletionLeavesNothing /\ WaitOutlastsLease /\ OwnerInv /\ WaitInv)'
    BY <1>9, <2>1 DEF Insert, others, Attached, Dialable, TypeOK, OneOwner, DeletionLeavesNothing,
           WaitOutlastsLease, LockInv, DecisionInv, LockingInv, OwnerInv, WaitInv, SInv
  <2> QED
    BY <2>2, <2>3, Zenon DEF SInv
<1>10. CASE Serve(p)
  <2>1. TypeOK'
    BY <1>10 DEF Serve, runtime, others, bounds, Entering, Attached, Fences, TypeOK, OneOwner, SInv
  <2>2. LockingInv'
    BY <1>10, <2>1 DEF Serve, others, Entering, TypeOK, Joined, LockInv, FenceInv, DecisionInv,
           GatewayInv, LockingInv, SInv
  <2>3. (OneOwner /\ DeletionLeavesNothing /\ WaitOutlastsLease /\ OwnerInv /\ WaitInv)'
    BY <1>10, <2>1 DEF Serve, others, bounds, Dialable, TypeOK, OneOwner, DeletionLeavesNothing,
           WaitOutlastsLease, FenceInv, DecisionInv, GatewayInv, LockingInv, OwnerInv, WaitInv,
           SInv
  <2> QED
    BY <2>2, <2>3, Zenon DEF SInv
<1>11. CASE VerifyBorrowed(p)
  <2>1. TypeOK'
    BY <1>11, ZenonT(30) DEF VerifyBorrowed, runtime, others, bounds, Attached, TypeOK, OneOwner,
       SInv
  <2>2. LockingInv'
    BY <1>11, <2>1 DEF VerifyBorrowed, others, Entering, TypeOK, Joined, LockInv, FenceInv,
           DecisionInv, GatewayInv, LockingInv, SInv
  <2>3. (OneOwner /\ DeletionLeavesNothing /\ WaitOutlastsLease /\ OwnerInv /\ WaitInv)'
    BY <1>11, <2>1 DEF VerifyBorrowed, others, bounds, Dialable, OneOwner, DeletionLeavesNothing,
           WaitOutlastsLease, Joined, FenceInv, GatewayInv, LockingInv, OwnerInv, WaitInv, SInv
  <2> QED
    BY <2>2, <2>3, Zenon DEF SInv
<1>12. CASE Abandon(p)
  <2>1. TypeOK'
    BY <1>12 DEF Abandon, runtime, others, bounds, Leave, Fences, TypeOK, OneOwner, SInv
  <2>2. LockingInv'
    BY <1>12, <2>1 DEF Abandon, others, Entering, Attached, Leave, TypeOK, Joined, LockInv,
           FenceInv, DecisionInv, GatewayInv, LockingInv, SInv
  <2>3. (OneOwner /\ DeletionLeavesNothing /\ WaitOutlastsLease /\ OwnerInv /\ WaitInv)'
    BY <1>12, <2>1 DEF Abandon, runtime, others, bounds, Attached, Sessions, Dialable, TypeOK,
           OneOwner, DeletionLeavesNothing, WaitOutlastsLease, OwnerInv, WaitInv, SInv
  <2> QED
    BY <2>2, <2>3, Zenon DEF SInv
<1> QED
  BY <1>1, <1>2, <1>3, <1>4, <1>5, <1>6, <1>7, <1>8, <1>9, <1>10, <1>11, <1>12, Zenon DEF EnterStep

\* A session after the lock, its heartbeat, its end and its death.
LEMMA SessionSInv ==
  ASSUME SInv, NEW p \in Entries,
         \/ SessionStep(p) \/ AcceptFails(p) \/ Renew(p) \/ HeartbeatFails(p)
         \/ Die(p) \/ NewCommand(p)
  PROVE  SInv'
<1> USE SessionsAssumption
<1>1. CASE ConfirmExact(p) \/ Run(p) \/ Finish(p)
  <2>1. TypeOK'
    BY <1>1 DEF ConfirmExact, Run, Finish, locks, runtime, others, bounds, Attached, TypeOK,
           OneOwner, SInv
  <2>2. LockingInv'
    BY <1>1, <2>1, SMTT(40) DEF ConfirmExact, Run, Finish, locks, runtime, others, Entering, TypeOK,
           OneOwner, LockInv, FenceInv, DecisionInv, GatewayInv, LockingInv, SInv
  <2>3. (OneOwner /\ DeletionLeavesNothing /\ WaitOutlastsLease /\ OwnerInv /\ WaitInv)'
    BY <1>1, <2>1 DEF ConfirmExact, Run, Finish, others, bounds, Attached, Sessions, Dialable,
           TypeOK, OneOwner, DeletionLeavesNothing, WaitOutlastsLease, OwnerInv, WaitInv, SInv
  <2> QED
    BY <2>2, <2>3, Zenon DEF SInv
<1>2. CASE CloseTransport(p) \/ AcceptFails(p) \/ HeartbeatFails(p)
  <2>1. TypeOK'
    BY <1>2 DEF CloseTransport, AcceptFails, HeartbeatFails, locks, runtime, others, bounds,
           TypeOK, OneOwner, SInv
  <2>2. LockingInv'
    BY <1>2, SMTT(40) DEF CloseTransport, AcceptFails, HeartbeatFails, locks, runtime, others,
       LockInv, FenceInv, DecisionInv, GatewayInv, LockingInv, SInv
  <2>3. (OneOwner /\ DeletionLeavesNothing /\ WaitOutlastsLease /\ OwnerInv /\ WaitInv)'
    BY <1>2, <2>1 DEF CloseTransport, AcceptFails, HeartbeatFails, runtime, others, bounds,
           Sessions, Dialable, TypeOK, OneOwner, DeletionLeavesNothing, WaitOutlastsLease,
           OwnerInv, WaitInv, SInv
  <2> QED
    BY <2>2, <2>3, Zenon DEF SInv
<1>3. CASE Renew(p)
  <2>1. TypeOK'
    BY <1>3 DEF Renew, locks, proc, runtime, others, bounds, Current, TypeOK, OneOwner, SInv
  <2>2. LockingInv'
    BY <1>3 DEF Renew, locks, proc, runtime, others, Current, LockInv, FenceInv, DecisionInv,
           GatewayInv, LockingInv, SInv
  <2>3. (OneOwner /\ DeletionLeavesNothing /\ WaitOutlastsLease /\ OwnerInv /\ WaitInv)'
    BY <1>3, <2>1 DEF Renew, proc, others, bounds, Dialable, Current, TypeOK, OneOwner,
           DeletionLeavesNothing, WaitOutlastsLease, OwnerInv, WaitInv, SInv
  <2> QED
    BY <2>2, <2>3, Zenon DEF SInv
<1>4. CASE CleanupAuthority(p)
  <2>1. TypeOK'
    BY <1>4 DEF CleanupAuthority, locks, runtime, others, bounds, TypeOK, OneOwner, SInv
  <2>2. LockingInv'
    BY <1>4, ZenonT(30) DEF CleanupAuthority, locks, runtime, others, LockInv, FenceInv,
       DecisionInv, GatewayInv, LockingInv, SInv
  <2>3. (OneOwner /\ DeletionLeavesNothing /\ WaitOutlastsLease /\ OwnerInv /\ WaitInv)'
    BY <1>4, <2>1 DEF CleanupAuthority, runtime, others, bounds, Sessions, Dialable, OneOwner,
           DeletionLeavesNothing, WaitOutlastsLease, OwnerInv, WaitInv, SInv
  <2> QED
    BY <2>2, <2>3, Zenon DEF SInv
<1>5. CASE Release(p)
  <2>1. TypeOK'
    BY <1>5 DEF Release, runtime, others, bounds, Leave, Fences, TypeOK, OneOwner, SInv
  <2>2. LockingInv'
    BY <1>5, <2>1, SMTT(40) DEF Release, runtime, others, Entering, Attached, Leave, TypeOK,
       Joined, LockInv, FenceInv, DecisionInv, GatewayInv, LockingInv, SInv
  <2>3. (OneOwner /\ DeletionLeavesNothing /\ WaitOutlastsLease /\ OwnerInv /\ WaitInv)'
    BY <1>5, <2>1 DEF Release, others, bounds, Attached, Sessions, Dialable, OneOwner,
           DeletionLeavesNothing, WaitOutlastsLease, OwnerInv, WaitInv, SInv
  <2> QED
    BY <2>2, <2>3, Zenon DEF SInv
<1>6. CASE Die(p)
  <2>1. TypeOK'
    BY <1>6 DEF Die, runtime, others, bounds, Leave, Fences, TypeOK, OneOwner, SInv
  <2>2. LockingInv'
    BY <1>6, <2>1 DEF Die, runtime, others, Entering, Attached, Leave, TypeOK, Joined, LockInv,
           FenceInv, DecisionInv, GatewayInv, LockingInv, SInv
  <2>3. (OneOwner /\ DeletionLeavesNothing /\ WaitOutlastsLease /\ OwnerInv /\ WaitInv)'
    BY <1>6, <2>1, SMTT(40) DEF Die, runtime, others, bounds, Attached, Sessions, Dialable,
       TypeOK, OneOwner, DeletionLeavesNothing, WaitOutlastsLease, OwnerInv, WaitInv, SInv
  <2> QED
    BY <2>2, <2>3, Zenon DEF SInv
<1>7. CASE NewCommand(p)
  <2>1. TypeOK'
    BY <1>7 DEF NewCommand, locks, runtime, others, bounds, TypeOK, OneOwner, SInv
  <2>2. LockingInv'
    BY <1>7, SMTT(40) DEF NewCommand, locks, runtime, others, Entering, Attached, Joined, LockInv,
       FenceInv, DecisionInv, GatewayInv, LockingInv, SInv
  <2>3. (OneOwner /\ DeletionLeavesNothing /\ WaitOutlastsLease /\ OwnerInv /\ WaitInv)'
    BY <1>7, <2>1, SMTT(40) DEF NewCommand, locks, runtime, others, bounds, Entering, Attached,
       Sessions, Dialable, Fences, Retirements, TypeOK, OneOwner, DeletionLeavesNothing,
       WaitOutlastsLease, Joined, LockInv, FenceInv, DecisionInv, GatewayInv, LockingInv,
       OwnerInv, WaitInv, SInv
  <2> QED
    BY <2>2, <2>3, Zenon DEF SInv
<1> QED
  BY <1>1, <1>2, <1>3, <1>4, <1>5, <1>6, <1>7, Zenon DEF SessionStep

\* The deletion of the Workspace, and its death.
LEMMA RetireSInv ==
  ASSUME SInv, (\E f \in Forces : RetireStart(f)) \/ RetireProgress \/ RetireStop
  PROVE  SInv'
<1> USE SessionsAssumption
<1>1. CASE \E f \in Forces : RetireStart(f)
  <2> PICK f \in Forces : RetireStart(f)
    BY <1>1, Zenon
  <2>0. retire \in Retirements
    BY Zenon DEF SInv, OneOwner, TypeOK
  <2>1. /\ retire' \in Retirements /\ retire'.at \in {"allowed", "prepare"}
        /\ retire'.phase = retire.phase
        /\ (retire'.at = "allowed" <=> owed = None)
    BY <2>0, SessionsAssumption, ZenonT(30) DEF RetireStart, Retirements
  <2>2. TypeOK'
    BY <2>0, <2>1, ZenonT(30) DEF RetireStart, proc, runtime, bounds, Entering, Attached, Fences,
       TypeOK, OneOwner, SInv
  <2>3. LockingInv'
    <3>1. LockInv' /\ FenceInv'
      BY <2>1, <2>2, ZenonT(30) DEF RetireStart, proc, runtime, bounds, Entering, Attached,
         Fences, TypeOK, OneOwner, Joined, LockInv, FenceInv, LockingInv, SInv
    <3>2. DecisionInv' /\ GatewayInv'
      BY <2>1, <2>2, ZenonT(30) DEF RetireStart, proc, runtime, bounds, Entering, Attached,
         Fences, TypeOK, OneOwner, Joined, LockInv, FenceInv, DecisionInv, GatewayInv, LockingInv,
         SInv
    <3> QED
      BY <3>1, <3>2, Zenon DEF LockingInv
  <2>4. (OneOwner /\ DeletionLeavesNothing /\ WaitOutlastsLease /\ OwnerInv /\ WaitInv)'
    BY <2>1, <2>2, ZenonT(30) DEF RetireStart, proc, runtime, bounds, Entering, Attached,
       Sessions, Dialable, Fences, Retirements, TypeOK, OneOwner, DeletionLeavesNothing,
       WaitOutlastsLease, Joined, LockInv, FenceInv, DecisionInv, GatewayInv, LockingInv,
       OwnerInv, WaitInv, SInv
  <2> QED
    BY <2>3, <2>4, Zenon DEF SInv
<1>2. CASE RetireAllowed
  <2>0. retire \in Retirements
    BY Zenon DEF SInv, OneOwner, TypeOK
  <2>1. retire' \in Retirements /\ retire'.at = "prepare" /\ retire'.phase = retire.phase
    BY <1>2, <2>0, SessionsAssumption, Zenon DEF RetireAllowed, Retirements, At
  <2>2. TypeOK'
    BY <1>2, <2>1, ZenonT(30) DEF RetireAllowed, locks, proc, runtime, bounds, TypeOK, OneOwner,
       SInv
  <2>3. LockingInv'
    BY <1>2, <2>1 DEF RetireAllowed, locks, proc, LockInv, FenceInv, DecisionInv, GatewayInv,
           LockingInv, SInv
  <2>4. (OneOwner /\ DeletionLeavesNothing /\ WaitOutlastsLease /\ OwnerInv /\ WaitInv)'
    BY <1>2, <2>1, <2>2, Zenon DEF RetireAllowed, proc, runtime, bounds, Sessions, Dialable,
       OneOwner, DeletionLeavesNothing, WaitOutlastsLease, OwnerInv, WaitInv, SInv
  <2> QED
    BY <2>3, <2>4, Zenon DEF SInv
<1>3. CASE RetirePrepare
  <2>0. retire \in Retirements
    BY Zenon DEF SInv, OneOwner, TypeOK
  <2>1. retire' \in Retirements /\ retire'.at = "remove" /\ retire'.force = retire.force
        /\ retire'.phase = IF retire.phase = "none" THEN "prepared" ELSE retire.phase
    BY <1>3, <2>0, SessionsAssumption, ZenonT(30) DEF RetirePrepare, Retirements
  <2>2. TypeOK'
    BY <1>3, <2>1 DEF RetirePrepare, proc, runtime, bounds, Close, Fences, TypeOK, OneOwner, SInv
  <2>3. LockingInv'
    BY <1>3 DEF RetirePrepare, proc, runtime, FenceFree, Close, LockInv, FenceInv, DecisionInv,
           GatewayInv, LockingInv, SInv
  <2>4. (OneOwner /\ DeletionLeavesNothing /\ WaitOutlastsLease /\ OwnerInv /\ WaitInv)'
    BY <1>3, <2>2 DEF RetirePrepare, proc, runtime, bounds, Sessions, Dialable, OneOwner,
           DeletionLeavesNothing, WaitOutlastsLease, OwnerInv, WaitInv, SInv
  <2> QED
    BY <2>3, <2>4, Zenon DEF SInv
<1>4. CASE RetireRemove
  <2>0. retire \in Retirements
    BY Zenon DEF SInv, OneOwner, TypeOK
  <2>1. retire' \in Retirements /\ retire'.at = (IF retire.force THEN "wait" ELSE "removed")
        /\ retire'.phase = retire.phase /\ retire'.force = retire.force
        /\ (retire'.over => (row # NoRow => ~Dialable(row.owner)))
    BY <1>4, <2>0, SessionsAssumption, ZenonT(30) DEF RetireRemove, Retirements
  <2>2. TypeOK'
    BY <1>4, <2>1 DEF RetireRemove, locks, proc, bounds, TypeOK, OneOwner, SInv
  <2>3. LockingInv'
    BY <1>4 DEF RetireRemove, locks, proc, LockInv, FenceInv, DecisionInv, GatewayInv, LockingInv,
           SInv
  <2>4. (OneOwner /\ DeletionLeavesNothing /\ WaitOutlastsLease /\ OwnerInv /\ WaitInv)'
    BY <1>4, <2>1, <2>2 DEF RetireRemove, proc, bounds, Sessions, Dialable, TypeOK, OneOwner,
           DeletionLeavesNothing, WaitOutlastsLease, OwnerInv, WaitInv, SInv
  <2> QED
    BY <2>3, <2>4, Zenon DEF SInv
<1>5. CASE RetireAbsent
  <2>0. retire \in Retirements
    BY Zenon DEF SInv, OneOwner, TypeOK
  <2>1. /\ retire' \in Retirements /\ retire'.at = "removed"
        /\ retire'.phase = retire.phase /\ retire'.force = retire.force
    BY <1>5, <2>0, SessionsAssumption, Zenon DEF RetireAbsent, Retirements, At
  <2>2. TypeOK'
    BY <1>5, <2>1 DEF RetireAbsent, locks, proc, runtime, bounds, TypeOK, OneOwner, SInv
  <2>3. LockingInv'
    BY <1>5, <2>1 DEF RetireAbsent, locks, proc, runtime, LockInv, FenceInv, DecisionInv,
           GatewayInv, LockingInv, SInv
  <2>4. (OneOwner /\ DeletionLeavesNothing /\ WaitOutlastsLease /\ OwnerInv /\ WaitInv)'
    BY <1>5, <2>1, <2>2, Zenon DEF RetireAbsent, proc, runtime, Sessions, Dialable, OneOwner,
           DeletionLeavesNothing, WaitOutlastsLease, DecisionInv, LockingInv, OwnerInv, WaitInv,
           SInv
  <2> QED
    BY <2>3, <2>4, Zenon DEF SInv
<1>6. CASE RetireDeadline
  <2>0. retire \in Retirements
    BY Zenon DEF SInv, OneOwner, TypeOK
  <2>1. /\ retire' \in Retirements /\ retire'.at = "failed"
        /\ retire'.phase = retire.phase /\ retire'.over = retire.over
    BY <1>6, <2>0, SessionsAssumption, Zenon DEF RetireDeadline, Retirements, At
  <2>2. TypeOK'
    BY <1>6, <2>1 DEF RetireDeadline, locks, proc, runtime, bounds, TypeOK, OneOwner, SInv
  <2>3. LockingInv'
    BY <1>6, <2>1 DEF RetireDeadline, locks, proc, runtime, LockInv, FenceInv, DecisionInv,
           GatewayInv, LockingInv, SInv
  <2>4. (OneOwner /\ DeletionLeavesNothing /\ WaitOutlastsLease /\ OwnerInv /\ WaitInv)'
    BY <1>6, <2>1, <2>2, SMTT(40) DEF RetireDeadline, proc, runtime, bounds, Sessions, Dialable,
       OneOwner, DeletionLeavesNothing, WaitOutlastsLease, OwnerInv, WaitInv, SInv
  <2> QED
    BY <2>3, <2>4, Zenon DEF SInv
<1>7. CASE RetirePrepared
  <2>0. retire \in Retirements
    BY Zenon DEF SInv, OneOwner, TypeOK
  <2>1. retire' \in Retirements /\ retire'.at = "settle" /\ retire'.phase = "containerRetired"
    BY <1>7, <2>0, SessionsAssumption, ZenonT(30) DEF RetirePrepared, Retirements
  <2>2. TypeOK'
    BY <1>7, <2>1 DEF RetirePrepared, proc, runtime, bounds, Open, Fences, TypeOK, OneOwner, SInv
  <2>3. LockingInv'
    BY <1>7 DEF RetirePrepared, proc, runtime, Open, LockInv, FenceInv, DecisionInv, GatewayInv,
           LockingInv, SInv
  <2>4. (OneOwner /\ DeletionLeavesNothing /\ WaitOutlastsLease /\ OwnerInv /\ WaitInv)'
    BY <1>7, <2>2 DEF RetirePrepared, proc, runtime, bounds, Sessions, Dialable, OneOwner,
           DeletionLeavesNothing, WaitOutlastsLease, OwnerInv, WaitInv, SInv
  <2> QED
    BY <2>3, <2>4, Zenon DEF SInv
<1>8. CASE RetireSettle
  <2>0. retire \in Retirements
    BY Zenon DEF SInv, OneOwner, TypeOK
  <2>1. retire' \in Retirements /\ retire'.at = "gateway" /\ retire'.phase = retire.phase
    BY <1>8, <2>0, SessionsAssumption, Zenon DEF RetireSettle, Retirements, At
  <2>2. TypeOK'
    BY <1>8, <2>1 DEF RetireSettle, locks, proc, runtime, bounds, ConfirmNoFinalWorkspaceSessions,
           TypeOK, OneOwner, SInv
  <2>3. LockingInv'
    BY <1>8, <2>1, Zenon DEF RetireSettle, locks, proc, runtime, FenceFree,
           ConfirmNoFinalWorkspaceSessions, LockInv, FenceInv, DecisionInv, GatewayInv, LockingInv,
           SInv
  <2>4. (OneOwner /\ DeletionLeavesNothing /\ WaitOutlastsLease /\ OwnerInv /\ WaitInv)'
    BY <1>8, <2>1, <2>2, Zenon DEF RetireSettle, proc, runtime, Sessions, Dialable, Removable,
           ConfirmNoFinalWorkspaceSessions, OneOwner, DeletionLeavesNothing, WaitOutlastsLease,
           OwnerInv, WaitInv, SInv
  <2> QED
    BY <2>3, <2>4, Zenon DEF SInv
<1>9. CASE RetireComplete
  <2>0. retire \in Retirements
    BY Zenon DEF SInv, OneOwner, TypeOK
  <2>1. retire' \in Retirements /\ retire'.at = "idle" /\ retire'.phase = "none"
    BY <1>9, <2>0, SessionsAssumption, Zenon DEF RetireComplete, Retirements, NotRetiring
  <2>2. TypeOK'
    BY <1>9, <2>0, <2>1, ZenonT(30) DEF RetireComplete, proc, runtime, bounds, Entering, Attached,
       NotRetiring, Fences, TypeOK, OneOwner, SInv
  <2>3. LockingInv'
    BY <1>9, <2>1, ZenonT(30) DEF RetireComplete, proc, LockInv, FenceInv, DecisionInv,
       GatewayInv, LockingInv, SInv
  <2>4. (OneOwner /\ DeletionLeavesNothing /\ WaitOutlastsLease /\ OwnerInv /\ WaitInv)'
    BY <1>9, <2>1, <2>2, Zenon DEF RetireComplete, proc, runtime, Sessions, Dialable, OneOwner,
           DeletionLeavesNothing, WaitOutlastsLease, FenceInv, DecisionInv, GatewayInv, LockingInv,
           OwnerInv, WaitInv, SInv
  <2> QED
    BY <2>3, <2>4, Zenon DEF SInv
<1>10. CASE RetireStop
  <2>0. retire \in Retirements
    BY Zenon DEF SInv, OneOwner, TypeOK
  <2>1. retire' \in Retirements /\ retire'.at = "idle" /\ retire'.phase = retire.phase
    BY <1>10, <2>0, SessionsAssumption, ZenonT(30) DEF RetireStop, Retirements
  <2>2. TypeOK'
    BY <1>10, <2>1 DEF RetireStop, proc, runtime, bounds, Open, Fences, TypeOK, OneOwner, SInv
  <2>3. LockingInv'
    BY <1>10 DEF RetireStop, proc, runtime, Open, LockInv, FenceInv, DecisionInv, GatewayInv,
           LockingInv, SInv
  <2>4. (OneOwner /\ DeletionLeavesNothing /\ WaitOutlastsLease /\ OwnerInv /\ WaitInv)'
    BY <1>10, <2>2 DEF RetireStop, proc, runtime, bounds, Sessions, Dialable, OneOwner,
           DeletionLeavesNothing, WaitOutlastsLease, OwnerInv, WaitInv, SInv
  <2> QED
    BY <2>3, <2>4, Zenon DEF SInv
<1> QED
  BY <1>1, <1>2, <1>3, <1>4, <1>5, <1>6, <1>7, <1>8, <1>9, <1>10, Zenon DEF RetireProgress

\* The other commands, the container and the clock.
LEMMA OthersSInv ==
  ASSUME SInv, \/ AdminStart \/ AdminStep \/ Configure \/ Configured
         \/ PlanChanges \/ ContainerLost \/ Tick \/ ClockSetBack
  PROVE  SInv'
<1> USE SessionsAssumption
<1>1. CASE AdminStart
  <2>1. TypeOK'
    BY <1>1, Zenon DEF AdminStart, proc, runtime, bounds, TypeOK, OneOwner, SInv
  <2>2. LockingInv'
    BY <1>1, ZenonT(30) DEF AdminStart, proc, LockInv, FenceInv, DecisionInv, GatewayInv,
       LockingInv, SInv
  <2>3. (OneOwner /\ DeletionLeavesNothing /\ WaitOutlastsLease /\ OwnerInv /\ WaitInv)'
    BY <1>1, <2>1, Zenon DEF AdminStart, proc, runtime, bounds, Sessions, Dialable, OneOwner,
           DeletionLeavesNothing, WaitOutlastsLease, OwnerInv, WaitInv, SInv
  <2> QED
    BY <2>2, <2>3, Zenon DEF SInv
<1>2. CASE AdminConfirm
  <2>1. TypeOK'
    BY <1>2, ZenonT(30) DEF AdminConfirm, locks, proc, runtime, bounds,
       ConfirmNoFinalWorkspaceSessions, TypeOK, OneOwner, SInv
  <2>2. LockingInv'
    BY <1>2, Zenon DEF AdminConfirm, locks, proc, FenceFree, ConfirmNoFinalWorkspaceSessions,
       LockInv, FenceInv, DecisionInv, GatewayInv, LockingInv, SInv
  <2>3. (OneOwner /\ DeletionLeavesNothing /\ WaitOutlastsLease /\ OwnerInv /\ WaitInv)'
    BY <1>2, <2>1, Zenon DEF AdminConfirm, proc, runtime, Sessions, Dialable, Removable,
           ConfirmNoFinalWorkspaceSessions, OneOwner, DeletionLeavesNothing, WaitOutlastsLease,
           DecisionInv, LockingInv, OwnerInv, WaitInv, SInv
  <2> QED
    BY <2>2, <2>3, Zenon DEF SInv
<1>3. CASE AdminDone \/ AdminStop
  <2>1. TypeOK'
    BY <1>3, ZenonT(30) DEF AdminDone, AdminStop, proc, runtime, bounds, TypeOK, OneOwner, SInv
  <2>2. LockingInv'
    BY <1>3 DEF AdminDone, AdminStop, proc, LockInv, FenceInv, DecisionInv, GatewayInv, LockingInv,
           SInv
  <2>3. (OneOwner /\ DeletionLeavesNothing /\ WaitOutlastsLease /\ OwnerInv /\ WaitInv)'
    BY <1>3, <2>1, SMTT(40) DEF AdminDone, AdminStop, proc, runtime, bounds, Sessions, Dialable,
       OneOwner, DeletionLeavesNothing, WaitOutlastsLease, GatewayInv, LockingInv, OwnerInv,
       WaitInv, SInv
  <2> QED
    BY <2>2, <2>3, Zenon DEF SInv
<1>4. CASE Configure \/ Configured
  <2>1. TypeOK'
    BY <1>4 DEF Configure, Configured, proc, runtime, others, bounds, Close, Open, Fences, TypeOK,
           OneOwner, SInv
  <2>2. LockingInv'
    BY <1>4, <2>1 DEF Configure, Configured, proc, runtime, others, FenceFree, Close, Open, Fences,
           TypeOK, LockInv, FenceInv, DecisionInv, GatewayInv, LockingInv, SInv
  <2>3. (OneOwner /\ DeletionLeavesNothing /\ WaitOutlastsLease /\ OwnerInv /\ WaitInv)'
    BY <1>4, <2>1, SMTT(40) DEF Configure, Configured, proc, runtime, others, bounds, Sessions,
       Dialable, OneOwner, DeletionLeavesNothing, WaitOutlastsLease, OwnerInv, WaitInv, SInv
  <2> QED
    BY <2>2, <2>3, Zenon DEF SInv
<1>5. CASE PlanChanges \/ ContainerLost
  <2>1. TypeOK'
    BY <1>5 DEF PlanChanges, ContainerLost, locks, proc, others, TypeOK, OneOwner, SInv
  <2>2. LockingInv'
    BY <1>5 DEF PlanChanges, ContainerLost, locks, proc, others, LockInv, FenceInv, DecisionInv,
           GatewayInv, LockingInv, SInv
  <2>3. (OneOwner /\ DeletionLeavesNothing /\ WaitOutlastsLease /\ OwnerInv /\ WaitInv)'
    BY <1>5, <2>1, SMTT(40) DEF PlanChanges, ContainerLost, proc, others, Sessions, Dialable,
       OneOwner, DeletionLeavesNothing, WaitOutlastsLease, OwnerInv, WaitInv, SInv
  <2> QED
    BY <2>2, <2>3, Zenon DEF SInv
<1>6. CASE Tick
  <2>1. TypeOK'
    BY <1>6 DEF Tick, locks, runtime, bounds, Elapse, TypeOK, OneOwner, SInv
  <2>2. LockingInv'
    BY <1>6 DEF Tick, locks, runtime, LockInv, FenceInv, DecisionInv, GatewayInv, LockingInv, SInv
  <2>3. (OneOwner /\ DeletionLeavesNothing /\ WaitOutlastsLease /\ OwnerInv /\ WaitInv)'
    BY <1>6, <2>1 DEF Tick, runtime, bounds, Sessions, Dialable, ObservedAbsent, Elapse, TypeOK,
           OneOwner, DeletionLeavesNothing, WaitOutlastsLease, OwnerInv, WaitInv, SInv
  <2> QED
    BY <2>2, <2>3, Zenon DEF SInv
<1>7. CASE ClockSetBack
  <2>1. TypeOK'
    BY <1>7 DEF ClockSetBack, locks, proc, runtime, others, TypeOK, OneOwner, SInv
  <2>2. LockingInv'
    BY <1>7 DEF ClockSetBack, locks, proc, runtime, others, LockInv, FenceInv, DecisionInv,
           GatewayInv, LockingInv, SInv
  <2>3. (OneOwner /\ DeletionLeavesNothing /\ WaitOutlastsLease /\ OwnerInv /\ WaitInv)'
    BY <1>7, <2>1 DEF ClockSetBack, proc, others, Dialable, TypeOK, OneOwner,
           DeletionLeavesNothing, WaitOutlastsLease, OwnerInv, WaitInv, SInv
  <2> QED
    BY <2>2, <2>3, Zenon DEF SInv
<1> QED
  BY <1>1, <1>2, <1>3, <1>4, <1>5, <1>6, <1>7, Zenon DEF AdminStep

-----------------------------------------------------------------------------
\* Every step keeps the invariant.
LEMMA NextSInv == SInv /\ [Next]_vars => SInv'
<1> SUFFICES ASSUME SInv, [Next]_vars PROVE SInv'
  BY ZenonT(30)
<1>1. CASE UNCHANGED vars
  BY <1>1, SMTT(40) DEF vars, SInv, OneOwner, TypeOK, Fences, DeletionLeavesNothing,
     WaitOutlastsLease, LockingInv, LockInv, FenceInv, DecisionInv, GatewayInv, OwnerInv, WaitInv,
     Dialable, Sessions
<1>2. CASE Next
  BY <1>2, EnterSInv, SessionSInv, RetireSInv, OthersSInv, Zenon DEF Next
<1> QED
  BY <1>1, <1>2, Zenon

\* The inductive invariant of locks, fences, decisions, rows and leases.
THEOREM SessionsInvariant == Spec => []SInv
  BY InitSInv, NextSInv, PTL DEF Spec

\* Nothing under a session is replaced or removed, however many entries there
\* are (AcquireWorkspaceReconciliationFence, ConfirmNoFinalWorkspaceSessions,
\* PrepareWorkspaceRetirement).
THEOREM SessionsAreUndisturbed == Spec => []SessionsUndisturbed
<1>1. SInv => SessionsUndisturbed
  BY SessionsAssumption, Zenon DEF SInv, LockingInv, FenceInv, DecisionInv, 
     GatewayInv, SessionsUndisturbed, Replacing, Sessions, Attached, Entering, Joined
<1> QED
  BY <1>1, SessionsInvariant, PTL

\* At most one endpoint of a Workspace can be reached, and a row is published
\* over no other (beginInteractiveWorkspaceAttachmentForPrincipal).
THEOREM OneOwnerServes == Spec => []OneOwner
  BY SessionsInvariant, PTL DEF SInv

\* A deleted Workspace leaves no row, container or session
\* (DeleteWorkspaceByReference).
THEOREM DeletionLeavesNone == Spec => []DeletionLeavesNothing
  BY SessionsInvariant, PTL DEF SInv

\* With a clock that is not set back, a forced deletion gives up only on an
\* owner that still served (waitFinalWorkspaceSessionOwnerAbsent).
THEOREM WaitIsLongEnough == Spec => []WaitOutlastsLease
  BY SessionsInvariant, PTL DEF SInv
====
