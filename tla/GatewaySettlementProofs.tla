---- MODULE GatewaySettlementProofs ----
(***************************************************************************)
(* That the fence covers every disagreement, that receipts are true and    *)
(* that settlement implements SettledPolicy, for every set of plans and    *)
(* any number of deaths, refusals and changes to the containers.           *)
(*                                                                         *)
(* Each promise speaks of a moment; what carries it from one to the next   *)
(* is where the command is and what its journal says.  SInv says, for      *)
(* every place and phase, which of policy, registry and Gateway are those  *)
(* of the plan.  The lemmas follow the groups of Next.                     *)
(***************************************************************************)
EXTENDS GatewaySettlement, TLAPS

\* Places of a settlement, before and under its journal, and of a cluster down.
Bootstrap == {"bundle", "composeOPA", "composeGateway", "booted"}
Journaled ==
  {"resume", "restore", "restored", "fence", "fenced", "publish", "published", "observe",
   "replace", "refresh", "confirm", "replaced", "close", "open", "opened", "writeReceipt",
   "receipt", "terminal", "unstop", "unboot", "unjournal", "activate", "reviewed", "opaReceipt"}
Settling == Bootstrap \cup Journaled \cup {"settle", "base", "prepare", "settled"}
Downing ==
  {"removeGateway", "removeOPA", "removed", "volumes", "clear", "cleared", "writeStopped",
   "unactivate", "unreceipt", "undown"}

\* The open decision is of this kind.
For(op) == decision # None /\ decision.op = op

\* Gateway, if there is one, is made for plan p.
MadeFor(p) == gateway # None => gateway.cfg = p.cfg /\ gateway.nets = p.prin

\* Wherever the policy volume has a plan, registry and Gateway are that plan's.
Agreement == bundle \in Plans => registry = bundle.prin /\ MadeFor(bundle)

\* A command runs only under its decision: which decision allows which place,
\* journal and marker, and what the collection names once it is closed.
DecisionInv ==
  /\ decision = None =>
       /\ pc = "idle" /\ NoSettlement
       /\ coll.plan = (IF receipt = None THEN None ELSE receipt.plan)
  /\ decision # None => decision.next <= MaxRevision
  /\ pc \in Settling => For("settle")
  /\ pc \in Downing \cup {"down"} => For("down")
  /\ For("settle") => (decision.plan.prin # {} => receipt # None)
  /\ For("down") => (receipt # None => receipt.plan.prin = {})
  /\ For("down") => journal = None /\ boot = None /\ activation = None
  /\ down # None => For("down") /\ registry = {}
  /\ activation # None => journal # None
  /\ boot # None => For("settle") /\ decision.plan.prin = {}
  /\ pc \in Downing => down # None
  /\ pc \notin {"idle", "settle"} => (pc \in Journaled <=> journal # None)

\* The fence is out; the record of the new Gateway is in the journal; the target
\* policy is in the volume.
Fenced == journal.phase \in {"fenced", "principals"} \/ pc \in {"fenced", "open"}
Applied == journal.phase \in {"replaced", "policy", "receipt"}
Opened ==
  \/ journal.phase \in {"policy", "receipt"}
  \/ pc \in {"opened", "writeReceipt", "receipt", "opaReceipt"}

\* Where the command is tells the phase of its journal.
PlaceInv ==
  /\ journal.class = "opa" => journal.phase \in {"prepared", "receipt"}
  /\ pc \in {"fence", "fenced", "publish", "published", "observe", "replace", "refresh", "confirm",
             "replaced", "terminal", "unstop", "unboot"} => journal.class = "full"
  /\ pc \in {"activate", "reviewed", "opaReceipt"} => journal.class = "opa"
  /\ pc \in {"restore", "restored", "fence", "fenced", "activate", "reviewed", "opaReceipt"} =>
       journal.phase = "prepared"
  /\ pc \in {"publish", "published"} => journal.phase = "fenced"
  /\ pc \in {"observe", "replace", "refresh", "confirm", "replaced"} => journal.phase = "principals"
  /\ pc \in {"close", "open", "opened"} =>
       journal.phase = IF journal.class = "opa" THEN "prepared" ELSE "replaced"
  /\ pc \in {"writeReceipt", "receipt"} =>
       journal.phase = IF journal.class = "opa" THEN "prepared" ELSE "policy"
  /\ pc \in {"terminal", "unstop", "unboot", "unjournal"} => journal.phase = "receipt"

\* The record the command holds, or will read from the journal.
Held ==
  pc \in {"replaced", "close", "open", "opened", "writeReceipt", "receipt",
          "reviewed", "opaReceipt"}
Names(r) == gateway # None => gateway.id = r.gid

\* What a settlement has established, by its phase and place.
JournalInv == journal # None =>
  /\ For("settle") /\ journal.plan = decision.plan
  /\ PlaceInv
  /\ Held => rec # None /\ rec.plan = journal.plan
  /\ Applied =>
       /\ journal.applied # None /\ journal.applied.plan = journal.plan
       /\ Names(journal.applied)
  /\ Held /\ pc # "reviewed" => Names(rec)
  /\ Held /\ Applied => rec = journal.applied
  /\ Fenced => bundle = Fence
  /\ Opened => bundle = journal.plan
  /\ pc \in {"published"} \/ journal.phase = "principals" \/ Applied \/ journal.class = "opa" =>
       registry = journal.plan.prin
  /\ pc = "replaced" \/ Applied \/ journal.class = "opa" => MadeFor(journal.plan)
  /\ journal.class = "opa" => boot = None /\ stopped = None /\ receipt # None
  /\ journal.class = "full" => activation = None
  /\ activation # None => activation.plan = journal.plan /\ journal.phase = "prepared"
  /\ pc = "opaReceipt" => activation = None /\ receipt = rec
  /\ pc \in {"receipt"} => receipt = rec
  /\ journal.phase = "receipt" => receipt = journal.applied /\ activation = None
  /\ pc \in {"unboot", "unjournal"} => stopped = None
  /\ pc = "unjournal" => boot = None

\* A bootstrap puts its policy out before anything of another plan exists.
BootInv ==
  /\ pc \in Bootstrap => boot # None /\ journal = None
  /\ boot # None /\ journal = None =>
       /\ registry = {} /\ receipt = None
       /\ bundle \in {None, decision.plan}
       /\ gateway # None => gateway.cfg = decision.plan.cfg /\ gateway.nets = {}
       /\ pc \in {"composeOPA", "composeGateway", "booted"} => bundle = decision.plan

\* With no journal, the receipts are true.
QuietInv == NoSettlement =>
  /\ receipt # None =>
       /\ stopped = None
       /\ bundle = receipt.plan /\ registry = receipt.plan.prin
       /\ gateway # None => gateway.id = receipt.gid /\ gateway.cfg = receipt.plan.cfg
  /\ stopped # None =>
       /\ StoppedRuntime /\ registry = {}
       /\ stopped.purge => bundle = None

\* A command that is about to return has settled what was decided.
DoneInv == pc \in {"settled", "done"} =>
  /\ decision # None /\ NoSettlement
  /\ pc = "done" => IF decision.op = "settle" THEN receipt # None /\ receipt.plan = decision.plan
                    ELSE receipt = None /\ gateway = None

\* What a cluster down has removed, by its phase and place.
DownInv == down # None =>
  /\ down.phase = "prepared" => pc \in {"idle", "down", "removeGateway", "removeOPA", "removed"}
  /\ pc = "removeOPA" => gateway = None
  /\ pc = "removed" \/ down.phase # "prepared" => gateway = None /\ opa = None
  /\ pc \in {"clear", "cleared"} \/ down.phase = "authority" => (down.purge => bundle = None)
  /\ pc \in {"writeStopped", "unactivate", "unreceipt", "undown"} => down.phase = "authority"
  /\ pc \in {"unactivate", "unreceipt", "undown"} => stopped = down
  /\ pc = "undown" => receipt = None

\* TypeOK, of everything but pc, with its sets named.
Colls == [rev : 0..MaxRevision, plan : Plans \cup {None}]
Boots == [ref : Nat, phase : {"prepared", "running"}]
FaultCounts == 0..MaxFaults
DriftCounts == 0..MaxDrifts

Types ==
  /\ decision \in Decisions \cup {None} /\ coll \in Colls /\ session \in BOOLEAN
  /\ rec \in Records \cup {None}
  /\ journal \in Journals \cup {None} /\ activation \in Records \cup {None}
  /\ receipt \in Records \cup {None} /\ boot \in Boots \cup {None}
  /\ down \in DownJournals \cup {None} /\ stopped \in DownJournals \cup {None}
  /\ registry \in SUBSET Principals
  /\ gateway \in Gateways \cup {None} /\ opa \in OPAs \cup {None}
  /\ bundle \in Plans \cup {None, Fence}
  /\ faults \in FaultCounts /\ drifts \in DriftCounts

\* What every step under a journal rests on.
UnderWay ==
  /\ journal # None /\ journal \in Journals /\ decision # None /\ decision.op = "settle"
  /\ decision.plan = journal.plan /\ journal.plan \in Plans /\ down = None
  /\ decision.plan.prin # {} => receipt # None
  /\ boot # None => journal.plan.prin = {}

\* The inductive invariant.
SInv ==
  /\ pc \in Places /\ Types /\ Agreement /\ DecisionInv /\ JournalInv
  /\ BootInv /\ QuietInv /\ DoneInv /\ DownInv

-----------------------------------------------------------------------------

\* Docker can name a new container.
LEMMA FreshFacts == Types => FreshID \in ContainerIDs
<1> SUFFICES ASSUME Types PROVE FreshID \in ContainerIDs
  BY Zenon
<1>1. PICK x : x \in ContainerIDs
  BY IDsAssumption, Zenon
<1> DEFINE a == IF gateway = None THEN x ELSE gateway.id
           b == IF receipt = None THEN x ELSE receipt.gid
           c == IF activation = None THEN x ELSE activation.gid
           d == IF journal = None THEN x ELSE journal.reviewed
           e == IF stopped = None THEN x ELSE stopped.gateway.id
           f == IF down = None THEN x ELSE down.gateway.id
<1>2. a \in ContainerIDs /\ b \in ContainerIDs /\ c \in ContainerIDs /\ d \in ContainerIDs
      /\ e \in ContainerIDs /\ f \in ContainerIDs
  BY <1>1, Zenon DEF Types, Gateways, Records, Journals, DownJournals
<1>3. UsedIDs \subseteq {a, b, c, d, e, f}
  BY Zenon DEF UsedIDs
<1> HIDE DEF a, b, c, d, e, f
<1>4. \E i \in ContainerIDs : i \notin UsedIDs
  BY <1>2, <1>3, IDsAssumption, Zenon
<1> QED
  BY <1>4, Zenon DEF FreshID

\* None and the fence are no values of their own.
LEMMA NoneFacts ==
  /\ None \notin Plans /\ Fence \notin Plans /\ Fence # None
  /\ None \notin Decisions /\ None \notin Records /\ None \notin Journals
  /\ None \notin DownJournals /\ None \notin Gateways /\ None \notin OPAs /\ None \notin Boots
  BY SettlementAssumption, Zenon DEF Boots

\* The bounds are naturals.
LEMMA BoundFacts ==
  MaxRevision \in Nat /\ MaxFaults \in Nat /\ MaxDrifts \in Nat /\ Purges \subseteq BOOLEAN
  BY SettlementAssumption, Zenon

\* What the fields of files and containers hold.
LEMMA FieldFacts == Types =>
  /\ decision # None =>
       /\ decision.op \in {"settle", "down"} /\ decision.next \in Nat /\ decision.prev \in Nat
       /\ decision.op = "settle" => decision.plan \in Plans
       /\ decision.op = "down" => decision.plan = None
  /\ journal # None =>
       /\ journal.plan \in Plans /\ journal.class \in {"full", "opa"}
       /\ journal.phase \in {"prepared", "fenced", "principals", "replaced", "policy", "receipt"}
       /\ journal.applied \in Records \cup {None}
  /\ \A r \in {rec, receipt, activation} : r # None => r.plan \in Plans
  /\ down # None => down.phase \in {"prepared", "runtime", "authority"}
  /\ bundle \in Plans \cup {None, Fence} /\ Fence \notin Plans /\ None \notin Plans /\ Fence # None
<1> SUFFICES ASSUME Types
             PROVE  /\ decision # None =>
                         /\ decision.op \in {"settle", "down"}
                         /\ decision.next \in Nat /\ decision.prev \in Nat
                         /\ decision.op = "settle" => decision.plan \in Plans
                         /\ decision.op = "down" => decision.plan = None
                    /\ journal # None =>
                         /\ journal.plan \in Plans /\ journal.class \in {"full", "opa"}
                         /\ journal.phase \in {"prepared", "fenced", "principals", "replaced",
                                               "policy", "receipt"}
                         /\ journal.applied \in Records \cup {None}
                    /\ \A r \in {rec, receipt, activation} : r # None => r.plan \in Plans
                    /\ down # None => down.phase \in {"prepared", "runtime", "authority"}
                    /\ bundle \in Plans \cup {None, Fence}
                    /\ Fence \notin Plans /\ None \notin Plans /\ Fence # None
  BY Zenon
<1>1. decision # None =>
        /\ decision.op \in {"settle", "down"} /\ decision.next \in Nat /\ decision.prev \in Nat
        /\ decision.op = "settle" => decision.plan \in Plans
        /\ decision.op = "down" => decision.plan = None
  BY Zenon DEF Types, Decisions
<1>2. journal # None =>
        /\ journal.plan \in Plans /\ journal.class \in {"full", "opa"}
        /\ journal.phase \in {"prepared", "fenced", "principals", "replaced", "policy", "receipt"}
        /\ journal.applied \in Records \cup {None}
  BY Zenon DEF Types, Journals
<1>3. \A r \in {rec, receipt, activation} : r # None => r.plan \in Plans
  BY DEF Types, Records
<1>4. down # None => down.phase \in {"prepared", "runtime", "authority"}
  BY Zenon DEF Types, DownJournals
<1> QED
  BY <1>1, <1>2, <1>3, <1>4, NoneFacts, Zenon DEF Types

\* Under a journal nothing is claimed of bootstrap, receipts, end and down.
LEMMA UnderJournal ==
  ASSUME pc' \in Journaled \cup {"idle"}, journal' # None, down' = None
  PROVE  (BootInv /\ QuietInv /\ DoneInv /\ DownInv)'
  BY Zenon DEF BootInv, QuietInv, DoneInv, DownInv, NoSettlement, Journaled, Bootstrap

\* A command at a place of the settlement has its journal and decision.
LEMMA JournaledFacts ==
  ASSUME SInv, pc \in Journaled
  PROVE  UnderWay
<1>1. journal # None /\ For("settle") /\ down = None
  BY DEF SInv, DecisionInv, Journaled, Settling, For
<1> QED
  BY <1>1, FieldFacts DEF SInv, Types, JournalInv, DecisionInv, For, UnderWay

\* During a cluster down nothing is claimed of a settlement.
LEMMA UnderDown ==
  ASSUME pc' \in Downing \cup {"idle", "down"}, down' # None, journal' = None, boot' = None
  PROVE  (JournalInv /\ BootInv /\ QuietInv /\ DoneInv)'
  BY Zenon DEF JournalInv, BootInv, QuietInv, DoneInv, NoSettlement, Downing, Bootstrap

\* A command at a place of a cluster down has its journal and decision.
LEMMA DowningFacts ==
  ASSUME SInv, pc \in Downing
  PROVE  /\ down # None /\ down \in DownJournals /\ decision # None /\ decision.op = "down"
         /\ journal = None /\ boot = None /\ activation = None /\ registry = {}
  BY Zenon DEF SInv, Types, DecisionInv, For

\* Every step under a journal preserves SInv.
LEMMA SettleSInv ==
  ASSUME SInv, \/ ResumeFinalGatewaySettlement \/ RestoreHealthy \/ RestorePreparedComponents
               \/ ConfirmRestored \/ PublishFence \/ JournalFenced
               \/ PublishFinalSettlementPrincipals \/ JournalPrincipals \/ ObserveSettled
               \/ ReplaceFinalGateway \/ RefreshFinalSharedNetworkAddresses \/ ConfirmReplaced
               \/ JournalReplaced \/ CloseBeforePolicy \/ OpenPolicy \/ JournalPolicy
               \/ WriteActiveReceipt \/ ConfirmReceipt \/ ConfirmTerminal \/ RemoveStopped
               \/ RemoveBootstrap \/ PrepareFinalPolicyActivation \/ ResumeFinalPolicyActivation
               \/ JournalOPAReceipt
  PROVE  SInv'
<1>1. CASE ResumeFinalGatewaySettlement
  <2>1. /\ pc = "resume" /\ pc' = Resumption
        /\ rec' = journal.applied
        /\ UNCHANGED << decision, coll, session, journal, activation, receipt, boot, down,
                        stopped, registry, gateway, opa, bundle, faults, drifts >>
    BY <1>1, Zenon DEF ResumeFinalGatewaySettlement, Step, outer, marks, docker, bounds
  <2>2. UnderWay
    BY <2>1, JournaledFacts, Zenon DEF Journaled
  <2>3. pc' \in Places
    BY <2>1, Zenon DEF Places, Resumption
  <2>4. Types'
    BY <2>1, <2>2, FieldFacts DEF SInv, Types, UnderWay
  <2>5. PlaceInv'
    BY <2>1, <2>2, FieldFacts, Zenon DEF SInv, JournalInv, PlaceInv, Resumption, UnderWay
  <2>6. JournalInv'
    BY <2>1, <2>5, Zenon DEF SInv, JournalInv, For, MadeFor, Names, Held, Fenced, Applied, Opened,
       Resumption
  <2>7. Agreement'
    BY <2>1, Zenon DEF SInv, Agreement, MadeFor
  <2>8. DecisionInv'
    BY <2>1, FieldFacts, Zenon DEF SInv, DecisionInv, For, Journaled, Downing, Resumption
  <2>9. (BootInv /\ QuietInv /\ DoneInv /\ DownInv)'
    BY <2>1, <2>2, UnderJournal, Zenon DEF Journaled, Resumption, UnderWay
  <2> QED
    BY <2>3, <2>4, <2>6, <2>7, <2>8, <2>9, Zenon DEF SInv
<1>2. CASE RestoreHealthy
  <2>1. /\ Healthy
        /\ pc = "restore" /\ pc' = AfterRestore
        /\ UNCHANGED << decision, coll, session, rec, journal, activation, receipt, boot, down,
                        stopped, registry, gateway, opa, bundle, faults, drifts >>
    BY <1>2, Zenon DEF RestoreHealthy, Step, outer, marks, docker, bounds
  <2>2. UnderWay
    BY <2>1, JournaledFacts, Zenon DEF Journaled
  <2>3. pc' \in Places
    BY <2>1, Zenon DEF Places, AfterRestore
  <2>4. Types'
    BY <2>1 DEF SInv, Types
  <2>5. PlaceInv'
    BY <2>1, <2>2, FieldFacts, Zenon DEF SInv, JournalInv, PlaceInv, AfterRestore, UnderWay
  <2>6. JournalInv'
    BY <2>1, <2>5, Zenon DEF SInv, JournalInv, For, MadeFor, Held, Fenced, Applied, Opened,
       PlaceInv, AfterRestore
  <2>7. Agreement'
    BY <2>1, Zenon DEF SInv, Agreement, MadeFor
  <2>8. DecisionInv'
    BY <2>1, FieldFacts, Zenon DEF SInv, DecisionInv, For, Journaled, Downing, AfterRestore
  <2>9. (BootInv /\ QuietInv /\ DoneInv /\ DownInv)'
    BY <2>1, <2>2, UnderJournal, Zenon DEF Journaled, AfterRestore, UnderWay
  <2> QED
    BY <2>3, <2>4, <2>6, <2>7, <2>8, <2>9, Zenon DEF SInv
<1>3. CASE RestorePreparedComponents
  <2>1. /\ ~Healthy
        /\ pc = "restore" /\ pc' = "restored"
        /\ RestoreAdmitted
        /\ \E a, b \in Addrs :
             /\ gateway' = [gateway EXCEPT !.addr = a, !.up = TRUE]
             /\ opa' = [opa EXCEPT !.addr = b, !.up = TRUE]
        /\ UNCHANGED << decision, coll, session, rec, journal, activation, receipt, boot, down,
                        stopped, registry, bundle, faults, drifts >>
    BY <1>3, Zenon DEF RestorePreparedComponents, Step, Passes, outer, marks, bounds
  <2>2. UnderWay
    BY <2>1, JournaledFacts, Zenon DEF Journaled
  <2>3. /\ gateway' \in Gateways /\ opa' \in OPAs /\ gateway # None /\ gateway'.id = gateway.id
        /\ gateway'.cfg = gateway.cfg /\ gateway'.nets = gateway.nets
    BY <2>1, Zenon DEF RestoreAdmitted, SInv, Types, Gateways, OPAs
  <2>4. pc' \in Places
    BY <2>1, Zenon DEF Places
  <2>5. Types'
    BY <2>1, <2>2, <2>3, Zenon DEF SInv, Types, UnderWay
  <2>6. JournalInv'
    BY <2>1, <2>3, Zenon DEF SInv, JournalInv, For, MadeFor, Held, Fenced, Applied, Opened, PlaceInv
  <2>7. Agreement'
    BY <2>1, <2>3, Zenon DEF SInv, Agreement, MadeFor
  <2>8. DecisionInv'
    BY <2>1, FieldFacts, Zenon DEF SInv, DecisionInv, For, Journaled, Downing
  <2>9. (BootInv /\ QuietInv /\ DoneInv /\ DownInv)'
    BY <2>1, <2>2, UnderJournal, Zenon DEF Journaled, UnderWay
  <2> QED
    BY <2>4, <2>5, <2>6, <2>7, <2>8, <2>9, Zenon DEF SInv
<1>4. CASE ConfirmRestored
  <2>1. /\ pc = "restored" /\ pc' = AfterRestore
        /\ UNCHANGED << decision, coll, session, rec, journal, activation, receipt, boot, down,
                        stopped, registry, gateway, opa, bundle, faults, drifts >>
    BY <1>4, Zenon DEF ConfirmRestored, Step, outer, marks, docker, bounds
  <2>2. UnderWay
    BY <2>1, JournaledFacts, Zenon DEF Journaled
  <2>3. pc' \in Places
    BY <2>1, Zenon DEF Places, AfterRestore
  <2>4. Types'
    BY <2>1 DEF SInv, Types
  <2>5. PlaceInv'
    BY <2>1, <2>2, FieldFacts, Zenon DEF SInv, JournalInv, PlaceInv, AfterRestore, UnderWay
  <2>6. JournalInv'
    BY <2>1, <2>5, Zenon DEF SInv, JournalInv, For, MadeFor, Held, Fenced, Applied, Opened,
       PlaceInv, AfterRestore
  <2>7. Agreement'
    BY <2>1, Zenon DEF SInv, Agreement, MadeFor
  <2>8. DecisionInv'
    BY <2>1, FieldFacts, Zenon DEF SInv, DecisionInv, For, Journaled, Downing, AfterRestore
  <2>9. (BootInv /\ QuietInv /\ DoneInv /\ DownInv)'
    BY <2>1, <2>2, UnderJournal, Zenon DEF Journaled, AfterRestore, UnderWay
  <2> QED
    BY <2>3, <2>4, <2>6, <2>7, <2>8, <2>9, Zenon DEF SInv
<1>5. CASE PublishFence
  <2>1. /\ pc = "fence" /\ pc' = "fenced"
        /\ bundle' = Fence
        /\ UNCHANGED << decision, coll, session, rec, journal, activation, receipt, boot, down,
                        stopped, registry, gateway, opa, faults, drifts >>
    BY <1>5, Zenon DEF PublishFence, Step, outer, marks, bounds
  <2>2. UnderWay
    BY <2>1, JournaledFacts, Zenon DEF Journaled
  <2>3. pc' \in Places
    BY <2>1, Zenon DEF Places
  <2>4. Types'
    BY <2>1, <2>2, Zenon DEF SInv, Types, UnderWay
  <2>5. JournalInv'
    BY <2>1, Zenon DEF SInv, JournalInv, For, Held, Applied, Opened, PlaceInv
  <2>6. Agreement'
    BY <2>1, FieldFacts, Zenon DEF SInv, Agreement
  <2>7. DecisionInv'
    BY <2>1, FieldFacts, Zenon DEF SInv, DecisionInv, For, Journaled, Downing
  <2>8. (BootInv /\ QuietInv /\ DoneInv /\ DownInv)'
    BY <2>1, <2>2, UnderJournal, Zenon DEF Journaled, UnderWay
  <2> QED
    BY <2>3, <2>4, <2>5, <2>6, <2>7, <2>8, Zenon DEF SInv
<1>6. CASE JournalFenced
  <2>1. /\ pc = "fenced" /\ pc' = "publish"
        /\ journal' = [journal EXCEPT !.phase = "fenced"]
        /\ UNCHANGED << decision, coll, session, rec, activation, receipt, boot, down, stopped,
                        registry, gateway, opa, bundle, faults, drifts >>
    BY <1>6, Zenon DEF JournalFenced, Step, Journal, outer, marks, docker, bounds
  <2>2. UnderWay
    BY <2>1, JournaledFacts, Zenon DEF Journaled
  <2>3. /\ journal' \in Journals /\ journal'.plan = journal.plan /\ journal'.class = journal.class
        /\ journal'.phase = "fenced" /\ journal'.applied = journal.applied
    BY <2>1, <2>2, Zenon DEF Journals, UnderWay
  <2>4. journal' # None
    BY <2>3, NoneFacts, Zenon
  <2>5. pc' \in Places
    BY <2>1, Zenon DEF Places
  <2>6. Types'
    BY <2>1, <2>3 DEF SInv, Types
  <2>7. JournalInv'
    BY <2>1, <2>2, <2>3, Zenon DEF SInv, JournalInv, For, Held, Fenced, Applied, Opened, PlaceInv,
       UnderWay
  <2>8. Agreement'
    BY <2>1, <2>2, FieldFacts, Zenon DEF SInv, Agreement, JournalInv, Fenced, UnderWay
  <2>9. DecisionInv'
    BY <2>1, <2>4, FieldFacts, Zenon DEF SInv, DecisionInv, For, Journaled, Downing
  <2>10. (BootInv /\ QuietInv /\ DoneInv /\ DownInv)'
    BY <2>1, <2>2, <2>4, UnderJournal, Zenon DEF Journaled, UnderWay
  <2> QED
    BY <2>5, <2>6, <2>7, <2>8, <2>9, <2>10, Zenon DEF SInv
<1>7. CASE PublishFinalSettlementPrincipals
  <2>1. /\ pc = "publish" /\ pc' = "published"
        /\ registry' = journal.plan.prin
        /\ UNCHANGED << decision, coll, session, rec, journal, activation, receipt, boot, down,
                        stopped, gateway, opa, bundle, faults, drifts >>
    BY <1>7, Zenon DEF PublishFinalSettlementPrincipals, Step, outer, marks, docker, bounds
  <2>2. UnderWay
    BY <2>1, JournaledFacts, Zenon DEF Journaled
  <2>3. pc' \in Places
    BY <2>1, Zenon DEF Places
  <2>4. Types'
    BY <2>1, <2>2 DEF SInv, Types, Principals, UnderWay
  <2>5. JournalInv'
    BY <2>1, Zenon DEF SInv, JournalInv, For, Held, Fenced, Applied, Opened, PlaceInv
  <2>6. Agreement'
    BY <2>1, <2>2, FieldFacts, Zenon DEF SInv, Agreement, JournalInv, PlaceInv, Fenced, UnderWay
  <2>7. DecisionInv'
    BY <2>1, FieldFacts, Zenon DEF SInv, DecisionInv, For, Journaled, Downing
  <2>8. (BootInv /\ QuietInv /\ DoneInv /\ DownInv)'
    BY <2>1, <2>2, UnderJournal, Zenon DEF Journaled, UnderWay
  <2> QED
    BY <2>3, <2>4, <2>5, <2>6, <2>7, <2>8, Zenon DEF SInv
<1>8. CASE JournalPrincipals
  <2>1. /\ pc = "published" /\ pc' = "observe"
        /\ journal' = [journal EXCEPT !.phase = "principals"]
        /\ UNCHANGED << decision, coll, session, rec, activation, receipt, boot, down, stopped,
                        registry, gateway, opa, bundle, faults, drifts >>
    BY <1>8, Zenon DEF JournalPrincipals, Step, Journal, outer, marks, docker, bounds
  <2>2. UnderWay
    BY <2>1, JournaledFacts, Zenon DEF Journaled
  <2>3. /\ journal' \in Journals /\ journal'.plan = journal.plan /\ journal'.class = journal.class
        /\ journal'.phase = "principals" /\ journal'.applied = journal.applied
    BY <2>1, <2>2, Zenon DEF Journals, UnderWay
  <2>4. journal' # None
    BY <2>3, NoneFacts, Zenon
  <2>5. pc' \in Places
    BY <2>1, Zenon DEF Places
  <2>6. Types'
    BY <2>1, <2>3 DEF SInv, Types
  <2>7. JournalInv'
    BY <2>1, <2>2, <2>3, Zenon DEF SInv, JournalInv, For, Held, Fenced, Applied, Opened, PlaceInv,
       UnderWay
  <2>8. Agreement'
    BY <2>1, <2>2, FieldFacts, Zenon DEF SInv, Agreement, JournalInv, PlaceInv, Fenced, UnderWay
  <2>9. DecisionInv'
    BY <2>1, <2>4, FieldFacts, Zenon DEF SInv, DecisionInv, For, Journaled, Downing
  <2>10. (BootInv /\ QuietInv /\ DoneInv /\ DownInv)'
    BY <2>1, <2>2, <2>4, UnderJournal, Zenon DEF Journaled, UnderWay
  <2> QED
    BY <2>5, <2>6, <2>7, <2>8, <2>9, <2>10, Zenon DEF SInv
<1>9. CASE ObserveSettled
  <2>1. /\ pc = "observe" /\ pc' = IF ObserveExactSettledGateway THEN "replaced" ELSE "replace"
        /\ rec' = IF pc' = "replaced" THEN Material(journal.plan) ELSE rec
        /\ UNCHANGED << decision, coll, session, journal, activation, receipt, boot, down,
                        stopped, registry, gateway, opa, bundle, faults, drifts >>
    BY <1>9, Zenon DEF ObserveSettled, Step, outer, marks, docker, bounds
  <2>2. UnderWay
    BY <2>1, JournaledFacts, Zenon DEF Journaled
  <2>3. /\ pc' = "replaced" =>
          /\ rec' \in Records
          /\ rec'.plan = journal.plan
          /\ rec'.gid = gateway.id
          /\ gateway.cfg = journal.plan.cfg /\ gateway.nets = journal.plan.prin
    BY <2>1, <2>2, Zenon DEF ObserveExactSettledGateway, SelectedClosure, Healthy, Up, Material,
       SInv, Types, Records, Gateways, UnderWay
  <2>4. pc' = "replaced" => rec' # None
    BY <2>3, NoneFacts, Zenon
  <2>5. pc' \in Places
    BY <2>1, Zenon DEF Places
  <2>6. Types'
    BY <2>1, <2>3 DEF SInv, Types
  <2>7. JournalInv'
    BY <2>1, <2>3, <2>4, Zenon DEF SInv, JournalInv, For, MadeFor, Names, Held, Fenced, Applied,
       Opened, PlaceInv
  <2>8. Agreement'
    BY <2>1, <2>2, FieldFacts, Zenon DEF SInv, Agreement, JournalInv, PlaceInv, Fenced, UnderWay
  <2>9. DecisionInv'
    BY <2>1, FieldFacts, Zenon DEF SInv, DecisionInv, For, Journaled, Downing
  <2>10. (BootInv /\ QuietInv /\ DoneInv /\ DownInv)'
    BY <2>1, <2>2, UnderJournal, Zenon DEF Journaled, UnderWay
  <2> QED
    BY <2>5, <2>6, <2>7, <2>8, <2>9, <2>10, Zenon DEF SInv
<1>10. CASE ReplaceFinalGateway
  <2>1. /\ pc = "replace" /\ pc' = "refresh"
        /\ opa # None
        /\ \E a, b \in Addrs :
             /\ gateway' = NewGateway(a, journal.plan.prin, journal.plan.cfg)
             /\ opa' = IF opa.cur THEN opa ELSE [addr |-> b, cur |-> TRUE, up |-> TRUE]
        /\ UNCHANGED << decision, coll, session, rec, journal, activation, receipt, boot, down,
                        stopped, registry, bundle, faults, drifts >>
    BY <1>10, Zenon DEF ReplaceFinalGateway, Step, Passes, outer, marks, bounds
  <2>2. UnderWay
    BY <2>1, JournaledFacts, Zenon DEF Journaled
  <2>3. pc' \in Places
    BY <2>1, Zenon DEF Places
  <2>4. Types'
    BY <2>1, <2>2, FreshFacts DEF SInv, Types, NewGateway, Gateways, OPAs, Principals, Configs,
       UnderWay
  <2>5. JournalInv'
    BY <2>1, Zenon DEF SInv, JournalInv, For, Held, Fenced, Applied, Opened, PlaceInv
  <2>6. Agreement'
    BY <2>1, <2>2, FieldFacts, Zenon DEF SInv, Agreement, JournalInv, PlaceInv, Fenced, UnderWay
  <2>7. DecisionInv'
    BY <2>1, FieldFacts, Zenon DEF SInv, DecisionInv, For, Journaled, Downing
  <2>8. (BootInv /\ QuietInv /\ DoneInv /\ DownInv)'
    BY <2>1, <2>2, UnderJournal, Zenon DEF Journaled, UnderWay
  <2> QED
    BY <2>3, <2>4, <2>5, <2>6, <2>7, <2>8, Zenon DEF SInv
<1>11. CASE RefreshFinalSharedNetworkAddresses
  <2>1. /\ pc = "refresh" /\ pc' = "confirm"
        /\ Healthy
        /\ journal' = [journal EXCEPT !.gaddr = gateway.addr, !.oaddr = opa.addr]
        /\ UNCHANGED << decision, coll, session, rec, activation, receipt, boot, down, stopped,
                        registry, gateway, opa, bundle, faults, drifts >>
    BY <1>11, Zenon DEF RefreshFinalSharedNetworkAddresses, Step, Passes, outer, marks, docker,
       bounds
  <2>2. UnderWay
    BY <2>1, JournaledFacts, Zenon DEF Journaled
  <2>3. /\ journal' \in Journals /\ journal'.plan = journal.plan /\ journal'.class = journal.class
        /\ journal'.phase = "principals" /\ journal'.applied = journal.applied
    BY <2>1, <2>2, Zenon DEF SInv, JournalInv, PlaceInv, Types, Healthy, Up, Journals, Gateways,
       OPAs, UnderWay
  <2>4. journal' # None
    BY <2>3, NoneFacts, Zenon
  <2>5. pc' \in Places
    BY <2>1, Zenon DEF Places
  <2>6. Types'
    BY <2>1, <2>3 DEF SInv, Types
  <2>7. JournalInv'
    BY <2>1, <2>2, <2>3, Zenon DEF SInv, JournalInv, For, Held, Fenced, Applied, Opened, PlaceInv,
       UnderWay
  <2>8. Agreement'
    BY <2>1, <2>2, FieldFacts, Zenon DEF SInv, Agreement, JournalInv, PlaceInv, Fenced, UnderWay
  <2>9. DecisionInv'
    BY <2>1, <2>4, FieldFacts, Zenon DEF SInv, DecisionInv, For, Journaled, Downing
  <2>10. (BootInv /\ QuietInv /\ DoneInv /\ DownInv)'
    BY <2>1, <2>2, <2>4, UnderJournal, Zenon DEF Journaled, UnderWay
  <2> QED
    BY <2>5, <2>6, <2>7, <2>8, <2>9, <2>10, Zenon DEF SInv
<1>12. CASE ConfirmReplaced
  <2>1. /\ pc = "confirm" /\ pc' = "replaced"
        /\ ObserveExactSettledGateway
        /\ rec' = Material(journal.plan)
        /\ UNCHANGED << decision, coll, session, journal, activation, receipt, boot, down,
                        stopped, registry, gateway, opa, bundle, faults, drifts >>
    BY <1>12, Zenon DEF ConfirmReplaced, Step, Passes, outer, marks, docker, bounds
  <2>2. UnderWay
    BY <2>1, JournaledFacts, Zenon DEF Journaled
  <2>3. /\ rec' \in Records /\ rec'.plan = journal.plan /\ rec'.gid = gateway.id
        /\ gateway.cfg = journal.plan.cfg /\ gateway.nets = journal.plan.prin
    BY <2>1, <2>2, Zenon DEF ObserveExactSettledGateway, SelectedClosure, Healthy, Up, Material,
       SInv, Types, Records, Gateways, UnderWay
  <2>4. rec' # None
    BY <2>3, NoneFacts, Zenon
  <2>5. pc' \in Places
    BY <2>1, Zenon DEF Places
  <2>6. Types'
    BY <2>1, <2>2, <2>3, Zenon DEF SInv, Types, UnderWay
  <2>7. JournalInv'
    BY <2>1, <2>3, <2>4, Zenon DEF SInv, JournalInv, For, MadeFor, Names, Fenced, Applied, Opened,
       PlaceInv
  <2>8. Agreement'
    BY <2>1, <2>2, FieldFacts, Zenon DEF SInv, Agreement, JournalInv, PlaceInv, Fenced, UnderWay
  <2>9. DecisionInv'
    BY <2>1, FieldFacts, Zenon DEF SInv, DecisionInv, For, Journaled, Downing
  <2>10. (BootInv /\ QuietInv /\ DoneInv /\ DownInv)'
    BY <2>1, <2>2, UnderJournal, Zenon DEF Journaled, UnderWay
  <2> QED
    BY <2>5, <2>6, <2>7, <2>8, <2>9, <2>10, Zenon DEF SInv
<1>13. CASE JournalReplaced
  <2>1. /\ pc = "replaced" /\ pc' = "close"
        /\ journal' = [journal EXCEPT !.applied = rec, !.phase = "replaced"]
        /\ UNCHANGED << decision, coll, session, rec, activation, receipt, boot, down, stopped,
                        registry, gateway, opa, bundle, faults, drifts >>
    BY <1>13, Zenon DEF JournalReplaced, Step, outer, marks, docker, bounds
  <2>2. UnderWay
    BY <2>1, JournaledFacts, Zenon DEF Journaled
  <2>3. /\ journal' \in Journals /\ journal'.plan = journal.plan /\ journal'.class = journal.class
        /\ journal'.phase = "replaced" /\ journal'.applied = rec
    BY <2>1, <2>2, Zenon DEF SInv, Types, Journals, UnderWay
  <2>4. journal' # None
    BY <2>3, NoneFacts, Zenon
  <2>5. pc' \in Places
    BY <2>1, Zenon DEF Places
  <2>6. Types'
    BY <2>1, <2>3 DEF SInv, Types
  <2>7. JournalInv'
    BY <2>1, <2>2, <2>3, Zenon DEF SInv, JournalInv, For, MadeFor, Names, Held, Fenced, Opened,
       PlaceInv, UnderWay
  <2>8. Agreement'
    BY <2>1, <2>2, FieldFacts, Zenon DEF SInv, Agreement, JournalInv, PlaceInv, Fenced, UnderWay
  <2>9. DecisionInv'
    BY <2>1, <2>4, FieldFacts, Zenon DEF SInv, DecisionInv, For, Journaled, Downing
  <2>10. (BootInv /\ QuietInv /\ DoneInv /\ DownInv)'
    BY <2>1, <2>2, <2>4, UnderJournal, Zenon DEF Journaled, UnderWay
  <2> QED
    BY <2>5, <2>6, <2>7, <2>8, <2>9, <2>10, Zenon DEF SInv
<1>14. CASE CloseBeforePolicy
  <2>1. /\ pc = "close" /\ pc' = "open"
        /\ bundle' = Fence
        /\ UNCHANGED << decision, coll, session, rec, journal, activation, receipt, boot, down,
                        stopped, registry, gateway, opa, faults, drifts >>
    BY <1>14, Zenon DEF CloseBeforePolicy, Step, outer, marks, bounds
  <2>2. UnderWay
    BY <2>1, JournaledFacts, Zenon DEF Journaled
  <2>3. pc' \in Places
    BY <2>1, Zenon DEF Places
  <2>4. Types'
    BY <2>1, <2>2, Zenon DEF SInv, Types, UnderWay
  <2>5. JournalInv'
    BY <2>1, Zenon DEF SInv, JournalInv, For, MadeFor, Names, Held, Applied, Opened, PlaceInv
  <2>6. Agreement'
    BY <2>1, FieldFacts, Zenon DEF SInv, Agreement
  <2>7. DecisionInv'
    BY <2>1, FieldFacts, Zenon DEF SInv, DecisionInv, For, Journaled, Downing
  <2>8. (BootInv /\ QuietInv /\ DoneInv /\ DownInv)'
    BY <2>1, <2>2, UnderJournal, Zenon DEF Journaled, UnderWay
  <2> QED
    BY <2>3, <2>4, <2>5, <2>6, <2>7, <2>8, Zenon DEF SInv
<1>15. CASE OpenPolicy
  <2>1. /\ pc = "open" /\ pc' = "opened"
        /\ bundle' = rec.plan
        /\ UNCHANGED << decision, coll, session, rec, journal, activation, receipt, boot, down,
                        stopped, registry, gateway, opa, faults, drifts >>
    BY <1>15, Zenon DEF OpenPolicy, Step, outer, marks, bounds
  <2>2. UnderWay
    BY <2>1, JournaledFacts, Zenon DEF Journaled
  <2>3. rec # None /\ rec.plan = journal.plan
    BY <2>1, <2>2, Zenon DEF SInv, JournalInv, Held, UnderWay
  <2>4. pc' \in Places
    BY <2>1, Zenon DEF Places
  <2>5. Types'
    BY <2>1, <2>2, <2>3, Zenon DEF SInv, Types, UnderWay
  <2>6. JournalInv'
    BY <2>1, Zenon DEF SInv, JournalInv, For, MadeFor, Names, Held, Fenced, Applied, PlaceInv
  <2>7. Agreement'
    BY <2>1, <2>2, <2>3, Zenon DEF SInv, Agreement, MadeFor, JournalInv, PlaceInv, Applied, UnderWay
  <2>8. DecisionInv'
    BY <2>1, FieldFacts, Zenon DEF SInv, DecisionInv, For, Journaled, Downing
  <2>9. (BootInv /\ QuietInv /\ DoneInv /\ DownInv)'
    BY <2>1, <2>2, UnderJournal, Zenon DEF Journaled, UnderWay
  <2> QED
    BY <2>4, <2>5, <2>6, <2>7, <2>8, <2>9, Zenon DEF SInv
<1>16. CASE JournalPolicy
  <2>1. /\ pc = "opened" /\ pc' = "writeReceipt"
        /\ IF journal.class = "full" THEN Journal("policy") ELSE UNCHANGED journal
        /\ UNCHANGED << decision, coll, session, rec, activation, receipt, boot, down, stopped,
                        registry, gateway, opa, bundle, faults, drifts >>
    BY <1>16, Zenon DEF JournalPolicy, Step, outer, marks, docker, bounds
  <2>2. UnderWay
    BY <2>1, JournaledFacts, Zenon DEF Journaled
  <2>3. /\ journal' \in Journals /\ journal'.plan = journal.plan /\ journal'.class = journal.class
        /\ journal'.applied = journal.applied
        /\ journal'.phase = IF journal.class = "full" THEN "policy" ELSE journal.phase
    BY <2>1, <2>2, Zenon DEF Journal, Journals, UnderWay
  <2>4. journal' # None
    BY <2>3, NoneFacts, Zenon
  <2>5. pc' \in Places
    BY <2>1, Zenon DEF Places
  <2>6. Types'
    BY <2>1, <2>3 DEF SInv, Types
  <2>7. PlaceInv'
    BY <2>1, <2>3, <2>4, FieldFacts, Zenon DEF SInv, JournalInv, PlaceInv
  <2>8. JournalInv'
    BY <2>1, <2>2, <2>3, <2>7, Zenon DEF SInv, JournalInv, For, MadeFor, Names, Held, Fenced,
       Applied, Opened, PlaceInv, UnderWay
  <2>9. Agreement'
    BY <2>1, Zenon DEF SInv, Agreement, MadeFor
  <2>10. DecisionInv'
    BY <2>1, <2>4, FieldFacts, Zenon DEF SInv, DecisionInv, For, Journaled, Downing
  <2>11. (BootInv /\ QuietInv /\ DoneInv /\ DownInv)'
    BY <2>1, <2>2, <2>4, UnderJournal, Zenon DEF Journaled, UnderWay
  <2> QED
    BY <2>5, <2>6, <2>8, <2>9, <2>10, <2>11, Zenon DEF SInv
<1>17. CASE WriteActiveReceipt
  <2>1. /\ pc = "writeReceipt" /\ pc' = "receipt"
        /\ receipt' = rec
        /\ UNCHANGED << decision, coll, session, rec, journal, activation, boot, down, stopped,
                        registry, gateway, opa, bundle, faults, drifts >>
    BY <1>17, Zenon DEF WriteActiveReceipt, Step, outer, marks, docker, bounds
  <2>2. UnderWay
    BY <2>1, JournaledFacts, Zenon DEF Journaled
  <2>3. pc' \in Places
    BY <2>1, Zenon DEF Places
  <2>4. Types'
    BY <2>1, <2>2, Zenon DEF SInv, Types, UnderWay
  <2>5. PlaceInv'
    BY <2>1, <2>2, Zenon DEF SInv, JournalInv, PlaceInv, UnderWay
  <2>6. JournalInv'
    BY <2>1, <2>5, Zenon DEF SInv, JournalInv, For, MadeFor, Names, Held, Fenced, Applied, Opened
  <2>7. Agreement'
    BY <2>1, Zenon DEF SInv, Agreement, MadeFor
  <2>8. DecisionInv'
    BY <2>1, Zenon DEF SInv, DecisionInv, For, Journaled, Downing, JournalInv, Held
  <2>9. (BootInv /\ QuietInv /\ DoneInv /\ DownInv)'
    BY <2>1, <2>2, UnderJournal, Zenon DEF Journaled, UnderWay
  <2> QED
    BY <2>3, <2>4, <2>6, <2>7, <2>8, <2>9, Zenon DEF SInv
<1>18. CASE ConfirmReceipt
  <2>1. /\ pc = "receipt" /\ pc' = IF journal.class = "opa" THEN "opaReceipt" ELSE "unstop"
        /\ IF journal.class = "opa"
           THEN activation' = None /\ UNCHANGED journal
           ELSE Journal("receipt") /\ UNCHANGED activation
        /\ UNCHANGED << decision, coll, session, rec, receipt, boot, down, stopped, registry,
                        gateway, opa, bundle, faults, drifts >>
    BY <1>18, Zenon DEF ConfirmReceipt, Step, outer, marks, docker, bounds
  <2>2. UnderWay
    BY <2>1, JournaledFacts, Zenon DEF Journaled
  <2>3. /\ journal' \in Journals /\ journal'.plan = journal.plan /\ journal'.class = journal.class
        /\ journal'.applied = journal.applied
        /\ journal'.phase = IF journal.class = "full" THEN "receipt" ELSE journal.phase
        /\ activation' = IF journal.class = "opa" THEN None ELSE activation
    BY <2>1, <2>2, Zenon DEF Journal, Journals, UnderWay
  <2>4. journal' # None
    BY <2>3, NoneFacts, Zenon
  <2>5. pc' \in Places
    BY <2>1, Zenon DEF Places
  <2>6. Types'
    BY <2>1, <2>2, <2>3, Zenon DEF SInv, Types, UnderWay
  <2>7. PlaceInv'
    BY <2>1, <2>2, <2>3, FieldFacts, Zenon DEF SInv, JournalInv, PlaceInv, UnderWay
  <2>8. JournalInv'
    BY <2>1, <2>2, <2>3, <2>7, Zenon DEF SInv, JournalInv, For, MadeFor, Names, Held, Fenced,
       Applied, Opened, PlaceInv, UnderWay
  <2>9. Agreement'
    BY <2>1, Zenon DEF SInv, Agreement, MadeFor
  <2>10. DecisionInv'
    BY <2>1, <2>4, FieldFacts, Zenon DEF SInv, DecisionInv, For, Journaled, Downing
  <2>11. (BootInv /\ QuietInv /\ DoneInv /\ DownInv)'
    BY <2>1, <2>2, <2>4, UnderJournal, Zenon DEF Journaled, UnderWay
  <2> QED
    BY <2>5, <2>6, <2>8, <2>9, <2>10, <2>11, Zenon DEF SInv
<1>19. CASE ConfirmTerminal
  <2>1. /\ pc = "terminal" /\ pc' = "unstop"
        /\ UNCHANGED << decision, coll, session, rec, journal, activation, receipt, boot, down,
                        stopped, registry, gateway, opa, bundle, faults, drifts >>
    BY <1>19, Zenon DEF ConfirmTerminal, Step, outer, marks, docker, bounds
  <2>2. UnderWay
    BY <2>1, JournaledFacts, Zenon DEF Journaled
  <2>3. pc' \in Places
    BY <2>1, Zenon DEF Places
  <2>4. Types'
    BY <2>1 DEF SInv, Types
  <2>5. PlaceInv'
    BY <2>1, <2>2, Zenon DEF SInv, JournalInv, PlaceInv, UnderWay
  <2>6. JournalInv'
    BY <2>1, <2>5, Zenon DEF SInv, JournalInv, For, MadeFor, Names, Held, Fenced, Applied, Opened
  <2>7. Agreement'
    BY <2>1, Zenon DEF SInv, Agreement, MadeFor
  <2>8. DecisionInv'
    BY <2>1, FieldFacts, Zenon DEF SInv, DecisionInv, For, Journaled, Downing
  <2>9. (BootInv /\ QuietInv /\ DoneInv /\ DownInv)'
    BY <2>1, <2>2, UnderJournal, Zenon DEF Journaled, UnderWay
  <2> QED
    BY <2>3, <2>4, <2>6, <2>7, <2>8, <2>9, Zenon DEF SInv
<1>20. CASE RemoveStopped
  <2>1. /\ pc = "unstop" /\ pc' = "unboot"
        /\ stopped' = None
        /\ UNCHANGED << decision, coll, session, rec, journal, activation, receipt, boot, down,
                        registry, gateway, opa, bundle, faults, drifts >>
    BY <1>20, Zenon DEF RemoveStopped, Step, outer, docker, bounds
  <2>2. UnderWay
    BY <2>1, JournaledFacts, Zenon DEF Journaled
  <2>3. pc' \in Places
    BY <2>1, Zenon DEF Places
  <2>4. Types'
    BY <2>1, <2>2, Zenon DEF SInv, Types, UnderWay
  <2>5. PlaceInv'
    BY <2>1, <2>2, Zenon DEF SInv, JournalInv, PlaceInv, UnderWay
  <2>6. JournalInv'
    BY <2>1, <2>5, Zenon DEF SInv, JournalInv, For, MadeFor, Names, Held, Fenced, Applied, Opened
  <2>7. Agreement'
    BY <2>1, Zenon DEF SInv, Agreement, MadeFor
  <2>8. DecisionInv'
    BY <2>1, FieldFacts, Zenon DEF SInv, DecisionInv, For, Journaled, Downing
  <2>9. (BootInv /\ QuietInv /\ DoneInv /\ DownInv)'
    BY <2>1, <2>2, UnderJournal, Zenon DEF Journaled, UnderWay
  <2> QED
    BY <2>3, <2>4, <2>6, <2>7, <2>8, <2>9, Zenon DEF SInv
<1>21. CASE RemoveBootstrap
  <2>1. /\ pc = "unboot" /\ pc' = "unjournal"
        /\ boot' = None
        /\ UNCHANGED << decision, coll, session, rec, journal, activation, receipt, down, stopped,
                        registry, gateway, opa, bundle, faults, drifts >>
    BY <1>21, Zenon DEF RemoveBootstrap, Step, outer, docker, bounds
  <2>2. UnderWay
    BY <2>1, JournaledFacts, Zenon DEF Journaled
  <2>3. pc' \in Places
    BY <2>1, Zenon DEF Places
  <2>4. Types'
    BY <2>1, <2>2, Zenon DEF SInv, Types, UnderWay
  <2>5. PlaceInv'
    BY <2>1, <2>2, Zenon DEF SInv, JournalInv, PlaceInv, UnderWay
  <2>6. JournalInv'
    BY <2>1, <2>5, Zenon DEF SInv, JournalInv, For, MadeFor, Names, Held, Fenced, Applied, Opened
  <2>7. Agreement'
    BY <2>1, Zenon DEF SInv, Agreement, MadeFor
  <2>8. DecisionInv'
    BY <2>1, FieldFacts, Zenon DEF SInv, DecisionInv, For, Journaled, Downing
  <2>9. (BootInv /\ QuietInv /\ DoneInv /\ DownInv)'
    BY <2>1, <2>2, UnderJournal, Zenon DEF Journaled, UnderWay
  <2> QED
    BY <2>3, <2>4, <2>6, <2>7, <2>8, <2>9, Zenon DEF SInv
<1>22. CASE PrepareFinalPolicyActivation
  <2>1. /\ pc = "activate" /\ pc' = "reviewed"
        /\ SelectedClosure /\ (activation # None => activation.plan = journal.plan)
        /\ rec' = IF activation # None THEN activation ELSE Material(journal.plan)
        /\ activation' = IF receipt = rec' /\ ConfirmFinalPolicyRecord(rec') THEN activation
                         ELSE rec'
        /\ UNCHANGED << decision, coll, session, journal, receipt, boot, down, stopped, registry,
                        gateway, opa, bundle, faults, drifts >>
    BY <1>22, Zenon DEF PrepareFinalPolicyActivation, Step, Passes, outer, marks, docker, bounds
  <2>2. UnderWay
    BY <2>1, JournaledFacts, Zenon DEF Journaled
  <2>3. rec' \in Records /\ rec'.plan = journal.plan
    BY <2>1, <2>2, Zenon DEF SelectedClosure, Healthy, Up, Material, SInv, Types, Records,
       Gateways, UnderWay
  <2>4. rec' # None
    BY <2>3, NoneFacts, Zenon
  <2>5. pc' \in Places
    BY <2>1, Zenon DEF Places
  <2>6. Types'
    BY <2>1, <2>2, <2>3, Zenon DEF SInv, Types, UnderWay
  <2>7. JournalInv'
    BY <2>1, <2>3, <2>4, Zenon DEF SInv, JournalInv, For, MadeFor, Fenced, Applied, Opened, PlaceInv
  <2>8. Agreement'
    BY <2>1, Zenon DEF SInv, Agreement, MadeFor
  <2>9. DecisionInv'
    BY <2>1, FieldFacts, Zenon DEF SInv, DecisionInv, For, Journaled, Downing
  <2>10. (BootInv /\ QuietInv /\ DoneInv /\ DownInv)'
    BY <2>1, <2>2, UnderJournal, Zenon DEF Journaled, UnderWay
  <2> QED
    BY <2>5, <2>6, <2>7, <2>8, <2>9, <2>10, Zenon DEF SInv
<1>23. CASE ResumeFinalPolicyActivation
  <2>1. /\ pc = "reviewed" /\ pc' = IF receipt = rec THEN "opaReceipt" ELSE "close"
        /\ rec.gid = journal.reviewed
        /\ IF receipt = rec THEN ConfirmFinalPolicyRecord(rec) ELSE LiveRecord(rec)
        /\ activation' = IF receipt = rec THEN None ELSE activation
        /\ UNCHANGED << decision, coll, session, rec, journal, receipt, boot, down, stopped,
                        registry, gateway, opa, bundle, faults, drifts >>
    BY <1>23, Zenon DEF ResumeFinalPolicyActivation, Step, Passes, outer, marks, docker, bounds
  <2>2. UnderWay
    BY <2>1, JournaledFacts, Zenon DEF Journaled
  <2>3. rec # None /\ rec.plan = journal.plan
    BY <2>1, <2>2, Zenon DEF SInv, JournalInv, Held, UnderWay
  <2>4. rec.gid = gateway.id /\ (receipt = rec => bundle = rec.plan)
    BY <2>1 DEF ConfirmFinalPolicyRecord, LiveRecord, Material
  <2>5. pc' \in Places
    BY <2>1, Zenon DEF Places
  <2>6. Types'
    BY <2>1, <2>2, Zenon DEF SInv, Types, UnderWay
  <2>7. JournalInv'
    BY <2>1, <2>3, <2>4, Zenon DEF SInv, JournalInv, For, MadeFor, Names, Fenced, Applied, Opened,
       PlaceInv
  <2>8. Agreement'
    BY <2>1, Zenon DEF SInv, Agreement, MadeFor
  <2>9. DecisionInv'
    BY <2>1, FieldFacts, Zenon DEF SInv, DecisionInv, For, Journaled, Downing
  <2>10. (BootInv /\ QuietInv /\ DoneInv /\ DownInv)'
    BY <2>1, <2>2, UnderJournal, Zenon DEF Journaled, UnderWay
  <2> QED
    BY <2>5, <2>6, <2>7, <2>8, <2>9, <2>10, Zenon DEF SInv
<1>24. CASE JournalOPAReceipt
  <2>1. /\ pc = "opaReceipt" /\ pc' = "unjournal"
        /\ journal' = [journal EXCEPT !.applied = rec, !.phase = "receipt"]
        /\ UNCHANGED << decision, coll, session, rec, activation, receipt, boot, down, stopped,
                        registry, gateway, opa, bundle, faults, drifts >>
    BY <1>24, Zenon DEF JournalOPAReceipt, Step, outer, marks, docker, bounds
  <2>2. UnderWay
    BY <2>1, JournaledFacts, Zenon DEF Journaled
  <2>3. /\ journal' \in Journals /\ journal'.plan = journal.plan /\ journal'.class = journal.class
        /\ journal'.phase = "receipt" /\ journal'.applied = rec
    BY <2>1, <2>2, Zenon DEF SInv, Types, Journals, UnderWay
  <2>4. journal' # None
    BY <2>3, NoneFacts, Zenon
  <2>5. pc' \in Places
    BY <2>1, Zenon DEF Places
  <2>6. Types'
    BY <2>1, <2>3 DEF SInv, Types
  <2>7. JournalInv'
    BY <2>1, <2>2, <2>3, Zenon DEF SInv, JournalInv, For, MadeFor, Names, Held, Fenced, Opened,
       PlaceInv, UnderWay
  <2>8. Agreement'
    BY <2>1, Zenon DEF SInv, Agreement, MadeFor
  <2>9. DecisionInv'
    BY <2>1, <2>4, FieldFacts, Zenon DEF SInv, DecisionInv, For, Journaled, Downing
  <2>10. (BootInv /\ QuietInv /\ DoneInv /\ DownInv)'
    BY <2>1, <2>2, <2>4, UnderJournal, Zenon DEF Journaled, UnderWay
  <2> QED
    BY <2>5, <2>6, <2>7, <2>8, <2>9, <2>10, Zenon DEF SInv
<1> QED
  BY <1>1, <1>2, <1>3, <1>4, <1>5, <1>6, <1>7, <1>8, <1>9, <1>10, <1>11, <1>12, <1>13, <1>14,
     <1>15, <1>16, <1>17, <1>18, <1>19, <1>20, <1>21, <1>22, <1>23, <1>24, Zenon

\* Entry, bootstrap and preparation preserve SInv.
LEMMA PrepareSInv ==
  ASSUME SInv, \/ SettleFinalAuthority \/ EnsureBase \/ PrepareFinalPolicyBundle \/ ComposeOPA
               \/ ComposeGateway \/ BaseRunning \/ PrepareFinalGatewaySettlement
  PROVE  SInv'
<1>1. CASE SettleFinalAuthority
  <2>1. /\ pc = "settle" /\ pc' = IF journal = None THEN "base" ELSE "resume"
        /\ down = None
        /\ (journal # None => journal.ref = decision.next /\ journal.plan = decision.plan)
        /\ UNCHANGED << decision, coll, session, rec, journal, activation, receipt, boot, down,
                        stopped, registry, gateway, opa, bundle, faults, drifts >>
    BY <1>1, Zenon DEF SettleFinalAuthority, Step, Passes, outer, marks, docker, bounds
  <2>2. /\ decision # None /\ decision.op = "settle" /\ (journal # None => pc' = "resume")
        /\ (journal = None => pc' = "base")
    BY <2>1, Zenon DEF SInv, DecisionInv, For, Settling
  <2>3. pc' \in Places
    BY <2>2, Zenon DEF Places
  <2>4. Types'
    BY <2>1 DEF SInv, Types
  <2>5. JournalInv'
    BY <2>1, Zenon DEF SInv, JournalInv, PlaceInv, For, MadeFor, Names, Held, Fenced, Applied,
       Opened
  <2>6. Agreement'
    BY <2>1, Zenon DEF SInv, Agreement, MadeFor
  <2>7. DecisionInv'
    BY <2>1, <2>2, Zenon DEF SInv, DecisionInv, For, Journaled, Downing
  <2>8. BootInv'
    BY <2>1, Zenon DEF SInv, BootInv, Bootstrap
  <2>9. (QuietInv /\ DoneInv /\ DownInv)'
    BY <2>1, Zenon DEF SInv, QuietInv, NoSettlement, StoppedRuntime, DoneInv, DownInv
  <2> QED
    BY <2>3, <2>4, <2>5, <2>6, <2>7, <2>8, <2>9, Zenon DEF SInv
<1>2. CASE EnsureBase
  <2>1. /\ pc = "base"
        /\ pc' = IF Healthy \/ (boot = None /\ StoppedRetained) THEN "prepare" ELSE "bundle"
        /\ BaseAdmitted
        /\ boot' = IF pc' = "bundle" /\ boot = None
                   THEN [ref |-> decision.next, phase |-> "prepared"] ELSE boot
        /\ UNCHANGED << decision, coll, session, rec, journal, activation, receipt, down, stopped,
                        registry, gateway, opa, bundle, faults, drifts >>
    BY <1>2, Zenon DEF EnsureBase, Step, Passes, outer, docker, bounds
  <2>2. /\ journal = None /\ activation = None /\ down = None
        /\ decision # None /\ decision.op = "settle" /\ decision.plan \in Plans
        /\ decision.plan.prin # {} => receipt # None
        /\ boot # None => decision.plan.prin = {}
    BY <2>1, FieldFacts, Zenon DEF SInv, DecisionInv, For, Settling, Journaled
  <2>3. receipt # None /\ boot = None =>
          stopped = None /\ bundle = receipt.plan /\ registry = receipt.plan.prin
    BY <2>2, Zenon DEF SInv, QuietInv, NoSettlement
  <2>4. /\ pc' \in {"prepare", "bundle"}
        /\ pc' = "bundle" /\ boot = None => FreshResources
    BY <2>1, Zenon DEF BaseAdmitted
  <2>5. /\ FreshResources /\ boot = None =>
             gateway = None /\ bundle = None /\ registry = {} /\ receipt = None
    BY <2>3, FieldFacts, Zenon DEF FreshResources, SInv
  <2>6. [ref |-> decision.next, phase |-> "prepared"] \in Boots
    BY <2>2, FieldFacts, Zenon DEF SInv, Boots
  <2>7. /\ boot' # boot =>
             /\ pc' = "bundle" /\ boot = None /\ gateway = None /\ bundle = None /\ registry = {}
             /\ receipt = None
    BY <2>1, <2>4, <2>5, Zenon
  <2>8. /\ boot' \in Boots \cup {None}
        /\ (pc' = "bundle" => boot' # None)
        /\ (boot # None => boot' = boot)
    BY <2>1, <2>6, NoneFacts, Zenon DEF SInv, Types
  <2>9. pc' \in Places
    BY <2>4, Zenon DEF Places
  <2>10. Types'
    BY <2>1, <2>2, <2>8, Zenon DEF SInv, Types
  <2>11. JournalInv'
    BY <2>1, <2>2, Zenon DEF JournalInv
  <2>12. Agreement'
    BY <2>1, Zenon DEF SInv, Agreement, MadeFor
  <2>13. DecisionInv'
    BY <2>1, <2>2, <2>7, Zenon DEF SInv, DecisionInv, For, Journaled, Downing
  <2>14. BootInv'
    BY <2>1, <2>2, <2>7, <2>8, Zenon DEF SInv, BootInv, Bootstrap
  <2>15. (QuietInv /\ DoneInv /\ DownInv)'
    BY <2>1, Zenon DEF SInv, QuietInv, NoSettlement, StoppedRuntime, DoneInv, DownInv
  <2> QED
    BY <2>9, <2>10, <2>11, <2>12, <2>13, <2>14, <2>15, Zenon DEF SInv
<1>3. CASE PrepareFinalPolicyBundle
  <2>1. /\ pc = "bundle" /\ pc' = "composeOPA"
        /\ bundle' = decision.plan
        /\ UNCHANGED << decision, coll, session, rec, journal, activation, receipt, boot, down,
                        stopped, registry, gateway, opa, faults, drifts >>
    BY <1>3, Zenon DEF PrepareFinalPolicyBundle, Step, outer, marks, bounds
  <2>2. /\ journal = None /\ activation = None /\ down = None
        /\ decision # None /\ decision.op = "settle" /\ decision.plan \in Plans
        /\ decision.plan.prin # {} => receipt # None
        /\ boot # None => decision.plan.prin = {}
    BY <2>1, FieldFacts, Zenon DEF SInv, DecisionInv, For, Settling, Bootstrap, Journaled
  <2>3. /\ boot # None /\ registry = {} /\ decision.plan.prin = {}
        /\ (gateway # None => gateway.cfg = decision.plan.cfg /\ gateway.nets = {})
    BY <2>1, <2>2, Zenon DEF SInv, BootInv, Bootstrap
  <2>4. pc' \in Places
    BY <2>1, Zenon DEF Places
  <2>5. Types'
    BY <2>1, <2>2, Zenon DEF SInv, Types
  <2>6. JournalInv'
    BY <2>1, <2>2, Zenon DEF JournalInv
  <2>7. Agreement'
    BY <2>1, <2>3, Zenon DEF Agreement, MadeFor
  <2>8. DecisionInv'
    BY <2>1, <2>3, Zenon DEF SInv, DecisionInv, For, Journaled, Downing
  <2>9. BootInv'
    BY <2>1, <2>2, <2>3, Zenon DEF SInv, BootInv
  <2>10. (QuietInv /\ DoneInv /\ DownInv)'
    BY <2>1, <2>2, <2>3, Zenon DEF QuietInv, NoSettlement, DoneInv, DownInv
  <2> QED
    BY <2>4, <2>5, <2>6, <2>7, <2>8, <2>9, <2>10, Zenon DEF SInv
<1>4. CASE ComposeOPA
  <2>1. /\ pc = "composeOPA" /\ pc' = "composeGateway"
        /\ \E a \in Addrs :
             opa' = IF Up(opa) THEN opa ELSE [addr |-> a, cur |-> TRUE, up |-> TRUE]
        /\ UNCHANGED << decision, coll, session, rec, journal, activation, receipt, boot, down,
                        stopped, registry, gateway, bundle, faults, drifts >>
    BY <1>4, Zenon DEF ComposeOPA, Step, outer, marks, bounds
  <2>2. /\ journal = None /\ activation = None /\ down = None
        /\ decision # None /\ decision.op = "settle" /\ decision.plan \in Plans
        /\ decision.plan.prin # {} => receipt # None
        /\ boot # None => decision.plan.prin = {}
    BY <2>1, FieldFacts, Zenon DEF SInv, DecisionInv, For, Settling, Bootstrap, Journaled
  <2>3. boot # None /\ bundle = decision.plan /\ receipt = None
    BY <2>1, Zenon DEF SInv, BootInv, Bootstrap
  <2>4. pc' \in Places
    BY <2>1, Zenon DEF Places
  <2>5. Types'
    BY <2>1 DEF SInv, Types, OPAs
  <2>6. JournalInv'
    BY <2>1, <2>2, Zenon DEF JournalInv
  <2>7. Agreement'
    BY <2>1, Zenon DEF SInv, Agreement, MadeFor
  <2>8. DecisionInv'
    BY <2>1, <2>3, Zenon DEF SInv, DecisionInv, For, Journaled, Downing
  <2>9. BootInv'
    BY <2>1, <2>2, <2>3, Zenon DEF SInv, BootInv
  <2>10. (QuietInv /\ DoneInv /\ DownInv)'
    BY <2>1, <2>2, <2>3, Zenon DEF QuietInv, NoSettlement, DoneInv, DownInv
  <2> QED
    BY <2>4, <2>5, <2>6, <2>7, <2>8, <2>9, <2>10, Zenon DEF SInv
<1>5. CASE ComposeGateway
  <2>1. /\ pc = "composeGateway" /\ pc' = "booted"
        /\ \E a \in Addrs :
             gateway' = IF gateway = None THEN NewGateway(a, {}, decision.plan.cfg)
                        ELSE IF gateway.up THEN gateway
                        ELSE [gateway EXCEPT !.addr = a, !.up = TRUE]
        /\ UNCHANGED << decision, coll, session, rec, journal, activation, receipt, boot, down,
                        stopped, registry, opa, bundle, faults, drifts >>
    BY <1>5, Zenon DEF ComposeGateway, Step, outer, marks, bounds
  <2>2. /\ journal = None /\ activation = None /\ down = None
        /\ decision # None /\ decision.op = "settle" /\ decision.plan \in Plans
        /\ decision.plan.prin # {} => receipt # None
        /\ boot # None => decision.plan.prin = {}
    BY <2>1, FieldFacts, Zenon DEF SInv, DecisionInv, For, Settling, Bootstrap, Journaled
  <2>3. /\ boot # None /\ registry = {} /\ decision.plan.prin = {}
        /\ receipt = None /\ bundle = decision.plan
        /\ (gateway # None => gateway.cfg = decision.plan.cfg /\ gateway.nets = {})
    BY <2>1, <2>2, Zenon DEF SInv, BootInv, Bootstrap
  <2>4. /\ \A a \in Addrs : LET g == NewGateway(a, {}, decision.plan.cfg)
                            IN  g \in Gateways /\ g.cfg = decision.plan.cfg /\ g.nets = {}
    BY <2>2, FreshFacts, Zenon DEF SInv, NewGateway, Gateways, Configs
  <2>5. /\ gateway # None =>
          \A a \in Addrs : LET g == [gateway EXCEPT !.addr = a, !.up = TRUE]
                            IN  g \in Gateways /\ g.cfg = gateway.cfg /\ g.nets = gateway.nets
    BY Zenon DEF SInv, Types, Gateways
  <2>6. /\ gateway' \in Gateways /\ gateway'.cfg = decision.plan.cfg /\ gateway'.nets = {}
    <3>1. PICK a \in Addrs :
            gateway' = IF gateway = None THEN NewGateway(a, {}, decision.plan.cfg)
                       ELSE IF gateway.up THEN gateway
                       ELSE [gateway EXCEPT !.addr = a, !.up = TRUE]
      BY <2>1, Zenon
    <3>2. CASE gateway = None
      BY <2>4, <3>1, <3>2, Zenon
    <3>3. CASE gateway # None /\ gateway.up
      BY <2>3, <3>1, <3>3, Zenon DEF SInv, Types
    <3>4. CASE gateway # None /\ ~gateway.up
      BY <2>3, <2>5, <3>1, <3>4, Zenon
    <3> QED
      BY <3>2, <3>3, <3>4, Zenon
  <2>7. pc' \in Places
    BY <2>1, Zenon DEF Places
  <2>8. Types'
    BY <2>1, <2>2, <2>5, <2>6, FieldFacts, Zenon DEF SInv, Types
  <2>9. JournalInv'
    BY <2>1, <2>2, Zenon DEF JournalInv
  <2>10. Agreement'
    BY <2>1, <2>3, <2>6, Zenon DEF Agreement, MadeFor
  <2>11. DecisionInv'
    BY <2>1, <2>3, Zenon DEF SInv, DecisionInv, For, Journaled, Downing
  <2>12. BootInv'
    BY <2>1, <2>2, <2>3, <2>6, Zenon DEF BootInv
  <2>13. (QuietInv /\ DoneInv /\ DownInv)'
    BY <2>1, <2>2, <2>3, Zenon DEF QuietInv, NoSettlement, DoneInv, DownInv
  <2> QED
    BY <2>7, <2>8, <2>9, <2>10, <2>11, <2>12, <2>13, Zenon DEF SInv
<1>6. CASE BaseRunning
  <2>1. /\ pc = "booted" /\ pc' = "prepare"
        /\ boot' = [boot EXCEPT !.phase = "running"]
        /\ UNCHANGED << decision, coll, session, rec, journal, activation, receipt, down, stopped,
                        registry, gateway, opa, bundle, faults, drifts >>
    BY <1>6, Zenon DEF BaseRunning, Step, outer, docker, bounds
  <2>2. /\ journal = None /\ activation = None /\ down = None
        /\ decision # None /\ decision.op = "settle" /\ decision.plan \in Plans
        /\ decision.plan.prin # {} => receipt # None
        /\ boot # None => decision.plan.prin = {}
    BY <2>1, FieldFacts, Zenon DEF SInv, DecisionInv, For, Settling, Bootstrap, Journaled
  <2>3. boot # None
    BY <2>1, Zenon DEF SInv, BootInv, Bootstrap
  <2>4. boot' \in Boots
    BY <2>1, <2>3, Zenon DEF SInv, Types, Boots
  <2>5. boot' # None
    BY <2>4, NoneFacts, Zenon
  <2>6. pc' \in Places
    BY <2>1, Zenon DEF Places
  <2>7. Types'
    BY <2>1, <2>2, <2>3, <2>4, <2>5, Zenon DEF SInv, Types
  <2>8. JournalInv'
    BY <2>1, <2>2, Zenon DEF JournalInv
  <2>9. Agreement'
    BY <2>1, Zenon DEF SInv, Agreement, MadeFor
  <2>10. DecisionInv'
    BY <2>1, <2>3, Zenon DEF SInv, DecisionInv, For, Journaled, Downing
  <2>11. BootInv'
    BY <2>1, <2>2, <2>3, <2>5, Zenon DEF SInv, BootInv
  <2>12. (QuietInv /\ DoneInv /\ DownInv)'
    BY <2>1, <2>2, <2>5, Zenon DEF QuietInv, NoSettlement, DoneInv, DownInv
  <2> QED
    BY <2>6, <2>7, <2>8, <2>9, <2>10, <2>11, <2>12, Zenon DEF SInv
<1>7. CASE PrepareFinalGatewaySettlement
  <2>1. /\ pc = "prepare" /\ pc' = "resume"
        /\ activation = None
        /\ (Healthy \/ (gateway = None /\ stopped # None /\ decision.plan.prin = {}))
        /\ LET p == decision.plan
               g == IF gateway = None THEN stopped.gateway ELSE gateway
               o == IF gateway = None THEN stopped.opa ELSE opa
           IN  journal' = [ref |-> decision.next, plan |-> p,
                           class |-> IF OPAOnly(p) THEN "opa" ELSE "full",
                           phase |-> "prepared", prev |-> registry, reviewed |-> g.id,
                           gaddr |-> g.addr, oaddr |-> o.addr, applied |-> None]
        /\ UNCHANGED << decision, coll, session, rec, activation, receipt, boot, down, stopped,
                        registry, gateway, opa, bundle, faults, drifts >>
    BY <1>7, Zenon DEF PrepareFinalGatewaySettlement, Step, Passes, outer, marks, docker, bounds
  <2>2. /\ journal = None /\ activation = None /\ down = None
        /\ decision # None /\ decision.op = "settle" /\ decision.plan \in Plans
        /\ decision.plan.prin # {} => receipt # None
        /\ boot # None => decision.plan.prin = {}
    BY <2>1, FieldFacts, Zenon DEF SInv, DecisionInv, For, Settling, Journaled
  <2>3. receipt # None /\ boot = None =>
          stopped = None /\ bundle = receipt.plan /\ registry = receipt.plan.prin
    BY <2>2, Zenon DEF SInv, QuietInv, NoSettlement
  <2>4. journal' \in Journals
    BY <2>1, <2>2, FieldFacts, Zenon DEF SInv, Types, Journals, Healthy, Up, Gateways, OPAs,
       DownJournals
  <2>5. journal' # None
    BY <2>4, NoneFacts, Zenon
  <2>6. /\ journal'.plan = decision.plan /\ journal'.phase = "prepared" /\ journal'.applied = None
        /\ journal'.class = IF OPAOnly(decision.plan) THEN "opa" ELSE "full"
    BY <2>1, Zenon
  <2>7. /\ OPAOnly(decision.plan) =>
          /\ boot = None /\ stopped = None /\ receipt # None /\ registry = decision.plan.prin
          /\ gateway.cfg = decision.plan.cfg /\ gateway.nets = decision.plan.prin
    BY <2>2, <2>3, Zenon DEF OPAOnly, SInv, BootInv
  <2>8. pc' \in Places
    BY <2>1, Zenon DEF Places
  <2>9. Types'
    BY <2>1, <2>2, <2>3, <2>4, <2>5, <2>6, <2>7, FieldFacts, Zenon DEF SInv, Types
  <2>10. JournalInv'
    BY <2>1, <2>2, <2>7, Zenon DEF JournalInv, PlaceInv, For, MadeFor, Held, Fenced, Applied, Opened
  <2>11. Agreement'
    BY <2>1, Zenon DEF SInv, Agreement, MadeFor
  <2>12. DecisionInv'
    BY <2>1, <2>2, <2>5, Zenon DEF SInv, DecisionInv, For, Journaled, Downing
  <2>13. (BootInv /\ QuietInv /\ DoneInv /\ DownInv)'
    BY <2>1, <2>2, <2>5, UnderJournal, Zenon DEF Journaled
  <2> QED
    BY <2>8, <2>9, <2>10, <2>11, <2>12, <2>13, Zenon DEF SInv
<1> QED
  BY <1>1, <1>2, <1>3, <1>4, <1>5, <1>6, <1>7, Zenon

\* Removing the journal and reading the settled identity preserve SInv.
LEMMA SettledSInv ==
  ASSUME SInv, RemoveJournal \/ ReadSettledIdentity
  PROVE  SInv'
<1>1. CASE RemoveJournal
  <2>1. /\ pc = "unjournal" /\ pc' = "settled"
        /\ journal' = None
        /\ UNCHANGED << decision, coll, session, rec, activation, receipt, boot, down, stopped,
                        registry, gateway, opa, bundle, faults, drifts >>
    BY <1>1, Zenon DEF RemoveJournal, Step, outer, marks, docker, bounds
  <2>2. /\ journal # None /\ journal.phase = "receipt" /\ decision # None /\ decision.op = "settle"
        /\ decision.plan = journal.plan /\ down = None
    BY <2>1, JournaledFacts, Zenon DEF SInv, JournalInv, PlaceInv, Journaled, UnderWay
  <2>3. /\ bundle = journal.plan /\ registry = journal.plan.prin 
        /\ receipt = journal.applied /\ receipt # None
        /\ receipt.plan = journal.plan /\ stopped = None /\ boot = None /\ activation = None
        /\ (gateway # None => gateway.id = receipt.gid /\ gateway.cfg = receipt.plan.cfg)
    BY <2>1, <2>2, Zenon DEF SInv, JournalInv, Applied, Opened, MadeFor, Names
  <2>4. pc' \in Places
    BY <2>1, Zenon DEF Places
  <2>5. Types'
    BY <2>1, <2>2, <2>3, Zenon DEF SInv, Types
  <2>6. JournalInv'
    BY <2>1, Zenon DEF JournalInv
  <2>7. Agreement'
    BY <2>1, Zenon DEF SInv, Agreement, MadeFor
  <2>8. DecisionInv'
    BY <2>1, <2>3, FieldFacts, Zenon DEF SInv, DecisionInv, For, Journaled, Downing
  <2>9. BootInv'
    BY <2>1, <2>3, Zenon DEF BootInv, Bootstrap
  <2>10. (QuietInv /\ DoneInv /\ DownInv)'
    BY <2>1, <2>2, <2>3, Zenon DEF QuietInv, NoSettlement, DoneInv, DownInv
  <2> QED
    BY <2>4, <2>5, <2>6, <2>7, <2>8, <2>9, <2>10, Zenon DEF SInv
<1>2. CASE ReadSettledIdentity
  <2>1. /\ pc = "settled" /\ pc' = "done"
        /\ receipt # None /\ receipt.plan = decision.plan
        /\ UNCHANGED << decision, coll, session, rec, journal, activation, receipt, boot, down,
                        stopped, registry, gateway, opa, bundle, faults, drifts >>
    BY <1>2, Zenon DEF ReadSettledIdentity, Step, Passes, outer, marks, docker, bounds
  <2>2. decision # None /\ decision.op = "settle" /\ NoSettlement
    BY <2>1, Zenon DEF SInv, DecisionInv, DoneInv, For, Settling
  <2>3. pc' \in Places
    BY <2>1, Zenon DEF Places
  <2>4. Types'
    BY <2>1 DEF SInv, Types
  <2>5. JournalInv'
    BY <2>1, <2>2, Zenon DEF SInv, JournalInv, PlaceInv, For, MadeFor, Names, Held, Fenced,
       Applied, Opened
  <2>6. Agreement'
    BY <2>1, Zenon DEF SInv, Agreement, MadeFor
  <2>7. DecisionInv'
    BY <2>1, FieldFacts, Zenon DEF SInv, DecisionInv, For, Journaled, Downing
  <2>8. BootInv'
    BY <2>1, Zenon DEF SInv, BootInv, Bootstrap
  <2>9. (QuietInv /\ DoneInv /\ DownInv)'
    BY <2>1, FieldFacts, Zenon DEF SInv, QuietInv, NoSettlement, DoneInv, DownInv
  <2> QED
    BY <2>3, <2>4, <2>5, <2>6, <2>7, <2>8, <2>9, Zenon DEF SInv
<1> QED
  BY <1>1, <1>2, Zenon

\* Every step of a cluster down preserves SInv.
LEMMA TakeDownSInv ==
  ASSUME SInv, \/ ResumeDown \/ CompletedDown \/ PrepareDown \/ RemoveGateway \/ RemoveOPA
               \/ JournalRemoved \/ PurgeVolumes \/ ClearRegistry \/ JournalCleared
               \/ WriteStopped \/ RemoveActivation \/ RemoveActiveReceipt \/ RemoveDown
  PROVE  SInv'
<1>1. CASE ResumeDown
  <2>1. /\ down # None
        /\ pc = "down" /\ pc' = DownResumption
        /\ DownAdmitted
        /\ UNCHANGED << decision, coll, session, rec, journal, activation, receipt, boot, down,
                        stopped, registry, gateway, opa, bundle, faults, drifts >>
    BY <1>1, Zenon DEF ResumeDown, Step, Passes, outer, marks, docker, bounds
  <2>2. /\ decision # None /\ decision.op = "down"
        /\ journal = None /\ boot = None /\ activation = None
        /\ (receipt # None => receipt.plan.prin = {})
        /\ decision.prev \in Nat /\ decision.next \in Nat
    BY <2>1, FieldFacts, Zenon DEF SInv, DecisionInv, For
  <2>3. pc' \in Places
    BY <2>1, <2>2, Zenon DEF Places, DownResumption
  <2>4. Types'
    BY <2>1, <2>2, FieldFacts, Zenon DEF SInv, Types
  <2>5. Agreement'
    BY <2>1, Zenon DEF SInv, Agreement, MadeFor
  <2>6. DecisionInv'
    BY <2>1, Zenon DEF SInv, DecisionInv, For, Settling, Bootstrap, Journaled, DownResumption
  <2>7. (JournalInv /\ BootInv /\ QuietInv /\ DoneInv)'
    BY <2>1, <2>2, UnderDown, Zenon DEF Downing, DownResumption
  <2>8. DownInv'
    BY <2>1, FieldFacts, Zenon DEF SInv, DownInv, DownResumption
  <2> QED
    BY <2>3, <2>4, <2>5, <2>6, <2>7, <2>8, Zenon DEF SInv
<1>2. CASE CompletedDown
  <2>1. /\ down = None
        /\ stopped # None
        /\ pc = "down" /\ pc' = IF PurgeUpgrade THEN "volumes" ELSE "done"
        /\ DownAdmitted
        /\ down' = IF PurgeUpgrade
                   THEN [stopped EXCEPT !.prev = decision.prev, !.next = decision.next,
                                        !.purge = TRUE, !.phase = "runtime"]
                   ELSE None
        /\ UNCHANGED << decision, coll, session, rec, journal, activation, receipt, boot, stopped,
                        registry, gateway, opa, bundle, faults, drifts >>
    BY <1>2, Zenon DEF CompletedDown, Step, Passes, outer, docker, bounds
  <2>2. /\ decision # None /\ decision.op = "down"
        /\ journal = None /\ boot = None /\ activation = None
        /\ (receipt # None => receipt.plan.prin = {})
        /\ decision.prev \in Nat /\ decision.next \in Nat
    BY <2>1, FieldFacts, Zenon DEF SInv, DecisionInv, For
  <2>3. StoppedRuntime /\ registry = {} /\ (stopped.purge => bundle = None)
    BY <2>1, <2>2, Zenon DEF SInv, QuietInv, NoSettlement
  <2>4. /\ IF PurgeUpgrade THEN pc' = "volumes" /\ down' \in DownJournals /\ down'.phase = "runtime"
           ELSE pc' = "done" /\ down' = None
    BY <2>1, <2>2, Zenon DEF SInv, Types, DownJournals
  <2>5. pc' = "volumes" => down' # None
    BY <2>4, NoneFacts, Zenon
  <2>6. pc' \in Places
    BY <2>4, Zenon DEF Places
  <2>7. Types'
    BY <2>1, <2>2, <2>3, <2>4, Zenon DEF SInv, Types
  <2>8. JournalInv'
    BY <2>1, <2>2, Zenon DEF JournalInv
  <2>9. Agreement'
    BY <2>1, Zenon DEF SInv, Agreement, MadeFor
  <2>10. DecisionInv'
    BY <2>1, <2>2, <2>3, <2>5, Zenon DEF SInv, DecisionInv, For, NoSettlement, Settling,
       Bootstrap, Journaled, Downing
  <2>11. BootInv'
    BY <2>1, <2>2, Zenon DEF BootInv, Bootstrap
  <2>12. (QuietInv /\ DoneInv /\ DownInv)'
    BY <2>1, <2>2, <2>3, <2>4, Zenon DEF QuietInv, NoSettlement, StoppedRuntime, DoneInv, DownInv
  <2> QED
    BY <2>6, <2>7, <2>8, <2>9, <2>10, <2>11, <2>12, Zenon DEF SInv
<1>3. CASE PrepareDown
  <2>1. /\ down = None
        /\ stopped = None
        /\ pc = "down" /\ pc' = "removeGateway"
        /\ DownAdmitted
        /\ down' = [prev |-> decision.prev, next |-> decision.next, purge |-> decision.purge,
                    phase |-> "prepared", gateway |-> gateway, opa |-> opa]
        /\ UNCHANGED << decision, coll, session, rec, journal, activation, receipt, boot, stopped,
                        registry, gateway, opa, bundle, faults, drifts >>
    BY <1>3, Zenon DEF PrepareDown, Step, Passes, outer, docker, bounds
  <2>2. /\ decision # None /\ decision.op = "down"
        /\ journal = None /\ boot = None /\ activation = None
        /\ (receipt # None => receipt.plan.prin = {})
        /\ decision.prev \in Nat /\ decision.next \in Nat
    BY <2>1, FieldFacts, Zenon DEF SInv, DecisionInv, For
  <2>3. receipt # None /\ gateway # None /\ opa # None /\ registry = {}
    BY <2>1, <2>2, Zenon DEF DownAdmitted, Healthy, Up, SInv, QuietInv, NoSettlement
  <2>4. down' \in DownJournals /\ down'.phase = "prepared"
    BY <2>1, <2>2, <2>3, Zenon DEF SInv, Types, DownJournals, Decisions
  <2>5. down' # None
    BY <2>4, NoneFacts, Zenon
  <2>6. pc' \in Places
    BY <2>1, Zenon DEF Places
  <2>7. Types'
    BY <2>1, <2>2, <2>3, <2>4, Zenon DEF SInv, Types
  <2>8. Agreement'
    BY <2>1, Zenon DEF SInv, Agreement, MadeFor
  <2>9. DecisionInv'
    BY <2>1, <2>3, <2>5, Zenon DEF SInv, DecisionInv, For, Settling, Bootstrap, Journaled
  <2>10. (JournalInv /\ BootInv /\ QuietInv /\ DoneInv)'
    BY <2>1, <2>2, <2>5, UnderDown, Zenon DEF Downing
  <2>11. DownInv'
    BY <2>1, Zenon DEF DownInv
  <2> QED
    BY <2>6, <2>7, <2>8, <2>9, <2>10, <2>11, Zenon DEF SInv
<1>4. CASE RemoveGateway
  <2>1. /\ pc = "removeGateway" /\ pc' = "removeOPA"
        /\ gateway' = None
        /\ UNCHANGED << decision, coll, session, rec, journal, activation, receipt, boot, down,
                        stopped, registry, opa, bundle, faults, drifts >>
    BY <1>4, Zenon DEF RemoveGateway, Step, outer, marks, bounds
  <2>2. /\ down # None /\ down \in DownJournals /\ decision # None /\ decision.op = "down"
        /\ journal = None /\ boot = None /\ activation = None /\ registry = {}
    BY <2>1, DowningFacts, Zenon DEF Downing
  <2>3. pc' \in Places
    BY <2>1, Zenon DEF Places
  <2>4. Types'
    BY <2>1, <2>2, Zenon DEF SInv, Types
  <2>5. Agreement'
    BY <2>1, Zenon DEF SInv, Agreement, MadeFor
  <2>6. DecisionInv'
    BY <2>1, <2>2, Zenon DEF SInv, DecisionInv, For, Settling, Bootstrap, Journaled
  <2>7. (JournalInv /\ BootInv /\ QuietInv /\ DoneInv)'
    BY <2>1, <2>2, UnderDown, Zenon DEF Downing
  <2>8. DownInv'
    BY <2>1, Zenon DEF SInv, DownInv
  <2> QED
    BY <2>3, <2>4, <2>5, <2>6, <2>7, <2>8, Zenon DEF SInv
<1>5. CASE RemoveOPA
  <2>1. /\ pc = "removeOPA" /\ pc' = "removed"
        /\ opa' = None
        /\ UNCHANGED << decision, coll, session, rec, journal, activation, receipt, boot, down,
                        stopped, registry, gateway, bundle, faults, drifts >>
    BY <1>5, Zenon DEF RemoveOPA, Step, outer, marks, bounds
  <2>2. /\ down # None /\ down \in DownJournals /\ decision # None /\ decision.op = "down"
        /\ journal = None /\ boot = None /\ activation = None /\ registry = {}
    BY <2>1, DowningFacts, Zenon DEF Downing
  <2>3. pc' \in Places
    BY <2>1, Zenon DEF Places
  <2>4. Types'
    BY <2>1, <2>2, Zenon DEF SInv, Types
  <2>5. Agreement'
    BY <2>1, Zenon DEF SInv, Agreement, MadeFor
  <2>6. DecisionInv'
    BY <2>1, <2>2, Zenon DEF SInv, DecisionInv, For, Settling, Bootstrap, Journaled
  <2>7. (JournalInv /\ BootInv /\ QuietInv /\ DoneInv)'
    BY <2>1, <2>2, UnderDown, Zenon DEF Downing
  <2>8. DownInv'
    BY <2>1, Zenon DEF SInv, DownInv
  <2> QED
    BY <2>3, <2>4, <2>5, <2>6, <2>7, <2>8, Zenon DEF SInv
<1>6. CASE JournalRemoved
  <2>1. /\ pc = "removed" /\ pc' = "volumes"
        /\ down' = [down EXCEPT !.phase = "runtime"]
        /\ UNCHANGED << decision, coll, session, rec, journal, activation, receipt, boot, stopped,
                        registry, gateway, opa, bundle, faults, drifts >>
    BY <1>6, Zenon DEF JournalRemoved, Step, JournalDown, outer, docker, bounds
  <2>2. /\ down # None /\ down \in DownJournals /\ decision # None /\ decision.op = "down"
        /\ journal = None /\ boot = None /\ activation = None /\ registry = {}
    BY <2>1, DowningFacts, Zenon DEF Downing
  <2>3. down' \in DownJournals /\ down'.purge = down.purge /\ down'.phase = "runtime"
    BY <2>1, <2>2, Zenon DEF DownJournals
  <2>4. down' # None
    BY <2>3, NoneFacts, Zenon
  <2>5. pc' \in Places
    BY <2>1, Zenon DEF Places
  <2>6. Types'
    BY <2>1, <2>2, <2>3, <2>4, FieldFacts, Zenon DEF SInv, Types
  <2>7. Agreement'
    BY <2>1, Zenon DEF SInv, Agreement, MadeFor
  <2>8. DecisionInv'
    BY <2>1, <2>2, <2>4, Zenon DEF SInv, DecisionInv, For, Settling, Bootstrap, Journaled
  <2>9. (JournalInv /\ BootInv /\ QuietInv /\ DoneInv)'
    BY <2>1, <2>2, <2>4, UnderDown, Zenon DEF Downing
  <2>10. DownInv'
    BY <2>1, <2>2, <2>3, Zenon DEF SInv, DownInv
  <2> QED
    BY <2>5, <2>6, <2>7, <2>8, <2>9, <2>10, Zenon DEF SInv
<1>7. CASE PurgeVolumes
  <2>1. /\ pc = "volumes" /\ pc' = "clear"
        /\ bundle' = IF down.purge THEN None ELSE bundle
        /\ UNCHANGED << decision, coll, session, rec, journal, activation, receipt, boot, down,
                        stopped, registry, gateway, opa, faults, drifts >>
    BY <1>7, Zenon DEF PurgeVolumes, Step, outer, marks, bounds
  <2>2. /\ down # None /\ down \in DownJournals /\ decision # None /\ decision.op = "down"
        /\ journal = None /\ boot = None /\ activation = None /\ registry = {}
    BY <2>1, DowningFacts, Zenon DEF Downing
  <2>3. pc' \in Places
    BY <2>1, Zenon DEF Places
  <2>4. Types'
    BY <2>1, <2>2, Zenon DEF SInv, Types
  <2>5. Agreement'
    BY <2>1, FieldFacts, Zenon DEF SInv, Agreement, MadeFor
  <2>6. DecisionInv'
    BY <2>1, <2>2, Zenon DEF SInv, DecisionInv, For, Settling, Bootstrap, Journaled
  <2>7. (JournalInv /\ BootInv /\ QuietInv /\ DoneInv)'
    BY <2>1, <2>2, UnderDown, Zenon DEF Downing
  <2>8. DownInv'
    BY <2>1, Zenon DEF SInv, DownInv
  <2> QED
    BY <2>3, <2>4, <2>5, <2>6, <2>7, <2>8, Zenon DEF SInv
<1>8. CASE ClearRegistry
  <2>1. /\ pc = "clear" /\ pc' = "cleared"
        /\ registry' = {}
        /\ UNCHANGED << decision, coll, session, rec, journal, activation, receipt, boot, down,
                        stopped, gateway, opa, bundle, faults, drifts >>
    BY <1>8, Zenon DEF ClearRegistry, Step, outer, marks, docker, bounds
  <2>2. /\ down # None /\ down \in DownJournals /\ decision # None /\ decision.op = "down"
        /\ journal = None /\ boot = None /\ activation = None /\ registry = {}
    BY <2>1, DowningFacts, Zenon DEF Downing
  <2>3. pc' \in Places
    BY <2>1, Zenon DEF Places
  <2>4. Types'
    BY <2>1, <2>2, FieldFacts, Zenon DEF SInv, Types
  <2>5. Agreement'
    BY <2>1, <2>2, Zenon DEF SInv, Agreement, MadeFor
  <2>6. DecisionInv'
    BY <2>1, <2>2, Zenon DEF SInv, DecisionInv, For, Settling, Bootstrap, Journaled
  <2>7. (JournalInv /\ BootInv /\ QuietInv /\ DoneInv)'
    BY <2>1, <2>2, UnderDown, Zenon DEF Downing
  <2>8. DownInv'
    BY <2>1, Zenon DEF SInv, DownInv
  <2> QED
    BY <2>3, <2>4, <2>5, <2>6, <2>7, <2>8, Zenon DEF SInv
<1>9. CASE JournalCleared
  <2>1. /\ pc = "cleared" /\ pc' = "writeStopped"
        /\ down' = [down EXCEPT !.phase = "authority"]
        /\ UNCHANGED << decision, coll, session, rec, journal, activation, receipt, boot, stopped,
                        registry, gateway, opa, bundle, faults, drifts >>
    BY <1>9, Zenon DEF JournalCleared, Step, JournalDown, outer, docker, bounds
  <2>2. /\ down # None /\ down \in DownJournals /\ decision # None /\ decision.op = "down"
        /\ journal = None /\ boot = None /\ activation = None /\ registry = {}
    BY <2>1, DowningFacts, Zenon DEF Downing
  <2>3. down' \in DownJournals /\ down'.purge = down.purge /\ down'.phase = "authority"
    BY <2>1, <2>2, Zenon DEF DownJournals
  <2>4. down' # None
    BY <2>3, NoneFacts, Zenon
  <2>5. pc' \in Places
    BY <2>1, Zenon DEF Places
  <2>6. Types'
    BY <2>1, <2>2, <2>3, <2>4, FieldFacts, Zenon DEF SInv, Types
  <2>7. Agreement'
    BY <2>1, Zenon DEF SInv, Agreement, MadeFor
  <2>8. DecisionInv'
    BY <2>1, <2>2, <2>4, Zenon DEF SInv, DecisionInv, For, Settling, Bootstrap, Journaled
  <2>9. (JournalInv /\ BootInv /\ QuietInv /\ DoneInv)'
    BY <2>1, <2>2, <2>4, UnderDown, Zenon DEF Downing
  <2>10. DownInv'
    BY <2>1, <2>2, <2>3, Zenon DEF SInv, DownInv
  <2> QED
    BY <2>5, <2>6, <2>7, <2>8, <2>9, <2>10, Zenon DEF SInv
<1>10. CASE WriteStopped
  <2>1. /\ pc = "writeStopped" /\ pc' = "unactivate"
        /\ stopped' = down
        /\ UNCHANGED << decision, coll, session, rec, journal, activation, receipt, boot, down,
                        registry, gateway, opa, bundle, faults, drifts >>
    BY <1>10, Zenon DEF WriteStopped, Step, outer, docker, bounds
  <2>2. /\ down # None /\ down \in DownJournals /\ decision # None /\ decision.op = "down"
        /\ journal = None /\ boot = None /\ activation = None /\ registry = {}
    BY <2>1, DowningFacts, Zenon DEF Downing
  <2>3. pc' \in Places
    BY <2>1, Zenon DEF Places
  <2>4. Types'
    BY <2>1, <2>2, Zenon DEF SInv, Types
  <2>5. Agreement'
    BY <2>1, Zenon DEF SInv, Agreement, MadeFor
  <2>6. DecisionInv'
    BY <2>1, <2>2, Zenon DEF SInv, DecisionInv, For, Settling, Bootstrap, Journaled
  <2>7. (JournalInv /\ BootInv /\ QuietInv /\ DoneInv)'
    BY <2>1, <2>2, UnderDown, Zenon DEF Downing
  <2>8. DownInv'
    BY <2>1, Zenon DEF SInv, DownInv
  <2> QED
    BY <2>3, <2>4, <2>5, <2>6, <2>7, <2>8, Zenon DEF SInv
<1>11. CASE RemoveActivation
  <2>1. /\ pc = "unactivate" /\ pc' = "unreceipt"
        /\ activation' = None
        /\ UNCHANGED << decision, coll, session, rec, journal, receipt, boot, down, stopped,
                        registry, gateway, opa, bundle, faults, drifts >>
    BY <1>11, Zenon DEF RemoveActivation, Step, outer, marks, docker, bounds
  <2>2. /\ down # None /\ down \in DownJournals /\ decision # None /\ decision.op = "down"
        /\ journal = None /\ boot = None /\ activation = None /\ registry = {}
    BY <2>1, DowningFacts, Zenon DEF Downing
  <2>3. pc' \in Places
    BY <2>1, Zenon DEF Places
  <2>4. Types'
    BY <2>1, <2>2, Zenon DEF SInv, Types
  <2>5. Agreement'
    BY <2>1, Zenon DEF SInv, Agreement, MadeFor
  <2>6. DecisionInv'
    BY <2>1, <2>2, Zenon DEF SInv, DecisionInv, For, Settling, Bootstrap, Journaled
  <2>7. (JournalInv /\ BootInv /\ QuietInv /\ DoneInv)'
    BY <2>1, <2>2, UnderDown, Zenon DEF Downing
  <2>8. DownInv'
    BY <2>1, Zenon DEF SInv, DownInv
  <2> QED
    BY <2>3, <2>4, <2>5, <2>6, <2>7, <2>8, Zenon DEF SInv
<1>12. CASE RemoveActiveReceipt
  <2>1. /\ pc = "unreceipt" /\ pc' = "undown"
        /\ receipt' = None
        /\ UNCHANGED << decision, coll, session, rec, journal, activation, boot, down, stopped,
                        registry, gateway, opa, bundle, faults, drifts >>
    BY <1>12, Zenon DEF RemoveActiveReceipt, Step, outer, marks, docker, bounds
  <2>2. /\ down # None /\ down \in DownJournals /\ decision # None /\ decision.op = "down"
        /\ journal = None /\ boot = None /\ activation = None /\ registry = {}
    BY <2>1, DowningFacts, Zenon DEF Downing
  <2>3. pc' \in Places
    BY <2>1, Zenon DEF Places
  <2>4. Types'
    BY <2>1, <2>2, Zenon DEF SInv, Types
  <2>5. Agreement'
    BY <2>1, Zenon DEF SInv, Agreement, MadeFor
  <2>6. DecisionInv'
    BY <2>1, <2>2, Zenon DEF SInv, DecisionInv, For, Settling, Bootstrap, Journaled
  <2>7. (JournalInv /\ BootInv /\ QuietInv /\ DoneInv)'
    BY <2>1, <2>2, UnderDown, Zenon DEF Downing
  <2>8. DownInv'
    BY <2>1, Zenon DEF SInv, DownInv
  <2> QED
    BY <2>3, <2>4, <2>5, <2>6, <2>7, <2>8, Zenon DEF SInv
<1>13. CASE RemoveDown
  <2>1. /\ pc = "undown" /\ pc' = "done"
        /\ down' = None
        /\ UNCHANGED << decision, coll, session, rec, journal, activation, receipt, boot, stopped,
                        registry, gateway, opa, bundle, faults, drifts >>
    BY <1>13, Zenon DEF RemoveDown, Step, outer, docker, bounds
  <2>2. /\ down # None /\ down \in DownJournals /\ decision # None /\ decision.op = "down"
        /\ journal = None /\ boot = None /\ activation = None /\ registry = {}
    BY <2>1, DowningFacts, Zenon DEF Downing
  <2>3. /\ stopped = down /\ receipt = None /\ down.phase = "authority"
        /\ gateway = None /\ opa = None
        /\ (down.purge => bundle = None)
    BY <2>1, <2>2, Zenon DEF SInv, DownInv
  <2>4. pc' \in Places
    BY <2>1, Zenon DEF Places
  <2>5. Types'
    BY <2>1, <2>2, <2>3, Zenon DEF SInv, Types
  <2>6. JournalInv'
    BY <2>1, <2>2, Zenon DEF JournalInv
  <2>7. Agreement'
    BY <2>1, Zenon DEF SInv, Agreement, MadeFor
  <2>8. DecisionInv'
    BY <2>1, Zenon DEF SInv, DecisionInv, For, Settling, Bootstrap, Journaled, Downing
  <2>9. BootInv'
    BY <2>1, <2>2, Zenon DEF BootInv, Bootstrap
  <2>10. (QuietInv /\ DoneInv /\ DownInv)'
    BY <2>1, <2>2, <2>3, Zenon DEF QuietInv, NoSettlement, StoppedRuntime, DoneInv, DownInv
  <2> QED
    BY <2>4, <2>5, <2>6, <2>7, <2>8, <2>9, <2>10, Zenon DEF SInv
<1> QED
  BY <1>1, <1>2, <1>3, <1>4, <1>5, <1>6, <1>7, <1>8, <1>9, <1>10, <1>11, <1>12, <1>13, Zenon

\* A command that dies or returns an error leaves SInv behind: the files alone
\* carry it.
LEMMA ReturnSInv ==
  ASSUME SInv, pc' = "idle", rec' = None, faults' \in FaultCounts,
         UNCHANGED << decision, coll, session, journal, activation, receipt, boot, down, stopped,
                      registry, gateway, opa, bundle, drifts >>
  PROVE  SInv'
<1>1. Types'
  BY DEF SInv, Types
<1>2. JournalInv'
  BY Zenon DEF SInv, JournalInv, PlaceInv, For, MadeFor, Names, Held, Fenced, Applied, Opened
<1>3. Agreement' /\ BootInv'
  BY Zenon DEF SInv, Agreement, MadeFor, BootInv, Bootstrap
<1>4. DecisionInv'
  BY Zenon DEF SInv, DecisionInv, For, NoSettlement, Settling, Bootstrap, Journaled, Downing
<1>5. (QuietInv /\ DoneInv /\ DownInv)'
  BY Zenon DEF SInv, QuietInv, DoneInv, DownInv, NoSettlement, StoppedRuntime
<1>6. pc' \in Places
  BY Zenon DEF Places
<1> QED
  BY <1>1, <1>2, <1>3, <1>4, <1>5, <1>6, Zenon DEF SInv

\* SInv does not depend on which containers run, at which address, or still exist.
LEMMA ContainersSInv ==
  ASSUME SInv, drifts' \in DriftCounts,
         gateway' # None => /\ gateway # None /\ gateway' \in Gateways /\ gateway'.id = gateway.id
                            /\ gateway'.cfg = gateway.cfg /\ gateway'.nets = gateway.nets,
         opa' # None => opa # None /\ opa' \in OPAs,
         UNCHANGED << decision, coll, session, pc, rec, journal, activation, receipt, boot, down,
                      stopped, registry, bundle, faults >>
  PROVE  SInv'
<1>1. Types'
  BY DEF SInv, Types
<1>2. JournalInv'
  BY Zenon DEF SInv, JournalInv, PlaceInv, For, MadeFor, Names, Held, Fenced, Applied, Opened
<1>3. Agreement' /\ BootInv'
  BY Zenon DEF SInv, Agreement, MadeFor, BootInv
<1>4. DecisionInv'
  BY Zenon DEF SInv, DecisionInv, For, NoSettlement
<1>5. (QuietInv /\ DoneInv /\ DownInv)'
  BY Zenon DEF SInv, QuietInv, DoneInv, DownInv, NoSettlement, StoppedRuntime
<1>6. pc' \in Places
  BY Zenon DEF SInv
<1> QED
  BY <1>1, <1>2, <1>3, <1>4, <1>5, Zenon DEF SInv

\* Whatever happens to the containers preserves SInv.
LEMMA DriftSInv ==
  ASSUME SInv, Stop \/ StopPrepared \/ Start \/ Lose \/ Upgrade
  PROVE  SInv'
<1>1. /\ UNCHANGED << decision, coll, session, pc, rec, journal, activation, receipt, boot, down,
                      stopped, registry, bundle, faults >>
      /\ drifts < MaxDrifts /\ drifts' = drifts + 1
  BY Zenon DEF Stop, StopPrepared, Start, Lose, Upgrade, Drifting, outer, worker, marks
<1>2. drifts' \in DriftCounts
  BY <1>1, BoundFacts DEF SInv, Types, DriftCounts
<1>3. gateway # None => gateway \in Gateways
  BY Zenon DEF SInv, Types
<1>4. opa # None => opa \in OPAs
  BY Zenon DEF SInv, Types
<1>5. gateway # None =>
        /\ \A a \in Addrs : [gateway EXCEPT !.addr = a, !.up = TRUE] \in Gateways
        /\ [gateway EXCEPT !.up = FALSE] \in Gateways
  BY <1>3, Zenon DEF Gateways
<1>6. opa # None =>
        /\ \A a \in Addrs : [opa EXCEPT !.addr = a, !.up = TRUE] \in OPAs
        /\ [opa EXCEPT !.up = FALSE] \in OPAs /\ [opa EXCEPT !.cur = FALSE] \in OPAs
  BY <1>4, Zenon DEF OPAs
<1>7. gateway' # None => /\ gateway # None /\ gateway' \in Gateways /\ gateway'.id = gateway.id
                         /\ gateway'.cfg = gateway.cfg /\ gateway'.nets = gateway.nets
  <2>1. CASE UNCHANGED gateway
    BY <1>3, <2>1, Zenon
  <2>2. CASE gateway' = None
    BY <2>2, Zenon
  <2>3. CASE /\ gateway # None
             /\ \/ \E a \in Addrs : gateway' = [gateway EXCEPT !.addr = a, !.up = TRUE]
                \/ gateway' = [gateway EXCEPT !.up = FALSE]
    BY <1>5, <2>3, Zenon DEF Gateways
  <2> QED
    BY <2>1, <2>3, Zenon DEF Stop, StopPrepared, StopGateway, StopOPA, Start, Lose, Upgrade, Up
<1>8. opa' # None => opa # None /\ opa' \in OPAs
  <2>1. CASE UNCHANGED opa
    BY <1>4, <2>1, Zenon
  <2>2. CASE opa' = None
    BY <2>2, Zenon
  <2>3. CASE opa # None /\ \E a \in Addrs : opa' = [opa EXCEPT !.addr = a, !.up = TRUE]
    BY <1>6, <2>3, Zenon
  <2>4. CASE opa # None /\ opa' = [opa EXCEPT !.up = FALSE]
    BY <1>6, <2>4, Zenon
  <2>5. CASE opa # None /\ opa' = [opa EXCEPT !.cur = FALSE]
    BY <1>6, <2>5, Zenon
  <2> QED
    BY <2>1, <2>3, <2>4, <2>5, Zenon DEF Stop, StopPrepared, StopGateway, StopOPA, Start, Lose,
       Upgrade, Up
<1> QED
  BY <1>1, <1>2, <1>7, <1>8, ContainersSInv, Zenon

\* A decision that agrees with the receipt preserves SInv.
LEMMA DecideSInv ==
  ASSUME SInv, NEW d \in Decisions, Decide(d), d.next <= MaxRevision,
         d.op = "settle" => (d.plan.prin # {} => receipt # None),
         d.op = "down" => (receipt # None => receipt.plan.prin = {})
  PROVE  SInv'
<1>1. /\ pc = "idle" /\ decision = None /\ decision' = d /\ d # None /\ NoSettlement
      /\ UNCHANGED << coll, session, pc, rec, journal, activation, receipt, boot, down, stopped,
                      registry, gateway, opa, bundle, faults, drifts >>
  BY NoneFacts, Zenon DEF Decide, worker, marks, docker, bounds, SInv, DecisionInv
<1>2. Types'
  BY <1>1 DEF SInv, Types
<1>3. DecisionInv'
  BY <1>1, Zenon DEF DecisionInv, For, NoSettlement, Settling, Bootstrap, Journaled, Downing
<1>4. (JournalInv /\ Agreement /\ BootInv)'
  BY <1>1, Zenon DEF SInv, JournalInv, Agreement, MadeFor, BootInv, NoSettlement
<1>5. (QuietInv /\ DoneInv /\ DownInv)'
  BY <1>1, Zenon DEF SInv, QuietInv, DoneInv, DownInv, StoppedRuntime
<1> QED
  BY <1>1, <1>2, <1>3, <1>4, <1>5, Zenon DEF SInv

\* A decision taken from the published collection agrees with the receipt.
LEMMA DecidesFacts ==
  ASSUME SInv, \/ \E p \in Plans : DecideSettle(p)
               \/ \E purge \in Purges : DecideDown(purge)
  PROVE  \E d \in Decisions :
           /\ Decide(d) /\ d.next <= MaxRevision
           /\ d.op = "settle" => (d.plan.prin # {} => receipt # None)
           /\ d.op = "down" => (receipt # None => receipt.plan.prin = {})
<1>1. decision = None /\ coll.plan = (IF receipt = None THEN None ELSE receipt.plan)
  BY Zenon DEF DecideSettle, DecideDown, Decide, SInv, DecisionInv
<1>2. coll.rev \in 0..MaxRevision /\ MaxRevision \in Nat
  BY BoundFacts, Zenon DEF SInv, Types, Colls
<1>3. receipt # None => coll.plan # None
  BY <1>1, FieldFacts, Zenon DEF SInv
<1>4. CASE \E p \in Plans : DecideSettle(p)
  <2>1. PICK p \in Plans : DecideSettle(p)
    BY <1>4, Zenon
  <2> DEFINE n == IF coll.plan = p THEN coll.rev ELSE coll.rev + 1
             d == [op |-> "settle", plan |-> p, purge |-> FALSE, prev |-> coll.rev, next |-> n]
  <2>2. /\ coll.plan = None => p.prin = {}
        /\ coll.plan # p => coll.rev < MaxRevision
        /\ Decide(d)
    BY <2>1, Zenon DEF DecideSettle
  <2>3. n \in Nat /\ n <= MaxRevision
    BY <1>2, <2>2
  <2>4. coll.rev \in Nat
    BY <1>2
  <2> HIDE DEF n
  <2>5. d \in Decisions
    BY <2>3, <2>4, Zenon DEF Decisions
  <2>6. d.op = "settle" /\ d.plan = p /\ d.next = n
    BY Zenon
  <2> HIDE DEF d
  <2> QED
    BY <1>1, <2>2, <2>3, <2>5, <2>6, Zenon
<1>5. CASE \E purge \in Purges : DecideDown(purge)
  <2>1. PICK purge \in Purges : DecideDown(purge)
    BY <1>5, Zenon
  <2> DEFINE n == IF coll.plan = None THEN coll.rev ELSE coll.rev + 1
             d == [op |-> "down", plan |-> None, purge |-> purge, prev |-> coll.rev, next |-> n]
  <2>2. /\ coll.plan # None => coll.plan.prin = {} /\ coll.rev < MaxRevision
        /\ Decide(d)
    BY <2>1, Zenon DEF DecideDown
  <2>3. n \in Nat /\ n <= MaxRevision
    BY <1>2, <2>2
  <2>4. coll.rev \in Nat
    BY <1>2
  <2>5. purge \in BOOLEAN
    BY BoundFacts, Zenon
  <2> HIDE DEF n
  <2>6. d \in Decisions
    BY <2>3, <2>4, <2>5, Zenon DEF Decisions
  <2>7. d.op = "down" /\ d.next = n
    BY Zenon
  <2> HIDE DEF d
  <2> QED
    BY <1>1, <1>3, <2>2, <2>3, <2>6, <2>7, Zenon
<1> QED
  BY <1>4, <1>5, Zenon

\* Deciding preserves SInv.
LEMMA DecisionsSInv ==
  ASSUME SInv, \/ \E p \in Plans : DecideSettle(p)
               \/ \E purge \in Purges : DecideDown(purge)
  PROVE  SInv'
  BY DecidesFacts, DecideSInv, Zenon

\* Starting, ending and leaving a command alone preserve SInv.
LEMMA CommandsSInv ==
  ASSUME SInv, Run \/ Finish \/ PureApply \/ BeginFinalWorkspaceSession \/ EndSession
  PROVE  SInv'
<1>1. CASE Run
  <2>1. /\ decision # None
        /\ pc = "idle"
        /\ pc' = decision.op
        /\ UNCHANGED << decision, coll, session, rec, journal, activation, receipt, boot, down,
                        stopped, registry, gateway, opa, bundle, faults, drifts >>
    BY <1>1, Zenon DEF Run, outer, marks, docker, bounds
  <2>2. decision.op \in {"settle", "down"}
    BY <2>1, FieldFacts, Zenon DEF SInv
  <2>3. pc' \in Places
    BY <2>1, <2>2, Zenon DEF Places
  <2>4. Types'
    BY <2>1 DEF SInv, Types
  <2>5. JournalInv'
    BY <2>1, <2>2, FieldFacts, Zenon DEF SInv, JournalInv, PlaceInv, For, MadeFor, Names, Held,
       Fenced, Applied, Opened
  <2>6. Agreement'
    BY <2>1, Zenon DEF SInv, Agreement, MadeFor
  <2>7. DecisionInv'
    BY <2>1, FieldFacts, Zenon DEF SInv, DecisionInv, For, Settling, Bootstrap, Journaled, Downing
  <2>8. BootInv'
    BY <2>1, FieldFacts, Zenon DEF SInv, BootInv, Bootstrap
  <2>9. (QuietInv /\ DoneInv /\ DownInv)'
    BY <2>1, FieldFacts, Zenon DEF SInv, QuietInv, NoSettlement, StoppedRuntime, DoneInv, DownInv,
       DecisionInv, For
  <2> QED
    BY <2>3, <2>4, <2>5, <2>6, <2>7, <2>8, <2>9, Zenon DEF SInv
<1>2. CASE Finish
  <2>1. /\ pc = "done" /\ pc' = "idle"
        /\ decision' = None
        /\ coll' = [rev |-> decision.next, plan |-> decision.plan]
        /\ rec' = None
        /\ UNCHANGED << session, journal, activation, receipt, boot, down, stopped, registry,
                        gateway, opa, bundle, faults, drifts >>
    BY <1>2, Zenon DEF Finish, Step, marks, docker, bounds
  <2>2. /\ decision # None /\ decision.next \in Nat /\ decision.next <= MaxRevision /\ NoSettlement
        /\ decision.plan = (IF receipt = None THEN None ELSE receipt.plan)
        /\ decision.plan \in Plans \cup {None}
    BY <2>1, FieldFacts, Zenon DEF SInv, DecisionInv, DoneInv
  <2>3. coll' \in Colls /\ coll'.plan = decision.plan /\ journal = None
    BY <2>1, <2>2 DEF Colls, NoSettlement
  <2>4. pc' \in Places
    BY <2>1, Zenon DEF Places
  <2>5. Types'
    BY <2>1, <2>3 DEF SInv, Types
  <2>6. JournalInv'
    BY <2>1, <2>3, Zenon DEF JournalInv
  <2>7. Agreement'
    BY <2>1, Zenon DEF SInv, Agreement, MadeFor
  <2>8. DecisionInv'
    BY <2>1, <2>2, Zenon DEF DecisionInv, For, NoSettlement, Settling, Bootstrap, Journaled, Downing
  <2>9. BootInv'
    BY <2>1, <2>2, FieldFacts, Zenon DEF SInv, BootInv, DecisionInv, For, Bootstrap
  <2>10. (QuietInv /\ DoneInv /\ DownInv)'
    BY <2>1, Zenon DEF SInv, QuietInv, StoppedRuntime, DoneInv, DownInv
  <2> QED
    BY <2>4, <2>5, <2>6, <2>7, <2>8, <2>9, <2>10, Zenon DEF SInv
<1>3. CASE PureApply
  <2>1. /\ decision = None
        /\ pc = "idle"
        /\ coll.rev < MaxRevision
        /\ coll' = [coll EXCEPT !.rev = @ + 1]
        /\ UNCHANGED << decision, session, pc, rec, journal, activation, receipt, boot, down,
                        stopped, registry, gateway, opa, bundle, faults, drifts >>
    BY <1>3, Zenon DEF PureApply, worker, marks, docker, bounds
  <2>2. coll' \in Colls /\ coll'.plan = coll.plan
    BY <2>1, BoundFacts DEF SInv, Types, Colls
  <2>3. pc' \in Places
    BY <2>1, Zenon DEF Places
  <2>4. Types'
    BY <2>1, <2>2 DEF SInv, Types
  <2>5. JournalInv'
    BY <2>1, Zenon DEF SInv, JournalInv, For
  <2>6. Agreement'
    BY <2>1, Zenon DEF SInv, Agreement, MadeFor
  <2>7. DecisionInv'
    BY <2>1, <2>2, Zenon DEF SInv, DecisionInv, For, NoSettlement
  <2>8. BootInv'
    BY <2>1, Zenon DEF SInv, BootInv
  <2>9. (QuietInv /\ DoneInv /\ DownInv)'
    BY <2>1, Zenon DEF SInv, QuietInv, StoppedRuntime, DoneInv, DownInv, DecisionInv
  <2> QED
    BY <2>3, <2>4, <2>5, <2>6, <2>7, <2>8, <2>9, Zenon DEF SInv
<1>4. CASE BeginFinalWorkspaceSession
  <2>1. /\ pc = "idle"
        /\ decision = None
        /\ ~session
        /\ NoSettlement
        /\ receipt # None
        /\ ConfirmFinalPolicyRecord(receipt)
        /\ receipt.plan.prin # {}
        /\ session' = TRUE
        /\ UNCHANGED << decision, coll, pc, rec, journal, activation, receipt, boot, down,
                        stopped, registry, gateway, opa, bundle, faults, drifts >>
    BY <1>4, Zenon DEF BeginFinalWorkspaceSession, worker, marks, docker, bounds
  <2>2. pc' \in Places
    BY <2>1, Zenon DEF SInv
  <2>3. Types'
    BY <2>1 DEF SInv, Types
  <2>4. JournalInv'
    BY <2>1, Zenon DEF SInv, JournalInv, For
  <2>5. Agreement'
    BY <2>1, Zenon DEF SInv, Agreement, MadeFor
  <2>6. DecisionInv'
    BY <2>1, Zenon DEF SInv, DecisionInv, For, NoSettlement
  <2>7. BootInv'
    BY <2>1, Zenon DEF SInv, BootInv
  <2>8. (QuietInv /\ DoneInv /\ DownInv)'
    BY <2>1, Zenon DEF SInv, QuietInv, DoneInv, DownInv
  <2> QED
    BY <2>2, <2>3, <2>4, <2>5, <2>6, <2>7, <2>8, Zenon DEF SInv
<1>5. CASE EndSession
  <2>1. /\ session
        /\ session' = FALSE
        /\ UNCHANGED << decision, coll, pc, rec, journal, activation, receipt, boot, down,
                        stopped, registry, gateway, opa, bundle, faults, drifts >>
    BY <1>5, Zenon DEF EndSession, worker, marks, docker, bounds
  <2>2. session' \in BOOLEAN
    BY <2>1, Zenon
  <2>3. pc' \in Places
    BY <2>1, Zenon DEF SInv
  <2>4. Types'
    BY <2>1, <2>2 DEF SInv, Types
  <2>5. JournalInv'
    BY <2>1, <2>2, FieldFacts, Zenon DEF SInv, JournalInv, PlaceInv, For, MadeFor, Names, Held,
       Fenced, Applied, Opened
  <2>6. Agreement'
    BY <2>1, Zenon DEF SInv, Agreement, MadeFor
  <2>7. DecisionInv'
    BY <2>1, Zenon DEF SInv, DecisionInv, For, NoSettlement, Settling, Bootstrap
  <2>8. BootInv'
    BY <2>1, Zenon DEF SInv, BootInv
  <2>9. (QuietInv /\ DoneInv /\ DownInv)'
    BY <2>1, <2>2, FieldFacts, Zenon DEF SInv, QuietInv, NoSettlement, StoppedRuntime, DoneInv,
       DownInv, DecisionInv, For
  <2> QED
    BY <2>3, <2>4, <2>5, <2>6, <2>7, <2>8, <2>9, Zenon DEF SInv
<1> QED
  BY <1>1, <1>2, <1>3, <1>4, <1>5, Zenon

\* SInv holds initially.
LEMMA InitSInv == Init => SInv
<1> SUFFICES ASSUME Init PROVE SInv
  BY Zenon
<1>1. pc \in Places
  BY Zenon DEF Init, Places
<1>2. coll \in Colls /\ faults \in FaultCounts /\ drifts \in DriftCounts
  BY BoundFacts DEF Init, Colls, FaultCounts, DriftCounts
<1>3. session \in BOOLEAN
  BY Zenon DEF Init
<1>4. Types
  BY <1>2, Zenon DEF Init, Types
<1>5. JournalInv /\ Agreement /\ DecisionInv
  BY NoneFacts, Zenon DEF Init, JournalInv, Agreement, DecisionInv, NoSettlement, For, Settling,
     Bootstrap, Journaled, Downing
<1>6. BootInv /\ QuietInv /\ DoneInv /\ DownInv
  BY Zenon DEF Init, BootInv, QuietInv, DoneInv, DownInv, Bootstrap
<1> QED
  BY <1>1, <1>4, <1>5, <1>6, Zenon DEF SInv

\* Every step preserves SInv.
LEMMA NextSInv == SInv /\ [Next]_vars => SInv'
<1> SUFFICES ASSUME SInv, [Next]_vars PROVE SInv'
  BY Zenon
<1>1. CASE Prepare
  BY <1>1, PrepareSInv, Zenon DEF Prepare
<1>2. CASE Settle
  BY <1>2, SettleSInv, SettledSInv, Zenon DEF Settle
<1>3. CASE TakeDown
  BY <1>3, TakeDownSInv, Zenon DEF TakeDown
<1>4. CASE Abort \/ Refuse
  <2>1. /\ pc' = "idle" /\ rec' = None /\ faults' \in FaultCounts
        /\ UNCHANGED << decision, coll, session, journal, activation, receipt, boot, down, stopped,
                        registry, gateway, opa, bundle, drifts >>
    BY <1>4, BoundFacts DEF Abort, Refuse, outer, marks, docker, bounds, SInv, Types,
       FaultCounts
  <2> QED
    BY <2>1, ReturnSInv, Zenon
<1>5. CASE Run \/ Finish \/ PureApply \/ BeginFinalWorkspaceSession \/ EndSession
  BY <1>5, CommandsSInv, Zenon
<1>6. CASE (\E p \in Plans : DecideSettle(p)) \/ (\E purge \in Purges : DecideDown(purge))
  BY <1>6, DecisionsSInv, Zenon
<1>7. CASE Stop \/ StopPrepared \/ Start \/ Lose \/ Upgrade
  BY <1>7, DriftSInv, Zenon
<1>8. CASE UNCHANGED vars
  <2>1. UNCHANGED << decision, coll, session, pc, rec, journal, activation, receipt, boot, down,
                     stopped, registry, gateway, opa, bundle, faults, drifts >>
    BY <1>8, Zenon DEF vars
  <2>2. /\ gateway' # None => /\ gateway # None /\ gateway' \in Gateways /\ gateway'.id = gateway.id
                              /\ gateway'.cfg = gateway.cfg /\ gateway'.nets = gateway.nets
        /\ opa' # None => opa # None /\ opa' \in OPAs
        /\ drifts' \in DriftCounts
    BY <2>1, Zenon DEF SInv, Types
  <2> QED
    BY <2>1, <2>2, ContainersSInv, Zenon
<1> QED
  BY <1>1, <1>2, <1>3, <1>4, <1>5, <1>6, <1>7, <1>8, Zenon DEF Next, Command, Others

\* SInv holds in every reachable state, wherever a command died.
THEOREM SettlementInvariant == Spec => []SInv
  BY InitSInv, NextSInv, PTL DEF Spec

\* The deny-all fence that applyPolicyArchive puts out before the registry is
\* published and Gateway replaced: whenever a plan's policy is served, Gateway has
\* the configuration and networks of that plan and the registry its Workspaces,
\* wherever the command died.
THEOREM FenceAlwaysCovers == Spec => []FenceCoversDisagreement
<1>1. SInv => FenceCoversDisagreement
  <2> SUFFICES ASSUME SInv PROVE FenceCoversDisagreement
    BY Zenon
  <2>1. pc \in {"close", "open", "opened", "writeReceipt", "receipt", "opaReceipt"} => rec # None
    BY Zenon DEF SInv, DecisionInv, JournalInv, Held, Journaled
  <2>2. TypeOK
    BY <2>1, Zenon DEF SInv, Types, Colls, Boots, FaultCounts, DriftCounts, TypeOK
  <2> QED
    BY <2>2, Zenon DEF SInv, Agreement, MadeFor, FenceCoversDisagreement
<1> QED
  BY <1>1, SettlementInvariant, PTL

\* What writeFinalPolicyActivation and resumeFinalClusterDown leave in the active
\* and the stopped receipt is true whenever no journal is left, and when the decision
\* is cleared the active receipt names the plan of the published collection.
THEOREM ReceiptsAlwaysTrue == Spec => []ReceiptsTrue
<1>1. SInv => ReceiptsTrue
  BY Zenon DEF SInv, QuietInv, DecisionInv, ReceiptsTrue
<1> QED
  BY <1>1, SettlementInvariant, PTL

\* The plan the cluster enforces, and the intent of the command, as Promise has them.
Enforced == IF bundle \in Plans /\ gateway # None /\ opa # None THEN bundle ELSE None
Intent == IF decision = None THEN None ELSE [op |-> decision.op, plan |-> decision.plan]

\* A step that may take a policy or a container away, and adds none.
Closing ==
  /\ decision' = decision
  /\ bundle' \in {bundle, None, Fence}
  /\ gateway' # None => gateway # None
  /\ opa' # None => opa # None

\* Such a step is a Close of SettledPolicy, or nothing to it.
LEMMA EnforcedFacts ==
  ASSUME Closing
  PROVE  Enforced' \in {Enforced, None} /\ Intent' = Intent
  BY NoneFacts, Zenon DEF Closing, Enforced, Intent

\* Entry and preparation enforce nothing new.
LEMMA PrepareCloses ==
  ASSUME SettleFinalAuthority \/ EnsureBase \/ BaseRunning \/ PrepareFinalGatewaySettlement
  PROVE  Closing
  BY Zenon DEF SettleFinalAuthority, EnsureBase, BaseRunning, PrepareFinalGatewaySettlement,
     outer, docker, Closing

\* Of the settlement only ReplaceFinalGateway and OpenPolicy may enforce a plan.
LEMMA SettleCloses ==
  ASSUME Settle, ~ReplaceFinalGateway, ~OpenPolicy
  PROVE  Closing
<1>1. CASE RestorePreparedComponents
  <2>1. pc = "restore" /\ Passes("restore")
    BY <1>1, Zenon DEF RestorePreparedComponents, Step
  <2>2. gateway # None /\ opa # None
    BY <2>1, Zenon DEF Passes, RestoreAdmitted
  <2> QED
    BY <1>1, <2>2, Zenon DEF RestorePreparedComponents, outer, Closing
<1>2. CASE \/ ResumeFinalGatewaySettlement \/ RestoreHealthy \/ ConfirmRestored \/ PublishFence
           \/ JournalFenced \/ PublishFinalSettlementPrincipals \/ JournalPrincipals
           \/ ObserveSettled \/ RefreshFinalSharedNetworkAddresses \/ ConfirmReplaced
  BY <1>2, Zenon DEF ResumeFinalGatewaySettlement, RestoreHealthy, ConfirmRestored, PublishFence,
     JournalFenced, PublishFinalSettlementPrincipals, JournalPrincipals, ObserveSettled,
     RefreshFinalSharedNetworkAddresses, ConfirmReplaced, outer, docker, Closing
<1>3. CASE \/ JournalReplaced \/ CloseBeforePolicy \/ JournalPolicy \/ WriteActiveReceipt
           \/ ConfirmReceipt \/ ConfirmTerminal \/ RemoveStopped \/ RemoveBootstrap
  BY <1>3, Zenon DEF JournalReplaced, CloseBeforePolicy, JournalPolicy, WriteActiveReceipt,
     ConfirmReceipt, ConfirmTerminal, RemoveStopped, RemoveBootstrap, outer, docker, Closing
<1>4. CASE \/ RemoveJournal \/ ReadSettledIdentity \/ PrepareFinalPolicyActivation
           \/ ResumeFinalPolicyActivation \/ JournalOPAReceipt
  BY <1>4, Zenon DEF RemoveJournal, ReadSettledIdentity, PrepareFinalPolicyActivation,
     ResumeFinalPolicyActivation, JournalOPAReceipt, outer, docker, Closing
<1> QED
  BY <1>1, <1>2, <1>3, <1>4, Zenon DEF Settle

\* A cluster down enforces nothing.
LEMMA TakeDownCloses ==
  ASSUME TakeDown
  PROVE  Closing
<1>1. CASE \/ ResumeDown \/ CompletedDown \/ PrepareDown \/ RemoveGateway \/ RemoveOPA
           \/ JournalRemoved \/ PurgeVolumes
  BY <1>1, Zenon DEF ResumeDown, CompletedDown, PrepareDown, RemoveGateway, RemoveOPA,
     JournalRemoved, PurgeVolumes, outer, docker, Closing
<1>2. CASE \/ ClearRegistry \/ JournalCleared \/ WriteStopped \/ RemoveActivation
           \/ RemoveActiveReceipt \/ RemoveDown
  BY <1>2, Zenon DEF ClearRegistry, JournalCleared, WriteStopped, RemoveActivation,
     RemoveActiveReceipt, RemoveDown, outer, docker, Closing
<1> QED
  BY <1>1, <1>2, Zenon DEF TakeDown

\* Nor does anything outside of a settlement.
LEMMA OthersClose ==
  ASSUME \/ Refuse \/ Run \/ Abort \/ PureApply \/ BeginFinalWorkspaceSession \/ EndSession
         \/ Stop \/ StopPrepared \/ Start \/ Lose \/ Upgrade \/ UNCHANGED vars
  PROVE  Closing
<1>1. CASE Refuse \/ Run \/ Abort \/ PureApply \/ BeginFinalWorkspaceSession \/ EndSession
  BY <1>1, Zenon DEF Refuse, Run, Abort, PureApply, BeginFinalWorkspaceSession, EndSession, outer,
     docker, Closing
<1>2. CASE Stop \/ StopPrepared \/ Start \/ Lose \/ Upgrade
  BY <1>2, Zenon DEF Stop, StopPrepared, Start, Lose, Upgrade, Drifting, StopGateway, StopOPA, Up,
     outer, Closing
<1>3. CASE UNCHANGED vars
  BY <1>3, Zenon DEF vars, Closing
<1> QED
  BY <1>1, <1>2, <1>3, Zenon

\* A step that enforces the decided plan, from none.
Opening == decision' = decision /\ decision # None /\ Enforced = None /\ Enforced' = decision.plan

\* The steps that put a policy or a container in place enforce the decided plan, from
\* no plan, or nothing new.
LEMMA OpensOrCloses ==
  ASSUME SInv, \/ PrepareFinalPolicyBundle \/ ComposeOPA \/ ComposeGateway
               \/ ReplaceFinalGateway \/ OpenPolicy
  PROVE  decision' = decision /\ (Enforced' \in {Enforced, None} \/ Opening)
<1>1. CASE PrepareFinalPolicyBundle \/ ComposeOPA \/ ComposeGateway
  <2>1. /\ pc \in Bootstrap /\ decision' = decision /\ bundle' \in {bundle, decision.plan}
        /\ pc \in {"composeOPA", "composeGateway"} => bundle' = bundle
        /\ pc \in {"bundle", "composeOPA", "composeGateway"}
        /\ pc = "bundle" => UNCHANGED << gateway, opa >>
    BY <1>1, Zenon DEF PrepareFinalPolicyBundle, ComposeOPA, ComposeGateway, Step, outer, Bootstrap
  <2>2. bundle \in {None, decision.plan} /\ decision # None
        /\ (pc \in {"composeOPA", "composeGateway"} => bundle = decision.plan)
    BY <2>1, Zenon DEF SInv, BootInv, DecisionInv
  <2> QED
    BY <2>1, <2>2, Zenon DEF Enforced, Opening
<1>2. CASE ReplaceFinalGateway
  <2>1. pc = "replace" /\ decision' = decision /\ bundle' = bundle
    BY <1>2, Zenon DEF ReplaceFinalGateway, Step, outer
  <2>2. bundle = Fence
    BY <2>1, JournaledFacts, Zenon DEF Journaled, SInv, JournalInv, PlaceInv, Fenced, UnderWay
  <2> QED
    BY <2>1, <2>2, NoneFacts, Zenon DEF Enforced
<1>3. CASE OpenPolicy
  <2>1. pc = "open" /\ decision' = decision /\ bundle' = rec.plan
    BY <1>3, Zenon DEF OpenPolicy, Step, outer
  <2>2. bundle = Fence /\ rec.plan = decision.plan /\ decision # None
    BY <2>1, JournaledFacts, Zenon DEF Journaled, SInv, JournalInv, Fenced, Held, UnderWay
  <2> QED
    BY <2>1, <2>2, NoneFacts, Zenon DEF Enforced, Opening
<1> QED
  BY <1>1, <1>2, <1>3, Zenon

\* A decision is an intent.
LEMMA DecideRefines ==
  ASSUME SInv, \/ \E p \in Plans : DecideSettle(p)
               \/ \E purge \in Purges : DecideDown(purge)
  PROVE  Intent = None /\ Intent' \in Promise!Intents /\ Enforced' = Enforced
<1>1. PICK d \in Decisions : Decide(d)
  BY DecidesFacts, Zenon
<1>2. decision = None /\ decision' = d /\ d # None /\ UNCHANGED << bundle, gateway, opa >>
  BY <1>1, NoneFacts, Zenon DEF Decide, docker
<1>3. (d.op = "settle" /\ d.plan \in Plans) \/ (d.op = "down" /\ d.plan = None)
  BY Zenon DEF Decisions
<1> HIDE DEF Decisions
<1>4. [op |-> d.op, plan |-> d.plan] \in Promise!Intents
  BY <1>3, Zenon DEF Promise!Intents
<1> QED
  BY <1>2, <1>4, Zenon DEF Intent, Enforced

\* A decision ends with no plan enforced but its own.
LEMMA FinishRefines ==
  ASSUME SInv, Finish
  PROVE  /\ decision # None /\ Enforced \in {None, decision.plan}
         /\ Intent' = None /\ Enforced' = Enforced
<1>1. pc = "done" /\ decision' = None /\ UNCHANGED << bundle, gateway, opa >>
  BY Zenon DEF Finish, Step, docker
<1>2. decision # None /\ NoSettlement
  BY <1>1, Zenon DEF SInv, DoneInv
<1>3. bundle = decision.plan \/ gateway = None
  BY <1>1, Zenon DEF SInv, DoneInv, QuietInv
<1> QED
  BY <1>1, <1>2, <1>3, Zenon DEF Enforced, Intent

\* The intent of an open decision names its plan.
LEMMA IntentFacts ==
  ASSUME Types, decision # None
  PROVE  Intent # None /\ Intent.plan = decision.plan
<1>1. decision.op \in {"settle", "down"} /\ decision.plan \in Plans \cup {None}
  BY FieldFacts, Zenon
<1>2. [op |-> decision.op, plan |-> decision.plan] # None
  BY <1>1, SettlementAssumption
<1> QED
  BY <1>2, Zenon DEF Intent

\* Settlement implements SettledPolicy: ApplyFinalAggregatePolicy and
\* replaceFinalGateway lead from plan to plan only through the fence and only under
\* the decision that names the plan, and a decision ends with no other enforced.
THEOREM SettlementKeepsPromise == Spec => ImplementsPromise
<1>1. Init => Promise!Init
  BY Zenon DEF Init, Promise!Init
<1>2. SInv /\ [Next]_vars => [Promise!Next]_(Promise!vars)
  <2> SUFFICES ASSUME SInv, [Next]_vars PROVE [Promise!Next]_(Promise!vars)
    BY Zenon
  <2>1. CASE Closing
    <3>1. Enforced' \in {Enforced, None} /\ Intent' = Intent
      BY <2>1, EnforcedFacts, Zenon
    <3> QED
      BY <3>1, Zenon DEF Enforced, Intent, Promise!Next, Promise!Close, Promise!vars
  <2>2. CASE \/ PrepareFinalPolicyBundle \/ ComposeOPA \/ ComposeGateway
             \/ ReplaceFinalGateway \/ OpenPolicy
    <3>1. decision' = decision /\ Intent' = Intent /\ (Enforced' \in {Enforced, None} \/ Opening)
      BY <2>2, OpensOrCloses, Zenon DEF Intent
    <3>2. Opening => Intent # None /\ Intent.plan = decision.plan
      BY IntentFacts, Zenon DEF Opening, SInv
    <3> QED
      BY <3>1, <3>2, Zenon DEF Opening, Enforced, Intent, Promise!Next, Promise!Close, Promise!Open,
         Promise!vars
  <2>3. CASE (\E p \in Plans : DecideSettle(p)) \/ (\E purge \in Purges : DecideDown(purge))
    BY <2>3, DecideRefines, Zenon DEF Enforced, Intent, Promise!Next, Promise!Decide
  <2>4. CASE Finish
    <3>1. Intent # None /\ Intent.plan = decision.plan
      BY <2>4, FinishRefines, IntentFacts, Zenon DEF SInv
    <3> QED
      BY <2>4, <3>1, FinishRefines, Zenon DEF Enforced, Intent, Promise!Next, Promise!Finish
  <2>5. CASE Prepare \/ Settle \/ TakeDown
    BY <2>1, <2>2, <2>5, PrepareCloses, SettleCloses, TakeDownCloses, Zenon DEF Prepare
  <2>6. CASE \/ Refuse \/ Run \/ Abort \/ PureApply \/ BeginFinalWorkspaceSession \/ EndSession
             \/ Stop \/ StopPrepared \/ Start \/ Lose \/ Upgrade \/ UNCHANGED vars
    BY <2>1, <2>6, OthersClose, Zenon
  <2> QED
    BY <2>3, <2>4, <2>5, <2>6, Zenon DEF Next, Command, Others
<1> QED
  BY <1>1, <1>2, SettlementInvariant, PTL DEF Spec, ImplementsPromise, Promise!Spec

====
