---- MODULE TemplateApply ----
(***************************************************************************)
(* Applying a Template.  A person edits the two source files of a Template *)
(* and applies them: the active revision is published, base_revision is    *)
(* advanced in the source by exchanging its whole directory, and a         *)
(* settlement file lets the same command finish what a death left undone.  *)
(* The Configurator replaces the same source by a reviewed submission and  *)
(* keeps a receipt until that submission is applied.                       *)
(*                                                                         *)
(* One command runs at a time (the catalog and stage leases); the person's *)
(* editor knows nothing of them.  A death leaves the files as they are and *)
(* the person runs the command again.                                      *)
(***************************************************************************)
EXTENDS Naturals

CONSTANTS
  Texts,      \* what the two files may say, base_revision left out
  BodyOf,     \* the revision a text stands for; comments do not change it
  Initial,    \* the text the Template starts with
  Submitted,  \* the revisions a Configurator submission may propose
  MaxEdits,   \* bound: times the person saves
  MaxFaults,  \* bound: deaths
  None,       \* no such file or directory
  Partial,    \* a directory half written or half removed
  Torn        \* a settlement file cut short

\* The bytes of a source pair, which are also its fingerprint.
Bodies == {BodyOf[t] : t \in Texts}
Sources == [text : Texts, base : Bodies]
\* The files of the journal and of the Configurator.
PlanRefs == [from : Bodies, src : Sources]
Settlements == [src : Sources, from : Bodies, post : Sources \cup {None}, rec : Sources \cup {None}]
Repairs == [exp : Sources, old : Sources, post : Sources, cleanup : BOOLEAN]
Receipts == [staged : Sources, base : Sources, rev : Bodies, from : Bodies,
             plan : PlanRefs \cup {None}, confirmed : BOOLEAN]

ASSUME TemplateAssumption ==
  /\ Initial \in Texts /\ Submitted \subseteq Bodies
  /\ MaxEdits \in Nat /\ MaxFaults \in Nat
  /\ Partial # None /\ Torn # None
  /\ {None, Partial} \cap Sources = {}
  /\ {None, Torn} \cap Settlements = {}
  /\ None \notin PlanRefs \cup Repairs \cup Receipts

VARIABLES
  fs,          \* the source directory and its reserved neighbours
  repair,      \* the repair journal
  settlement,  \* journal/template-apply-settlement.json
  receipt,     \* the Configurator's stage receipt
  active,      \* the active revision
  run,         \* the command under way
  saved,       \* what the person saved last (auxiliary)
  late,        \* and whether after the last look at where it went (auxiliary)
  edits, faults

files == <<fs, repair, settlement, receipt>>
rest == <<saved, late, edits, faults>>
vars == <<fs, repair, settlement, receipt, active, run, saved, late, edits, faults>>

Source(text, base) == [text |-> text, base |-> base]
Plan(from, src) == [from |-> from, src |-> src]

Idle == [at |-> "idle", ref |-> None, sel |-> None, post |-> None, file |-> None,
         then |-> "idle"]

Init ==
  /\ fs = [dir  |-> Source(Initial, BodyOf[Initial]),  \* templates/<id>
           new  |-> None,   \* .template-base-<id>-new
           old  |-> None,   \* .template-base-<id>-old
           disc |-> None,   \* .template-base-<id>-published
           cnew |-> None,   \* .configurator-<id>-new
           cold |-> None]   \* .configurator-<id>-old
  /\ repair = None /\ settlement = None /\ receipt = None
  /\ active = BodyOf[Initial]
  /\ run = Idle
  /\ saved = None /\ late = FALSE
  /\ edits = 0 /\ faults = 0

Goto(place) == run' = [run EXCEPT !.at = place]
Stop == run' = Idle

-----------------------------------------------------------------------------
(* template apply: ApplyWorkspaceTemplateSourceByReference *)

\* The source loader: a source that is there and, under a receipt, as staged.
Loads == fs.dir # None /\ (receipt # None => fs.dir = receipt.staged)

Settling == settlement \notin {None, Torn}
SettlementPlan == Plan(settlement.from, settlement.src)
Target == BodyOf[settlement.src.text]

\* Plans a person may hold: the source as it is, the plan a settlement or a
\* receipt names.
Plans ==
  {Plan(active, d) : d \in {fs.dir} \ {None}}
    \cup (IF Settling THEN {SettlementPlan} ELSE {})
    \cup (IF receipt # None /\ receipt.plan # None THEN {receipt.plan} ELSE {})

\* validateConfiguratorStageApplyAuthorization
Authorized(p) == receipt # None => receipt.confirmed /\ receipt.plan = p

Begun(p, place, sel) == run' = [Idle EXCEPT !.at = place, !.ref = p, !.sel = sel]

\* recoverTemplateApplySettlement: without a settlement the plan is applied;
\* with this plan's, its publication is taken up if it happened and the
\* settlement dropped if it did not.  Anything else is refused.
Apply(p) ==
  /\ run.at = "idle"
  /\ Authorized(p)
  /\ \/ /\ settlement = None
        /\ Begun(p, "load", None)
        /\ UNCHANGED settlement
     \/ /\ Settling /\ SettlementPlan = p
        /\ Loads
        /\ fs.dir \in {settlement.src, settlement.post, settlement.rec}
        /\ \/ active = Target /\ Begun(p, "advance", fs.dir) /\ UNCHANGED settlement
           \/ active = settlement.from /\ Begun(p, "load", None) /\ settlement' = None
  /\ UNCHANGED <<fs, repair, receipt, active, rest>>

\* Under the lifecycle lock the plan is made again from the source as it is.
Load ==
  /\ run.at = "load"
  /\ IF Loads /\ run.ref = Plan(active, fs.dir) /\ fs.dir.base = active
     THEN run' = [run EXCEPT !.sel = fs.dir,
                             !.at = IF BodyOf[fs.dir.text] = active THEN "complete"
                                    ELSE "fence"]
     ELSE Stop
  /\ UNCHANGED <<files, active, rest>>

\* writeMutationFile truncates the file before it writes it.
Overwrite(file, post, then) ==
  /\ settlement' = Torn
  /\ run' = [run EXCEPT !.at = "write", !.file = file, !.post = post, !.then = then]

\* The fence before publication: the same bytes still, and then the settlement.
Fence ==
  /\ run.at = "fence"
  /\ IF Loads /\ fs.dir = run.sel
     THEN Overwrite([src |-> run.sel, from |-> active, post |-> None, rec |-> None],
                    None, "publish")
     ELSE Stop /\ UNCHANGED settlement
  /\ UNCHANGED <<fs, repair, receipt, active, rest>>

WriteSettlement ==
  /\ run.at = "write"
  /\ settlement' = run.file
  /\ run' = [run EXCEPT !.at = run.then, !.file = None, !.then = "idle"]
  /\ UNCHANGED <<fs, repair, receipt, active, rest>>

\* The revision this command publishes or finishes.
Revision == BodyOf[run.ref.src.text]

\* Altered: the settlement is taken for done once the revision is published.
PublishAndFinish ==
  /\ run.at = "publish"
  /\ active' = Revision
  /\ Goto("complete")
  /\ UNCHANGED <<files, rest>>

Publish ==
  /\ run.at = "publish"
  /\ active' = Revision
  /\ Goto("advance")
  /\ UNCHANGED <<files, rest>>

\* CompleteWorkspaceTemplateApplySettlement
Complete ==
  /\ run.at = "complete"
  /\ settlement' = None
  /\ Goto("settle")
  /\ UNCHANGED <<fs, repair, receipt, active, rest>>

\* SettleConfiguratorStage
SettleStage ==
  /\ run.at = "settle"
  /\ receipt' = IF receipt # None /\ receipt.staged = run.sel THEN None ELSE receipt
  /\ Stop
  /\ UNCHANGED <<fs, repair, settlement, active, rest>>

-----------------------------------------------------------------------------
(* AdvanceTemplateBase: the directory is exchanged for one with the new base *)

\* replaceTopLevelScalar
Advanced(source) == [source EXCEPT !.base = Revision]

\* RecordWorkspaceTemplateApplyPostFingerprint, before anything is renamed.
Record(post, then) ==
  LET known == settlement.post \in {None, post}
      field == IF known THEN [settlement EXCEPT !.post = post]
               ELSE [settlement EXCEPT !.rec = post]
  IN  IF known \/ settlement.rec \in {None, post}
      THEN Overwrite(field, post, then)
      ELSE Stop /\ UNCHANGED settlement

\* Nothing was quarantined: a leftover stage goes, and the exchange starts,
\* unless the source is already there.
AdvanceTemplateBase ==
  /\ run.at = "advance"
  /\ repair = None /\ fs.old = None
  /\ IF fs.disc # None THEN Stop /\ UNCHANGED <<fs, settlement>>
     ELSE /\ fs' = [fs EXCEPT !.new = None]
          /\ IF fs.dir = run.sel THEN Record(Advanced(run.sel), "stage")
             ELSE /\ IF fs.dir.base = Revision /\ BodyOf[fs.dir.text] = Revision
                     THEN Goto("complete") ELSE Stop
                  /\ UNCHANGED settlement
  /\ UNCHANGED <<repair, receipt, active, rest>>

\* The stage is made and filled,
MakeStage ==
  /\ run.at = "stage"
  /\ fs' = [fs EXCEPT !.new = Partial]
  /\ run' = [run EXCEPT !.at = "fill", !.then = "quarantine"]
  /\ UNCHANGED <<repair, settlement, receipt, active, rest>>

FillStage ==
  /\ run.at = "fill"
  /\ fs' = [fs EXCEPT !.new = run.post]
  /\ run' = [run EXCEPT !.at = run.then, !.then = "idle"]
  /\ UNCHANGED <<repair, settlement, receipt, active, rest>>

\* the source is set aside,
Quarantine ==
  /\ run.at = "quarantine"
  /\ fs' = [fs EXCEPT !.old = fs.dir, !.dir = None]
  /\ Goto("inspect")
  /\ UNCHANGED <<repair, settlement, receipt, active, rest>>

\* and looked at again: an edit in between is put back;
Inspect ==
  /\ run.at = "inspect"
  /\ IF fs.old = run.sel THEN Goto("swap") /\ UNCHANGED fs
     ELSE Stop /\ fs' = [fs EXCEPT !.dir = fs.old, !.old = None, !.new = None]
  /\ UNCHANGED <<repair, settlement, receipt, active, rest>>

\* the stage takes its place,
Swap ==
  /\ run.at = "swap"
  /\ fs' = [fs EXCEPT !.dir = fs.new, !.new = None]
  /\ Goto("confirm")
  /\ UNCHANGED <<repair, settlement, receipt, active, rest>>

\* Altered: what was set aside is not looked at again before it is removed.
ConfirmSource ==
  /\ run.at = "confirm"
  /\ IF fs.dir = run.post THEN Goto("remove") ELSE Stop
  /\ UNCHANGED <<files, active, rest>>

\* and what was set aside is removed if nobody wrote to either: the last look at
\* it comes before the removal, and a save through an open file may lie between.
ConfirmBase ==
  /\ run.at = "confirm"
  /\ IF fs.dir = run.post /\ fs.old = run.sel THEN Goto("remove") ELSE Stop
  /\ UNCHANGED <<files, active, rest>>

Remove ==
  /\ run.at = "remove"
  /\ fs' = [fs EXCEPT !.old = Partial]
  /\ Goto("clean")
  /\ UNCHANGED <<repair, settlement, receipt, active, rest>>

Clean ==
  /\ run.at = "clean"
  /\ fs' = [fs EXCEPT !.old = None, !.new = None]
  /\ Goto("complete")
  /\ UNCHANGED <<repair, settlement, receipt, active, rest>>

-----------------------------------------------------------------------------
(* recoverTemplateBasePublication: something was quarantined before.  The    *)
(* source itself is there, or it would not have loaded; a discard without    *)
(* its journal does not happen, since the journal goes last.                 *)

Recover ==
  /\ run.at = "advance"
  /\ repair = None /\ fs.old # None
  /\ IF fs.old = Partial \/ fs.dir.base # Revision THEN Stop /\ UNCHANGED settlement
     ELSE IF fs.old = run.sel
     THEN /\ IF fs.dir = Advanced(fs.old) /\ BodyOf[fs.dir.text] = Revision
             THEN Goto("remove") ELSE Stop
          /\ UNCHANGED settlement
     ELSE \* written to after it was set aside: those bytes are to be kept
          IF fs.dir = run.sel THEN Record(Advanced(fs.old), "restage")
          ELSE Stop /\ UNCHANGED settlement
  /\ UNCHANGED <<fs, repair, receipt, active, rest>>

Restage ==
  /\ run.at = "restage"
  /\ IF fs.new \notin {None, run.post} \/ fs.disc # None THEN Stop /\ UNCHANGED fs
     ELSE IF fs.new = None
     THEN /\ fs' = [fs EXCEPT !.new = Partial]
          /\ run' = [run EXCEPT !.at = "fill", !.then = "prepare"]
     ELSE Goto("prepare") /\ UNCHANGED fs
  /\ UNCHANGED <<repair, settlement, receipt, active, rest>>

\* writeTemplateBaseRepairJournal, after one more look at both directories
Prepare ==
  /\ run.at = "prepare"
  /\ IF fs.dir = run.sel /\ Advanced(fs.old) = run.post
     THEN /\ repair' = [exp |-> run.sel, old |-> fs.old, post |-> run.post, cleanup |-> FALSE]
          /\ Goto("advance")
     ELSE Stop /\ UNCHANGED repair
  /\ UNCHANGED <<fs, settlement, receipt, active, rest>>

\* The three positions settleTemplateBaseRepair knows: everything in place, the
\* source set aside, the repaired source published and the rest to be removed.
InPlace ==
  fs.dir = repair.exp /\ fs.new = repair.post /\ fs.disc = None /\ fs.old # None
SetApart ==
  fs.dir = None /\ fs.new = repair.post /\ fs.disc = repair.exp /\ fs.old # None

\* Altered: removals begun before are not recognized.
RepublishedOnly ==
  /\ fs.dir = repair.post /\ fs.new = None
  /\ fs.disc = repair.exp /\ fs.old # None

Republished ==
  /\ fs.dir = repair.post /\ fs.new = None
  /\ \/ fs.disc = repair.exp /\ fs.old # None
     \/ repair.cleanup /\ fs.disc \in {None, repair.exp}

\* One turn of its loop.
Settle ==
  /\ run.at = "advance"
  /\ repair # None
  /\ IF Partial \in {fs.new, fs.disc, fs.old} \/ fs.old \notin {None, repair.old}
     THEN Stop /\ UNCHANGED repair
     ELSE IF InPlace \/ SetApart
     THEN Goto(IF InPlace THEN "discard" ELSE "republish") /\ UNCHANGED repair
     ELSE IF Republished
     THEN repair' = [repair EXCEPT !.cleanup = TRUE] /\ Goto("removeold")
     ELSE Stop /\ UNCHANGED repair
  /\ UNCHANGED <<fs, settlement, receipt, active, rest>>

Discard ==
  /\ run.at = "discard"
  /\ fs' = [fs EXCEPT !.disc = fs.dir, !.dir = None]
  /\ Goto("advance")
  /\ UNCHANGED <<repair, settlement, receipt, active, rest>>

Republish ==
  /\ run.at = "republish"
  /\ fs' = [fs EXCEPT !.dir = fs.new, !.new = None]
  /\ Goto("advance")
  /\ UNCHANGED <<repair, settlement, receipt, active, rest>>

\* What Settle looked at is removed, one directory after the other.
RemoveOld ==
  /\ run.at = "removeold"
  /\ fs' = [fs EXCEPT !.old = IF fs.old = None THEN None ELSE Partial]
  /\ Goto("cleanold")
  /\ UNCHANGED <<repair, settlement, receipt, active, rest>>

CleanOld ==
  /\ run.at = "cleanold"
  /\ fs' = [fs EXCEPT !.old = None]
  /\ Goto("removedisc")
  /\ UNCHANGED <<repair, settlement, receipt, active, rest>>

RemoveDisc ==
  /\ run.at = "removedisc"
  /\ fs' = [fs EXCEPT !.disc = IF fs.disc = None THEN None ELSE Partial]
  /\ Goto("cleandisc")
  /\ UNCHANGED <<repair, settlement, receipt, active, rest>>

CleanDisc ==
  /\ run.at = "cleandisc"
  /\ fs' = [fs EXCEPT !.disc = None]
  /\ Goto("unjournal")
  /\ UNCHANGED <<repair, settlement, receipt, active, rest>>

RemoveJournal ==
  /\ run.at = "unjournal"
  /\ repair' = None
  /\ Goto("complete")
  /\ UNCHANGED <<fs, settlement, receipt, active, rest>>

-----------------------------------------------------------------------------
(* The Configurator: a reviewed submission becomes the source *)

\* ObserveWorkspaceTemplateSource, in_sync
InSync == fs.dir # None /\ fs.dir.base = active /\ BodyOf[fs.dir.text] = active

Canonical(rev) == CHOOSE t \in Texts : BodyOf[t] = rev

\* StageConfiguratorSubmission, of a draft made from the active revision: the
\* receipt is written, then the source replaced.
StageSubmission(rev) ==
  /\ run.at = "idle"
  /\ fs.dir # None
  /\ LET staged == Source(Canonical(rev), active)
         fresh == receipt = None \/ receipt.rev = active
     IN  /\ IF fresh THEN InSync
            ELSE receipt.rev = rev /\ receipt.from = active /\ fs.dir = receipt.base
         /\ receipt' = IF fresh
                       THEN [staged |-> staged, base |-> fs.dir, rev |-> rev,
                             from |-> active, plan |-> None, confirmed |-> FALSE]
                       ELSE receipt
         /\ run' = [Idle EXCEPT !.at = "replace", !.sel = fs.dir, !.post = staged]
  /\ UNCHANGED <<fs, repair, settlement, active, rest>>

\* PlanWorkspaceTemplateSourceByReference and BindConfiguratorStagePlan
BindPlan ==
  /\ run.at = "idle"
  /\ receipt # None
  /\ ~receipt.confirmed
  /\ fs.dir = receipt.staged /\ fs.dir.base = active
  /\ receipt.plan = None
  /\ receipt' = [receipt EXCEPT !.plan = Plan(active, fs.dir)]
  /\ UNCHANGED <<fs, repair, settlement, active, run, rest>>

\* ConfirmConfiguratorStageApply
ConfirmApply ==
  /\ run.at = "idle"
  /\ receipt # None
  /\ receipt.plan # None /\ ~receipt.confirmed
  /\ receipt' = [receipt EXCEPT !.confirmed = TRUE]
  /\ UNCHANGED <<fs, repair, settlement, active, run, rest>>

\* DiscardConfiguratorStage, of a submission the person did not confirm.
DiscardStage ==
  /\ run.at = "idle"
  /\ receipt # None
  /\ ~receipt.confirmed /\ active = receipt.from
  /\ \/ fs.dir = receipt.base /\ receipt' = None /\ UNCHANGED run
     \/ /\ fs.dir = receipt.staged
        /\ run' = [Idle EXCEPT !.at = "replace", !.sel = fs.dir,
                               !.post = Source(Canonical(active), active), !.then = "drop"]
        /\ UNCHANGED receipt
  /\ UNCHANGED <<fs, repair, settlement, active, rest>>

\* PendingConfiguratorStage and ConfiguratorPolicyPublished: a receipt whose
\* submission is active, and in the source, has served.
ReceiptServed ==
  /\ run.at = "idle"
  /\ receipt # None
  /\ receipt.rev = active /\ InSync
  /\ receipt.confirmed => settlement = None
  /\ receipt' = None
  /\ UNCHANGED <<fs, repair, settlement, active, run, rest>>

\* ReplaceTemplateSnapshot: leftovers go (the source is there), the stage is
\* written unless the source moved,
Replace ==
  /\ run.at = "replace"
  /\ IF fs.dir = run.sel /\ fs.dir # run.post
     THEN fs' = [fs EXCEPT !.cnew = run.post, !.cold = None] /\ Goto("reread")
     ELSE /\ fs' = [fs EXCEPT !.cnew = None, !.cold = None]
          /\ IF fs.dir = run.post THEN Goto("tidy") ELSE Stop
  /\ UNCHANGED <<repair, settlement, receipt, active, rest>>

Reread ==
  /\ run.at = "reread"
  /\ IF fs.dir = run.sel THEN Goto("away") /\ UNCHANGED fs
     ELSE Stop /\ fs' = [fs EXCEPT !.cnew = None]
  /\ UNCHANGED <<repair, settlement, receipt, active, rest>>

\* and takes the source's place.
SetAside ==
  /\ run.at = "away"
  /\ fs' = [fs EXCEPT !.cold = fs.dir, !.dir = None]
  /\ saved' = None
  /\ Goto("back")
  /\ UNCHANGED <<repair, settlement, receipt, active, late, edits, faults>>

PutBack ==
  /\ run.at = "back"
  /\ fs' = [fs EXCEPT !.dir = fs.cnew, !.cnew = None]
  /\ Goto("tidy")
  /\ UNCHANGED <<repair, settlement, receipt, active, rest>>

Tidy ==
  /\ run.at = "tidy"
  /\ fs' = [fs EXCEPT !.cold = None]
  /\ receipt' = IF run.then = "drop" THEN None ELSE receipt
  /\ Stop
  /\ UNCHANGED <<repair, settlement, active, rest>>

-----------------------------------------------------------------------------
(* The person, and death *)

\* What the exchange is to keep.  A fingerprint cannot tell a save that brings
\* back a text the settlement has recorded from no save at all.
Recorded ==
  IF Settling THEN {settlement.src, settlement.rec}
  ELSE IF run.file # None THEN {run.file.src, run.file.rec}
  ELSE IF run.ref # None THEN {run.ref.src} ELSE {}

Keep(t) == saved' = IF \E r \in Recorded \ {None} : r.text = t THEN None ELSE t

\* Saving through the path,
Edit(t) ==
  /\ edits < MaxEdits
  /\ fs.dir # None /\ fs.dir.text # t
  /\ fs' = [fs EXCEPT !.dir.text = t]
  /\ Keep(t)
  /\ late' = FALSE
  /\ edits' = edits + 1
  /\ UNCHANGED <<repair, settlement, receipt, active, run, faults>>

\* The command has looked at directory d for the last time and will remove it.
Condemned(d) ==
  \/ d = "old"  /\ run.at \in {"remove", "removeold"}
  \/ d = "disc" /\ run.at \in {"removeold", "cleanold", "removedisc"}

\* or to a file opened before its directory was set aside.  (Not under a
\* replacement, which keeps nothing.)
EditOpen(d, t) ==
  /\ edits < MaxEdits
  /\ fs[d] \notin {None, Partial} /\ fs[d].text # t
  /\ fs' = [fs EXCEPT ![d].text = t]
  /\ Keep(t)
  /\ late' = Condemned(d)
  /\ edits' = edits + 1
  /\ UNCHANGED <<repair, settlement, receipt, active, run, faults>>

Die ==
  /\ run.at # "idle"
  /\ faults < MaxFaults
  /\ faults' = faults + 1
  /\ Stop
  /\ UNCHANGED <<files, active, saved, late, edits>>

Step ==
  \/ Load \/ Fence \/ WriteSettlement \/ Publish \/ Complete \/ SettleStage
  \/ AdvanceTemplateBase \/ MakeStage \/ FillStage \/ Quarantine \/ Inspect \/ Swap
  \/ ConfirmBase \/ Remove \/ Clean
  \/ Recover \/ Restage \/ Prepare \/ Settle \/ Discard \/ Republish
  \/ RemoveOld \/ CleanOld \/ RemoveDisc \/ CleanDisc \/ RemoveJournal
  \/ Replace \/ Reread \/ SetAside \/ PutBack \/ Tidy

Retry == \E p \in Plans : Apply(p)

Next ==
  \/ Retry \/ Step
  \/ \E rev \in Submitted : StageSubmission(rev)
  \/ BindPlan \/ ConfirmApply \/ DiscardStage \/ ReceiptServed
  \/ \E t \in Texts : Edit(t) \/ \E d \in {"old", "disc"} : EditOpen(d, t)
  \/ Die

Spec == Init /\ [][Next]_vars

\* A command that runs goes on, and a person who is told to retry retries.
FairSpec ==
  /\ Spec
  /\ WF_vars(Step)
  /\ WF_vars(Settling /\ Apply(SettlementPlan))

-----------------------------------------------------------------------------
(* Properties *)

Places ==
  {"idle", "load", "fence", "write", "publish", "advance", "stage", "fill", "quarantine",
   "inspect", "swap", "confirm", "remove", "clean", "restage", "prepare", "discard", "republish",
   "removeold", "cleanold", "removedisc", "cleandisc", "unjournal", "complete", "settle",
   "replace", "reread", "away", "back", "tidy"}

Trees == [dir : Sources \cup {None},
          new : Sources \cup {None, Partial}, old : Sources \cup {None, Partial},
          disc : Sources \cup {None, Partial}, cnew : Sources \cup {None},
          cold : Sources \cup {None}]

Runs == [at : Places, ref : PlanRefs \cup {None}, sel : Sources \cup {None},
         post : Sources \cup {None}, file : Settlements \cup {None},
         then : Places \cup {"drop"}]

\* Every variable keeps its type; the path of the source never shows a
\* directory half written.
TypeOK ==
  /\ fs \in Trees
  /\ repair \in Repairs \cup {None}
  /\ settlement \in Settlements \cup {None, Torn}
  /\ receipt \in Receipts \cup {None}
  /\ active \in Bodies
  /\ run \in Runs
  /\ saved \in Texts \cup {None} /\ late \in BOOLEAN
  /\ edits \in 0..MaxEdits /\ faults \in 0..MaxFaults

\* When no settlement is pending the source's base is the active revision: a
\* publication is never left without the settlement that advances the base, at
\* whatever step the command dies or an editor interferes; otherwise no later
\* plan could be made from the source.  Nothing of the exchange outlives its
\* settlement, or the next Template Apply would be taken for its repair.
BaseFollowsActive ==
  /\ TypeOK
  /\ settlement = None =>
       /\ fs.dir # None => fs.dir.base = active
       /\ fs.old = None /\ fs.disc = None /\ repair = None

\* The text the person saved is in one of the directories.
Kept == \E d \in DOMAIN fs : fs[d] \notin {None, Partial} /\ fs[d].text = saved

\* What the person saved is in one of the directories until they save again or
\* a submission replaces it: neither the exchange nor its repair overwrites it.
\* Not so what they saved through an open file after the last look at its
\* directory before the directory is removed.
EditsKept == saved # None /\ ~late => Kept

\* AdvanceTemplateBase "never overwrites intervening edits": without exception.
NeverOverwritten == saved # None => Kept

\* Where the command, run again, gets nowhere: the source directory is away,
Away == fs.dir = None
\* the settlement or a directory was cut short,
CutShort == settlement = Torn \/ Partial \in {fs.new, fs.old, fs.disc}
\* the source, or what was set aside, was written to again since it was recorded,
WrittenAgain ==
  Settling /\ \/ fs.dir \notin {settlement.src, settlement.post, settlement.rec}
              \/ /\ fs.old \notin {None, Partial}
                 /\ \E copy \in {fs.new, settlement.rec} \ {None, Partial} :
                       copy.text # fs.old.text
              \/ fs.old = fs.dir /\ fs.dir # None /\ BodyOf[fs.dir.text] # Target
              \/ /\ repair # None
                 /\ \/ fs.dir # IF fs.new = None THEN repair.post ELSE repair.exp
                    \/ fs.old \notin {None, repair.old}
                    \/ fs.disc \notin {None, repair.exp}
\* or a submission is staged that is not the plan's, or no longer the source.
Withheld ==
  Settling /\ receipt # None /\ (~Authorized(SettlementPlan) \/ fs.dir # receipt.staged)

\* Found at rest in none of those states, an Apply that was cut off is finished
\* by running it again: its settlement goes.
ApplyFinishes ==
  []<>(settlement = None)
    \/ []<>(run.at = "idle" /\ (Away \/ CutShort \/ WrittenAgain \/ Withheld))

\* The source directory, set aside, comes back.
SourceReturns == fs.dir = None ~> fs.dir # None
====
