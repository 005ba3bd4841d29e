---- MODULE TemplateApplyProofs ----
(***************************************************************************)
(* The base of a Template's source follows its active revision, and what   *)
(* the person saved is kept, for every set of texts and any number of      *)
(* saves and deaths.                                                       *)
(*                                                                         *)
(* BaseFollowsActive says nothing while a settlement is pending, which is  *)
(* when the source is exchanged.  The invariant follows the command from   *)
(* step to step instead: what is on disk at each place, which plan is      *)
(* being settled, and that neither an exchange nor a repair begins before  *)
(* the plan is active.  One lemma per action; each first says what the     *)
(* action does to the command and to the directories, field by field, and  *)
(* then takes the parts of the invariant one by one.                       *)
(*                                                                         *)
(* EditsKept is not inductive either: that a directory may be removed      *)
(* depends on what was recorded of it.  The invariant adds which texts the *)
(* settlement and the repair journal have recorded, and which directory    *)
(* still has the saved one when another is set aside or removed.           *)
(***************************************************************************)
EXTENDS TemplateApply, TLAPS

\* The source has the active base and nothing of an exchange is left.
Clear ==
  /\ fs.dir # None => fs.dir.base = active
  /\ fs.old = None /\ fs.disc = None /\ repair = None

\* The place the command is at, or writes a file on the way to.
Toward == IF run.at \in {"write", "fill"} THEN run.then ELSE run.at

\* Places of the exchange, of its repair, of both, and of a replacement.
Exchange == {"stage", "quarantine", "inspect", "swap", "confirm", "restage", "prepare"}
Repairing ==
  {"discard", "republish", "removeold", "cleanold", "removedisc", "cleandisc", "unjournal"}
Settlers == Exchange \cup Repairing \cup {"advance", "remove", "clean"}
Replacing == {"replace", "reread", "away", "back", "tidy"}

\* Without a settlement, and before its plan is active, nothing has been
\* disturbed; a repair leads to the active base.
FileInv ==
  /\ settlement = None => Clear
  /\ Settling => /\ Target # settlement.from
                 /\ active = settlement.from => Clear
  /\ repair = None => fs.disc = None
  /\ repair # None => repair.post.base = active

\* The command under way settles the plan it was given, and exchanges nothing
\* before that plan is active.
PlanInv ==
  /\ Toward \in Settlers \cup {"load", "fence", "publish"} => run.ref # None
  /\ Toward \in Settlers \cup {"fence", "publish"} => run.sel # None
  /\ Toward \in {"load", "fence", "publish", "complete"} => Clear
  /\ Toward \in Settlers => active = Revision
  /\ run.at \in Settlers \cup {"fill", "publish"} =>
       Settling /\ settlement.src = run.ref.src
  /\ run.at = "write" =>
       /\ settlement = Torn /\ run.file # None
       /\ run.file.src = run.ref.src /\ run.file.from # Revision
       /\ run.then \in {"publish", "stage", "restage"}
  /\ run.at = "fill" => run.then \in {"quarantine", "prepare"}
  /\ run.at = "fence" => run.sel = run.ref.src /\ Revision # active

\* Which directories are in place at each step of the exchange, of its repair and
\* of a replacement.
StageInv ==
  /\ Toward \in Exchange \cup {"remove", "clean"} => repair = None
  /\ Toward \in Exchange => run.post # None /\ run.post.base = active
  /\ run.at \in {"quarantine", "inspect", "swap", "prepare"} => fs.new = run.post
  /\ run.at = "inspect" => fs.old # Partial
  /\ Toward \in {"restage", "prepare"} => fs.old \notin {None, Partial}
  /\ run.at \in {"remove", "clean", "removeold", "cleanold", "removedisc", "cleandisc", "unjournal"} =>
       (fs.dir # None => fs.dir.base = active)
  /\ run.at \in Repairing => repair # None
  /\ run.at = "republish" => fs.new = repair.post
  /\ run.at \in {"removedisc", "cleandisc", "unjournal"} => fs.old = None
  /\ run.at = "unjournal" => fs.disc = None
  /\ run.at \in Replacing => run.post # None /\ run.post.base = active
  /\ run.at \in {"reread", "away", "back"} => fs.cnew = run.post

\* The settlement on disk, or the one being written over it.
Doc == IF Settling THEN settlement ELSE run.file

\* The texts it has recorded.
DocTexts == {r.text : r \in {Doc.src, Doc.rec} \ {None}}

\* The text the person saved is in directory d.
Held(d) == fs[d] \notin {None, Partial} /\ fs[d].text = saved

\* Which directories are away, taken or half removed at each step.
PlaceInv ==
  /\ run.at \in {"inspect", "swap", "republish", "back"} => fs.dir = None
  /\ Toward \in {"stage", "quarantine"} => fs.old = None
  /\ Toward \in {"stage", "quarantine", "inspect", "swap", "confirm"} =>
       run.post.text = run.sel.text
  /\ run.at = "clean" => fs.old = Partial
  /\ run.at = "discard" => fs.disc = None
  /\ run.at = "cleanold" => fs.old \in {None, Partial}
  /\ run.at = "cleandisc" => fs.disc \in {None, Partial}

\* The settlement and the repair journal only ever speak of the texts recorded.
DocInv ==
  /\ run.file # None => run.at = "write"
  /\ Doc # None => /\ Doc.post = None => Doc.rec = None /\ fs.old = None
                   /\ Doc.post # None => Doc.post.text = Doc.src.text
  /\ Toward \in Settlers \cup {"publish"} => run.sel.text \in DocTexts
  /\ Toward \in Exchange \cup {"remove"} => Doc.post # None
  /\ repair # None => /\ Settling
                      /\ repair.exp.text \in DocTexts
                      /\ repair.post.text = repair.old.text

\* Where a text is that was saved before the last look at its directory; one
\* saved before it was recorded has not been written over since, so what is set
\* aside still has it.
SavedInv ==
  saved # None /\ ~late =>
    /\ Held("dir") \/ Held("old") \/ Held("disc")
    /\ run.at = "remove" /\ Held("old") => Held("dir")
    /\ run.at \in {"removeold", "cleanold", "removedisc", "cleandisc", "unjournal"} =>
         Held("dir")
    /\ repair # None /\ saved = repair.exp.text => repair.post.text = saved
    /\ /\ repair = None /\ fs.old \notin {None, Partial}
       /\ Doc # None
       /\ saved \in DocTexts
       => Held("old")

\* The inductive invariant.
TInv ==
  /\ TypeOK /\ FileInv /\ PlanInv /\ StageInv
  /\ PlaceInv /\ DocInv /\ SavedInv

----------------------------------------------------------------------------
\* Sources and settlements are made of texts and bodies.
LEMMA FieldFacts ==
  /\ \A s \in Sources : s.text \in Texts /\ s.base \in Bodies
  /\ \A s \in Settlements : s.src \in Sources /\ s.from \in Bodies
  /\ \A t \in Texts : BodyOf[t] \in Bodies
  BY Zenon DEF Sources, Settlements, Bodies

\* A plan names the source it was made from and the revision it starts at.
LEMMA PlanSrc == \A a, s : Plan(a, s).src = s /\ Plan(a, s).from = a
  BY Zenon DEF Plan

\* What a plan reference names.
LEMMA PlanRefFacts == \A p \in PlanRefs : p.src \in Sources /\ p.from \in Bodies
  BY Zenon DEF PlanRefs

\* The command that is not there holds nothing.
LEMMA IdleFacts ==
  /\ Idle \in Runs /\ Idle.at = "idle" /\ Idle.ref = None /\ Idle.sel = None
  /\ Idle.post = None /\ Idle.file = None /\ Idle.then = "idle"
  BY Zenon DEF Idle, Runs, Places

\* The settlement stays the same document while its file is not touched.
LEMMA DocStays ==
  ASSUME UNCHANGED settlement, run'.file \in {run.file, None}
  PROVE  /\ Settling' = Settling
         /\ Settling => Doc' = Doc /\ DocTexts' = DocTexts /\ Doc # None
         /\ Doc' # None => Doc' = Doc /\ DocTexts' = DocTexts
<1>1. Settling' = Settling
  BY Zenon DEF Settling
<1>2. (Settling \/ Doc' # None) => Doc' = Doc
  BY <1>1, Zenon DEF Doc
<1>3. Settling => Doc # None
  BY Zenon DEF Settling, Doc
<1> QED
  BY <1>1, <1>2, <1>3, Zenon DEF DocTexts

\* A command may return or die whenever it leaves the exchange as it is.
LEMMA StopTInv ==
  ASSUME TInv, Stop, UNCHANGED << repair, settlement, active, saved, late, edits >>,
         fs' \in Trees, fs'.dir = fs.dir, fs'.old = fs.old, fs'.disc = fs.disc,
         receipt' \in Receipts \cup {None}, faults' \in 0..MaxFaults
  PROVE  TInv'
<1>1. run' \in Runs /\ run'.at = "idle"
  BY IdleFacts, Zenon DEF Stop
<1>2. TypeOK'
  BY <1>1, Zenon DEF TInv, TypeOK
<1>3. FileInv'
  BY Zenon DEF TInv, FileInv, Clear, Settling, Target
<1>4. PlanInv' /\ StageInv'
  BY <1>1, Zenon DEF PlanInv, StageInv, Toward, Settlers, Exchange, Repairing, Replacing
<1>5. PlaceInv'
  BY <1>1, Zenon DEF PlaceInv, Toward
<1>a. run'.file = None
  BY IdleFacts, Zenon DEF Stop
<1>6. DocInv'
  BY <1>1, <1>a, DocStays, Zenon DEF TInv, DocInv, Toward, Settlers, Exchange, Repairing
<1>7. SavedInv'
  BY <1>1, <1>a, DocStays, Zenon DEF TInv, SavedInv, Held
<1> QED
  BY <1>2, <1>3, <1>4, <1>5, <1>6, <1>7, Zenon DEF TInv

\* Every plan a person can apply is a plan reference.
LEMMA PlansFacts ==
  ASSUME TInv, NEW p \in Plans
  PROVE  p \in PlanRefs
<1>1. \A d \in {fs.dir} \ {None} : Plan(active, d) \in PlanRefs
  BY Zenon DEF TInv, TypeOK, Trees, Plan, PlanRefs
<1>2. Settling => SettlementPlan \in PlanRefs
  BY Zenon DEF TInv, TypeOK, Settling, SettlementPlan, Plan, PlanRefs, Settlements
<1>3. receipt # None /\ receipt.plan # None => receipt.plan \in PlanRefs
  BY Zenon DEF TInv, TypeOK, Receipts
<1> QED
  BY <1>1, <1>2, <1>3, Zenon DEF Plans

\* A new Apply, or one that finds a settlement of its plan
\* (recoverTemplateApplySettlement).
LEMMA ApplyTInv ==
  ASSUME TInv, NEW p \in Plans, Apply(p)
  PROVE  TInv'
<1>1. p \in PlanRefs /\ p # None
  BY PlansFacts, TemplateAssumption, Zenon
<1>a. Settling => /\ Target # settlement.from /\ settlement # None
                  /\ settlement.src = p.src /\ fs.dir # None
  BY PlanSrc DEF Apply, SettlementPlan, Loads, TInv, FileInv, Settling
<1>2. CASE settlement = None
  <2>1. /\ run' \in Runs /\ run'.at = "load" /\ run'.ref = p /\ run'.sel = None
        /\ run'.post = None /\ run'.file = None /\ run'.then = "idle"
    BY <1>2, <1>1, TemplateAssumption, ZenonT(60) DEF Apply, Begun, Idle, Settling, TInv, TypeOK,
           Runs, Places
  <2>2. /\ run.at = "idle"
        /\ UNCHANGED << fs, repair, settlement, receipt, active, saved, late, edits, faults >>
    BY <1>2, <1>1, TemplateAssumption, Zenon DEF Apply, Begun, Idle, Settling, TInv, TypeOK,
       files, rest
  <2>3. TypeOK'
    BY <1>2, <2>1, <2>2, TemplateAssumption, Zenon DEF TInv, TypeOK
  <2>4. FileInv'
    BY <1>2, <2>2, Zenon DEF TInv, FileInv, Clear, Settling
  <2>5. PlanInv'
    BY <1>2, <2>1, <2>2, <1>1, Zenon DEF TInv, FileInv, PlanInv, Clear, Toward, Settlers, Exchange,
           Repairing
  <2>6. StageInv'
    BY <2>1, Zenon DEF StageInv, Toward, Exchange, Repairing, Replacing
  <2>7. PlaceInv'
    BY <2>1, Zenon DEF PlaceInv, Toward
  <2>8. DocInv'
    BY <1>a, <1>2, <2>1, <2>2, Zenon DEF TInv, DocInv, Doc, Toward, Settlers, Exchange, Repairing
  <2>9. SavedInv'
    BY <1>2, <2>2, Zenon DEF TInv, FileInv, SavedInv, Clear, Held
  <2> QED
    BY <2>3, <2>4, <2>5, <2>6, <2>7, <2>8, <2>9, Zenon DEF TInv
<1>3. CASE Settling /\ active = Target
  <2>1. /\ run' \in Runs /\ run'.at = "advance" /\ run'.ref = p /\ run'.sel = fs.dir
        /\ run'.post = None /\ run'.file = None /\ run'.then = "idle"
    BY <1>3, <1>1, <1>a, ZenonT(30) DEF Apply, Begun, Idle, Loads, Trees, TInv, TypeOK, Runs, Places
  <2>2. /\ run.at = "idle"
        /\ UNCHANGED << fs, repair, settlement, receipt, active, saved, late, edits, faults >>
    BY <1>3, <1>1, <1>a, Zenon DEF Apply, Begun, Idle, Loads, Trees, TInv, TypeOK, files, rest
  <2>3. TypeOK'
    BY <1>3, <2>1, <2>2, TemplateAssumption, Zenon DEF TInv, TypeOK
  <2>4. FileInv'
    BY <1>3, <2>2, Zenon DEF TInv, FileInv, Settling, Target
  <2>5. PlanInv'
    BY <1>3, <2>1, <2>2, <1>1, <1>a, Zenon DEF PlanInv, Settling, Target, Toward, Revision
  <2>6. StageInv'
    BY <2>1, Zenon DEF StageInv, Toward, Exchange, Repairing, Replacing
  <2>7. PlaceInv'
    BY <2>1, Zenon DEF PlaceInv, Toward
  <2>a. fs.dir.text \in DocTexts
    <3>1. Doc = settlement /\ Doc # None /\ Doc.src # None
      BY <1>3, TemplateAssumption, Zenon DEF Settling, Doc, TInv, TypeOK, Settlements
    <3>2. fs.dir # None /\ fs.dir \in {Doc.src, Doc.post, Doc.rec}
      BY <1>a, <3>1, Zenon DEF Apply
    <3>3. fs.dir = Doc.post => fs.dir.text = Doc.src.text
      BY <3>1, <3>2, Zenon DEF TInv, DocInv
    <3> QED
      BY <3>1, <3>2, <3>3, Zenon DEF DocTexts
  <2>8. DocInv'
    BY <1>3, <2>1, <2>2, <2>a, DocStays, Zenon DEF TInv, DocInv, Toward, Exchange
  <2>9. SavedInv'
    BY <1>3, <2>1, <2>2, Zenon DEF TInv, SavedInv, Doc, DocTexts, Held
  <2> QED
    BY <2>3, <2>4, <2>5, <2>6, <2>7, <2>8, <2>9, Zenon DEF TInv
<1>4. CASE Settling /\ active = settlement.from
  <2>1. /\ run' \in Runs /\ run'.at = "load" /\ run'.ref = p /\ run'.sel = None
        /\ run'.post = None /\ run'.file = None /\ run'.then = "idle"
    BY <1>4, <1>1, <1>a, ZenonT(30) DEF Apply, Begun, Idle, TInv, TypeOK, Runs, Places
  <2>2. /\ run.at = "idle"
        /\ settlement' = None
        /\ UNCHANGED << fs, repair, receipt, active, saved, late, edits, faults >>
    BY <1>4, <1>1, <1>a, Zenon DEF Apply, Begun, Idle, TInv, TypeOK, files, rest
  <2>3. TypeOK'
    BY <1>4, <2>1, <2>2, TemplateAssumption, Zenon DEF TInv, TypeOK
  <2>4. FileInv'
    BY <1>4, <2>2, Zenon DEF TInv, FileInv, Clear, Settling
  <2>5. PlanInv'
    BY <1>4, <2>1, <2>2, <1>1, Zenon DEF TInv, FileInv, PlanInv, Clear, Toward, Settlers, Exchange,
           Repairing
  <2>6. StageInv'
    BY <2>1, Zenon DEF StageInv, Toward, Exchange, Repairing, Replacing
  <2>7. PlaceInv'
    BY <2>1, Zenon DEF PlaceInv, Toward
  <2>8. DocInv'
    BY <1>4, <2>1, <2>2, Zenon DEF TInv, FileInv, DocInv, Clear, Doc, Toward, Settlers, Exchange,
       Repairing
  <2>9. SavedInv'
    BY <2>1, <2>2, Zenon DEF TInv, SavedInv, Doc, Held
  <2> QED
    BY <2>3, <2>4, <2>5, <2>6, <2>7, <2>8, <2>9, Zenon DEF TInv
<1> QED
  BY <1>2, <1>3, <1>4, <1>a, Zenon DEF Apply

\* The source is loaded and compared with the plan
\* (ApplyWorkspaceTemplateSourceByReference).
LEMMA LoadTInv ==
  ASSUME TInv, Load
  PROVE  TInv'
<1>1. CASE /\ Loads /\ run.ref = Plan(active, fs.dir)
           /\ fs.dir.base = active /\ BodyOf[fs.dir.text] = active
  <2>1. run' = [run EXCEPT !.sel = fs.dir, !.at = "complete"]
    BY <1>1, Zenon DEF Load
  <2>2. /\ run' \in Runs /\ run'.at = "complete" /\ run'.sel = fs.dir /\ run'.ref = run.ref
        /\ run'.post = run.post /\ run'.file = run.file /\ run'.then = run.then
    BY <1>1, <2>1, ZenonT(30) DEF TInv, TypeOK, Runs, Places, Trees
  <2>3. /\ run.at = "load"
        /\ UNCHANGED << fs, repair, settlement, receipt, active, saved, late, edits, faults >>
    BY <1>1, Zenon DEF Load, TInv, TypeOK, files, rest, Trees
  <2>4. TypeOK'
    BY <1>1, <2>1, <2>2, <2>3, TemplateAssumption, Zenon DEF TInv, TypeOK
  <2>5. FileInv'
    BY <2>3, Zenon DEF TInv, FileInv, Clear, Settling, Target
  <2>6. PlanInv'
    BY <2>2, <2>3, Zenon DEF TInv, PlanInv, Clear, Toward, Settlers, Exchange, Repairing
  <2>7. StageInv'
    BY <2>2, Zenon DEF StageInv, Toward, Exchange, Repairing, Replacing
  <2>8. PlaceInv'
    BY <2>2, Zenon DEF PlaceInv, Toward
  <2>9. DocInv'
    BY <2>2, <2>3, Zenon DEF TInv, DocInv, Doc, DocTexts, Settling, Toward, Settlers, Exchange,
       Repairing
  <2>10. SavedInv'
    BY <2>2, <2>3, Zenon DEF TInv, SavedInv, Doc, DocTexts, Held, Settling
  <2> QED
    BY <2>4, <2>5, <2>6, <2>7, <2>8, <2>9, <2>10, Zenon DEF TInv
<1>2. CASE /\ Loads /\ run.ref = Plan(active, fs.dir)
           /\ fs.dir.base = active /\ BodyOf[fs.dir.text] # active
  <2>1. run' = [run EXCEPT !.sel = fs.dir, !.at = "fence"]
    BY <1>2, Zenon DEF Load
  <2>2. /\ run' \in Runs /\ run'.at = "fence" /\ run'.sel = fs.dir /\ run'.ref = run.ref
        /\ run'.post = run.post /\ run'.file = run.file /\ run'.then = run.then
    BY <1>2, <2>1, ZenonT(30) DEF TInv, TypeOK, Runs, Places, Trees
  <2>3. /\ run.at = "load"
        /\ UNCHANGED << fs, repair, settlement, receipt, active, saved, late, edits, faults >>
    BY <1>2, Zenon DEF Load, TInv, TypeOK, files, rest, Trees
  <2>4. TypeOK'
    BY <1>2, <2>1, <2>2, <2>3, TemplateAssumption, Zenon DEF TInv, TypeOK
  <2>5. FileInv'
    BY <2>3, Zenon DEF TInv, FileInv, Clear, Settling, Target
  <2>6. PlanInv'
    BY <1>2, <2>2, <2>3, PlanSrc DEF TInv, PlanInv, Clear, Toward, Revision, Settlers, Exchange,
           Repairing, Loads
  <2>7. StageInv'
    BY <2>2, Zenon DEF StageInv, Toward, Exchange, Repairing, Replacing
  <2>8. PlaceInv'
    BY <2>2, Zenon DEF PlaceInv, Toward
  <2>9. DocInv'
    BY <2>2, <2>3, Zenon DEF TInv, DocInv, Doc, DocTexts, Settling, Toward, Settlers, Exchange,
       Repairing
  <2>10. SavedInv'
    BY <2>2, <2>3, Zenon DEF TInv, SavedInv, Doc, DocTexts, Held, Settling
  <2> QED
    BY <2>4, <2>5, <2>6, <2>7, <2>8, <2>9, <2>10, Zenon DEF TInv
<1>3. CASE ~(Loads /\ run.ref = Plan(active, fs.dir) /\ fs.dir.base = active)
  BY <1>3, StopTInv, Zenon DEF Load, files, rest, TInv, TypeOK
<1> QED
  BY <1>1, <1>2, <1>3, Zenon

\* The source is compared again before the settlement is written.
LEMMA FenceTInv ==
  ASSUME TInv, Fence
  PROVE  TInv'
<1> DEFINE m == [src |-> run.sel, from |-> active, post |-> None, rec |-> None]
<1>1. /\ m \in Settlements /\ m.src = run.sel /\ m.from = active
      /\ m.post = None /\ m.rec = None
  BY Zenon DEF Fence, TInv, TypeOK, PlanInv, Runs, Settlements, Toward
<1>4. Fence => IF Loads /\ fs.dir = run.sel THEN Overwrite(m, None, "publish")
               ELSE Stop /\ UNCHANGED settlement
  BY Zenon DEF Fence
<1> HIDE DEF m
<1>2. CASE Loads /\ fs.dir = run.sel
  <2>1. run' = [run EXCEPT !.at = "write", !.file = m, !.post = None, !.then = "publish"]
    BY <1>2, <1>1, <1>4, Zenon DEF Fence, Overwrite
  <2>2. /\ run' \in Runs /\ run'.at = "write" /\ run'.post = None /\ run'.file = m
        /\ run'.then = "publish" /\ run'.ref = run.ref /\ run'.sel = run.sel
    BY <1>2, <1>1, <1>4, <2>1, Zenon DEF TInv, TypeOK, Runs, Places
  <2>3. /\ run.at = "fence"
        /\ settlement' = Torn
        /\ UNCHANGED << fs, repair, receipt, active, saved, late, edits, faults >>
    BY <1>2, <1>1, <1>4, Zenon DEF Fence, Overwrite, TInv, TypeOK, files, rest
  <2>4. TypeOK'
    BY <1>2, <2>1, <2>2, <2>3, TemplateAssumption, Zenon DEF TInv, TypeOK
  <2>5. FileInv'
    BY <2>3, TemplateAssumption, Zenon DEF TInv, FileInv, Settling
  <2>6. PlanInv'
    BY <2>2, <2>3, <1>1, TemplateAssumption, Zenon DEF TInv, PlanInv, Clear, Toward, Revision,
       Settlers, Exchange, Repairing
  <2>7. StageInv'
    BY <2>2, Zenon DEF StageInv, Toward, Exchange, Repairing, Replacing
  <2>8. PlaceInv'
    BY <2>2, Zenon DEF PlaceInv, Toward
  <2>a. Doc' = m
    BY <2>2, <2>3, Zenon DEF Doc, Settling
  <2>b. fs.old = None /\ repair = None
    BY <2>3, Zenon DEF TInv, PlanInv, Toward, Clear
  <2>c. run.sel.text \in DocTexts'
    BY <1>1, <2>a, TemplateAssumption, Zenon DEF DocTexts, Settlements
  <2>9. DocInv'
    BY <1>1, <2>a, <2>b, <2>c, <2>2, <2>3, Zenon DEF DocInv, Toward, Exchange
  <2>10. SavedInv'
    BY <2>3, Zenon DEF TInv, PlanInv, SavedInv, Clear, Held, Toward
  <2> QED
    BY <2>4, <2>5, <2>6, <2>7, <2>8, <2>9, <2>10, Zenon DEF TInv
<1>3. CASE ~(Loads /\ fs.dir = run.sel)
  BY <1>3, StopTInv, Zenon DEF Fence, rest, TInv, TypeOK
<1> QED
  BY <1>2, <1>3, Zenon

\* The settlement, cut short a moment ago, is whole
\* (writeTemplateApplySettlement).
LEMMA WriteSettlementTInv ==
  ASSUME TInv, WriteSettlement
  PROVE  TInv'
<1>1. /\ run' \in Runs /\ run'.at = run.then /\ run'.file = None /\ run'.then = "idle"
      /\ run'.ref = run.ref /\ run'.sel = run.sel /\ run'.post = run.post
  BY Zenon DEF WriteSettlement, PlanInv, TInv, TypeOK, Runs, Places
<1>2. /\ run.at = "write"
      /\ settlement' = run.file
      /\ UNCHANGED << fs, repair, receipt, active, saved, late, edits, faults >>
  BY Zenon DEF WriteSettlement, PlanInv, TInv, TypeOK, files, rest
<1>3. TypeOK'
  BY <1>1, <1>2, TemplateAssumption, Zenon DEF TInv, TypeOK, PlanInv, Runs
<1>4. FileInv'
  BY <1>2, Zenon DEF TInv, FileInv, PlanInv, Clear, Target, Toward, Revision, Settlers, Exchange
<1>5. PlanInv'
  BY <1>1, <1>2, TemplateAssumption, Zenon DEF TInv, TypeOK, PlanInv, Clear, Settling, Toward,
     Revision, Runs
<1>6. StageInv'
  BY <1>1, <1>2, Zenon DEF TInv, PlanInv, StageInv, Toward, Repairing, Replacing
<1>7. PlaceInv'
  BY <1>1, <1>2, Zenon DEF TInv, PlanInv, PlaceInv, Toward
<1>a. settlement = Torn /\ run.file \in Settlements
  BY <1>2, Zenon DEF TInv, TypeOK, Runs, PlanInv
<1>b. Doc' = Doc /\ Settling'
  BY <1>a, <1>2, TemplateAssumption, Zenon DEF Doc, Settling
<1>c. DocTexts' = DocTexts
  BY <1>b, Zenon DEF DocTexts
<1>d. Toward' = Toward
  BY <1>1, <1>2, Zenon DEF Toward, TInv, PlanInv
<1>8. DocInv'
  BY <1>1, <1>2, <1>b, <1>c, <1>d, Zenon DEF TInv, DocInv
<1>9. SavedInv'
  BY <1>1, <1>2, Zenon DEF TInv, PlanInv, SavedInv, Doc, DocTexts, Held, Settling
<1> QED
  BY <1>3, <1>4, <1>5, <1>6, <1>7, <1>8, <1>9, Zenon DEF TInv

\* The revision becomes active, with its settlement on disk (mutateWithFence).
LEMMA PublishTInv ==
  ASSUME TInv, Publish
  PROVE  TInv'
<1>a. Revision \in Bodies
  BY FieldFacts, PlanRefFacts, Zenon DEF Publish, Revision, TInv, TypeOK, Runs, PlanInv, Toward
<1>1. /\ run' \in Runs /\ run'.at = "advance" /\ run'.ref = run.ref /\ run'.sel = run.sel
      /\ run'.post = run.post /\ run'.file = run.file /\ run'.then = run.then
  BY DEF Publish, Goto, TInv, TypeOK, Runs, Places
<1>2. /\ run.at = "publish"
      /\ active' = Revision
      /\ UNCHANGED << fs, repair, settlement, receipt, saved, late, edits, faults >>
  BY Zenon DEF Publish, Goto, TInv, TypeOK, files, rest
<1>3. TypeOK'
  BY <1>1, <1>2, <1>a, TemplateAssumption, Zenon DEF TInv, TypeOK
<1>4. FileInv'
  BY <1>2, Zenon DEF TInv, FileInv, PlanInv, Clear, Settling, Target, Toward, Revision
<1>5. PlanInv'
  BY <1>1, <1>2, Zenon DEF TInv, PlanInv, Settling, Toward, Revision
<1>6. StageInv'
  BY <1>1, Zenon DEF StageInv, Toward, Exchange, Repairing, Replacing
<1>7. PlaceInv'
  BY <1>1, Zenon DEF PlaceInv, Toward
<1>8. DocInv'
  BY <1>1, <1>2, DocStays, Zenon DEF TInv, PlanInv, DocInv, Toward, Exchange
<1>9. SavedInv'
  BY <1>1, <1>2, Zenon DEF TInv, SavedInv, Doc, DocTexts, Held, Settling
<1> QED
  BY <1>3, <1>4, <1>5, <1>6, <1>7, <1>8, <1>9, Zenon DEF TInv

\* The settlement goes (CompleteWorkspaceTemplateApplySettlement).
LEMMA CompleteTInv ==
  ASSUME TInv, Complete
  PROVE  TInv'
<1>1. /\ run' \in Runs /\ run'.at = "settle" /\ run'.ref = run.ref /\ run'.sel = run.sel
      /\ run'.post = run.post /\ run'.file = run.file /\ run'.then = run.then
  BY Zenon DEF Complete, Goto, TInv, TypeOK, Runs, Places
<1>2. /\ run.at = "complete"
      /\ settlement' = None
      /\ UNCHANGED << fs, repair, receipt, active, saved, late, edits, faults >>
  BY Zenon DEF Complete, Goto, TInv, TypeOK, files, rest
<1>3. TypeOK'
  BY <1>1, <1>2, TemplateAssumption, Zenon DEF TInv, TypeOK
<1>4. FileInv'
  BY <1>2, Zenon DEF TInv, FileInv, PlanInv, Clear, Settling, Toward
<1>5. PlanInv'
  BY <1>1, Zenon DEF PlanInv, Toward, Settlers, Exchange, Repairing
<1>6. StageInv'
  BY <1>1, Zenon DEF StageInv, Toward, Exchange, Repairing, Replacing
<1>7. PlaceInv'
  BY <1>1, Zenon DEF PlaceInv, Toward
<1>8. DocInv'
  BY <1>1, <1>2, Zenon DEF TInv, PlanInv, DocInv, Clear, Doc, Toward, Settlers, Exchange, Repairing
<1>9. SavedInv'
  BY <1>2, Zenon DEF TInv, PlanInv, SavedInv, Clear, Held, Toward
<1> QED
  BY <1>3, <1>4, <1>5, <1>6, <1>7, <1>8, <1>9, Zenon DEF TInv

\* The staging directory is made (AdvanceTemplateBase).
LEMMA MakeStageTInv ==
  ASSUME TInv, MakeStage
  PROVE  TInv'
<1>1. /\ run' \in Runs /\ run'.at = "fill" /\ run'.then = "quarantine"
      /\ run'.ref = run.ref /\ run'.sel = run.sel /\ run'.post = run.post
      /\ run'.file = run.file
  BY Zenon DEF MakeStage, TInv, TypeOK, Runs, Places
<1>2. /\ fs' \in Trees /\ fs'.new = Partial /\ fs'.dir = fs.dir /\ fs'.old = fs.old
      /\ fs'.disc = fs.disc /\ fs'.cnew = fs.cnew /\ fs'.cold = fs.cold
  BY Zenon DEF MakeStage, TInv, TypeOK, Trees
<1>3. /\ run.at = "stage"
      /\ UNCHANGED << repair, settlement, receipt, active, saved, late, edits, faults >>
  BY Zenon DEF MakeStage, TInv, TypeOK, files, rest
<1>4. TypeOK'
  BY <1>1, <1>2, <1>3, TemplateAssumption, Zenon DEF TInv, TypeOK
<1>5. FileInv'
  BY <1>2, <1>3, Zenon DEF TInv, FileInv, Clear, Settling, Target
<1>6. PlanInv'
  BY <1>1, <1>3, Zenon DEF TInv, PlanInv, Settling, Toward, Revision, Settlers, Exchange
<1>7. StageInv'
  BY <1>1, <1>3, Zenon DEF TInv, StageInv, Toward, Exchange, Repairing
<1>8. PlaceInv'
  BY <1>1, <1>2, <1>3, Zenon DEF TInv, PlaceInv, Toward
<1>9. DocInv'
  BY <1>1, <1>3, Zenon DEF TInv, DocInv, Doc, DocTexts, Settling, Toward, Settlers, Exchange
<1>10. SavedInv'
  BY <1>1, <1>2, <1>3, Zenon DEF TInv, SavedInv, Doc, DocTexts, Held, Settling
<1> QED
  BY <1>4, <1>5, <1>6, <1>7, <1>8, <1>9, <1>10, Zenon DEF TInv

\* The staging directory is filled with the advanced source.
LEMMA FillStageTInv ==
  ASSUME TInv, FillStage
  PROVE  TInv'
<1>1. /\ run' \in Runs /\ run'.at = run.then /\ run'.then = "idle" /\ run'.ref = run.ref
      /\ run'.sel = run.sel /\ run'.post = run.post /\ run'.file = run.file
  BY Zenon DEF FillStage, PlanInv, Runs, TInv, TypeOK, Runs, Places
<1>2. /\ fs' \in Trees /\ fs'.new = run.post /\ fs'.dir = fs.dir /\ fs'.old = fs.old
      /\ fs'.disc = fs.disc /\ fs'.cnew = fs.cnew /\ fs'.cold = fs.cold
  BY Zenon DEF FillStage, PlanInv, Runs, TInv, TypeOK, Trees
<1>3. /\ run.at = "fill"
      /\ UNCHANGED << repair, settlement, receipt, active, saved, late, edits, faults >>
  BY Zenon DEF FillStage, PlanInv, Runs, TInv, TypeOK, files, rest
<1>4. TypeOK'
  BY <1>1, <1>2, <1>3, TemplateAssumption, Zenon DEF TInv, TypeOK
<1>5. FileInv'
  BY <1>2, <1>3, Zenon DEF TInv, FileInv, Clear, Settling, Target
<1>6. PlanInv'
  BY <1>1, <1>3, Zenon DEF TInv, PlanInv, Settling, Toward, Revision
<1>7. StageInv'
  BY <1>1, <1>2, <1>3, Zenon DEF TInv, PlanInv, StageInv, Toward, Exchange, Repairing
<1>8. PlaceInv'
  BY <1>1, <1>2, <1>3, Zenon DEF TInv, PlanInv, PlaceInv, Toward
<1>9. DocInv'
  BY <1>1, <1>2, <1>3, Zenon DEF TInv, PlanInv, DocInv, Doc, DocTexts, Settling, Toward
<1>10. SavedInv'
  BY <1>1, <1>2, <1>3, Zenon DEF TInv, PlanInv, SavedInv, Doc, DocTexts, Held, Settling
<1> QED
  BY <1>4, <1>5, <1>6, <1>7, <1>8, <1>9, <1>10, Zenon DEF TInv

\* The source is set aside.
LEMMA QuarantineTInv ==
  ASSUME TInv, Quarantine
  PROVE  TInv'
<1>1. /\ run' \in Runs /\ run'.at = "inspect" /\ run'.ref = run.ref /\ run'.sel = run.sel
      /\ run'.post = run.post /\ run'.file = run.file /\ run'.then = run.then
  BY DEF Quarantine, Goto, TInv, TypeOK, Runs, Places
<1>2. /\ fs' \in Trees /\ fs'.dir = None /\ fs'.old = fs.dir /\ fs'.new = fs.new
      /\ fs'.disc = fs.disc /\ fs'.cnew = fs.cnew /\ fs'.cold = fs.cold
  BY Zenon DEF Quarantine, Goto, TInv, TypeOK, Trees
<1>3. /\ run.at = "quarantine"
      /\ UNCHANGED << repair, settlement, receipt, active, saved, late, edits, faults >>
  BY Zenon DEF Quarantine, Goto, TInv, TypeOK, files, rest
<1>4. TypeOK'
  BY <1>1, <1>2, <1>3, TemplateAssumption, Zenon DEF TInv, TypeOK
<1>5. FileInv'
  BY <1>2, <1>3, Zenon DEF TInv, FileInv, PlanInv, Settling, Target, Toward, Revision, Settlers,
     Exchange
<1>6. PlanInv'
  BY <1>1, <1>3, Zenon DEF TInv, PlanInv, Settling, Toward, Revision, Settlers, Exchange
<1>7. StageInv'
  BY <1>1, <1>2, <1>3, TemplateAssumption DEF TInv, TypeOK, StageInv, Toward, Exchange, Repairing,
         Trees
<1>8. PlaceInv'
  BY <1>1, <1>2, <1>3, Zenon DEF TInv, PlaceInv, Toward
<1>9. DocInv'
  BY <1>1, <1>3, DocStays, Zenon DEF TInv, PlanInv, DocInv, Toward, Settlers, Exchange
<1>10. SavedInv'
  BY <1>1, <1>2, <1>3, TemplateAssumption, Zenon DEF TInv, TypeOK, FileInv, StageInv, PlaceInv,
     DocInv, SavedInv, Clear, Doc, DocTexts, Held, Settling, Toward
<1> QED
  BY <1>4, <1>5, <1>6, <1>7, <1>8, <1>9, <1>10, Zenon DEF TInv

\* A source with another text or another base is a source, and so is a rendered one.
LEMMA SourceFacts ==
  /\ \A s \in Sources, t \in Texts :
       /\ [s EXCEPT !.text = t] \in Sources
       /\ [s EXCEPT !.text = t].base = s.base /\ [s EXCEPT !.text = t].text = t
  /\ \A s \in Sources, b \in Bodies :
       /\ [s EXCEPT !.base = b] \in Sources
       /\ [s EXCEPT !.base = b].base = b /\ [s EXCEPT !.base = b].text = s.text
  /\ \A t \in Texts, b \in Bodies : Source(t, b) \in Sources /\ Source(t, b).base = b
  /\ \A b \in Bodies : Canonical(b) \in Texts
<1>1. \A b \in Bodies : Canonical(b) \in Texts
  BY Zenon DEF Canonical, Bodies
<1> QED
  BY <1>1, Zenon DEF Sources, Source

\* The settlement f is the one on disk with a fingerprint more: of the source
\* exchanged, or of the one a repair publishes in its stead.
Records(f, post) ==
  /\ f.src = settlement.src /\ f.from = settlement.from
  /\ \/ settlement.post \in {None, post} /\ f.post = post /\ f.rec = settlement.rec
     \/ /\ settlement.post # None /\ f.post = settlement.post
        /\ settlement.rec \in {None, post} /\ f.rec = post

\* A settlement with a recorded fingerprint is a settlement of the same plan
\* (RecordWorkspaceTemplateApplyPostFingerprint).
LEMMA RecordFacts ==
  ASSUME TInv, Settling, NEW post \in Sources, NEW then, Record(post, then)
  PROVE  \/ Stop /\ UNCHANGED settlement
         \/ \E f \in Settlements : Records(f, post) /\ Overwrite(f, post, then)
<1>1. settlement \in Settlements
  BY Zenon DEF TInv, TypeOK, Settling
<1> DEFINE p == [settlement EXCEPT !.post = post]
           r == [settlement EXCEPT !.rec = post]
<1>2. /\ p \in Settlements /\ p.src = settlement.src /\ p.from = settlement.from
      /\ p.post = post /\ p.rec = settlement.rec
  BY <1>1, Zenon DEF Settlements
<1>3. /\ r \in Settlements /\ r.src = settlement.src /\ r.from = settlement.from
      /\ r.post = settlement.post /\ r.rec = post
  BY <1>1, Zenon DEF Settlements
<1>4. \/ Stop /\ UNCHANGED settlement
      \/ settlement.post \in {None, post} /\ Overwrite(p, post, then)
      \/ /\ settlement.post \notin {None, post} /\ settlement.rec \in {None, post}
         /\ Overwrite(r, post, then)
  BY Zenon DEF Record
<1> HIDE DEF p, r
<1> QED
  BY <1>2, <1>3, <1>4, Zenon DEF Records

\* A step that changes the Configurator's receipt alone keeps everything.
LEMMA ReceiptTInv ==
  ASSUME TInv, receipt' \in Receipts \cup {None},
         UNCHANGED << fs, repair, settlement, active, run, saved, late, edits, faults >>
  PROVE  TInv'
<1>1. TypeOK'
  BY Zenon DEF TInv, TypeOK
<1>2. FileInv' /\ PlanInv' /\ StageInv'
  BY SMTT(40) DEF TInv, FileInv, PlanInv, StageInv, Clear, Settling, Target, Toward, Revision
<1>3. PlaceInv'
  BY Zenon DEF TInv, PlaceInv, Toward
<1>4. DocInv'
  BY Zenon DEF TInv, DocInv, Doc, DocTexts, Settling, Toward
<1>5. SavedInv'
  BY Zenon DEF TInv, SavedInv, Held, Doc, DocTexts, Settling
<1> QED
  BY <1>1, <1>2, <1>3, <1>4, <1>5, Zenon DEF TInv

\* Binding a plan to the receipt, confirming it and serving it.
LEMMA ReceiptsTInv ==
  ASSUME TInv, BindPlan \/ ConfirmApply \/ ReceiptServed
  PROVE  TInv'
<1>1. CASE BindPlan
  <2>1. Plan(active, fs.dir) \in PlanRefs
    BY <1>1, Zenon DEF BindPlan, TInv, TypeOK, Receipts, Plan, PlanRefs
  <2>2. receipt' \in Receipts
    BY <1>1, <2>1, Zenon DEF BindPlan, TInv, TypeOK, Receipts
  <2> QED
    BY <1>1, <2>2, ReceiptTInv, Zenon DEF BindPlan, rest
<1>2. CASE ConfirmApply
  <2>1. receipt' \in Receipts
    BY <1>2, Zenon DEF ConfirmApply, TInv, TypeOK, Receipts
  <2> QED
    BY <1>2, <2>1, ReceiptTInv, Zenon DEF ConfirmApply, rest
<1>3. CASE ReceiptServed
  BY <1>3, ReceiptTInv, Zenon DEF ReceiptServed, rest
<1> QED
  BY <1>1, <1>2, <1>3, Zenon

\* A command that dies or returns changes no file.
LEMMA ReturnsTInv ==
  ASSUME TInv, SettleStage \/ Die
  PROVE  TInv'
<1>1. /\ Stop /\ UNCHANGED << fs, repair, settlement, active, saved, late, edits >>
      /\ receipt' \in Receipts \cup {None} /\ faults' \in 0..MaxFaults
  BY TemplateAssumption DEF SettleStage, Die, files, rest, TInv, TypeOK
<1> QED
  BY <1>1, StopTInv, Zenon DEF TInv, TypeOK

\* The choice between exchange, recovery and completion (AdvanceTemplateBase).
LEMMA AdvanceTemplateBaseTInv ==
  ASSUME TInv, AdvanceTemplateBase
  PROVE  TInv'
<1>a. /\ run.at = "advance" /\ Settling /\ run.sel \in Sources
      /\ Revision \in Bodies /\ Revision = active
      /\ fs.disc = None /\ fs.old = None /\ repair = None
  BY Zenon DEF AdvanceTemplateBase, TInv, TypeOK, Runs, PlanInv, FileInv, Toward, Settlers
<1>b. /\ Advanced(run.sel) \in Sources /\ Advanced(run.sel).base = active
      /\ Advanced(run.sel).text = run.sel.text
  BY <1>a, SourceFacts, Zenon DEF Advanced
<1>c. /\ fs' = [fs EXCEPT !.new = None]
      /\ UNCHANGED << repair, receipt, active, saved, late, edits, faults >>
      /\ IF fs.dir = run.sel THEN Record(Advanced(run.sel), "stage")
         ELSE /\ IF fs.dir.base = Revision /\ BodyOf[fs.dir.text] = Revision
                 THEN Goto("complete") ELSE Stop
              /\ UNCHANGED settlement
  BY <1>a, Zenon DEF AdvanceTemplateBase, rest
<1>d. fs' \in Trees /\ fs'.dir = fs.dir /\ fs'.old = fs.old /\ fs'.disc = fs.disc
  BY <1>c, Zenon DEF TInv, TypeOK, Trees
<1>1. CASE \E f \in Settlements : /\ Records(f, Advanced(run.sel))
                                  /\ Overwrite(f, Advanced(run.sel), "stage")
  <2>1. PICK f \in Settlements : /\ Records(f, Advanced(run.sel))
                              /\ Overwrite(f, Advanced(run.sel), "stage")
    BY <1>1, Zenon
  <2>2. /\ run' \in Runs /\ run'.at = "write" /\ run'.post = Advanced(run.sel)
        /\ run'.file = f /\ run'.then = "stage" /\ run'.ref = run.ref /\ run'.sel = run.sel
    BY <2>1, <1>a, <1>b, <1>c, ZenonT(30) DEF Overwrite, TInv, TypeOK, Runs, Places
  <2>3. /\ fs' \in Trees /\ fs'.new = None /\ fs'.dir = fs.dir /\ fs'.old = fs.old
        /\ fs'.disc = fs.disc /\ fs'.cnew = fs.cnew /\ fs'.cold = fs.cold
    BY <2>1, <1>a, <1>b, <1>c, Zenon DEF Overwrite, TInv, TypeOK, Trees
  <2>4. /\ run.at = "advance"
        /\ settlement' = Torn
        /\ UNCHANGED << repair, receipt, active, saved, late, edits, faults >>
    BY <2>1, <1>a, <1>b, <1>c, Zenon DEF Overwrite, TInv, TypeOK, files, rest
  <2>5. TypeOK'
    BY <2>1, <2>2, <2>3, <2>4, TemplateAssumption, Zenon DEF TInv, TypeOK
  <2>6. FileInv'
    BY <2>3, <2>4, <1>a, TemplateAssumption, Zenon DEF FileInv, Settling
  <2>7. PlanInv'
    BY <2>1, <2>2, <2>4, TemplateAssumption, Zenon DEF TInv, FileInv, PlanInv, Target, Toward,
       Records, Revision, Settlers, Exchange, Repairing
  <2>8. StageInv'
    BY <2>2, <2>4, <1>a, <1>b, TemplateAssumption, Zenon DEF StageInv, Toward, Repairing
  <2>9. PlaceInv'
    BY <1>a, <1>b, <2>2, <2>3, Zenon DEF PlaceInv
  <2>a. Doc' = f /\ Doc = settlement
    BY <2>2, <2>4, <1>a, Zenon DEF Doc, Settling
  <2>b. DocTexts \subseteq DocTexts'
    BY <2>1, <2>a, Zenon DEF DocTexts, Records
  <2>c. run.sel.text \in DocTexts'
    BY <2>b, <1>a, Zenon DEF TInv, DocInv, Toward, Settlers
  <2>d. settlement.post = None => run.sel.text = settlement.src.text
    <3>1. run.sel.text \in DocTexts
      BY <1>a, Zenon DEF TInv, DocInv, Toward, Settlers
    <3>2. settlement.post = None => settlement.rec = None
      BY <2>a, <1>a, Zenon DEF TInv, DocInv, Settling
    <3> QED
      BY <2>a, <3>1, <3>2, Zenon DEF DocTexts
  <2>e. f.post # None /\ f.post.text = f.src.text
    BY <2>1, <2>a, <2>d, <1>a, <1>b, TemplateAssumption, Zenon DEF Records, TInv, DocInv, Settling
  <2>10. DocInv'
    BY <2>a, <2>c, <2>e, <2>2, <2>4, <1>a, Zenon DEF DocInv
  <2>11. SavedInv'
    BY <1>a, <1>c, <1>d, Zenon DEF TInv, SavedInv, Held
  <2> QED
    BY <2>5, <2>6, <2>7, <2>8, <2>9, <2>10, <2>11, Zenon DEF TInv
<1>2. CASE fs.dir.base = Revision /\ Goto("complete") /\ UNCHANGED settlement
  <2>1. /\ run' \in Runs /\ run'.at = "complete" /\ run'.ref = run.ref
        /\ run'.sel = run.sel /\ run'.post = run.post /\ run'.file = run.file
        /\ run'.then = run.then
    BY <1>2, <1>a, <1>c DEF Goto, TInv, TypeOK, Runs, Places
  <2>2. /\ fs' \in Trees /\ fs'.new = None /\ fs'.dir = fs.dir /\ fs'.old = fs.old
        /\ fs'.disc = fs.disc /\ fs'.cnew = fs.cnew /\ fs'.cold = fs.cold
    BY <1>2, <1>a, <1>c, Zenon DEF Goto, TInv, TypeOK, Trees
  <2>3. /\ run.at = "advance"
        /\ UNCHANGED << repair, settlement, receipt, active, saved, late, edits, faults >>
    BY <1>2, <1>a, <1>c, Zenon DEF Goto, TInv, TypeOK, files, rest
  <2>4. TypeOK'
    BY <1>2, <2>1, <2>2, <2>3, TemplateAssumption, Zenon DEF TInv, TypeOK
  <2>5. FileInv'
    BY <2>2, <2>3, Zenon DEF TInv, FileInv, Clear, Settling, Target
  <2>6. PlanInv'
    BY <1>2, <2>1, <2>2, <2>3, <1>a, Zenon DEF TInv, PlanInv, Clear, Settling, Toward, Revision,
       Settlers
  <2>7. StageInv'
    BY <2>1, Zenon DEF StageInv, Toward, Exchange, Repairing, Replacing
  <2>8. PlaceInv'
    BY <2>1, Zenon DEF PlaceInv, Toward
  <2>9. DocInv'
    BY <2>1, <2>2, <2>3, Zenon DEF TInv, DocInv, Doc, DocTexts, Settling, Toward, Settlers, Exchange
  <2>10. SavedInv'
    BY <1>a, <1>c, <1>d, Zenon DEF TInv, SavedInv, DocTexts, Held
  <2> QED
    BY <2>4, <2>5, <2>6, <2>7, <2>8, <2>9, <2>10, Zenon DEF TInv
<1>3. CASE Stop /\ UNCHANGED settlement
  BY <1>3, <1>c, <1>d, StopTInv, Zenon DEF TInv, TypeOK
<1> QED
  BY <1>1, <1>2, <1>3, <1>a, <1>b, <1>c, RecordFacts, Zenon

\* What was set aside is compared with what was loaded.
LEMMA InspectTInv ==
  ASSUME TInv, Inspect
  PROVE  TInv'
<1>1. CASE fs.old = run.sel
  <2>1. /\ run' \in Runs /\ run'.at = "swap" /\ run'.ref = run.ref /\ run'.sel = run.sel
        /\ run'.post = run.post /\ run'.file = run.file /\ run'.then = run.then
    BY <1>1 DEF Inspect, Goto, TInv, TypeOK, Runs, Places
  <2>2. /\ run.at = "inspect"
        /\ UNCHANGED << fs, repair, settlement, receipt, active, saved, late, edits, faults >>
    BY <1>1, Zenon DEF Inspect, Goto, TInv, TypeOK, files, rest
  <2>3. TypeOK'
    BY <1>1, <2>1, <2>2, TemplateAssumption, Zenon DEF TInv, TypeOK
  <2>4. FileInv'
    BY <2>2, Zenon DEF TInv, FileInv, Clear, Settling, Target
  <2>5. PlanInv'
    BY <2>1, <2>2, Zenon DEF TInv, PlanInv, Settling, Toward, Revision, Settlers, Exchange
  <2>6. StageInv'
    BY <2>1, <2>2, Zenon DEF TInv, StageInv, Toward, Exchange, Repairing
  <2>7. PlaceInv'
    BY <2>1, <2>2, Zenon DEF TInv, PlaceInv, Toward
  <2>8. DocInv'
    BY <2>1, <2>2, Zenon DEF TInv, DocInv, Doc, DocTexts, Settling, Toward, Settlers, Exchange
  <2>9. SavedInv'
    BY <2>1, <2>2, Zenon DEF TInv, FileInv, PlaceInv, SavedInv, Held
  <2> QED
    BY <2>3, <2>4, <2>5, <2>6, <2>7, <2>8, <2>9, Zenon DEF TInv
<1>2. CASE fs.old # run.sel
  <2>1. /\ run' \in Runs /\ run'.at = "idle" /\ run'.ref = None /\ run'.sel = None
        /\ run'.post = None /\ run'.file = None /\ run'.then = "idle"
    BY <1>2, IdleFacts DEF Inspect, Stop, TInv, TypeOK, Runs, Places, StageInv
  <2>2. /\ fs' \in Trees /\ fs'.dir = fs.old /\ fs'.new = None /\ fs'.old = None
        /\ fs'.disc = fs.disc /\ fs'.cnew = fs.cnew /\ fs'.cold = fs.cold
    BY <1>2, IdleFacts, ZenonT(60) DEF Inspect, Stop, TInv, TypeOK, Trees, StageInv
  <2>3. /\ run.at = "inspect"
        /\ UNCHANGED << repair, settlement, receipt, active, saved, late, edits, faults >>
    BY <1>2, IdleFacts, Zenon DEF Inspect, Stop, TInv, TypeOK, files, rest, StageInv
  <2>4. TypeOK'
    BY <1>2, <2>1, <2>2, <2>3, TemplateAssumption, Zenon DEF TInv, TypeOK
  <2>5. FileInv'
    BY <2>2, <2>3, Zenon DEF TInv, FileInv, Clear, Settling, Target
  <2>6. PlanInv'
    BY <2>1, Zenon DEF PlanInv, Toward, Settlers, Exchange, Repairing
  <2>7. StageInv'
    BY <2>1, Zenon DEF StageInv, Toward, Exchange, Repairing, Replacing
  <2>8. PlaceInv'
    BY <2>1, <2>2, Zenon DEF PlaceInv
  <2>9. DocInv'
    BY <2>1, <2>3, Zenon DEF TInv, PlanInv, StageInv, DocInv, Doc, Toward, Settlers, Exchange,
       Repairing
  <2>10. SavedInv'
    BY <2>1, <2>2, <2>3, Zenon DEF TInv, PlaceInv, SavedInv, Held
  <2> QED
    BY <2>4, <2>5, <2>6, <2>7, <2>8, <2>9, <2>10, Zenon DEF TInv
<1> QED
  BY <1>1, <1>2, Zenon

\* The staged directory takes the place of the source.
LEMMA SwapTInv ==
  ASSUME TInv, Swap
  PROVE  TInv'
<1>1. /\ run' \in Runs /\ run'.at = "confirm" /\ run'.ref = run.ref /\ run'.sel = run.sel
      /\ run'.post = run.post /\ run'.file = run.file /\ run'.then = run.then
  BY DEF Swap, Goto, TInv, TypeOK, Runs, Places, StageInv, Runs, Toward, Exchange
<1>2. /\ fs' \in Trees /\ fs'.dir = fs.new /\ fs'.new = None /\ fs'.old = fs.old
      /\ fs'.disc = fs.disc /\ fs'.cnew = fs.cnew /\ fs'.cold = fs.cold
  BY Zenon DEF Swap, Goto, TInv, TypeOK, Trees, StageInv, Runs, Toward, Exchange
<1>3. /\ run.at = "swap"
      /\ UNCHANGED << repair, settlement, receipt, active, saved, late, edits, faults >>
  BY Zenon DEF Swap, Goto, TInv, TypeOK, files, rest, StageInv, Runs, Toward, Exchange
<1>4. TypeOK'
  BY <1>1, <1>2, <1>3, TemplateAssumption, Zenon DEF TInv, TypeOK
<1>5. FileInv'
  BY <1>2, <1>3, Zenon DEF TInv, FileInv, PlanInv, Settling, Target, Toward, Revision, Settlers,
     Exchange
<1>6. PlanInv'
  BY <1>1, <1>3, Zenon DEF TInv, PlanInv, Settling, Toward, Revision, Settlers, Exchange
<1>7. StageInv'
  BY <1>1, <1>3, Zenon DEF TInv, StageInv, Toward, Exchange, Repairing
<1>8. PlaceInv'
  BY <1>1, <1>3, Zenon DEF TInv, PlaceInv, Toward
<1>9. DocInv'
  BY <1>1, <1>3, Zenon DEF TInv, DocInv, Doc, DocTexts, Settling, Toward, Settlers, Exchange
<1>10. SavedInv'
  BY <1>1, <1>2, <1>3, Zenon DEF TInv, FileInv, PlaceInv, SavedInv, Held
<1> QED
  BY <1>4, <1>5, <1>6, <1>7, <1>8, <1>9, <1>10, Zenon DEF TInv

\* The new source, and what was set aside, are read back.
LEMMA ConfirmBaseTInv ==
  ASSUME TInv, ConfirmBase
  PROVE  TInv'
<1>1. CASE fs.dir = run.post /\ fs.old = run.sel
  <2>1. /\ run' \in Runs /\ run'.at = "remove" /\ run'.ref = run.ref /\ run'.sel = run.sel
        /\ run'.post = run.post /\ run'.file = run.file /\ run'.then = run.then
    BY <1>1 DEF ConfirmBase, Goto, TInv, TypeOK, Runs, Places
  <2>2. /\ run.at = "confirm"
        /\ UNCHANGED << fs, repair, settlement, receipt, active, saved, late, edits, faults >>
    BY Zenon DEF ConfirmBase, files, rest
  <2>3. TypeOK'
    BY <2>1, <2>2, Zenon DEF TInv, TypeOK
  <2>4. FileInv'
    BY <2>2, Zenon DEF TInv, FileInv, Clear, Settling, Target
  <2>5. PlanInv'
    BY <2>1, <2>2, Zenon DEF TInv, PlanInv, Settling, Toward, Revision, Settlers, Exchange
  <2>6. StageInv'
    BY <1>1, <2>1, <2>2, Zenon DEF TInv, StageInv, Toward, Exchange, Repairing
  <2>7. PlaceInv'
    BY <2>1, Zenon DEF PlaceInv, Toward
  <2>8. DocInv'
    BY <2>1, <2>2, Zenon DEF TInv, DocInv, Doc, DocTexts, Settling, Toward, Settlers, Exchange
  <2>a. Held("old") => Held("dir")
    BY <1>1, <2>2, TemplateAssumption, Zenon DEF TInv, TypeOK, StageInv, PlaceInv, Held, Toward,
       Exchange, Runs
  <2>9. SavedInv'
    BY <2>a, <2>1, <2>2, Zenon DEF TInv, SavedInv, Doc, DocTexts, Held, Settling
  <2> QED
    BY <2>3, <2>4, <2>5, <2>6, <2>7, <2>8, <2>9, Zenon DEF TInv
<1>2. CASE ~(fs.dir = run.post /\ fs.old = run.sel)
  BY <1>2, StopTInv, Zenon DEF ConfirmBase, files, rest, TInv, TypeOK
<1> QED
  BY <1>1, <1>2, Zenon

\* The removal of what was set aside begins.
LEMMA RemoveTInv ==
  ASSUME TInv, Remove
  PROVE  TInv'
<1>1. /\ run' \in Runs /\ run'.at = "clean" /\ run'.ref = run.ref
      /\ run'.sel = run.sel /\ run'.post = run.post /\ run'.file = run.file
      /\ run'.then = run.then
  BY DEF Remove, Goto, TInv, TypeOK, Runs, Places
<1>2. /\ fs' \in Trees /\ fs'.old = Partial /\ fs'.dir = fs.dir /\ fs'.new = fs.new
      /\ fs'.disc = fs.disc /\ fs'.cnew = fs.cnew /\ fs'.cold = fs.cold
  BY Zenon DEF Remove, TInv, TypeOK, Trees
<1>3. /\ run.at = "remove"
      /\ UNCHANGED << repair, settlement, receipt, active, saved, late, edits, faults >>
  BY Zenon DEF Remove, rest
<1>4. TypeOK'
  BY <1>1, <1>2, <1>3, Zenon DEF TInv, TypeOK
<1>5. FileInv'
  BY <1>2, <1>3, Zenon DEF TInv, FileInv, PlanInv, Settling, Target, Toward, Revision, Settlers
<1>6. PlanInv'
  BY <1>1, <1>3, Zenon DEF TInv, PlanInv, Settling, Toward, Revision, Settlers
<1>7. StageInv'
  BY <1>1, <1>2, <1>3, Zenon DEF TInv, StageInv, Toward, Exchange, Repairing, Replacing
<1>8. PlaceInv'
  BY <1>1, <1>2, Zenon DEF PlaceInv, Toward
<1>9. DocInv'
  BY <1>1, <1>3, Zenon DEF TInv, DocInv, Doc, DocTexts, Settling, Toward, Settlers
<1>a. repair = None /\ fs.disc = None
  BY <1>3, Zenon DEF TInv, FileInv, StageInv, Toward
<1>10. SavedInv'
  BY <1>1, <1>2, <1>3, Zenon DEF TInv, SavedInv, Held
<1> QED
  BY <1>4, <1>5, <1>6, <1>7, <1>8, <1>9, <1>10, Zenon DEF TInv

\* What was set aside is removed.
LEMMA CleanTInv ==
  ASSUME TInv, Clean
  PROVE  TInv'
<1>1. /\ run' \in Runs /\ run'.at = "complete" /\ run'.ref = run.ref
      /\ run'.sel = run.sel /\ run'.post = run.post /\ run'.file = run.file
      /\ run'.then = run.then
  BY DEF Clean, Goto, TInv, TypeOK, Runs, Places
<1>2. /\ fs' \in Trees /\ fs'.new = None /\ fs'.old = None /\ fs'.dir = fs.dir
      /\ fs'.disc = fs.disc /\ fs'.cnew = fs.cnew /\ fs'.cold = fs.cold
  BY Zenon DEF Clean, Goto, TInv, TypeOK, Trees
<1>3. /\ run.at = "clean"
      /\ UNCHANGED << repair, settlement, receipt, active, saved, late, edits, faults >>
  BY Zenon DEF Clean, Goto, TInv, TypeOK, files, rest
<1>4. TypeOK'
  BY <1>1, <1>2, <1>3, TemplateAssumption, Zenon DEF TInv, TypeOK
<1>5. FileInv'
  BY <1>2, <1>3, Zenon DEF TInv, FileInv, Clear, Settling, Target
<1>6. PlanInv'
  BY <1>1, <1>2, <1>3, Zenon DEF TInv, FileInv, PlanInv, StageInv, Clear, Settling, Toward,
     Revision, Settlers
<1>7. StageInv'
  BY <1>1, Zenon DEF StageInv, Toward, Exchange, Repairing, Replacing
<1>8. PlaceInv'
  BY <1>1, Zenon DEF PlaceInv, Toward
<1>9. DocInv'
  BY <1>1, <1>2, <1>3, Zenon DEF TInv, PlanInv, StageInv, DocInv, Doc, Toward, Settlers, Exchange,
     Repairing
<1>10. SavedInv'
  BY <1>1, <1>2, <1>3, Zenon DEF TInv, PlaceInv, SavedInv, Held
<1> QED
  BY <1>4, <1>5, <1>6, <1>7, <1>8, <1>9, <1>10, Zenon DEF TInv

\* A recovery finds out how far the exchange had come
\* (recoverTemplateBasePublication).
LEMMA RecoverTInv ==
  ASSUME TInv, Recover
  PROVE  TInv'
<1>a. /\ run.at = "advance" /\ Settling /\ Revision = active /\ Revision \in Bodies
      /\ repair = None /\ fs.old # None /\ fs.disc = None
  BY Zenon DEF Recover, TInv, TypeOK, PlanInv, FileInv, Toward, Settlers
<1>b. fs.old # Partial => /\ Advanced(fs.old) \in Sources /\ Advanced(fs.old).base = active
                          /\ Advanced(fs.old).text = fs.old.text
  BY <1>a, SourceFacts DEF Advanced, TInv, TypeOK, Trees
<1>c. UNCHANGED << repair, receipt, active, saved, late, edits, faults >>
  BY Zenon DEF Recover, rest
<1>d. \/ Stop /\ UNCHANGED << fs, settlement >>
      \/ /\ fs.old # Partial /\ fs.dir = Advanced(fs.old)
         /\ Goto("remove") /\ UNCHANGED << fs, settlement >>
      \/ fs.old # Partial /\ Record(Advanced(fs.old), "restage") /\ UNCHANGED fs
  BY Zenon DEF Recover
<1>1. CASE Stop /\ UNCHANGED << fs, settlement >>
  BY <1>1, <1>c, StopTInv, Zenon DEF TInv, TypeOK
<1>2. CASE /\ fs.old # Partial /\ fs.dir = Advanced(fs.old)
           /\ Goto("remove") /\ UNCHANGED << fs, settlement >>
  <2>1. /\ run' \in Runs /\ run'.at = "remove" /\ run'.ref = run.ref /\ run'.sel = run.sel
        /\ run'.post = run.post /\ run'.file = run.file /\ run'.then = run.then
    BY <1>2 DEF Goto, TInv, TypeOK, Runs, Places
  <2>2. /\ run.at = "advance"
        /\ UNCHANGED << fs, repair, settlement, receipt, active, saved, late, edits, faults >>
    BY <1>2, <1>a, <1>c, Zenon
  <2>3. TypeOK'
    BY <2>1, <2>2, Zenon DEF TInv, TypeOK
  <2>4. FileInv'
    BY <2>2, Zenon DEF TInv, FileInv, Clear, Settling, Target
  <2>5. PlanInv'
    BY <2>1, <2>2, Zenon DEF TInv, PlanInv, Settling, Toward, Revision, Settlers
  <2>6. StageInv'
    BY <1>2, <2>1, <2>2, <1>a, <1>b DEF StageInv, Toward, Exchange, Repairing, Replacing
  <2>7. PlaceInv'
    BY <2>1, Zenon DEF PlaceInv, Toward
  <2>8. DocInv'
    BY <1>a, <2>1, <2>2, Zenon DEF TInv, DocInv, Doc, DocTexts, Settling, Toward, Settlers
  <2>a. Held("old") => Held("dir")
    BY <1>2, <1>b, TemplateAssumption, Zenon DEF Held
  <2>9. SavedInv'
    BY <2>a, <2>1, <2>2, Zenon DEF TInv, SavedInv, Doc, DocTexts, Held, Settling
  <2> QED
    BY <2>3, <2>4, <2>5, <2>6, <2>7, <2>8, <2>9, Zenon DEF TInv
<1>3. CASE /\ fs.old # Partial /\ UNCHANGED fs
           /\ \E f \in Settlements : /\ Records(f, Advanced(fs.old))
                                    /\ Overwrite(f, Advanced(fs.old), "restage")
  <2>1. PICK f \in Settlements : /\ Records(f, Advanced(fs.old))
                              /\ Overwrite(f, Advanced(fs.old), "restage")
    BY <1>3, Zenon
  <2>2. run' = [run EXCEPT !.at = "write", !.file = f, !.post = Advanced(fs.old),
                           !.then = "restage"]
    BY <2>1, Zenon DEF Overwrite
  <2>3. /\ run' \in Runs /\ run'.at = "write" /\ run'.post = Advanced(fs.old)
        /\ run'.file = f /\ run'.then = "restage" /\ run'.ref = run.ref
        /\ run'.sel = run.sel
    BY <1>3, <1>b, <2>2, Zenon DEF TInv, TypeOK, Runs, Places
  <2>4. /\ run.at = "advance"
        /\ settlement' = Torn
        /\ UNCHANGED << fs, repair, receipt, active, saved, late, edits, faults >>
    BY <1>3, <1>a, <1>c, Zenon DEF Overwrite
  <2>5. TypeOK'
    BY <2>1, <2>2, <2>3, <2>4, TemplateAssumption, Zenon DEF TInv, TypeOK
  <2>6. FileInv'
    BY <2>4, <1>a, TemplateAssumption, Zenon DEF FileInv, Settling
  <2>7. PlanInv'
    BY <2>1, <2>3, <2>4, TemplateAssumption, Zenon DEF TInv, FileInv, PlanInv, Target, Toward,
       Records, Revision, Settlers, Exchange, Repairing
  <2>8. StageInv'
    BY <2>3, <2>4, <1>3, <1>a, <1>b, TemplateAssumption, Zenon DEF StageInv, Repairing
  <2>9. PlaceInv'
    BY <2>3, Zenon DEF PlaceInv, Toward
  <2>a. Doc' = f /\ Doc = settlement
    BY <2>3, <2>4, <1>a, Zenon DEF Doc, Settling
  <2>b. DocTexts \subseteq DocTexts'
    BY <2>1, <2>a, Zenon DEF DocTexts, Records
  <2>c. run.sel.text \in DocTexts'
    BY <2>b, <1>a, Zenon DEF TInv, DocInv, Toward, Settlers
  <2>d. settlement.post # None
    BY <2>a, <1>a, Zenon DEF TInv, DocInv, Settling
  <2>e. f.post # None /\ f.post.text = f.src.text
    BY <2>1, <2>a, <1>a, Zenon DEF Records, TInv, DocInv, Settling
  <2>10. DocInv'
    BY <2>a, <2>c, <2>e, <2>3, <2>4, <1>a, Zenon DEF DocInv
  <2>f. \A t \in DocTexts' : t \in DocTexts \/ t = fs.old.text
    BY <2>1, <2>a, <1>3, <1>b, Zenon DEF DocTexts, Records
  <2>g. Doc # None
    BY <2>a, <1>a, Zenon DEF Settling
  <2>11. SavedInv'
    BY <2>f, <2>g, <2>3, <2>4, Zenon DEF TInv, SavedInv, Held
  <2> QED
    BY <2>5, <2>6, <2>7, <2>8, <2>9, <2>10, <2>11, Zenon DEF TInv
<1> QED
  BY <1>1, <1>2, <1>3, <1>a, <1>b, <1>d, RecordFacts, Zenon

\* A recovery stages what was set aside again.
LEMMA RestageTInv ==
  ASSUME TInv, Restage
  PROVE  TInv'
<1>1. CASE fs.new \notin {None, run.post} \/ fs.disc # None
  BY <1>1, StopTInv, Zenon DEF Restage, rest, TInv, TypeOK
<1>2. CASE fs.new = None /\ fs.disc = None
  <2>1. run' = [run EXCEPT !.at = "fill", !.then = "prepare"]
    BY <1>2, Zenon DEF Restage
  <2>2. fs' = [fs EXCEPT !.new = Partial]
    BY <1>2, Zenon DEF Restage
  <2>3. /\ run' \in Runs /\ run'.at = "fill" /\ run'.then = "prepare" /\ run'.ref = run.ref
        /\ run'.sel = run.sel /\ run'.post = run.post /\ run'.file = run.file
    BY <2>1, <2>2, ZenonT(30) DEF TInv, TypeOK, Runs, Places
  <2>4. /\ fs' \in Trees /\ fs'.new = Partial /\ fs'.dir = fs.dir /\ fs'.old = fs.old
        /\ fs'.disc = fs.disc /\ fs'.cnew = fs.cnew /\ fs'.cold = fs.cold
    BY <2>1, <2>2, Zenon DEF TInv, TypeOK, Trees
  <2>5. /\ run.at = "restage"
        /\ UNCHANGED << repair, settlement, receipt, active, saved, late, edits, faults >>
    BY <1>2, Zenon DEF Restage, TInv, TypeOK, files, rest
  <2>6. TypeOK'
    BY <1>2, <2>1, <2>2, <2>3, <2>4, <2>5, TemplateAssumption, Zenon DEF TInv, TypeOK
  <2>7. FileInv'
    BY <2>4, <2>5, Zenon DEF TInv, FileInv, Clear, Settling, Target
  <2>8. PlanInv'
    BY <2>3, <2>5, Zenon DEF TInv, PlanInv, Settling, Toward, Revision, Settlers, Exchange
  <2>9. StageInv'
    BY <2>3, <2>4, <2>5, Zenon DEF TInv, StageInv, Toward, Exchange, Repairing
  <2>10. PlaceInv'
    BY <2>3, Zenon DEF PlaceInv, Toward
  <2>11. DocInv'
    BY <2>3, <2>5, Zenon DEF TInv, DocInv, Doc, DocTexts, Settling, Toward, Settlers, Exchange
  <2>12. SavedInv'
    BY <2>3, <2>4, <2>5, Zenon DEF TInv, SavedInv, Doc, DocTexts, Held, Settling
  <2> QED
    BY <2>6, <2>7, <2>8, <2>9, <2>10, <2>11, <2>12, Zenon DEF TInv
<1>3. CASE fs.new = run.post /\ fs.new # None /\ fs.disc = None
  <2>1. /\ run' \in Runs /\ run'.at = "prepare" /\ run'.ref = run.ref /\ run'.sel = run.sel
        /\ run'.post = run.post /\ run'.file = run.file /\ run'.then = run.then
    BY <1>3 DEF Restage, Goto, TInv, TypeOK, Runs, Places
  <2>2. /\ run.at = "restage"
        /\ UNCHANGED << fs, repair, settlement, receipt, active, saved, late, edits, faults >>
    BY <1>3, Zenon DEF Restage, Goto, TInv, TypeOK, files, rest
  <2>3. TypeOK'
    BY <1>3, <2>1, <2>2, TemplateAssumption, Zenon DEF TInv, TypeOK
  <2>4. FileInv'
    BY <2>2, Zenon DEF TInv, FileInv, Clear, Settling, Target
  <2>5. PlanInv'
    BY <2>1, <2>2, Zenon DEF TInv, PlanInv, Settling, Toward, Revision, Settlers, Exchange
  <2>6. StageInv'
    BY <1>3, <2>1, <2>2, Zenon DEF TInv, StageInv, Toward, Exchange, Repairing
  <2>7. PlaceInv'
    BY <2>1, Zenon DEF PlaceInv, Toward
  <2>8. DocInv'
    BY <2>1, <2>2, Zenon DEF TInv, DocInv, Doc, DocTexts, Settling, Toward, Settlers, Exchange
  <2>9. SavedInv'
    BY <2>1, <2>2, Zenon DEF TInv, SavedInv, Doc, DocTexts, Held, Settling
  <2> QED
    BY <2>3, <2>4, <2>5, <2>6, <2>7, <2>8, <2>9, Zenon DEF TInv
<1> QED
  BY <1>1, <1>2, <1>3, Zenon

\* A recovery writes the repair journal.
LEMMA PrepareTInv ==
  ASSUME TInv, Prepare
  PROVE  TInv'
<1> DEFINE m == [exp |-> run.sel, old |-> fs.old, post |-> run.post, cleanup |-> FALSE]
<1>a. run.sel \in Sources /\ run.post \in Sources
  BY Zenon DEF Prepare, TInv, TypeOK, PlanInv, StageInv, Toward, Settlers, Exchange, Runs
<1>b. fs.old \in Sources
  BY Zenon DEF Prepare, TInv, TypeOK, StageInv, Toward, Trees
<1>1. m \in Repairs /\ m.exp = run.sel /\ m.old = fs.old /\ m.post = run.post /\ m # None
  <2>1. m \in Repairs /\ m.exp = run.sel /\ m.old = fs.old /\ m.post = run.post
    BY <1>a, <1>b, Zenon DEF Repairs
  <2> QED
    BY <2>1, TemplateAssumption, Zenon
<1>c. Advanced(fs.old).text = fs.old.text
  <2>1. Revision \in Bodies
    BY Zenon DEF Prepare, TInv, TypeOK, PlanInv, Toward, Settlers, Exchange
  <2> QED
    BY <1>b, <2>1, SourceFacts, Zenon DEF Advanced
<1> HIDE DEF m
<1>2. CASE fs.dir = run.sel /\ Advanced(fs.old) = run.post
  <2>1. /\ run' \in Runs /\ run'.at = "advance" /\ run'.ref = run.ref /\ run'.sel = run.sel
        /\ run'.post = run.post /\ run'.file = run.file /\ run'.then = run.then
    BY <1>2, <1>1 DEF Prepare, Goto, m, TInv, TypeOK, Runs, Places
  <2>2. /\ run.at = "prepare"
        /\ repair' = m
        /\ UNCHANGED << fs, settlement, receipt, active, saved, late, edits, faults >>
    BY <1>2, <1>1, Zenon DEF Prepare, Goto, m, TInv, TypeOK, files, rest
  <2>3. TypeOK'
    BY <1>2, <2>1, <2>2, <1>1, TemplateAssumption, Zenon DEF TInv, TypeOK
  <2>4. FileInv'
    BY <2>2, <1>1, Zenon DEF TInv, FileInv, StageInv, Clear, Settling, Target, Toward, Exchange
  <2>5. PlanInv'
    BY <2>1, <2>2, Zenon DEF TInv, PlanInv, Settling, Toward, Revision, Settlers, Exchange
  <2>6. StageInv'
    BY <2>1, Zenon DEF StageInv, Toward, Exchange, Repairing, Replacing
  <2>7. PlaceInv'
    BY <2>1, Zenon DEF PlaceInv, Toward
  <2>8. DocInv'
    BY <1>1, <1>c, <1>2, <2>1, <2>2, TemplateAssumption, Zenon DEF TInv, TypeOK, FileInv, PlanInv,
       StageInv, DocInv, Clear, Doc, DocTexts, Settling, Toward, Settlers, Exchange, Repairing
  <2>a. Doc # None /\ run.sel.text \in DocTexts /\ repair = None
    BY <2>2, Zenon DEF TInv, PlanInv, StageInv, DocInv, Doc, Settling, Toward, Settlers, Exchange
  <2>b. saved = run.sel.text /\ saved # None /\ ~late => run.post.text = saved
    BY <2>a, <1>2, <1>b, <1>c, TemplateAssumption, Zenon DEF TInv, SavedInv, Held
  <2>9. SavedInv'
    BY <2>b, <2>1, <2>2, <1>1, Zenon DEF TInv, SavedInv, Held
  <2> QED
    BY <2>3, <2>4, <2>5, <2>6, <2>7, <2>8, <2>9, Zenon DEF TInv
<1>3. CASE ~(fs.dir = run.sel /\ Advanced(fs.old) = run.post)
  BY <1>3, StopTInv, Zenon DEF Prepare, rest, TInv, TypeOK
<1> QED
  BY <1>2, <1>3, Zenon

\* The repair journal is carried on from where it stopped
\* (settleTemplateBaseRepair).
LEMMA SettleTInv ==
  ASSUME TInv, Settle
  PROVE  TInv'
<1> DEFINE m == [repair EXCEPT !.cleanup = TRUE]
<1>1. /\ m \in Repairs /\ m # None
      /\ m.exp = repair.exp /\ m.old = repair.old /\ m.post = repair.post
  BY TemplateAssumption, Zenon DEF Settle, TInv, TypeOK, Repairs
<1>2. /\ run.at = "advance" /\ repair # None
      /\ UNCHANGED << settlement, receipt, active, saved, late, edits, faults >>
      /\ \/ Stop /\ UNCHANGED << fs, repair >>
         \/ fs.disc = None /\ Goto("discard") /\ UNCHANGED << fs, repair >>
         \/ /\ fs.dir = None /\ fs.new = repair.post
            /\ Goto("republish") /\ UNCHANGED << fs, repair >>
         \/ /\ fs.dir = repair.post /\ repair' = m /\ Goto("removeold") /\ UNCHANGED fs
            /\ fs.old \in {None, repair.old} /\ fs.disc \in {None, repair.exp}
  BY Zenon DEF Settle, rest, InPlace, SetApart, Republished
<1> HIDE DEF m
<1>3. CASE Stop /\ UNCHANGED << fs, repair >>
  BY <1>3, <1>2, StopTInv, Zenon DEF TInv, TypeOK
<1>4. CASE fs.disc = None /\ Goto("discard") /\ UNCHANGED << fs, repair >>
  <2>1. /\ run' \in Runs /\ run'.at = "discard" /\ run'.ref = run.ref /\ run'.sel = run.sel
        /\ run'.post = run.post /\ run'.file = run.file /\ run'.then = run.then
    BY <1>4 DEF Goto, TInv, TypeOK, Runs, Places
  <2>2. /\ run.at = "advance"
        /\ UNCHANGED << fs, repair, settlement, receipt, active, saved, late, edits, faults >>
    BY <1>4, <1>2, Zenon
  <2>3. TypeOK'
    BY <1>4, <2>1, <2>2, TemplateAssumption, Zenon DEF TInv, TypeOK
  <2>4. FileInv'
    BY <2>2, Zenon DEF TInv, FileInv, Clear, Settling, Target
  <2>5. PlanInv'
    BY <2>1, <2>2, Zenon DEF TInv, PlanInv, Settling, Toward, Revision, Settlers
  <2>6. StageInv'
    BY <2>1, <2>2, <1>2, Zenon DEF StageInv, Toward, Exchange, Replacing
  <2>7. PlaceInv'
    BY <1>4, <2>1, Zenon DEF PlaceInv, Toward
  <2>8. DocInv'
    BY <1>2, <1>4, <2>1, Zenon DEF TInv, DocInv, Doc, DocTexts, Settling, Toward, Settlers, Exchange
  <2>9. SavedInv'
    BY <1>2, <1>4, <2>1, Zenon DEF TInv, SavedInv, Held
  <2> QED
    BY <2>3, <2>4, <2>5, <2>6, <2>7, <2>8, <2>9, Zenon DEF TInv
<1>5. CASE /\ fs.dir = None /\ fs.new = repair.post
           /\ Goto("republish") /\ UNCHANGED << fs, repair >>
  <2>1. /\ run' \in Runs /\ run'.at = "republish" /\ run'.ref = run.ref
        /\ run'.sel = run.sel /\ run'.post = run.post /\ run'.file = run.file
        /\ run'.then = run.then
    BY <1>5 DEF Goto, TInv, TypeOK, Runs, Places
  <2>2. /\ run.at = "advance"
        /\ UNCHANGED << fs, repair, settlement, receipt, active, saved, late, edits, faults >>
    BY <1>5, <1>2, Zenon
  <2>3. TypeOK'
    BY <2>1, <2>2, Zenon DEF TInv, TypeOK
  <2>4. FileInv'
    BY <2>2, Zenon DEF TInv, FileInv, Clear, Settling, Target
  <2>5. PlanInv'
    BY <2>1, <2>2, Zenon DEF TInv, PlanInv, Settling, Toward, Revision, Settlers
  <2>6. StageInv'
    BY <1>5, <2>1, <1>2, Zenon DEF StageInv, Toward, Exchange, Replacing
  <2>7. PlaceInv'
    BY <1>5, <2>1, Zenon DEF PlaceInv, Toward
  <2>8. DocInv'
    BY <1>2, <1>5, <2>1, Zenon DEF TInv, DocInv, Doc, DocTexts, Settling, Toward, Settlers, Exchange
  <2>9. SavedInv'
    BY <1>2, <1>5, <2>1, Zenon DEF TInv, SavedInv, Held
  <2> QED
    BY <2>3, <2>4, <2>5, <2>6, <2>7, <2>8, <2>9, Zenon DEF TInv
<1>6. CASE /\ fs.dir = repair.post /\ repair' = m /\ Goto("removeold") /\ UNCHANGED fs
           /\ fs.old \in {None, repair.old} /\ fs.disc \in {None, repair.exp}
  <2>1. /\ run' \in Runs /\ run'.at = "removeold" /\ run'.ref = run.ref
        /\ run'.sel = run.sel /\ run'.post = run.post /\ run'.file = run.file
        /\ run'.then = run.then
    BY <1>6 DEF Goto, TInv, TypeOK, Runs, Places
  <2>2. /\ run.at = "advance" /\ repair' = m
        /\ UNCHANGED << fs, settlement, receipt, active, saved, late, edits, faults >>
    BY <1>6, <1>2, Zenon
  <2>3. TypeOK'
    BY <2>1, <2>2, <1>1, Zenon DEF TInv, TypeOK
  <2>4. FileInv'
    BY <1>1, <1>2, Zenon DEF TInv, FileInv, Clear, Settling, Target
  <2>5. PlanInv'
    BY <2>1, <2>2, Zenon DEF TInv, PlanInv, Settling, Toward, Revision, Settlers
  <2>6. StageInv'
    BY <1>6, <2>1, <1>1, <1>2 DEF TInv, StageInv, Toward, Exchange, Replacing, FileInv
  <2>7. PlaceInv'
    BY <2>1, Zenon DEF PlaceInv, Toward
  <2>8. DocInv'
    BY <1>1, <2>1, <2>2, <1>2, DocStays, Zenon DEF TInv, DocInv, Toward, Settlers, Exchange
  <2>a. fs.dir \notin {None, Partial}
    BY <1>6, <1>2, TemplateAssumption, Zenon DEF TInv, TypeOK, Repairs
  <2>b. saved # None /\ ~late => Held("dir")
    BY <2>a, <1>6, <1>2, Zenon DEF TInv, DocInv, SavedInv, Held
  <2>c. repair' # None /\ repair'.exp = repair.exp /\ repair'.post = repair.post
    BY <1>1, <2>2, Zenon
  <2>d. saved # None /\ ~late /\ saved = repair.exp.text => repair.post.text = saved
    BY <1>2, Zenon DEF TInv, SavedInv
  <2>9. SavedInv'
    BY <2>b, <2>c, <2>d, <2>2, Zenon DEF SavedInv, Held
  <2> QED
    BY <2>3, <2>4, <2>5, <2>6, <2>7, <2>8, <2>9, Zenon DEF TInv
<1> QED
  BY <1>3, <1>4, <1>5, <1>6, <1>2, Zenon

\* The source that came into the way is moved to the discarded one.
LEMMA DiscardTInv ==
  ASSUME TInv, Discard
  PROVE  TInv'
<1>1. /\ run' \in Runs /\ run'.at = "advance" /\ run'.ref = run.ref /\ run'.sel = run.sel
      /\ run'.post = run.post /\ run'.file = run.file /\ run'.then = run.then
  BY Zenon DEF Discard, Goto, TInv, TypeOK, Runs, Places
<1>2. /\ fs' \in Trees /\ fs'.dir = None /\ fs'.disc = fs.dir /\ fs'.new = fs.new
      /\ fs'.old = fs.old /\ fs'.cnew = fs.cnew /\ fs'.cold = fs.cold
  BY Zenon DEF Discard, Goto, TInv, TypeOK, Trees
<1>3. /\ run.at = "discard"
      /\ UNCHANGED << repair, settlement, receipt, active, saved, late, edits, faults >>
  BY Zenon DEF Discard, Goto, TInv, TypeOK, files, rest
<1>4. TypeOK'
  BY <1>1, <1>2, <1>3, TemplateAssumption, Zenon DEF TInv, TypeOK
<1>5. FileInv'
  BY <1>3, Zenon DEF TInv, FileInv, StageInv, Clear, Settling, Target, Repairing
<1>6. PlanInv'
  BY <1>1, <1>3, Zenon DEF TInv, PlanInv, Settling, Toward, Revision, Settlers, Repairing
<1>7. StageInv'
  BY <1>1, Zenon DEF StageInv, Toward, Exchange, Repairing, Replacing
<1>8. PlaceInv'
  BY <1>1, Zenon DEF PlaceInv, Toward
<1>9. DocInv'
  BY <1>1, <1>2, <1>3, Zenon DEF TInv, DocInv, Doc, DocTexts, Settling, Toward, Settlers,
     Exchange, Repairing
<1>10. SavedInv'
  BY <1>1, <1>2, <1>3, Zenon DEF TInv, PlaceInv, SavedInv, Doc, DocTexts, Held, Settling
<1> QED
  BY <1>4, <1>5, <1>6, <1>7, <1>8, <1>9, <1>10, Zenon DEF TInv

\* The repaired source is put in place.
LEMMA RepublishTInv ==
  ASSUME TInv, Republish
  PROVE  TInv'
<1>1. /\ run' \in Runs /\ run'.at = "advance" /\ run'.ref = run.ref /\ run'.sel = run.sel
      /\ run'.post = run.post /\ run'.file = run.file /\ run'.then = run.then
  BY Zenon DEF Republish, Goto, TInv, TypeOK, Runs, Places, StageInv, Repairs, Repairing
<1>2. /\ fs' \in Trees /\ fs'.dir = fs.new /\ fs'.new = None /\ fs'.old = fs.old
      /\ fs'.disc = fs.disc /\ fs'.cnew = fs.cnew /\ fs'.cold = fs.cold
  BY Zenon DEF Republish, Goto, TInv, TypeOK, Trees, StageInv, Repairs, Repairing
<1>3. /\ run.at = "republish"
      /\ UNCHANGED << repair, settlement, receipt, active, saved, late, edits, faults >>
  BY Zenon DEF Republish, Goto, TInv, TypeOK, files, rest, StageInv, Repairs, Repairing
<1>4. TypeOK'
  BY <1>1, <1>2, <1>3, TemplateAssumption, Zenon DEF TInv, TypeOK
<1>5. FileInv'
  BY <1>3, Zenon DEF TInv, FileInv, StageInv, Clear, Settling, Target, Repairing
<1>6. PlanInv'
  BY <1>1, <1>3, Zenon DEF TInv, PlanInv, Settling, Toward, Revision, Settlers, Repairing
<1>7. StageInv'
  BY <1>1, Zenon DEF StageInv, Toward, Exchange, Repairing, Replacing
<1>8. PlaceInv'
  BY <1>1, Zenon DEF PlaceInv, Toward
<1>9. DocInv'
  BY <1>1, <1>2, <1>3, Zenon DEF TInv, DocInv, Doc, DocTexts, Settling, Toward, Settlers,
     Exchange, Repairing
<1>10. SavedInv'
  BY <1>1, <1>2, <1>3, Zenon DEF TInv, FileInv, PlaceInv, SavedInv, Held
<1> QED
  BY <1>4, <1>5, <1>6, <1>7, <1>8, <1>9, <1>10, Zenon DEF TInv

\* The repair begins to remove what was set aside,
LEMMA RemoveOldTInv ==
  ASSUME TInv, RemoveOld
  PROVE  TInv'
<1> DEFINE d == IF fs.old = None THEN None ELSE Partial
<1>a. d \in {None, Partial} /\ (fs.old = None => d = None) /\ fs' = [fs EXCEPT !.old = d]
  BY Zenon DEF RemoveOld
<1> HIDE DEF d
<1>1. /\ run' \in Runs /\ run'.at = "cleanold" /\ run'.ref = run.ref
      /\ run'.sel = run.sel /\ run'.post = run.post /\ run'.file = run.file
      /\ run'.then = run.then
  BY DEF RemoveOld, Goto, TInv, TypeOK, Runs, Places
<1>2. /\ fs' \in Trees /\ fs'.old = d /\ fs'.dir = fs.dir /\ fs'.new = fs.new
      /\ fs'.disc = fs.disc /\ fs'.cnew = fs.cnew /\ fs'.cold = fs.cold
  BY <1>a, Zenon DEF TInv, TypeOK, Trees
<1>3. /\ run.at = "removeold"
      /\ UNCHANGED << repair, settlement, receipt, active, saved, late, edits, faults >>
  BY Zenon DEF RemoveOld, rest
<1>4. TypeOK'
  BY <1>1, <1>2, <1>3, Zenon DEF TInv, TypeOK
<1>5. FileInv'
  BY <1>3, Zenon DEF TInv, FileInv, StageInv, Clear, Settling, Target, Repairing
<1>6. PlanInv'
  BY <1>1, <1>3, Zenon DEF TInv, PlanInv, Settling, Toward, Revision, Settlers, Repairing
<1>7. StageInv'
  BY <1>1, <1>2, <1>3, Zenon DEF TInv, StageInv, Toward, Exchange, Repairing, Replacing
<1>8. PlaceInv'
  BY <1>a, <1>1, <1>2, Zenon DEF PlaceInv, Toward
<1>9. DocInv'
  BY <1>a, <1>1, <1>2, <1>3, Zenon DEF TInv, DocInv, Doc, DocTexts, Settling, Toward, Settlers,
     Exchange, Repairing
<1>10. SavedInv'
  BY <1>2, <1>3, Zenon DEF TInv, StageInv, SavedInv, Held, Repairing
<1> QED
  BY <1>4, <1>5, <1>6, <1>7, <1>8, <1>9, <1>10, Zenon DEF TInv

\* has removed it,
LEMMA CleanOldTInv ==
  ASSUME TInv, CleanOld
  PROVE  TInv'
<1>1. /\ run' \in Runs /\ run'.at = "removedisc" /\ run'.ref = run.ref
      /\ run'.sel = run.sel /\ run'.post = run.post /\ run'.file = run.file
      /\ run'.then = run.then
  BY DEF CleanOld, Goto, TInv, TypeOK, Runs, Places
<1>2. /\ fs' \in Trees /\ fs'.old = None /\ fs'.dir = fs.dir /\ fs'.new = fs.new
      /\ fs'.disc = fs.disc /\ fs'.cnew = fs.cnew /\ fs'.cold = fs.cold
  BY Zenon DEF CleanOld, TInv, TypeOK, Trees
<1>3. /\ run.at = "cleanold"
      /\ UNCHANGED << repair, settlement, receipt, active, saved, late, edits, faults >>
  BY Zenon DEF CleanOld, rest
<1>4. TypeOK'
  BY <1>1, <1>2, <1>3, Zenon DEF TInv, TypeOK
<1>5. FileInv'
  BY <1>3, Zenon DEF TInv, FileInv, StageInv, Clear, Settling, Target, Repairing
<1>6. PlanInv'
  BY <1>1, <1>3, Zenon DEF TInv, PlanInv, Settling, Toward, Revision, Settlers, Repairing
<1>7. StageInv'
  BY <1>1, <1>2, <1>3, Zenon DEF TInv, StageInv, Toward, Exchange, Repairing, Replacing
<1>8. PlaceInv'
  BY <1>1, <1>2, Zenon DEF PlaceInv, Toward
<1>9. DocInv'
  BY <1>1, <1>2, <1>3, Zenon DEF TInv, DocInv, Doc, DocTexts, Settling, Toward, Settlers,
     Exchange, Repairing
<1>10. SavedInv'
  BY <1>2, <1>3, Zenon DEF TInv, SavedInv, Held
<1> QED
  BY <1>4, <1>5, <1>6, <1>7, <1>8, <1>9, <1>10, Zenon DEF TInv

\* and begins to remove the discarded source.
LEMMA RemoveDiscTInv ==
  ASSUME TInv, RemoveDisc
  PROVE  TInv'
<1> DEFINE d == IF fs.disc = None THEN None ELSE Partial
<1>a. d \in {None, Partial} /\ (fs.disc = None => d = None) /\ fs' = [fs EXCEPT !.disc = d]
  BY Zenon DEF RemoveDisc
<1> HIDE DEF d
<1>1. /\ run' \in Runs /\ run'.at = "cleandisc" /\ run'.ref = run.ref
      /\ run'.sel = run.sel /\ run'.post = run.post /\ run'.file = run.file
      /\ run'.then = run.then
  BY DEF RemoveDisc, Goto, TInv, TypeOK, Runs, Places
<1>2. /\ fs' \in Trees /\ fs'.disc = d /\ fs'.dir = fs.dir /\ fs'.new = fs.new
      /\ fs'.old = fs.old /\ fs'.cnew = fs.cnew /\ fs'.cold = fs.cold
  BY <1>a, Zenon DEF TInv, TypeOK, Trees
<1>3. /\ run.at = "removedisc"
      /\ UNCHANGED << repair, settlement, receipt, active, saved, late, edits, faults >>
  BY Zenon DEF RemoveDisc, rest
<1>4. TypeOK'
  BY <1>1, <1>2, <1>3, Zenon DEF TInv, TypeOK
<1>5. FileInv'
  BY <1>3, Zenon DEF TInv, FileInv, StageInv, Clear, Settling, Target, Repairing
<1>6. PlanInv'
  BY <1>1, <1>3, Zenon DEF TInv, PlanInv, Settling, Toward, Revision, Settlers, Repairing
<1>7. StageInv'
  BY <1>1, <1>2, <1>3, Zenon DEF TInv, StageInv, Toward, Exchange, Repairing, Replacing
<1>8. PlaceInv'
  BY <1>a, <1>1, <1>2, Zenon DEF PlaceInv, Toward
<1>9. DocInv'
  BY <1>1, <1>2, <1>3, Zenon DEF TInv, DocInv, Doc, DocTexts, Settling, Toward, Settlers,
     Exchange, Repairing
<1>10. SavedInv'
  BY <1>2, <1>3, Zenon DEF TInv, StageInv, SavedInv, Held
<1> QED
  BY <1>4, <1>5, <1>6, <1>7, <1>8, <1>9, <1>10, Zenon DEF TInv

\* The discarded source is removed.
LEMMA CleanDiscTInv ==
  ASSUME TInv, CleanDisc
  PROVE  TInv'
<1>1. /\ run' \in Runs /\ run'.at = "unjournal" /\ run'.ref = run.ref
      /\ run'.sel = run.sel /\ run'.post = run.post /\ run'.file = run.file
      /\ run'.then = run.then
  BY DEF CleanDisc, Goto, TInv, TypeOK, Runs, Places
<1>2. /\ fs' \in Trees /\ fs'.disc = None /\ fs'.dir = fs.dir /\ fs'.new = fs.new
      /\ fs'.old = fs.old /\ fs'.cnew = fs.cnew /\ fs'.cold = fs.cold
  BY Zenon DEF CleanDisc, Goto, TInv, TypeOK, Trees
<1>3. /\ run.at = "cleandisc"
      /\ UNCHANGED << repair, settlement, receipt, active, saved, late, edits, faults >>
  BY Zenon DEF CleanDisc, Goto, TInv, TypeOK, files, rest
<1>4. TypeOK'
  BY <1>1, <1>2, <1>3, TemplateAssumption, Zenon DEF TInv, TypeOK
<1>5. FileInv'
  BY <1>2, <1>3, Zenon DEF TInv, FileInv, Clear, Settling, Target
<1>6. PlanInv'
  BY <1>1, <1>3, Zenon DEF TInv, PlanInv, Settling, Toward, Revision, Settlers, Repairing
<1>7. StageInv'
  BY <1>1, <1>2, <1>3, Zenon DEF TInv, StageInv, Toward, Exchange, Repairing, Replacing
<1>8. PlaceInv'
  BY <1>1, Zenon DEF PlaceInv, Toward
<1>9. DocInv'
  BY <1>1, <1>2, <1>3, Zenon DEF TInv, DocInv, Doc, DocTexts, Settling, Toward, Settlers,
     Exchange, Repairing
<1>10. SavedInv'
  BY <1>2, <1>3, Zenon DEF TInv, StageInv, SavedInv, Held
<1> QED
  BY <1>4, <1>5, <1>6, <1>7, <1>8, <1>9, <1>10, Zenon DEF TInv

\* The repair journal goes.
LEMMA RemoveJournalTInv ==
  ASSUME TInv, RemoveJournal
  PROVE  TInv'
<1>1. /\ run' \in Runs /\ run'.at = "complete" /\ run'.ref = run.ref
      /\ run'.sel = run.sel /\ run'.post = run.post /\ run'.file = run.file
      /\ run'.then = run.then
  BY Zenon DEF RemoveJournal, Goto, TInv, TypeOK, Runs, Places
<1>2. /\ run.at = "unjournal"
      /\ repair' = None
      /\ UNCHANGED << fs, settlement, receipt, active, saved, late, edits, faults >>
  BY Zenon DEF RemoveJournal, Goto, TInv, TypeOK, files, rest
<1>3. TypeOK'
  BY <1>1, <1>2, TemplateAssumption, Zenon DEF TInv, TypeOK
<1>4. FileInv'
  BY <1>2, Zenon DEF TInv, FileInv, StageInv, Clear, Settling, Target
<1>5. PlanInv'
  BY <1>1, <1>2, Zenon DEF TInv, PlanInv, StageInv, Clear, Toward, Settlers, Exchange, Repairing
<1>6. StageInv'
  BY <1>1, Zenon DEF StageInv, Toward, Exchange, Repairing, Replacing
<1>7. PlaceInv'
  BY <1>1, Zenon DEF PlaceInv, Toward
<1>8. DocInv'
  BY <1>1, <1>2, Zenon DEF TInv, StageInv, DocInv, Doc, Toward, Settlers, Exchange, Repairing
<1>9. SavedInv'
  BY <1>2, Zenon DEF TInv, StageInv, SavedInv, Held
<1> QED
  BY <1>3, <1>4, <1>5, <1>6, <1>7, <1>8, <1>9, Zenon DEF TInv

\* A Configurator submission is staged (StageConfiguratorSubmission).
LEMMA StageSubmissionTInv ==
  ASSUME TInv, NEW rev \in Submitted, StageSubmission(rev)
  PROVE  TInv'
<1> DEFINE staged == Source(Canonical(rev), active)
<1>a. staged \in Sources /\ staged # None /\ staged.base = active
  BY TemplateAssumption, SourceFacts, Zenon DEF TInv, TypeOK
<1>b. receipt' \in Receipts
  <2>1. /\ fs.dir \in Sources
        /\ \/ receipt # None /\ receipt' = receipt
           \/ receipt' = [staged |-> staged, base |-> fs.dir, rev |-> rev,
                          from |-> active, plan |-> None, confirmed |-> FALSE]
    BY Zenon DEF StageSubmission, TInv, TypeOK, Trees
  <2> QED
    <3>1. rev \in Bodies /\ active \in Bodies
      BY TemplateAssumption, Zenon DEF TInv, TypeOK
    <3>2. [staged |-> staged, base |-> fs.dir, rev |-> rev,
           from |-> active, plan |-> None, confirmed |-> FALSE] \in Receipts
      BY <1>a, <2>1, <3>1, Zenon DEF Receipts
    <3>3. receipt # None => receipt \in Receipts
      BY Zenon DEF TInv, TypeOK
    <3> QED
      BY <2>1, <3>2, <3>3, Zenon
<1>c. run' = [Idle EXCEPT !.at = "replace", !.sel = fs.dir, !.post = staged]
  BY Zenon DEF StageSubmission
<1> HIDE DEF staged
<1>1. run' = [Idle EXCEPT !.at = "replace", !.sel = fs.dir, !.post = staged]
  BY <1>a, <1>b, Zenon DEF StageSubmission, staged
<1>2. /\ run' \in Runs /\ run'.at = "replace" /\ run'.ref = None /\ run'.sel = fs.dir
      /\ run'.post = staged /\ run'.file = None /\ run'.then = "idle"
  BY <1>a, <1>1, Zenon DEF TInv, TypeOK, Runs, Places, Idle, Trees
<1>3. /\ run.at = "idle"
      /\ receipt' \in Receipts
      /\ UNCHANGED << fs, repair, settlement, active, saved, late, edits, faults >>
  BY <1>a, <1>b, Zenon DEF StageSubmission, staged, TInv, TypeOK, files, rest, Idle, Trees
<1>4. TypeOK'
  BY <1>1, <1>2, <1>3, TemplateAssumption, Zenon DEF TInv, TypeOK
<1>5. FileInv'
  BY <1>3, Zenon DEF TInv, FileInv, Clear, Settling, Target
<1>6. PlanInv'
  BY <1>2, Zenon DEF PlanInv, Toward, Settlers, Exchange, Repairing
<1>7. StageInv'
  BY <1>2, <1>3, <1>a, Zenon DEF StageInv, Toward, Exchange, Repairing
<1>8. PlaceInv'
  BY <1>2, Zenon DEF PlaceInv, Toward
<1>9. DocInv'
  BY <1>2, <1>3, Zenon DEF TInv, DocInv, Clear, Doc, DocTexts, Settling, Toward, Settlers,
     Exchange, Repairing
<1>10. SavedInv'
  BY <1>2, <1>3, Zenon DEF TInv, SavedInv, Doc, DocTexts, Held, Settling, Toward
<1> QED
  BY <1>4, <1>5, <1>6, <1>7, <1>8, <1>9, <1>10, Zenon DEF TInv

\* A staged submission is discarded (DiscardConfiguratorStage).
LEMMA DiscardStageTInv ==
  ASSUME TInv, DiscardStage
  PROVE  TInv'
<1> DEFINE m == Source(Canonical(active), active)
<1>a. m \in Sources /\ m # None /\ m.base = active
  BY TemplateAssumption, SourceFacts, Zenon DEF TInv, TypeOK
<1>b. \/ receipt' = None /\ UNCHANGED run
      \/ /\ run' = [Idle EXCEPT !.at = "replace", !.sel = fs.dir, !.post = m, !.then = "drop"]
         /\ UNCHANGED receipt
  BY Zenon DEF DiscardStage
<1>1. UNCHANGED << fs, repair, settlement, active, saved, late, edits, faults >>
  BY Zenon DEF DiscardStage, rest
<1> HIDE DEF m
<1>2. CASE /\ receipt' = None
           /\ UNCHANGED << fs, repair, settlement, active, run, saved, late, edits, faults >>
  BY <1>2, ReceiptTInv, Zenon
<1>3. CASE /\ run' = [Idle EXCEPT !.at = "replace", !.sel = fs.dir, !.post = m, !.then = "drop"]
           /\ UNCHANGED receipt
  <2>1. /\ run' \in Runs /\ run'.at = "replace" /\ run'.ref = None /\ run'.sel = fs.dir
        /\ run'.post = m /\ run'.file = None /\ run'.then = "drop"
    BY <1>3, <1>a, Zenon DEF DiscardStage, rest, TInv, TypeOK, Runs, Places, Idle, Trees
  <2>2. /\ run.at = "idle"
        /\ UNCHANGED << fs, repair, settlement, receipt, active, saved, late, edits, faults >>
    BY <1>3, <1>a, Zenon DEF DiscardStage, rest, TInv, TypeOK, files, rest, Idle, Trees
  <2>3. TypeOK'
    BY <1>3, <2>1, <2>2, TemplateAssumption, Zenon DEF TInv, TypeOK
  <2>4. FileInv'
    BY <2>2, Zenon DEF TInv, FileInv, Clear, Settling, Target
  <2>5. PlanInv'
    BY <2>1, Zenon DEF PlanInv, Toward, Settlers, Exchange, Repairing
  <2>6. StageInv'
    BY <2>1, <2>2, <1>a, Zenon DEF StageInv, Toward, Exchange, Repairing
  <2>7. PlaceInv'
    BY <2>1, Zenon DEF PlaceInv, Toward
  <2>8. DocInv'
    BY <1>1, <2>1, Zenon DEF TInv, DocInv, Doc, DocTexts, Settling, Toward, Settlers, Exchange,
       Repairing
  <2>9. SavedInv'
    BY <2>1, <2>2, Zenon DEF TInv, SavedInv, Clear, Doc, DocTexts, Held, Settling, Toward
  <2> QED
    BY <2>3, <2>4, <2>5, <2>6, <2>7, <2>8, <2>9, Zenon DEF TInv
<1> QED
  BY <1>2, <1>3, <1>b, <1>1, Zenon

\* A submission, or its discard, is written beside the source
\* (ReplaceTemplateSnapshot).
LEMMA ReplaceTInv ==
  ASSUME TInv, Replace
  PROVE  TInv'
<1>1. CASE fs.dir = run.sel /\ fs.dir # run.post
  <2>1. fs' = [fs EXCEPT !.cnew = run.post, !.cold = None]
    BY <1>1, Zenon DEF Replace, Goto
  <2>2. /\ run' \in Runs /\ run'.at = "reread" /\ run'.ref = run.ref /\ run'.sel = run.sel
        /\ run'.post = run.post /\ run'.file = run.file /\ run'.then = run.then
    BY <1>1, <2>1 DEF Replace, Goto, TInv, TypeOK, Runs, Places, Runs
  <2>3. /\ fs' \in Trees /\ fs'.cnew = run.post /\ fs'.cold = None /\ fs'.dir = fs.dir
        /\ fs'.new = fs.new /\ fs'.old = fs.old /\ fs'.disc = fs.disc
    BY <1>1, <2>1, Zenon DEF TInv, TypeOK, Trees, Runs
  <2>4. /\ run.at = "replace"
        /\ UNCHANGED << repair, settlement, receipt, active, saved, late, edits, faults >>
    BY <1>1, Zenon DEF Replace, Goto, TInv, TypeOK, files, rest, Runs
  <2>5. TypeOK'
    BY <1>1, <2>1, <2>2, <2>3, <2>4, TemplateAssumption, Zenon DEF TInv, TypeOK
  <2>6. FileInv'
    BY <2>3, <2>4, Zenon DEF TInv, FileInv, Clear, Settling, Target
  <2>7. PlanInv'
    BY <2>2, Zenon DEF PlanInv, Toward, Settlers, Exchange, Repairing
  <2>8. StageInv'
    BY <2>2, <2>3, <2>4, Zenon DEF TInv, StageInv, Toward, Exchange, Repairing, Replacing
  <2>9. PlaceInv'
    BY <2>2, Zenon DEF PlaceInv, Toward
  <2>10. DocInv'
    BY <2>2, <2>3, <2>4, Zenon DEF TInv, DocInv, Doc, DocTexts, Settling, Toward, Settlers,
       Exchange, Repairing
  <2>11. SavedInv'
    BY <2>2, <2>3, <2>4, Zenon DEF TInv, SavedInv, Clear, Doc, DocTexts, Held, Settling, Settlers
  <2> QED
    BY <2>5, <2>6, <2>7, <2>8, <2>9, <2>10, <2>11, Zenon DEF TInv
<1>2. CASE fs.dir = run.post
  <2>1. fs' = [fs EXCEPT !.cnew = None, !.cold = None]
    BY <1>2, Zenon DEF Replace, Goto
  <2>2. /\ run' \in Runs /\ run'.at = "tidy" /\ run'.ref = run.ref /\ run'.sel = run.sel
        /\ run'.post = run.post /\ run'.file = run.file /\ run'.then = run.then
    BY <1>2, <2>1 DEF Replace, Goto, TInv, TypeOK, Runs, Places
  <2>3. /\ fs' \in Trees /\ fs'.cnew = None /\ fs'.cold = None /\ fs'.dir = fs.dir
        /\ fs'.new = fs.new /\ fs'.old = fs.old /\ fs'.disc = fs.disc
    BY <1>2, <2>1, Zenon DEF TInv, TypeOK, Trees
  <2>4. /\ run.at = "replace"
        /\ UNCHANGED << repair, settlement, receipt, active, saved, late, edits, faults >>
    BY <1>2, Zenon DEF Replace, Goto, TInv, TypeOK, files, rest
  <2>5. TypeOK'
    BY <1>2, <2>1, <2>2, <2>3, <2>4, TemplateAssumption, Zenon DEF TInv, TypeOK
  <2>6. FileInv'
    BY <2>3, <2>4, Zenon DEF TInv, FileInv, Clear, Settling, Target
  <2>7. PlanInv'
    BY <2>2, Zenon DEF PlanInv, Toward, Settlers, Exchange, Repairing
  <2>8. StageInv'
    BY <2>2, <2>4, Zenon DEF TInv, StageInv, Toward, Exchange, Repairing, Replacing
  <2>9. PlaceInv'
    BY <2>2, Zenon DEF PlaceInv, Toward
  <2>10. DocInv'
    BY <2>2, <2>3, <2>4, Zenon DEF TInv, DocInv, Doc, DocTexts, Settling, Toward, Settlers,
       Exchange, Repairing
  <2>11. SavedInv'
    BY <2>2, <2>3, <2>4, Zenon DEF TInv, SavedInv, Doc, DocTexts, Held, Settling
  <2> QED
    BY <2>5, <2>6, <2>7, <2>8, <2>9, <2>10, <2>11, Zenon DEF TInv
<1>3. CASE fs.dir # run.sel /\ fs.dir # run.post
  BY <1>3, StopTInv, ZenonT(30) DEF Replace, rest, TInv, TypeOK, Trees
<1> QED
  BY <1>1, <1>2, <1>3, Zenon

\* The source is read again before it is replaced.
LEMMA RereadTInv ==
  ASSUME TInv, Reread
  PROVE  TInv'
<1>1. CASE fs.dir = run.sel
  <2>1. /\ run' \in Runs /\ run'.at = "away" /\ run'.ref = run.ref /\ run'.sel = run.sel
        /\ run'.post = run.post /\ run'.file = run.file /\ run'.then = run.then
    BY <1>1 DEF Reread, Goto, TInv, TypeOK, Runs, Places
  <2>2. /\ run.at = "reread"
        /\ UNCHANGED << fs, repair, settlement, receipt, active, saved, late, edits, faults >>
    BY <1>1, Zenon DEF Reread, Goto, TInv, TypeOK, files, rest
  <2>3. TypeOK'
    BY <1>1, <2>1, <2>2, TemplateAssumption, Zenon DEF TInv, TypeOK
  <2>4. FileInv'
    BY <2>2, Zenon DEF TInv, FileInv, Clear, Settling, Target
  <2>5. PlanInv'
    BY <2>1, Zenon DEF PlanInv, Toward, Settlers, Exchange, Repairing
  <2>6. StageInv'
    BY <2>1, <2>2, Zenon DEF TInv, StageInv, Toward, Exchange, Repairing, Replacing
  <2>7. PlaceInv'
    BY <2>1, Zenon DEF PlaceInv, Toward
  <2>8. DocInv'
    BY <2>1, <2>2, Zenon DEF TInv, DocInv, Doc, DocTexts, Settling, Toward, Settlers, Exchange,
       Repairing
  <2>9. SavedInv'
    BY <2>1, <2>2, Zenon DEF TInv, SavedInv, Doc, DocTexts, Held, Settling
  <2> QED
    BY <2>3, <2>4, <2>5, <2>6, <2>7, <2>8, <2>9, Zenon DEF TInv
<1>2. CASE fs.dir # run.sel
  BY <1>2, StopTInv DEF Reread, rest, TInv, TypeOK, Trees
<1> QED
  BY <1>1, <1>2, Zenon

\* The source is set aside for a submission.
LEMMA SetAsideTInv ==
  ASSUME TInv, SetAside
  PROVE  TInv'
<1>1. /\ run' \in Runs /\ run'.at = "back" /\ run'.ref = run.ref /\ run'.sel = run.sel
      /\ run'.post = run.post /\ run'.file = run.file /\ run'.then = run.then
  BY DEF SetAside, Goto, TInv, TypeOK, Runs, Places
<1>2. /\ fs' \in Trees /\ fs'.dir = None /\ fs'.cold = fs.dir /\ fs'.new = fs.new
      /\ fs'.old = fs.old /\ fs'.disc = fs.disc /\ fs'.cnew = fs.cnew
  BY Zenon DEF SetAside, Goto, TInv, TypeOK, Trees
<1>3. /\ run.at = "away"
      /\ saved' = None
      /\ UNCHANGED << repair, settlement, receipt, active, late, edits, faults >>
  BY Zenon DEF SetAside, Goto, TInv, TypeOK, files, rest
<1>4. TypeOK'
  BY <1>1, <1>2, <1>3, TemplateAssumption, Zenon DEF TInv, TypeOK
<1>5. FileInv'
  BY <1>2, <1>3, Zenon DEF TInv, FileInv, Clear, Settling, Target
<1>6. PlanInv'
  BY <1>1, Zenon DEF PlanInv, Toward, Settlers, Exchange, Repairing
<1>7. StageInv'
  BY <1>1, <1>2, <1>3, Zenon DEF TInv, StageInv, Toward, Exchange, Repairing, Replacing
<1>8. PlaceInv'
  BY <1>1, <1>2, Zenon DEF PlaceInv, Toward
<1>9. DocInv'
  BY <1>1, <1>2, <1>3, Zenon DEF TInv, DocInv, Doc, DocTexts, Settling, Toward, Settlers,
     Exchange, Repairing
<1>10. SavedInv'
  BY <1>3, Zenon DEF SavedInv
<1> QED
  BY <1>4, <1>5, <1>6, <1>7, <1>8, <1>9, <1>10, Zenon DEF TInv

\* The submission takes the place of the source.
LEMMA PutBackTInv ==
  ASSUME TInv, PutBack
  PROVE  TInv'
<1>1. /\ run' \in Runs /\ run'.at = "tidy" /\ run'.ref = run.ref /\ run'.sel = run.sel
      /\ run'.post = run.post /\ run'.file = run.file /\ run'.then = run.then
  BY DEF PutBack, Goto, TInv, TypeOK, Runs, Places, StageInv, Replacing
<1>2. /\ fs' \in Trees /\ fs'.dir = fs.cnew /\ fs'.cnew = None /\ fs'.new = fs.new
      /\ fs'.old = fs.old /\ fs'.disc = fs.disc /\ fs'.cold = fs.cold
  BY Zenon DEF PutBack, Goto, TInv, TypeOK, Trees, StageInv, Replacing
<1>3. /\ run.at = "back"
      /\ UNCHANGED << repair, settlement, receipt, active, saved, late, edits, faults >>
  BY Zenon DEF PutBack, Goto, TInv, TypeOK, files, rest, StageInv, Replacing
<1>4. TypeOK'
  BY <1>1, <1>2, <1>3, TemplateAssumption, Zenon DEF TInv, TypeOK
<1>5. FileInv'
  BY <1>2, <1>3, Zenon DEF TInv, FileInv, StageInv, Clear, Settling, Target, Replacing
<1>6. PlanInv'
  BY <1>1, Zenon DEF PlanInv, Toward, Settlers, Exchange, Repairing
<1>7. StageInv'
  BY <1>1, <1>3, Zenon DEF TInv, StageInv, Toward, Exchange, Repairing, Replacing
<1>8. PlaceInv'
  BY <1>1, Zenon DEF PlaceInv, Toward
<1>9. DocInv'
  BY <1>1, <1>2, <1>3, Zenon DEF TInv, DocInv, Doc, DocTexts, Settling, Toward, Settlers,
     Exchange, Repairing
<1>10. SavedInv'
  BY <1>1, <1>2, <1>3, Zenon DEF TInv, FileInv, PlaceInv, DocInv, SavedInv, Clear, Held
<1> QED
  BY <1>4, <1>5, <1>6, <1>7, <1>8, <1>9, <1>10, Zenon DEF TInv

\* What the submission replaced is removed.
LEMMA TidyTInv ==
  ASSUME TInv, Tidy
  PROVE  TInv'
<1>1. fs' \in Trees /\ fs'.dir = fs.dir /\ fs'.old = fs.old /\ fs'.disc = fs.disc
  BY Zenon DEF Tidy, TInv, TypeOK, Trees
<1> QED
  BY <1>1, StopTInv, Zenon DEF Tidy, rest, TInv, TypeOK

\* A save is either forgotten, or of a text the settlement has not recorded.
LEMMA KeepFacts ==
  ASSUME NEW t, Keep(t)
  PROVE  saved' = None \/ (saved' = t /\ (Doc # None => t \notin DocTexts))
<1>1. Doc # None => {Doc.src, Doc.rec} = Recorded
  BY Zenon DEF Doc, Recorded
<1> QED
  BY <1>1, Zenon DEF Keep, DocTexts

\* The person saves the source.
LEMMA EditTInv ==
  ASSUME TInv, NEW t \in Texts, Edit(t)
  PROVE  TInv'
<1> DEFINE e == [fs.dir EXCEPT !.text = t]
<1>a. /\ fs.dir # None /\ e \in Sources /\ e \notin {None, Partial}
      /\ e.base = fs.dir.base /\ e.text = t
  <2>1. fs.dir # None /\ fs.dir \in Sources
    BY Zenon DEF Edit, TInv, TypeOK, Trees
  <2> QED
    BY <2>1, SourceFacts, TemplateAssumption, ZenonT(30)
<1>b. fs' = [fs EXCEPT !.dir = e]
  BY Zenon DEF Edit
<1>c. saved' = None \/ (saved' = t /\ (Doc # None => t \notin DocTexts))
  BY KeepFacts, Zenon DEF Edit
<1> HIDE DEF e
<1>1. fs' = [fs EXCEPT !.dir = e]
  BY <1>a, TemplateAssumption, Zenon DEF Edit, Keep, e
<1>2. /\ fs' \in Trees /\ fs'.dir = e /\ fs'.new = fs.new /\ fs'.old = fs.old
      /\ fs'.disc = fs.disc /\ fs'.cnew = fs.cnew /\ fs'.cold = fs.cold
  BY <1>a, <1>1, Zenon DEF TInv, TypeOK, Trees
<1>3. /\ saved' \in Texts \cup {None} /\ late' = FALSE
      /\ edits' \in 0..MaxEdits
      /\ UNCHANGED << run, repair, settlement, receipt, active, faults >>
  BY <1>a, TemplateAssumption DEF Edit, Keep, e, TInv, TypeOK, files, rest
<1>4. TypeOK'
  BY <1>1, <1>2, <1>3, TemplateAssumption, Zenon DEF TInv, TypeOK
<1>5. FileInv'
  BY <1>2, <1>3, <1>a, Zenon DEF TInv, FileInv, Clear, Settling, Target
<1>6. PlanInv'
  BY <1>2, <1>3, <1>a, Zenon DEF TInv, PlanInv, Clear, Settling, Toward, Revision
<1>7. StageInv'
  BY <1>2, <1>3, <1>a DEF TInv, StageInv, Toward
<1>8. PlaceInv'
  BY <1>2, <1>3, <1>a, Zenon DEF TInv, PlaceInv, Toward
<1>9. DocInv'
  BY <1>2, <1>3, Zenon DEF TInv, DocInv, Clear, Doc, DocTexts, Settling, Toward
<1>10. SavedInv'
  BY <1>a, <1>c, <1>2, <1>3, Zenon DEF TInv, DocInv, SavedInv, Doc, DocTexts, Held, Settling
<1> QED
  BY <1>4, <1>5, <1>6, <1>7, <1>8, <1>9, <1>10, Zenon DEF TInv

\* The person saves through a file opened before the source was moved.
LEMMA EditOpenTInv ==
  ASSUME TInv, NEW t \in Texts, NEW d \in {"old", "disc"}, EditOpen(d, t)
  PROVE  TInv'
<1> DEFINE e == [fs[d] EXCEPT !.text = t]
<1>a. /\ fs[d] \notin {None, Partial} /\ e \in Sources /\ e \notin {None, Partial}
      /\ e.text = t
  <2>1. fs[d] \notin {None, Partial} /\ fs[d] \in Sources
    BY Zenon DEF EditOpen, TInv, TypeOK, Trees
  <2>2. e \in Sources /\ e.text = t
    BY <2>1, SourceFacts
  <2>3. e \notin {None, Partial}
    BY <2>2, TemplateAssumption, Zenon
  <2> QED
    BY <2>1, <2>2, <2>3, Zenon
<1>b. fs' = [fs EXCEPT ![d] = e]
  BY Zenon DEF EditOpen
<1>c. saved' = None \/ (saved' = t /\ (Doc # None => t \notin DocTexts))
  BY KeepFacts, Zenon DEF EditOpen
<1> HIDE DEF e
<1>1. CASE d = "old"
  <2>1. fs' = [fs EXCEPT !.old = e]
    BY <1>1, <1>b, Zenon
  <2>2. /\ fs' \in Trees /\ fs'.old = e /\ fs'.dir = fs.dir /\ fs'.new = fs.new
        /\ fs'.disc = fs.disc /\ fs'.cnew = fs.cnew /\ fs'.cold = fs.cold
    BY <1>a, <2>1, Zenon DEF TInv, TypeOK, Trees
  <2>3. /\ saved' \in Texts \cup {None} /\ late' = Condemned(d) /\ late' \in BOOLEAN
        /\ edits' \in 0..MaxEdits
        /\ UNCHANGED << run, repair, settlement, receipt, active, faults >>
    <3>1. edits' \in 0..MaxEdits
      <4>1. edits < MaxEdits /\ edits' = edits + 1 /\ edits \in 0..MaxEdits
        BY Zenon DEF EditOpen, TInv, TypeOK
      <4> QED BY <4>1, TemplateAssumption
    <3> QED BY <3>1, Zenon DEF EditOpen, Condemned, Keep, TInv, TypeOK
  <2>4. TypeOK'
    BY <1>1, <2>1, <2>2, <2>3, TemplateAssumption, Zenon DEF TInv, TypeOK
  <2>5. FileInv'
    BY <2>2, <2>3, <1>a, Zenon DEF TInv, FileInv, Clear, Settling, Target
  <2>6. PlanInv'
    BY <2>3, <1>a, Zenon DEF TInv, PlanInv, Clear, Settling, Toward, Revision
  <2>7. StageInv'
    BY <1>1, <2>2, <2>3, <1>a, Zenon DEF TInv, StageInv, Toward
  <2>8. PlaceInv'
    BY <1>a, <1>1, <2>2, <2>3, Zenon DEF TInv, PlaceInv, Toward
  <2>9. DocInv'
    BY <1>a, <1>1, <2>3, Zenon DEF TInv, DocInv, Doc, DocTexts, Settling, Toward, Repairing
  <2>10. SavedInv'
    BY <1>1, <1>a, <1>c, <2>2, <2>3, Zenon DEF TInv, FileInv, StageInv, PlaceInv, DocInv, SavedInv,
       Clear, Condemned, Doc, Held
  <2> QED
    BY <2>4, <2>5, <2>6, <2>7, <2>8, <2>9, <2>10, Zenon DEF TInv
<1>2. CASE d = "disc"
  <2>1. fs' = [fs EXCEPT !.disc = e]
    BY <1>2, <1>b, Zenon
  <2>2. /\ fs' \in Trees /\ fs'.disc = e /\ fs'.dir = fs.dir /\ fs'.new = fs.new
        /\ fs'.old = fs.old /\ fs'.cnew = fs.cnew /\ fs'.cold = fs.cold
    BY <1>a, <2>1, Zenon DEF TInv, TypeOK, Trees
  <2>3. /\ saved' \in Texts \cup {None} /\ late' = Condemned(d) /\ late' \in BOOLEAN
        /\ edits' \in 0..MaxEdits
        /\ UNCHANGED << run, repair, settlement, receipt, active, faults >>
    <3>1. edits' \in 0..MaxEdits
      <4>1. edits < MaxEdits /\ edits' = edits + 1 /\ edits \in 0..MaxEdits
        BY Zenon DEF EditOpen, TInv, TypeOK
      <4> QED BY <4>1, TemplateAssumption
    <3> QED BY <3>1, Zenon DEF EditOpen, Condemned, Keep, TInv, TypeOK
  <2>4. TypeOK'
    BY <1>2, <2>1, <2>2, <2>3, TemplateAssumption, Zenon DEF TInv, TypeOK
  <2>5. FileInv'
    BY <1>2, <2>3, <1>a, Zenon DEF TInv, FileInv, Clear, Settling, Target
  <2>6. PlanInv'
    BY <2>3, <1>a, Zenon DEF TInv, PlanInv, Clear, Settling, Toward, Revision
  <2>7. StageInv'
    BY <2>2, <2>3, <1>a DEF TInv, StageInv, Toward
  <2>8. PlaceInv'
    BY <1>a, <1>2, <2>2, <2>3, Zenon DEF TInv, PlaceInv, Toward
  <2>9. DocInv'
    BY <2>2, <2>3, Zenon DEF TInv, DocInv, Doc, DocTexts, Settling, Toward
  <2>a. repair # None /\ run.at # "remove"
    BY <1>2, <1>a, Zenon DEF TInv, FileInv, StageInv, Toward
  <2>b. late' \/ run.at \notin {"removeold", "cleanold", "removedisc", "cleandisc", "unjournal"}
    BY <1>a, <2>3, Zenon DEF TInv, StageInv, PlaceInv, Condemned
  <2>c. saved' # None => saved' # repair.exp.text
    BY <2>a, <1>c, Zenon DEF TInv, DocInv, Doc, Settling
  <2>10. SavedInv'
    BY <2>a, <2>b, <2>c, <1>a, <1>c, <2>2, <2>3, Zenon DEF SavedInv, Held
  <2> QED
    BY <2>4, <2>5, <2>6, <2>7, <2>8, <2>9, <2>10, Zenon DEF TInv
<1> QED
  BY <1>1, <1>2, Zenon

\* At first the source is the active revision and nothing is under way.
LEMMA InitTInv ==
  ASSUME Init
  PROVE  TInv
<1>1. BodyOf[Initial] \in Bodies /\ Source(Initial, BodyOf[Initial]) \in Sources
      /\ Source(Initial, BodyOf[Initial]).base = BodyOf[Initial]
  BY TemplateAssumption, FieldFacts, SourceFacts, Zenon
<1>2. /\ fs \in Trees /\ fs.dir.base = active
      /\ fs.old = None /\ fs.disc = None /\ repair = None
  BY <1>1, Zenon DEF Init, Trees
<1>3. TypeOK
  <2>1. 0 \in 0..MaxEdits /\ 0 \in 0..MaxFaults
    BY TemplateAssumption
  <2> QED
    BY <1>1, <1>2, <2>1, IdleFacts, Zenon DEF Init, TypeOK
<1>4. FileInv
  BY <1>2, Zenon DEF Init, FileInv, Clear, Settling
<1>5. PlanInv /\ StageInv
  BY IdleFacts, Zenon DEF Init, PlanInv, StageInv, Toward, Settlers, Exchange, Repairing, Replacing
<1>6. PlaceInv
  BY IdleFacts, Zenon DEF Init, PlaceInv
<1>7. DocInv
  BY IdleFacts, Zenon DEF Init, DocInv, Doc, Toward, Settlers, Exchange, Repairing
<1>8. SavedInv
  BY Zenon DEF SavedInv, Init
<1> QED
  BY <1>3, <1>4, <1>5, <1>6, <1>7, <1>8, Zenon DEF TInv

\* Every step keeps the invariant.
LEMMA NextTInv ==
  ASSUME TInv, [Next]_vars
  PROVE  TInv'
<1>1. CASE Step
  BY <1>1, LoadTInv, FenceTInv, WriteSettlementTInv, PublishTInv, CompleteTInv, ReturnsTInv,
     AdvanceTemplateBaseTInv, MakeStageTInv, FillStageTInv, QuarantineTInv, InspectTInv, SwapTInv,
     ConfirmBaseTInv, RemoveTInv, CleanTInv, RecoverTInv, RestageTInv, PrepareTInv, SettleTInv,
     DiscardTInv, RepublishTInv, RemoveOldTInv, CleanOldTInv, RemoveDiscTInv, CleanDiscTInv,
     RemoveJournalTInv, ReplaceTInv, RereadTInv, SetAsideTInv, PutBackTInv, TidyTInv, Zenon DEF
     Step
<1>2. CASE Retry
  BY <1>2, ApplyTInv, Zenon DEF Retry
<1>3. CASE UNCHANGED vars
  BY <1>3, ReceiptTInv, Zenon DEF vars, TInv, TypeOK
<1> QED
  BY <1>1, <1>2, <1>3, StageSubmissionTInv, DiscardStageTInv, ReceiptsTInv, ReturnsTInv, EditTInv,
     EditOpenTInv, Zenon DEF Next

----------------------------------------------------------------------------
\* Source, neighbours, journals and the command under way fit together at every
\* file operation of Apply, its recovery and the Configurator, wherever they die
\* and whenever the person saves.
THEOREM ApplyInvariant == Spec => []TInv
<1>1. Init => TInv
  BY InitTInv, Zenon
<1>2. TInv /\ [Next]_vars => TInv'
  BY NextTInv, Zenon
<1> QED
  BY <1>1, <1>2, PTL DEF Spec

\* With no settlement pending the base of the source is the active revision and
\* nothing of an exchange is left: AdvanceTemplateBase and its recovery are never
\* cut off without the settlement that makes the next Apply finish them.
THEOREM BaseAlwaysFollows == Spec => []BaseFollowsActive
<1>1. TInv => BaseFollowsActive
  BY Zenon DEF TInv, FileInv, Clear, BaseFollowsActive
<1> QED
  BY <1>1, ApplyInvariant, PTL

\* What the person saved last is in one of the directories until a submission
\* replaces the source, unless they saved it to an open file of a directory the
\* command had already looked at for the last time: AdvanceTemplateBase and its
\* recovery remove a directory only when, at that look, another had its text,
\* wherever they die and whenever the person saves.
THEOREM EditsAlwaysKept == Spec => []EditsKept
<1>1. TInv => EditsKept
  <2> SUFFICES ASSUME TInv, saved # None, ~late PROVE Kept
    BY Zenon DEF EditsKept
  <2>1. {"dir", "old", "disc"} \subseteq DOMAIN fs
    BY SMT DEF TInv, TypeOK, Trees
  <2> QED
    BY <2>1, Zenon DEF TInv, SavedInv, Held, Kept
<1> QED
  BY <1>1, ApplyInvariant, PTL

============================================================================
