---- MODULE ContextAuth ----
(***************************************************************************)
(* auth login, auth import and auth logout of one Context and provider, as *)
(* the mutator's journal records them, over the broker they change.        *)
(*                                                                         *)
(* A command notes what the broker reports, writes its decision, has the   *)
(* broker act, writes the result into the decision and retires it.  The    *)
(* same command, repeated, takes an unfinished decision up; every other    *)
(* mutation, cluster up included, is refused until then.  The journal's    *)
(* files are those of EffectJournal and change here in one step each.      *)
(***************************************************************************)
EXTENDS CredentialBroker

CONSTANTS
  Tasks,        \* "login" (auth import is the same here) and "logout"
  MaxDeaths,    \* bound: deaths of the command
  Manifests,    \* the provider manifests that may be installed on the host
  MaxFaults,    \* bound: restarts of the broker, absences of the companion and
                \* changes of the manifest
  Pending       \* no result yet

Decisions ==
  [task : Tasks, previous : Records \cup {None}, result : Records \cup {None, Pending},
   provider : Manifests, hidden : Records \cup {None}, since : 0..MaxRecords]

ASSUME AuthAssumption == None \notin Decisions \cup Manifests

VARIABLES
  decision,  \* the active decision, one of Decisions, or None
  terminal,  \* the receipt of the last mutation when it was one of these
  cmd,       \* the command under way; it holds the lifecycle lock
  deleted,   \* whether the Context was deleted
  manifest,  \* the provider's manifest on the host, or None
  deaths, faults

journal == <<decision, terminal, cmd, deleted>>
vars == <<brokerVars, journal, manifest, deaths, faults>>

NoCommand == [at |-> "idle", got |-> None]

Init ==
  /\ BrokerInit
  /\ decision = None /\ terminal = None /\ cmd = NoCommand /\ deleted = FALSE
  /\ manifest \in Manifests
  /\ deaths = 0 /\ faults = 0

\* What the broker's status operation reports: the record's revision, or that
\* there is none; a barred record is reported as none.
Status == IF vault = None \/ Barred THEN None ELSE vault.record

\* Altered: any credential that is there counts as logged in.
ConsequenceAny(task, previous, current) ==
  IF task = "logout" THEN current = None ELSE current # None

Consequence(task, previous, current) ==
  IF task = "logout" THEN current = None
  ELSE current # None /\ current # previous

Ends == cmd' = NoCommand
Goes(at, got) == cmd' = [at |-> at, got |-> got]

------------------------------------------------------------------------------
(* The command.                                                            *)

\* A logout whose receipt is still the last one is answered from it.
Replayed(task) == task = "logout" /\ terminal # None /\ terminal.task = "logout"

Begin(task) ==
  /\ cmd = NoCommand /\ decision = None /\ ~deleted /\ manifest # None /\ key
  /\ ~Replayed(task)
  /\ task = "login" => made < MaxRecords
  /\ decision' = [task |-> task, previous |-> Status, result |-> Pending,
                  provider |-> manifest, since |-> made,
                  hidden |-> IF Barred THEN vault.record ELSE None]
  /\ Goes("decided", None)
  /\ UNCHANGED <<brokerVars, terminal, deleted, manifest, deaths, faults>>


\* The same command again, if the provider is still the one decided for: a
\* result already written is confirmed, anything else is taken up from the
\* decision.
Resume ==
  /\ cmd = NoCommand /\ decision # None /\ manifest = decision.provider /\ key
  /\ IF decision.result = Pending THEN Goes("decided", None)
     ELSE Status = decision.result /\ Goes("final", None)
  /\ UNCHANGED <<brokerVars, decision, terminal, deleted, manifest, deaths, faults>>

\* applyDecision looks first.  Done already, by an earlier attempt:
FoundDone ==
  /\ cmd.at = "decided" /\ key
  /\ \/ /\ Status # decision.previous
        /\ Consequence(decision.task, decision.previous, Status)
     \/ Status = decision.previous /\ decision.task = "logout" /\ Status = None
  /\ Goes("done", Status)
  /\ UNCHANGED <<brokerVars, decision, terminal, deleted, manifest, deaths, faults>>

\* Changed by somebody else, or not to be seen: the command fails.
FoundOther ==
  /\ cmd.at = "decided"
  /\ \/ ~key
     \/ /\ Status # decision.previous
        /\ ~Consequence(decision.task, decision.previous, Status)
  /\ Ends
  /\ UNCHANGED <<brokerVars, decision, terminal, deleted, manifest, deaths, faults>>

\* As it was: the host login starts, or the broker is asked to log out.
FoundAsBefore ==
  /\ cmd.at = "decided" /\ key
  /\ Status = decision.previous
  /\ ~(decision.task = "logout" /\ Status = None)
  /\ Goes("acting", None)
  /\ UNCHANGED <<brokerVars, decision, terminal, deleted, manifest, deaths, faults>>

\* The broker's step, for the task decided.
BrokerActs == IF decision.task = "login" THEN Login ELSE Logout

Act ==
  /\ cmd.at = "acting"
  /\ BrokerActs
  /\ Goes("done", IF decision.task = "login" THEN vault'.record ELSE None)
  /\ UNCHANGED <<decision, terminal, deleted, manifest, deaths, faults>>

ActUnanswered ==
  /\ cmd.at = "acting"
  /\ BrokerActs
  /\ Goes("unsure", None)
  /\ UNCHANGED <<decision, terminal, deleted, manifest, deaths, faults>>

\* The person gave up, the provider refused, or the broker did.
ActFails ==
  /\ cmd.at = "acting"
  /\ Goes("unsure", None)
  /\ UNCHANGED <<brokerVars, decision, terminal, deleted, manifest, deaths, faults>>

\* An attempt without an answer is judged by what the broker reports then.
Settle ==
  /\ cmd.at = "unsure"
  /\ IF key /\ Consequence(decision.task, decision.previous, Status)
     THEN Goes("done", Status) ELSE Ends
  /\ UNCHANGED <<brokerVars, decision, terminal, deleted, manifest, deaths, faults>>

Finalize ==
  /\ cmd.at = "done"
  /\ decision' = [decision EXCEPT !.result = cmd.got]
  /\ Goes("final", None)
  /\ UNCHANGED <<brokerVars, terminal, deleted, manifest, deaths, faults>>

Retire ==
  /\ cmd.at = "final"
  /\ terminal' = decision /\ decision' = None
  /\ Ends
  /\ UNCHANGED <<brokerVars, deleted, manifest, deaths, faults>>

Die ==
  /\ cmd # NoCommand /\ deaths < MaxDeaths
  /\ deaths' = deaths + 1
  /\ Ends
  /\ UNCHANGED <<brokerVars, decision, terminal, deleted, manifest, faults>>

------------------------------------------------------------------------------
(* Everything else that takes the lifecycle lock, and the broker's end.    *)

Mutable == cmd = NoCommand /\ decision = None

\* cluster up brings the root key back.
ClusterUp ==
  /\ Mutable
  /\ Unlock
  /\ terminal' = None
  /\ UNCHANGED <<decision, cmd, deleted, manifest, deaths, faults>>

OtherMutation ==
  /\ Mutable /\ terminal # None
  /\ terminal' = None
  /\ UNCHANGED <<brokerVars, decision, cmd, deleted, manifest, deaths, faults>>

\* ConfirmContextCredentialAbsent reads the vault's whole inventory, barred
\* records included.
DeleteContext ==
  /\ Mutable /\ ~deleted /\ key /\ vault = None
  /\ deleted' = TRUE /\ terminal' = None
  /\ UNCHANGED <<brokerVars, decision, cmd, manifest, deaths, faults>>

BrokerRestarts ==
  /\ key /\ faults < MaxFaults
  /\ Restart
  /\ faults' = faults + 1
  /\ UNCHANGED <<journal, manifest, deaths>>

CompanionAway ==
  /\ faults < MaxFaults
  /\ \E c \in Calls : NotExecuted(c)
  /\ faults' = faults + 1
  /\ UNCHANGED <<journal, manifest, deaths>>

\* The provider's manifest is replaced, removed or brought back on the host.
ManifestChanges ==
  /\ faults < MaxFaults
  /\ manifest' \in (Manifests \cup {None}) \ {manifest}
  /\ faults' = faults + 1
  /\ UNCHANGED <<brokerVars, journal, deaths>>

BrokerServes ==
  /\ \/ \E c \in Calls : CallStep(c)
     \/ Expire
     \/ IssueHandle
  /\ UNCHANGED <<journal, manifest, deaths, faults>>

CommandStep ==
  \/ Resume \/ FoundDone \/ FoundOther \/ FoundAsBefore \/ Act \/ ActUnanswered
  \/ ActFails \/ Settle \/ Finalize \/ Retire

Next ==
  \/ \E task \in Tasks : Begin(task)
  \/ CommandStep \/ Die
  \/ ClusterUp \/ OtherMutation \/ DeleteContext
  \/ BrokerRestarts \/ CompanionAway \/ ManifestChanges \/ BrokerServes

(* The person repeats the command until it is done and does not fail at    *)
(* the provider for ever; a barrier to be cleared is cleared.              *)
Fairness ==
  /\ WF_vars(CommandStep)
  /\ SF_vars(Act)
  /\ \A c \in Calls : WF_vars(ClearBarrier(c) /\ UNCHANGED <<journal, manifest, deaths, faults>>)

Spec == Init /\ [][Next]_vars /\ Fairness

------------------------------------------------------------------------------
(* Properties.                                                             *)

\* A login is reported for a record that was made after it was decided: the
\* revision applyDecision judges by does not move when a session is renewed, and
\* a barred session never comes back.  With a companion that signs it may be an
\* older record, in one case: when the login was decided the record was barred,
\* and so reported as none, by a call whose companion had not been asked.
LoginMakesRecord ==
  \A d \in {decision, terminal} :
    d # None => (d.task = "login" /\ d.result # Pending =>
                   d.result > d.since \/ (kind = "signing" /\ d.result = d.hidden))

\* The broker does not report what the decision needs to see.
Mismatch ==
  IF decision.result # Pending THEN Status # decision.result
  ELSE /\ Status # decision.previous
       /\ ~Consequence(decision.task, decision.previous, Status)

Stuck == decision # None /\ (~key \/ Mismatch \/ manifest # decision.provider)

\* The bound on records, not the code, keeps the login from acting again.
OutOfRecords ==
  /\ decision # None /\ decision.task = "login" /\ decision.result = Pending
  /\ made = MaxRecords /\ Status = decision.previous


\* Fails.  A logout that is reported as done has left no record in the vault.
LogoutRemoves ==
  [][terminal' # terminal /\ terminal' # None /\ terminal'.task = "logout"
       => vault = None]_vars

\* Fails.  A login is never reported for a record from before it was decided.
LoginAlwaysNew ==
  \A d \in {decision, terminal} :
    d # None => (d.task = "login" /\ d.result # Pending => d.result > d.since)

\* Fails.  A locked broker is unlocked in the end.
BrokerUnlocked == ~key ~> key
====
