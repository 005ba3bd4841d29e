---- MODULE CredentialBroker ----
(***************************************************************************)
(* The Auth Broker's record of one provider in one Context, the calls of   *)
(* Gateway that use it and the control operations that replace it.         *)
(*                                                                         *)
(* A call serialises with others on its record, looks again, and, when the *)
(* record has to be renewed, marks it in the vault before the provider is  *)
(* asked: what is spent once must not be spent again, whoever dies when.   *)
(* The installation-wide mutex makes each section under it one step; it is *)
(* not held while a call waits for the record or for the provider.         *)
(*                                                                         *)
(* The index of handles follows the vault (each replacement clears it in   *)
(* the same section, a restart empties it and a lookup fills it again), so *)
(* a handle is known exactly when the vault's record carries it.  A static *)
(* secret is answered in one section that changes nothing and is left out. *)
(***************************************************************************)
EXTENDS Naturals

CONSTANTS
  Calls,          \* the calls Gateway may have under way
  Kinds,          \* "renewable": an OAuth session; "signing": a companion's lease
  MaxRecords,     \* bound: records ever made
  MaxGeneration,  \* the last state generation (2^63 - 1 in the code)
  None            \* no record, no task, no holder

ASSUME BrokerAssumption ==
  /\ Kinds \subseteq {"renewable", "signing"} /\ Kinds # {}
  /\ MaxRecords \in Nat /\ MaxGeneration \in Nat
  /\ None \notin Calls

Records == 1..MaxRecords
Generations == 0..MaxGeneration

VARIABLES
  kind,    \* how this provider's credential is used
  vault,   \* the record in the encrypted vault, or None
  made,    \* records made so far
  held,    \* the record whose handle the Workspace was given
  key,     \* whether the root key is in memory
  active,  \* _active_refresh_tasks
  lock,    \* who holds the lock of each record
  call,    \* where each call is
  used     \* how often the provider was asked with each state (auxiliary)

brokerVars == <<kind, vault, made, held, key, active, lock, call, used>>

Idle == [at |-> "idle", record |-> 0, generation |-> 0]

BrokerInit ==
  /\ kind \in Kinds
  /\ vault = None /\ made = 0 /\ held = None
  /\ key = TRUE /\ active = {}
  /\ lock = [r \in Records |-> None]
  /\ call = [c \in Calls |-> Idle]
  /\ used = [p \in Records \X Generations |-> 0]

------------------------------------------------------------------------------
(* What the sections look at.                                              *)

\* The vault's record is r and carries the handle issued for it.
Known(r) == vault # None /\ vault.record = r /\ vault.handle

\* A task digest left by a refresh nobody is waiting for any more.
Barred ==
  vault # None /\ vault.task # None /\ <<vault.record, vault.task>> \notin active

\* The record is still the one c took its snapshot of, under c's own task.
Matches(c) ==
  /\ vault # None
  /\ vault.record = call[c].record /\ vault.generation = call[c].generation
  /\ vault.task = c

\* c ends: its task is no longer active and its lock is free.
Finish(c) ==
  /\ active' = active \ {<<call[c].record, c>>}
  /\ lock' = [lock EXCEPT ![call[c].record] = None]
  /\ call' = [call EXCEPT ![c] = Idle]

------------------------------------------------------------------------------
(* A call of Gateway: resolve for a session, sign_sigv4 for a companion.   *)

\* The first section checks the handle and finds the lock of its record.
Resolve(c) ==
  /\ key /\ call[c] = Idle /\ held # None
  /\ Known(held) /\ ~Barred
  /\ call' = [call EXCEPT ![c] = [at |-> "waiting", record |-> held, generation |-> 0]]
  /\ UNCHANGED <<kind, vault, made, held, key, active, lock, used>>

Acquire(c) ==
  /\ call[c].at = "waiting" /\ lock[call[c].record] = None
  /\ lock' = [lock EXCEPT ![call[c].record] = c]
  /\ call' = [call EXCEPT ![c].at = "locked"]
  /\ UNCHANGED <<kind, vault, made, held, key, active, used>>

\* The record stayed busy for the whole second the call may wait.
Busy(c) ==
  /\ call[c].at = "waiting" /\ lock[call[c].record] # None
  /\ call' = [call EXCEPT ![c] = Idle]
  /\ UNCHANGED <<kind, vault, made, held, key, active, lock, used>>

\* The section after the lock looks at everything again.  The call goes on
\* when the record is still there, not barred, and not worn out, and when its
\* secret does not serve as it is.
MustRenew(c) ==
  /\ Known(call[c].record) /\ vault.task = None
  /\ ~(kind = "renewable" /\ vault.fresh)
  /\ vault.generation < MaxGeneration

LookAgain(c) ==
  /\ call[c].at = "locked" /\ ~MustRenew(c)
  /\ Finish(c)
  /\ UNCHANGED <<kind, vault, made, held, key, used>>

\* Altered: the task is kept in memory only.
RaiseInMemory(c) ==
  /\ call[c].at = "locked" /\ MustRenew(c)
  /\ active' = active \cup {<<vault.record, c>>}
  /\ call' = [call EXCEPT ![c].at = "raised", ![c].generation = vault.generation]
  /\ UNCHANGED <<kind, vault, made, held, key, lock, used>>

\* Otherwise it writes its task into the record before anybody is asked.
RaiseBarrier(c) ==
  /\ call[c].at = "locked" /\ MustRenew(c)
  /\ vault' = [vault EXCEPT !.task = c]
  /\ active' = active \cup {<<vault.record, c>>}
  /\ call' = [call EXCEPT ![c].at = "raised", ![c].generation = vault.generation]
  /\ UNCHANGED <<kind, made, held, key, lock, used>>

\* The provider, or the companion, acts on the state it is sent.
Execute(c) ==
  /\ call[c].at = "raised"
  /\ call' = [call EXCEPT ![c].at = "executed"]
  /\ used' = [used EXCEPT ![<<call[c].record, call[c].generation>>] = @ + 1]
  /\ UNCHANGED <<kind, vault, made, held, key, active, lock>>

\* The result is not known, or the vault could not be written: the barrier
\* stays.
OutcomeUnknown(c) ==
  /\ call[c].at \in {"raised", "executed", "unasked"}
  /\ Finish(c)
  /\ UNCHANGED <<kind, vault, made, held, key, used>>

\* The companion was certainly not asked.  The task stops being active in a
\* section of its own, before the barrier is cleared.
NotExecuted(c) ==
  /\ kind = "signing" /\ call[c].at = "raised"
  /\ active' = active \ {<<call[c].record, c>>}
  /\ call' = [call EXCEPT ![c].at = "unasked"]
  /\ UNCHANGED <<kind, vault, made, held, key, lock, used>>

ClearBarrier(c) ==
  /\ call[c].at = "unasked"
  /\ vault' = IF Matches(c) THEN [vault EXCEPT !.task = None] ELSE vault
  /\ Finish(c)
  /\ UNCHANGED <<kind, made, held, key, used>>

Renewed(c) ==
  [vault EXCEPT !.generation = call[c].generation + 1, !.task = None, !.fresh = TRUE]

\* Altered: the result is written whatever the vault holds by now.
CommitOver(c) ==
  /\ call[c].at = "executed"
  /\ vault' = [record |-> call[c].record, generation |-> call[c].generation + 1,
               task |-> None, fresh |-> TRUE, handle |-> TRUE]
  /\ Finish(c)
  /\ UNCHANGED <<kind, made, held, key, used>>

\* The result is written onto the record it came from, or nowhere.
Commit(c) ==
  /\ call[c].at = "executed"
  /\ vault' = IF Matches(c) THEN Renewed(c) ELSE vault
  /\ Finish(c)
  /\ UNCHANGED <<kind, made, held, key, used>>

\* The access token of a session runs out.
Expire ==
  /\ kind = "renewable" /\ vault # None /\ vault.fresh
  /\ vault' = [vault EXCEPT !.fresh = FALSE]
  /\ UNCHANGED <<kind, made, held, key, active, lock, call, used>>

------------------------------------------------------------------------------
(* Control operations, and the broker's own end.                           *)

\* login_driver and import_secret: a new record without handles.
Login ==
  /\ key /\ made < MaxRecords
  /\ made' = made + 1
  /\ vault' = [record |-> made + 1, generation |-> 0, task |-> None,
               fresh |-> TRUE, handle |-> FALSE]
  /\ active' = {}
  /\ UNCHANGED <<kind, held, key, lock, call, used>>

Logout ==
  /\ key
  /\ vault' = None
  /\ active' = {}
  /\ UNCHANGED <<kind, made, held, key, lock, call, used>>

\* A Workspace entry has the handle of the record projected.
IssueHandle ==
  /\ key /\ vault # None /\ vault.task = None
  /\ ~(vault.handle /\ held = vault.record)
  /\ vault' = [vault EXCEPT !.handle = TRUE]
  /\ held' = vault.record
  /\ UNCHANGED <<kind, made, key, active, lock, call, used>>

Restart ==
  /\ key' = FALSE /\ active' = {}
  /\ lock' = [r \in Records |-> None]
  /\ call' = [c \in Calls |-> Idle]
  /\ UNCHANGED <<kind, vault, made, held, used>>

Unlock ==
  /\ ~key
  /\ key' = TRUE
  /\ UNCHANGED <<kind, vault, made, held, active, lock, call, used>>

CallStep(c) ==
  \/ Resolve(c) \/ Acquire(c) \/ Busy(c) \/ LookAgain(c) \/ RaiseBarrier(c)
  \/ Execute(c) \/ OutcomeUnknown(c) \/ ClearBarrier(c) \/ Commit(c)

BrokerNext ==
  \/ \E c \in Calls : CallStep(c) \/ NotExecuted(c)
  \/ Expire \/ Login \/ Logout \/ IssueHandle \/ Restart \/ Unlock

BrokerSpec == BrokerInit /\ [][BrokerNext]_brokerVars

------------------------------------------------------------------------------
(* Properties.                                                             *)

Ats == {"idle", "waiting", "locked", "raised", "executed", "unasked"}

Record ==
  [record : Records, generation : Generations, task : Calls \cup {None},
   fresh : BOOLEAN, handle : BOOLEAN]

\* The type of every variable.
TypeOK ==
  /\ kind \in Kinds
  /\ vault = None \/ vault \in Record
  /\ made \in 0..MaxRecords
  /\ held \in Records \cup {None}
  /\ key \in BOOLEAN
  /\ active \subseteq Records \X Calls
  /\ lock \in [Records -> Calls \cup {None}]
  /\ call \in [Calls -> [at : Ats, record : 0..MaxRecords, generation : Generations]]
  /\ used \in [Records \X Generations -> Nat]

\* A state is spent once: over all calls, lock timeouts, lost results,
\* replacements and restarts of the broker, the provider is never asked twice
\* with the same generation of the same record (the task digest that
\* _persist_refresh_barrier writes before the call leaves the mutex).
NoReplay ==
  /\ TypeOK
  /\ \A p \in Records \X Generations : used[p] <= 1

\* A late result never wins: a record that was replaced or removed does not
\* come back, and the generations of one record only rise (the snapshot
\* comparison before _resolve_renewable_after_lock and sign_sigv4 save).
RemovedStays ==
  [][vault' # None =>
       \/ vault'.record > made
       \/ /\ vault # None /\ vault'.record = vault.record
          /\ vault'.generation >= vault.generation]_brokerVars
====
