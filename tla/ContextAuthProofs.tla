---- MODULE ContextAuthProofs ----
(***************************************************************************)
(* The broker spends no state twice and brings no record back, for every   *)
(* set of calls and every bound; the commands act on it only through its   *)
(* own operations, so what it keeps it keeps under them; and a login is    *)
(* reported only for a record it made, whatever is renewed in between.     *)
(*                                                                         *)
(* That a state was used at most once is not inductive.  What carries it:  *)
(* whoever is about to ask the provider owns the vault's record by its     *)
(* task, or that record is gone for good; and what the vault still offers, *)
(* the current state without a task and every later one, is unused.  Nor   *)
(* is the last: a status that differs from the one noted in the decision   *)
(* has to mean a newer record.  The invariant says why: the record of that *)
(* time is the noted one, or barred, and barred for good.                  *)
(***************************************************************************)
EXTENDS ContextAuth, TLAPS

------------------------------------------------------------------------------
(* The broker.                                                             *)

\* A call that holds a barrier the provider has not seen.
Unspent(c) == call[c].at \in {"raised", "unasked"}

\* Records are numbered as they are made, and what is not made is not used.
RecordsInv ==
  /\ vault # None => vault.record <= made
  /\ held # None => held <= made
  /\ \A c \in Calls : call[c] # Idle => call[c].record \in 1..made
  /\ \A r \in Records, g \in Generations : r > made => used[<<r, g>>] = 0

\* What the vault still offers is unused.
OfferInv ==
  vault # None =>
    \A g \in Generations :
      g > vault.generation \/ (g = vault.generation /\ vault.task = None)
        => used[<<vault.record, g>>] = 0

\* A barrier that was raised and not spent: its state is unused, its record is
\* under the call's own task or no longer in the vault, and no other call has
\* one on the same record.
BarrierInv ==
  \A c \in Calls : Unspent(c) =>
    /\ used[<<call[c].record, call[c].generation>>] = 0
    /\ vault # None /\ vault.record = call[c].record =>
         vault.generation = call[c].generation /\ vault.task = c
    /\ \A d \in Calls : Unspent(d) /\ call[d].record = call[c].record => d = c

\* Whoever renews starts from a generation that has a successor.
SuccessorInv ==
  \A c \in Calls :
    call[c].at \in {"raised", "executed", "unasked"} => call[c].generation < MaxGeneration

\* A renewal under way is among the active tasks while the vault shows it.
ActiveInv ==
  \A c \in Calls :
    call[c].at \in {"raised", "executed"} /\ vault # None
      /\ vault.record = call[c].record /\ vault.task = c
    => <<call[c].record, c>> \in active

\* Only a signing call can learn that nobody was asked.
UnaskedInv == \A c \in Calls : call[c].at = "unasked" => kind = "signing"

BInv ==
  /\ NoReplay
  /\ RecordsInv /\ OfferInv /\ BarrierInv /\ SuccessorInv
  /\ ActiveInv /\ UnaskedInv

------------------------------------------------------------------------------
\* The broker starts with nothing stored and nothing used.
LEMMA InitBInv == BrokerInit => BInv
  BY BrokerAssumption DEF BrokerInit, BInv, NoReplay, TypeOK, RecordsInv, OfferInv, BarrierInv,
     SuccessorInv, ActiveInv, UnaskedInv, Unspent, Idle, Ats, Record, Records, Generations

\* The steps of a call that spend nothing and write nothing.  They leave the
\* vault alone, and at most the call gives its barrier up.
LEMMA QuietCallBInv ==
  ASSUME NEW c \in Calls, BInv,
         \/ Resolve(c) \/ Acquire(c) \/ Busy(c) \/ LookAgain(c)
         \/ OutcomeUnknown(c) \/ NotExecuted(c)
  PROVE  BInv'
<1> USE BrokerAssumption
<1>1. UNCHANGED <<kind, vault, made, held, used>>
  BY Zenon DEF Resolve, Acquire, Busy, LookAgain, OutcomeUnknown, NotExecuted
<1>2. \A d \in Calls \ {c} : call'[d] = call[d]
  BY Zenon DEF Resolve, Acquire, Busy, LookAgain, OutcomeUnknown, NotExecuted, Finish, BInv,
     NoReplay, TypeOK
<1>3. active \ {<<call[c].record, c>>} \subseteq active'
  BY Zenon DEF Resolve, Acquire, Busy, LookAgain, OutcomeUnknown, NotExecuted, Finish
<1>4. \/ call'[c].at \notin {"raised", "executed", "unasked"}
      \/ /\ call'[c].at = "unasked" /\ call[c].at = "raised" /\ kind = "signing"
         /\ call'[c].record = call[c].record /\ call'[c].generation = call[c].generation
  BY DEF Resolve, Acquire, Busy, LookAgain, OutcomeUnknown, NotExecuted, Finish, Idle, BInv,
     NoReplay, TypeOK
<1>5. call'[c] # Idle => call'[c].record \in 1..made
  BY DEF Resolve, Known, Acquire, Busy, LookAgain, OutcomeUnknown, NotExecuted, Finish, Idle,
     BInv, RecordsInv, NoReplay, TypeOK, Record, Records
<1>6. TypeOK'
  <2>1. call' \in [Calls -> [at : Ats, record : 0..MaxRecords, generation : Generations]]
    <3>1. CASE Resolve(c)
      BY <3>1 DEF Resolve, Ats, Records, Generations, BInv, NoReplay, TypeOK
    <3>2. CASE Acquire(c) \/ NotExecuted(c)
      BY <3>2 DEF Acquire, NotExecuted, Ats, BInv, NoReplay, TypeOK
    <3>3. CASE Busy(c) \/ LookAgain(c) \/ OutcomeUnknown(c)
      BY <3>3, SMTT(40) DEF Busy, LookAgain, OutcomeUnknown, Finish, Idle, Ats, Generations, BInv,
         NoReplay, TypeOK
    <3> QED BY <3>1, <3>2, <3>3
  <2>2. /\ active' \subseteq Records \X Calls
        /\ lock' \in [Records -> Calls \cup {None}] /\ key' = key
    BY Zenon DEF Resolve, Acquire, Busy, LookAgain, OutcomeUnknown, NotExecuted, Finish, BInv,
       NoReplay, TypeOK
  <2> QED BY <1>1, <2>1, <2>2 DEF BInv, NoReplay, TypeOK
<1>7. RecordsInv'
  BY <1>1, <1>2, <1>5, Zenon DEF BInv, RecordsInv
<1>8. OfferInv'
  BY <1>1, Zenon DEF BInv, OfferInv
<1>9. BarrierInv'
  BY <1>1, <1>2, <1>4 DEF BInv, BarrierInv, Unspent
<1>10. SuccessorInv' /\ UnaskedInv'
  BY <1>1, <1>2, <1>4, Zenon DEF BInv, SuccessorInv, UnaskedInv
<1>11. ActiveInv'
  BY <1>1, <1>2, <1>3, <1>4, Zenon DEF BInv, ActiveInv
<1> QED BY <1>1, <1>6, <1>7, <1>8, <1>9, <1>10, <1>11 DEF BInv, NoReplay

\* The steps that end calls or keep them as they are, and leave the record's
\* state and task as they were or remove the record.
LEMMA QuietBInv ==
  ASSUME BInv, Expire \/ Logout \/ IssueHandle \/ Restart \/ Unlock \/ UNCHANGED brokerVars
  PROVE  BInv'
<1> USE BrokerAssumption
<1>1. UNCHANGED <<kind, made, used>>
  BY Zenon DEF Expire, Logout, IssueHandle, Restart, Unlock, brokerVars
<1>2. /\ vault' = None \/ vault' \in Record
      /\ vault' # None =>
           /\ vault # None /\ vault'.record = vault.record
           /\ vault'.generation = vault.generation /\ vault'.task = vault.task
  BY Zenon DEF Expire, Logout, IssueHandle, Restart, Unlock, brokerVars, Record, BInv, NoReplay,
     TypeOK
<1>3. \/ call' = [c \in Calls |-> Idle]
      \/ call' = call /\ (active' = active \/ vault' = None)
  BY Zenon DEF Expire, Logout, IssueHandle, Restart, Unlock, brokerVars
<1>4. held' \in Records \cup {None} /\ (held' # None => held' <= made)
  BY Zenon DEF Expire, Logout, IssueHandle, Restart, Unlock, brokerVars, Record, BInv, RecordsInv,
     NoReplay, TypeOK
<1>5. TypeOK'
  <2>1. call' \in [Calls -> [at : Ats, record : 0..MaxRecords, generation : Generations]]
    BY <1>3 DEF Idle, Ats, Generations, BInv, NoReplay, TypeOK
  <2>2. /\ active' \subseteq Records \X Calls
        /\ lock' \in [Records -> Calls \cup {None}] /\ key' \in BOOLEAN
    BY Zenon DEF Expire, Logout, IssueHandle, Restart, Unlock, brokerVars, BInv, NoReplay, TypeOK
  <2> QED BY <1>1, <1>2, <1>4, <2>1, <2>2 DEF BInv, NoReplay, TypeOK
<1>6. RecordsInv'
  BY <1>1, <1>2, <1>3, <1>4, Zenon DEF BInv, RecordsInv
<1>7. OfferInv'
  BY <1>1, <1>2, Zenon DEF BInv, OfferInv
<1>8. BarrierInv'
  BY <1>1, <1>2, <1>3 DEF BInv, BarrierInv, Unspent, Idle
<1>9. SuccessorInv' /\ UnaskedInv'
  BY <1>1, <1>3 DEF BInv, SuccessorInv, UnaskedInv, Idle
<1>10. ActiveInv'
  BY <1>2, <1>3 DEF BInv, ActiveInv, Idle
<1> QED BY <1>1, <1>5, <1>6, <1>7, <1>8, <1>9, <1>10 DEF BInv, NoReplay

\* Raising the barrier makes the call the only owner of an unused state.
LEMMA RaiseBarrierBInv ==
  ASSUME NEW c \in Calls, BInv, RaiseBarrier(c)
  PROVE  BInv'
<1> USE DEF BInv, NoReplay, Idle, Ats, Records, Generations
<1>1. TypeOK'
  <2>1. vault \in Record /\ vault' = [vault EXCEPT !.task = c]
    BY Zenon DEF RaiseBarrier, MustRenew, Known, TypeOK
  <2>2. vault' \in Record
    BY <2>1, Zenon DEF Record
  <2>3. call' \in [Calls -> [at : Ats, record : 0..MaxRecords, generation : Generations]]
    <3>1. vault.generation \in Generations
      BY <2>1, Zenon DEF Record
    <3>2. call \in [Calls -> [at : Ats, record : 0..MaxRecords, generation : Generations]]
      BY Zenon DEF TypeOK
    <3> DEFINE marked == [call EXCEPT ![c].at = "raised"]
    <3>3. marked \in [Calls -> [at : Ats, record : 0..MaxRecords, generation : Generations]]
      BY <3>2, Zenon
    <3>4. call' = [marked EXCEPT ![c].generation = vault.generation]
      BY <3>2, Zenon DEF RaiseBarrier
    <3> HIDE DEF marked
    <3> QED BY <3>1, <3>3, <3>4
  <2>4. active' \subseteq Records \X Calls
    BY <2>1 DEF RaiseBarrier, TypeOK, Record
  <2> QED BY <2>2, <2>3, <2>4 DEF RaiseBarrier, TypeOK
<1>2. (\A p \in Records \X Generations : used[p] <= 1)'
  BY BrokerAssumption, Zenon DEF RaiseBarrier, MustRenew, Known, TypeOK, BarrierInv, Unspent
<1>3. RecordsInv'
  BY BrokerAssumption DEF RaiseBarrier, MustRenew, Known, TypeOK, RecordsInv, Record
<1>4. OfferInv'
  BY BrokerAssumption, Zenon DEF RaiseBarrier, MustRenew, Known, TypeOK, OfferInv, RecordsInv,
     BarrierInv, Unspent, Record
<1>5. BarrierInv'
  <2>1. /\ vault # None /\ vault \in Record
        /\ vault.task = None /\ call[c].record = vault.record
    BY Zenon DEF RaiseBarrier, MustRenew, Known, TypeOK
  <2>2. vault' # None => vault'.record = vault.record /\ vault'.generation = vault.generation
                          /\ vault'.task = c
    BY <2>1, Zenon DEF RaiseBarrier, Record
  <2>3. \A d \in Calls : Unspent(d) => call[d].record # vault.record
    <3>1. \A d \in Calls : d # None
      BY BrokerAssumption, Zenon
    <3> QED BY <2>1, <3>1, Zenon DEF BarrierInv
  <2>4. \A d \in Calls \ {c} : call'[d] = call[d]
    BY Zenon DEF RaiseBarrier, TypeOK
  <2>5. call'[c].record = vault.record /\ call'[c].generation = vault.generation
    BY <2>1, Zenon DEF RaiseBarrier, TypeOK
  <2>6. used[<<vault.record, vault.generation>>] = 0
    BY <2>1, Zenon DEF OfferInv, RaiseBarrier, MustRenew, Known, Record
  <2>7. SUFFICES ASSUME NEW d \in Calls, Unspent(d)'
                 PROVE  /\ (used[<<call[d].record, call[d].generation>>] = 0)'
                        /\ (vault # None /\ vault.record = call[d].record =>
                             vault.generation = call[d].generation /\ vault.task = d)'
                        /\ \A e \in Calls : (Unspent(e) /\ call[e].record = call[d].record)' => e = d
    BY Zenon DEF BarrierInv
  <2>8. CASE d = c
    BY <2>2, <2>3, <2>4, <2>5, <2>6, <2>8, ZenonT(30) DEF RaiseBarrier, Unspent
  <2>9. CASE d # c
    <3>1. Unspent(d) /\ call'[d] = call[d]
      BY <2>4, <2>7, <2>9, Zenon DEF Unspent
    <3>2. /\ used[<<call[d].record, call[d].generation>>] = 0
          /\ \A e \in Calls : Unspent(e) /\ call[e].record = call[d].record => e = d
          /\ call[d].record # vault.record
      BY <2>3, <3>1, Zenon DEF BarrierInv
    <3>3. (used[<<call[d].record, call[d].generation>>] = 0)'
      BY <3>1, <3>2, Zenon DEF RaiseBarrier
    <3>4. \A e \in Calls : (Unspent(e) /\ call[e].record = call[d].record)' => e = d
      BY <2>4, <2>5, <3>1, <3>2, Zenon DEF Unspent
    <3> QED BY <2>2, <3>1, <3>2, <3>3, <3>4
  <2> QED BY <2>8, <2>9
<1>6. SuccessorInv'
  BY BrokerAssumption, ZenonT(30) DEF RaiseBarrier, MustRenew, Known, TypeOK, SuccessorInv, Record
<1>7. ActiveInv'
  BY BrokerAssumption DEF RaiseBarrier, MustRenew, Known, TypeOK, ActiveInv, RecordsInv,
     BarrierInv, Unspent, Record
<1>8. UnaskedInv'
  BY BrokerAssumption, Zenon DEF RaiseBarrier, MustRenew, Known, TypeOK, UnaskedInv
<1> QED BY <1>1, <1>2, <1>3, <1>4, <1>5, <1>6, <1>7, <1>8

\* Asking the provider spends the call's own state, for the first time.
LEMMA ExecuteBInv ==
  ASSUME NEW c \in Calls, BInv, Execute(c)
  PROVE  BInv'
<1> USE DEF BInv, NoReplay, Idle, Ats, Records, Generations
<1>1. TypeOK'
  BY BrokerAssumption DEF Execute, TypeOK, Record, SuccessorInv, RecordsInv
<1>2. (\A p \in Records \X Generations : used[p] <= 1)'
  BY BrokerAssumption DEF Execute, TypeOK, BarrierInv, Unspent
<1>3. RecordsInv'
  BY BrokerAssumption DEF Execute, TypeOK, RecordsInv, Record
<1>4. OfferInv'
  BY BrokerAssumption DEF Execute, TypeOK, OfferInv, RecordsInv, BarrierInv, Unspent, Record
<1>5. BarrierInv'
  BY BrokerAssumption DEF Execute, TypeOK, BarrierInv, OfferInv, RecordsInv, Unspent, Record
<1>6. SuccessorInv'
  BY BrokerAssumption, Zenon DEF Execute, TypeOK, SuccessorInv, Record
<1>7. ActiveInv'
  BY BrokerAssumption DEF Execute, TypeOK, ActiveInv, RecordsInv, BarrierInv, Unspent, Record
<1>8. UnaskedInv'
  BY BrokerAssumption, Zenon DEF Execute, TypeOK, UnaskedInv
<1> QED BY <1>1, <1>2, <1>3, <1>4, <1>5, <1>6, <1>7, <1>8

\* A barrier taken back leaves its state on offer, still unused.
LEMMA ClearBarrierBInv ==
  ASSUME NEW c \in Calls, BInv, ClearBarrier(c)
  PROVE  BInv'
<1> USE DEF BInv, NoReplay, Idle, Ats, Records, Generations
<1>1. TypeOK'
  <2>1. vault' = None \/ vault' \in Record
    BY Zenon DEF ClearBarrier, Matches, TypeOK, Record
  <2>2. call' \in [Calls -> [at : Ats, record : 0..MaxRecords, generation : Generations]]
    BY BrokerAssumption DEF ClearBarrier, Finish, TypeOK
  <2> QED BY <2>1, <2>2, Zenon DEF ClearBarrier, Finish, TypeOK
<1>2. (\A p \in Records \X Generations : used[p] <= 1)'
  BY BrokerAssumption, Zenon DEF ClearBarrier, Finish, Matches, TypeOK, BarrierInv, Unspent
<1>3. RecordsInv'
  BY BrokerAssumption, Zenon DEF ClearBarrier, Finish, Matches, TypeOK, RecordsInv, Record
<1>4. OfferInv'
  BY BrokerAssumption DEF ClearBarrier, Finish, Matches, TypeOK, OfferInv, RecordsInv, BarrierInv,
     Unspent, Record
<1>5. BarrierInv'
  BY BrokerAssumption DEF ClearBarrier, Finish, Matches, TypeOK, BarrierInv, OfferInv, RecordsInv,
     Unspent, Record
<1>6. SuccessorInv'
  BY BrokerAssumption, Zenon DEF ClearBarrier, Finish, Matches, TypeOK, SuccessorInv, Record
<1>7. ActiveInv'
  BY BrokerAssumption DEF ClearBarrier, Finish, Matches, TypeOK, ActiveInv, RecordsInv,
     BarrierInv, Unspent, Record
<1>8. UnaskedInv'
  BY BrokerAssumption, Zenon DEF ClearBarrier, Finish, Matches, TypeOK, UnaskedInv
<1> QED BY <1>1, <1>2, <1>3, <1>4, <1>5, <1>6, <1>7, <1>8

\* A committed result puts the next, unused generation on offer.
LEMMA CommitBInv ==
  ASSUME NEW c \in Calls, BInv, Commit(c)
  PROVE  BInv'
<1> USE DEF BInv, NoReplay, Idle, Ats, Records, Generations
<1>1. TypeOK'
  <2>1. ASSUME Matches(c)  PROVE  vault' \in Record
    <3>1. vault \in Record
      BY <2>1, Zenon DEF Matches, TypeOK
    <3>2. call[c].generation + 1 \in Generations
      BY BrokerAssumption DEF Commit, SuccessorInv, TypeOK
    <3> QED BY <2>1, <3>1, <3>2, Zenon DEF Commit, Renewed, Record
  <2>2. vault' = None \/ vault' \in Record
    BY <2>1, Zenon DEF Commit, TypeOK
  <2>3. call' \in [Calls -> [at : Ats, record : 0..MaxRecords, generation : Generations]]
    BY BrokerAssumption DEF Commit, Finish, TypeOK
  <2> QED BY <2>2, <2>3, Zenon DEF Commit, Finish, TypeOK
<1>2. (\A p \in Records \X Generations : used[p] <= 1)'
  BY BrokerAssumption, Zenon DEF Commit, Finish, Matches, Renewed, TypeOK, BarrierInv, Unspent
<1>3. RecordsInv'
  BY BrokerAssumption, Zenon DEF Commit, Finish, Matches, Renewed, TypeOK, RecordsInv, Record
<1>4. OfferInv'
  BY BrokerAssumption DEF Commit, Finish, Matches, Renewed, TypeOK, OfferInv, RecordsInv,
     BarrierInv, Unspent, Record
<1>5. BarrierInv'
  BY BrokerAssumption DEF Commit, Finish, Matches, Renewed, TypeOK, BarrierInv, OfferInv,
     RecordsInv, Unspent, Record
<1>6. SuccessorInv'
  BY BrokerAssumption, Zenon DEF Commit, Finish, Matches, Renewed, TypeOK, SuccessorInv, Record
<1>7. ActiveInv'
  BY BrokerAssumption DEF Commit, Finish, Matches, Renewed, TypeOK, ActiveInv, RecordsInv,
     BarrierInv, Unspent, Record
<1>8. UnaskedInv'
  BY BrokerAssumption, Zenon DEF Commit, Finish, Matches, Renewed, TypeOK, UnaskedInv
<1> QED BY <1>1, <1>2, <1>3, <1>4, <1>5, <1>6, <1>7, <1>8

\* A new record has a number, and states, nobody has used.
LEMMA LoginBInv ==
  ASSUME BInv, Login
  PROVE  BInv'
<1> USE DEF BInv, NoReplay, Idle, Ats, Records, Generations
<1>1. TypeOK'
  BY BrokerAssumption DEF Login, TypeOK, Record, SuccessorInv, RecordsInv
<1>2. (\A p \in Records \X Generations : used[p] <= 1)'
  BY BrokerAssumption, Zenon DEF Login, TypeOK, BarrierInv, Unspent
<1>3. RecordsInv'
  BY BrokerAssumption DEF Login, TypeOK, RecordsInv, Record
<1>4. OfferInv'
  BY BrokerAssumption DEF Login, TypeOK, OfferInv, RecordsInv, BarrierInv, Unspent, Record
<1>5. BarrierInv'
  BY BrokerAssumption DEF Login, TypeOK, BarrierInv, OfferInv, RecordsInv, Unspent, Record
<1>6. SuccessorInv'
  BY BrokerAssumption, Zenon DEF Login, TypeOK, SuccessorInv, Record
<1>7. ActiveInv'
  BY BrokerAssumption DEF Login, TypeOK, ActiveInv, RecordsInv, BarrierInv, Unspent, Record
<1>8. UnaskedInv'
  BY BrokerAssumption, Zenon DEF Login, TypeOK, UnaskedInv
<1> QED BY <1>1, <1>2, <1>3, <1>4, <1>5, <1>6, <1>7, <1>8

------------------------------------------------------------------------------
\* Every step of the broker keeps the invariant.
LEMMA StepBInv ==
  ASSUME BInv, [BrokerNext]_brokerVars
  PROVE  BInv'
<1>1. ASSUME NEW c \in Calls, CallStep(c) \/ NotExecuted(c)
      PROVE  BInv'
  BY <1>1, QuietCallBInv, RaiseBarrierBInv, ExecuteBInv, ClearBarrierBInv, CommitBInv, Zenon DEF
     CallStep
<1> QED BY <1>1, QuietBInv, LoginBInv DEF BrokerNext

\* The inductive invariant holds of the broker by itself, whatever control
\* operations, calls and restarts come in whatever order.
THEOREM BrokerInvariant == BrokerSpec => []BInv
<1>1. BInv /\ [BrokerNext]_brokerVars => BInv'
  BY StepBInv, Zenon
<1> QED BY InitBInv, <1>1, PTL DEF BrokerSpec

\* The provider is never asked twice with one generation of one record: the
\* barrier _persist_refresh_barrier writes before the mutex is left outlives
\* every call, lost result, replacement and restart.
THEOREM StatesSpentOnce == BrokerSpec => []NoReplay
<1>1. BInv => NoReplay
  BY Zenon DEF BInv
<1> QED BY BrokerInvariant, <1>1, PTL

\* Only a login puts another record into the vault, and its number is new.
LEMMA StepKeepsRemoved ==
  ASSUME BInv, [BrokerNext]_brokerVars, vault' # None
  PROVE  \/ vault'.record > made
         \/ /\ vault # None /\ vault'.record = vault.record
            /\ vault'.generation >= vault.generation
<1> USE DEF BInv, NoReplay, TypeOK, Record, Records, Generations
<1>1. CASE UNCHANGED vault
  BY <1>1
<1> DEFINE Forward == /\ vault # None /\ vault'.record = vault.record
                   /\ vault'.generation >= vault.generation
<1>2. ASSUME NEW c \in Calls, RaiseBarrier(c) \/ ClearBarrier(c) \/ Commit(c)
      PROVE  Forward
  <2>1. CASE RaiseBarrier(c)
    BY <2>1 DEF RaiseBarrier, MustRenew, Known
  <2>2. CASE ClearBarrier(c)
    BY <2>2 DEF ClearBarrier, Matches
  <2>3. CASE Commit(c)
    BY <2>3 DEF Commit, Matches, Renewed
  <2> QED BY <1>2, <2>1, <2>2, <2>3
<1>3. ASSUME Expire \/ IssueHandle  PROVE  Forward
  <2>1. CASE Expire
    BY <2>1 DEF Expire
  <2>2. CASE IssueHandle
    BY <2>2 DEF IssueHandle
  <2> QED BY <1>3, <2>1, <2>2
<1>4. CASE Login
  BY <1>4 DEF Login
<1>5. CASE Logout
  BY <1>5, Zenon DEF Logout
<1>6. ASSUME NEW c \in Calls,
             \/ Resolve(c) \/ Acquire(c) \/ Busy(c) \/ LookAgain(c) \/ Execute(c)
             \/ OutcomeUnknown(c) \/ NotExecuted(c)
      PROVE  UNCHANGED vault
  BY <1>6, Zenon DEF Resolve, Acquire, Busy, LookAgain, Execute, OutcomeUnknown, NotExecuted
<1>7. ASSUME Restart \/ Unlock \/ UNCHANGED brokerVars  PROVE UNCHANGED vault
  BY <1>7, Zenon DEF Restart, Unlock, brokerVars
<1> QED BY <1>1, <1>2, <1>3, <1>4, <1>5, <1>6, <1>7 DEF BrokerNext, CallStep

\* A result that comes late never brings a replaced or removed record back
\* (the snapshot comparison before every save).
THEOREM RemovedNeverReturns == BrokerSpec => RemovedStays
<1>1. BInv /\ [BrokerNext]_brokerVars =>
        [vault' # None =>
           \/ vault'.record > made
           \/ /\ vault # None /\ vault'.record = vault.record
              /\ vault'.generation >= vault.generation]_brokerVars
  BY StepKeepsRemoved, Zenon
<1> QED BY BrokerInvariant, <1>1, PTL DEF BrokerSpec, RemovedStays

------------------------------------------------------------------------------
(* The commands.                                                           *)

Commands ==
  [at : {"idle", "decided", "acting", "unsure", "done", "final"}, got : Records \cup {None}]

\* The type of the journal; a command under way has its decision on disk.
JournalType ==
  /\ decision \in Decisions \cup {None}
  /\ cmd \in Commands
  /\ manifest \in Manifests \cup {None}
  /\ cmd.at # "idle" => decision \in Decisions
  /\ decision \in Decisions => decision.since <= made

\* A record from before the login was decided is the one status reported then,
\* or the one that was barred then; a session stays barred.
OldRecordInv ==
  decision \in Decisions /\ decision.task = "login" /\ vault # None =>
    \/ vault.record > decision.since
    \/ vault.record = decision.previous
    \/ vault.record = decision.hidden /\ (kind = "renewable" => Barred)

\* What a login is about to be reported for is newer, or the one record of a
\* signing credential that was barred.
Newer(record) ==
  record > decision.since \/ (kind = "signing" /\ record = decision.hidden)

ResultInv ==
  decision \in Decisions /\ decision.task = "login" /\ cmd.at = "done" =>
    cmd.got \in Records /\ Newer(cmd.got)

AInv == BInv /\ JournalType /\ OldRecordInv /\ ResultInv /\ LoginMakesRecord

------------------------------------------------------------------------------
\* Every step of the commands is a step of the broker or leaves it alone.
LEMMA StepImplements ==
  ASSUME [Next]_vars
  PROVE  [BrokerNext]_brokerVars
<1> SUFFICES ASSUME Next  PROVE [BrokerNext]_brokerVars
  BY Zenon DEF vars, brokerVars
<1>1. ASSUME NEW task \in Tasks, Begin(task)  PROVE UNCHANGED brokerVars
  BY <1>1, Zenon DEF Begin
<1>2. ASSUME Resume \/ FoundDone \/ FoundOther \/ FoundAsBefore \/ ActFails \/ Settle
             \/ Finalize \/ Retire \/ Die \/ OtherMutation \/ DeleteContext \/ ManifestChanges
      PROVE  UNCHANGED brokerVars
  BY <1>2, Zenon DEF Resume, FoundDone, FoundOther, FoundAsBefore, ActFails, Settle, Finalize,
     Retire, Die, OtherMutation, DeleteContext, ManifestChanges
<1>3. ASSUME Act \/ ActUnanswered  PROVE Login \/ Logout
  BY <1>3, Zenon DEF Act, ActUnanswered, BrokerActs
<1>4. ASSUME ClusterUp  PROVE Unlock
  BY <1>4, Zenon DEF ClusterUp
<1>5. ASSUME BrokerRestarts  PROVE Restart
  BY <1>5, Zenon DEF BrokerRestarts
<1>6. ASSUME CompanionAway \/ BrokerServes
      PROVE  (\E c \in Calls : CallStep(c) \/ NotExecuted(c)) \/ Expire \/ IssueHandle
  BY <1>6, Zenon DEF CompanionAway, BrokerServes
<1> QED BY <1>1, <1>2, <1>3, <1>4, <1>5, <1>6 DEF Next, CommandStep, BrokerNext

\* Every behaviour of the commands and the broker is one of the broker.
THEOREM ImplementsBroker == Spec => BrokerSpec
<1>1. Init => BrokerInit
  BY Zenon DEF Init
<1>2. [Next]_vars => [BrokerNext]_brokerVars
  BY StepImplements, Zenon
<1> QED BY <1>1, <1>2, PTL DEF Spec, BrokerSpec

\* What the broker guarantees by itself it guarantees under the commands: no
\* state is spent twice.
THEOREM StatesSpentOnceHere == Spec => []NoReplay
  BY ImplementsBroker, StatesSpentOnce, PTL

\* And no late renewal brings back what a login or a logout replaced.
THEOREM RemovedNeverReturnsHere == Spec => RemovedStays
  BY ImplementsBroker, RemovedNeverReturns, PTL

------------------------------------------------------------------------------
\* The broker never changes its kind and never forgets how many it made.
LEMMA BrokerFacts ==
  ASSUME BInv, [BrokerNext]_brokerVars
  PROVE  kind' = kind /\ made' >= made
<1> USE DEF BInv, NoReplay, TypeOK
<1>1. ASSUME NEW c \in Calls, CallStep(c) \/ NotExecuted(c)
      PROVE  kind' = kind /\ made' = made
  BY <1>1, Zenon DEF CallStep, Resolve, Acquire, Busy, LookAgain, RaiseBarrier, Execute,
     OutcomeUnknown, NotExecuted, ClearBarrier, Commit
<1>2. ASSUME Expire \/ Logout \/ IssueHandle \/ Restart \/ Unlock \/ UNCHANGED brokerVars
      PROVE  kind' = kind /\ made' = made
  BY <1>2, Zenon DEF Expire, Logout, IssueHandle, Restart, Unlock, brokerVars
<1>3. ASSUME Login  PROVE kind' = kind /\ made' = made + 1
  BY <1>3, Zenon DEF Login
<1> QED BY <1>1, <1>2, <1>3, BrokerAssumption DEF BrokerNext

\* A barred session stays barred until it is replaced: its task is nobody's
\* who could still commit or clear it.
LEMMA BarredStays ==
  ASSUME BInv, [BrokerNext]_brokerVars, kind = "renewable", Barred,
         vault' # None, vault'.record = vault.record
  PROVE  Barred'
<1> USE DEF BInv, NoReplay, TypeOK, Record, Records, Generations, Barred
<1>1. ASSUME NEW c \in Calls, Commit(c) \/ ClearBarrier(c)  PROVE ~Matches(c)
  BY <1>1, Zenon DEF Commit, ClearBarrier, Matches, ActiveInv, UnaskedInv
<1>2. ASSUME NEW c \in Calls, Commit(c) \/ ClearBarrier(c)  PROVE Barred'
  BY <1>1, <1>2, Zenon DEF Commit, ClearBarrier, Finish
<1>3. ASSUME NEW c \in Calls, RaiseBarrier(c)  PROVE FALSE
  BY <1>3, Zenon DEF RaiseBarrier, MustRenew
<1>4. ASSUME NEW c \in Calls, LookAgain(c) \/ OutcomeUnknown(c) \/ NotExecuted(c)  PROVE Barred'
  BY <1>4, Zenon DEF LookAgain, OutcomeUnknown, NotExecuted, Finish
<1>5. ASSUME NEW c \in Calls, Resolve(c) \/ Acquire(c) \/ Busy(c) \/ Execute(c)  PROVE Barred'
  BY <1>5, Zenon DEF Resolve, Acquire, Busy, Execute
<1>6. ASSUME Expire \/ IssueHandle  PROVE Barred'
  BY <1>6, Zenon DEF Expire, IssueHandle
<1>7. ASSUME Login  PROVE FALSE
  BY <1>7 DEF Login, RecordsInv
<1>8. ASSUME Logout  PROVE FALSE
  BY <1>8, Zenon DEF Logout
<1>9. ASSUME Restart \/ Unlock \/ UNCHANGED brokerVars  PROVE Barred'
  BY <1>9, Zenon DEF Restart, Unlock, brokerVars
<1> QED BY <1>2, <1>3, <1>4, <1>5, <1>6, <1>7, <1>8, <1>9, Zenon DEF BrokerNext, CallStep

\* While the decision keeps its task and what it noted, a step of the broker
\* leaves old records old.
LEMMA OldRecordStays ==
  ASSUME BInv, [BrokerNext]_brokerVars, OldRecordInv, JournalType,
         decision' \in Decisions =>
           /\ decision \in Decisions /\ decision'.task = decision.task
           /\ decision'.previous = decision.previous /\ decision'.since = decision.since
           /\ decision'.hidden = decision.hidden
  PROVE  OldRecordInv'
<1> SUFFICES ASSUME decision' \in Decisions, decision'.task = "login",
                    vault' # None, ~(vault'.record > decision'.since)
             PROVE  \/ vault'.record = decision'.previous
                    \/ vault'.record = decision'.hidden /\ (kind' = "renewable" => Barred')
  BY Zenon DEF OldRecordInv
<1>1. decision \in Decisions /\ decision.since <= made /\ decision.since \in Nat /\ made \in Nat
  BY BrokerAssumption DEF JournalType, Decisions, BInv, NoReplay, TypeOK
<1>2. vault # None /\ vault'.record = vault.record
  <2>1. ~(vault'.record > made)
    <3>1. vault'.record \in Nat
      BY StepBInv, BrokerAssumption DEF BInv, NoReplay, TypeOK, Record, Records
    <3> QED BY <1>1, <3>1
  <2> QED BY <2>1, StepKeepsRemoved
<1>3. \/ vault.record = decision.previous
      \/ vault.record = decision.hidden /\ (kind = "renewable" => Barred)
  BY <1>2, Zenon DEF OldRecordInv
<1> QED BY <1>2, <1>3, BarredStays, BrokerFacts

------------------------------------------------------------------------------
\* Status reports the vault's record, which for a login that was decided is
\* newer unless it is the one noted, or was barred then and is signed for.
LEMMA StatusIsNewer ==
  ASSUME AInv, decision \in Decisions, decision.task = "login",
         Status # None, Status # decision.previous
  PROVE  Status \in Records /\ Newer(Status)
<1>1. vault # None /\ ~Barred /\ Status = vault.record /\ vault.record \in Records
  BY Zenon DEF Status, AInv, BInv, NoReplay, TypeOK, Record
<1>2. kind = "renewable" \/ kind = "signing"
  BY BrokerAssumption, Zenon DEF AInv, BInv, NoReplay, TypeOK
<1> QED BY <1>1, <1>2, Zenon DEF Newer, AInv, OldRecordInv

\* Nothing is decided at the start.
LEMMA InitAInv == Init => AInv
  BY InitBInv, BrokerAssumption, AuthAssumption DEF Init, AInv, NoCommand, Commands, JournalType,
     OldRecordInv, ResultInv, LoginMakesRecord

\* A new decision notes the record there is.
LEMMA BeginAInv ==
  ASSUME NEW task \in Tasks, AInv, BInv', Begin(task)
  PROVE  AInv'
<1> USE DEF AInv, Begin, Goes
<1> DEFINE barred == IF Barred THEN vault.record ELSE None
<1>1. Status \in Records \cup {None} /\ barred \in Records \cup {None} /\ manifest \in Manifests
  BY Zenon DEF Status, Barred, BInv, NoReplay, TypeOK, Record, JournalType
<1>2. decision' \in Decisions /\ decision'.since = made /\ decision'.result = Pending
      /\ decision'.task = task /\ decision'.previous = Status
      /\ decision'.hidden = barred
  BY <1>1, Zenon DEF Decisions, BInv, NoReplay, TypeOK
<1>3. JournalType'
  BY <1>2, BrokerAssumption DEF JournalType, Commands, brokerVars, BInv, NoReplay, TypeOK
<1>4. OldRecordInv'
  BY <1>2, Zenon DEF OldRecordInv, Status, Barred, brokerVars
<1>5. ResultInv' /\ LoginMakesRecord'
  BY <1>2, Zenon DEF ResultInv, LoginMakesRecord, brokerVars
<1> QED BY <1>3, <1>4, <1>5

\* A command that goes on without touching its decision.
LEMMA CommandAInv ==
  ASSUME AInv, BInv', [BrokerNext]_brokerVars,
         \/ Resume \/ FoundDone \/ FoundOther \/ FoundAsBefore \/ Act \/ ActUnanswered
         \/ ActFails \/ Settle \/ Die
  PROVE  AInv'
<1> USE DEF AInv
<1>1. UNCHANGED <<decision, terminal, manifest>>
  BY Zenon DEF Resume, FoundDone, FoundOther, FoundAsBefore, Act, ActUnanswered, ActFails, Settle,
     Die
<1>2. kind' = kind /\ made' >= made
  BY BrokerFacts, Zenon
<1>3. Status \in Records \cup {None}
  BY Zenon DEF Status, BInv, NoReplay, TypeOK, Record
<1>4. decision \in Decisions \/ cmd' = NoCommand
  BY Zenon DEF Resume, FoundDone, FoundOther, FoundAsBefore, Act, ActUnanswered, ActFails, Settle,
     Die, Ends, JournalType, NoCommand
<1>5. Act /\ decision.task = "login" => vault'.record = made + 1 /\ made + 1 \in Records
  BY BrokerAssumption DEF Act, BrokerActs, Login, BInv, NoReplay, TypeOK, Records
<1>6. cmd' \in Commands
  BY <1>3, <1>5 DEF Resume, FoundDone, FoundOther, FoundAsBefore, Act, ActUnanswered, ActFails,
     Settle, Die, Ends, Goes, NoCommand, Commands
<1>7. JournalType'
  BY <1>1, <1>2, <1>4, <1>6, BrokerAssumption
  DEF JournalType, Decisions, NoCommand, BInv, NoReplay, TypeOK
<1>8. OldRecordInv'
  BY <1>1, OldRecordStays, Zenon
<1>9. ResultInv'
  <2> SUFFICES ASSUME decision \in Decisions, decision.task = "login", cmd'.at = "done"
               PROVE  cmd'.got \in Records /\ Newer(cmd'.got)
    BY <1>1, <1>2, Zenon DEF ResultInv, Newer
  <2>1. CASE FoundDone \/ Settle
    BY <2>1, StatusIsNewer DEF FoundDone, Settle, Consequence, Goes, Ends, NoCommand
  <2>2. CASE Act
    BY <2>2, <1>5, BrokerAssumption
    DEF Newer, Act, Goes, BrokerActs, Login, JournalType, Decisions, BInv, NoReplay, TypeOK, Records
  <2>3. CASE Resume \/ FoundOther \/ FoundAsBefore \/ ActUnanswered \/ ActFails \/ Die
    BY <2>3 DEF Resume, FoundOther, FoundAsBefore, ActUnanswered, ActFails, Die, Goes, Ends,
       NoCommand
  <2> QED BY <2>1, <2>2, <2>3
<1>10. LoginMakesRecord'
  BY <1>1, <1>2, Zenon DEF LoginMakesRecord
<1> QED BY <1>7, <1>8, <1>9, <1>10

\* The result written is the one the command holds.
LEMMA FinalizeAInv ==
  ASSUME AInv, BInv', Finalize
  PROVE  AInv'
<1> USE DEF AInv, Finalize, Goes
<1>1. decision \in Decisions /\ cmd.got \in Records \cup {None}
  BY Zenon DEF JournalType, Commands
<1>2. /\ decision' \in Decisions /\ decision'.result = cmd.got
      /\ decision'.task = decision.task /\ decision'.previous = decision.previous
      /\ decision'.since = decision.since /\ decision'.hidden = decision.hidden
  BY <1>1, Zenon DEF Decisions
<1>3. JournalType'
  BY <1>1, <1>2, Zenon DEF JournalType, Commands, brokerVars
<1>4. OldRecordInv'
  BY <1>1, <1>2, OldRecordStays, Zenon
<1>5. ResultInv'
  BY Zenon DEF ResultInv
<1>6. LoginMakesRecord'
  BY <1>1, <1>2, Zenon DEF LoginMakesRecord, ResultInv, Newer, brokerVars
<1> QED BY <1>3, <1>4, <1>5, <1>6

\* The receipt says what the decision said; other operations drop it.
LEMMA RestAInv ==
  ASSUME AInv, BInv', [BrokerNext]_brokerVars,
         \/ Retire \/ ClusterUp \/ OtherMutation \/ DeleteContext
         \/ BrokerRestarts \/ CompanionAway \/ ManifestChanges \/ BrokerServes \/ UNCHANGED vars
  PROVE  AInv'
<1> USE DEF AInv
<1>1. \/ decision' = decision /\ cmd' = cmd /\ terminal' \in {terminal, None}
      \/ decision' = None /\ cmd' = NoCommand /\ terminal' = decision
  BY Zenon DEF Retire, Ends, ClusterUp, OtherMutation, DeleteContext, BrokerRestarts, CompanionAway,
     ManifestChanges, BrokerServes, journal, vars
<1>2. /\ kind' = kind /\ made' >= made
      /\ manifest' \in Manifests \cup {None}
  <2>1. manifest' \in Manifests \cup {None}
    BY Zenon DEF JournalType, Retire, ClusterUp, OtherMutation, DeleteContext, BrokerRestarts,
       CompanionAway, ManifestChanges, BrokerServes, vars
  <2> QED BY <2>1, BrokerFacts, Zenon
<1>3. JournalType'
  BY <1>1, <1>2, BrokerAssumption, AuthAssumption
  DEF JournalType, Decisions, Commands, NoCommand, BInv, NoReplay, TypeOK
<1>4. OldRecordInv'
  BY <1>1, AuthAssumption, OldRecordStays, Zenon
<1>5. ResultInv'
  BY <1>1, <1>2, AuthAssumption, Zenon DEF ResultInv, Newer
<1>6. LoginMakesRecord'
  BY <1>1, <1>2 DEF LoginMakesRecord
<1> QED BY <1>3, <1>4, <1>5, <1>6

\* Every step of the commands and of the broker keeps the invariant.
LEMMA StepAInv ==
  ASSUME AInv, [Next]_vars
  PROVE  AInv'
<1>1. [BrokerNext]_brokerVars
  BY StepImplements, Zenon
<1>2. BInv'
  BY <1>1, StepBInv, Zenon DEF AInv
<1> QED BY <1>1, <1>2, BeginAInv, CommandAInv, FinalizeAInv, RestAInv DEF Next, CommandStep

\* A login, whatever the kind of credential, is reported only for a record made
\* after it was decided, however its command was interrupted and repeated and
\* whatever was renewed meanwhile (finalContextAuthConsequence, and Settle after
\* an attempt without an answer); but for a signing credential whose record was
\* barred at the decision and is released when its companion was not asked.
THEOREM LoginReportsNewRecord == Spec => []LoginMakesRecord
<1>1. AInv /\ [Next]_vars => AInv'
  BY StepAInv, Zenon
<1>2. AInv => LoginMakesRecord
  BY Zenon DEF AInv
<1> QED BY InitAInv, <1>1, <1>2, PTL DEF Spec
====
