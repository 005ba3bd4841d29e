---- MODULE PermissionWaits ----
(***************************************************************************)
(* Waiting for a reviewed permission.  Gateway refuses a request it could  *)
(* have reviewed, registers a wait with the owner of the Workspace's       *)
(* interactive session, and tells the workload the wait's identifier.  A   *)
(* helper in the Workspace asks the owner for the outcome over a           *)
(* connection that may break; the owner looks at the live policy until it  *)
(* allows or denies, the wait expires, or the owner itself goes away.      *)
(*                                                                         *)
(* One owner (its memory, its heartbeat, its row in the session registry), *)
(* Gateway's requests, the helpers' calls and the settlements of the       *)
(* policy run side by side.  Time passes in ticks; a deadline is the       *)
(* number of ticks left.                                                   *)
(***************************************************************************)
EXTENDS Naturals, FiniteSets

CONSTANTS
  Waits,        \* wait identifiers, one for each refused request
  MaxCalls,     \* bound: connections helpers have open to the owner at a time
  MaxLive,      \* PermissionWaitMaxLive
  MaxAttempts,  \* PermissionWaitMaxAttempts
  Lease,        \* PermissionSessionLease, in ticks
  WaitLease,    \* PermissionWaitLease, in ticks
  Reviews,      \* what a review may decide: "allow", "deny"
  MaxRev,       \* bound: policy revisions
  NoRow         \* no row, or another owner's

ASSUME WaitsAssumption ==
  /\ {MaxLive, MaxAttempts, Lease, WaitLease} \subseteq Nat \ {0}
  /\ {MaxCalls, MaxRev} \subseteq Nat
  /\ Waits # {} /\ Reviews \subseteq {"allow", "deny"}
  /\ NoRow \notin [left : 0..Lease]

VARIABLES
  row,      \* the registry row of the Workspace: whose, and its lease
  owner,    \* "open", "closing", "invalid" or "gone"
  expiry,   \* the lease the owner's memory knows of
  beat,     \* the heartbeat: "idle", or "written" before RenewOwner
  records,  \* the waits the owner holds
  active,   \* those with an attempt under way
  tries,    \* attempts of each wait
  left,     \* until each wait expires
  gate,     \* Gateway's request behind each wait
  sent,     \* registrations on their way to the owner
  force,    \* the active receipt: its revision, and what it says of the requests
  opa,      \* the policy the live evaluator has
  said,     \* everything an active receipt has said so far (auxiliary)
  call,     \* the helpers' calls
  ended     \* how often each wait came to a result (auxiliary)

session == <<row, owner, expiry, beat>>
held == <<records, active, tries>>
policy == <<force, opa, said>>
vars == <<row, owner, expiry, beat, records, active, tries, left, gate, sent,
          force, opa, said, call, ended>>

Results == {"allow", "deny", "expired"}
Calls == 1..MaxCalls

Idle == [at |-> "idle", wait |-> CHOOSE w \in Waits : TRUE, rev |-> 0, saw |-> "pending",
         result |-> "fault"]

Init ==
  /\ row = [left |-> Lease]
  /\ owner = "open"
  /\ expiry = Lease
  /\ beat = "idle"
  /\ records = {} /\ active = {} /\ sent = {}
  /\ tries = [w \in Waits |-> 0]
  /\ left = [w \in Waits |-> 0]
  /\ gate = [w \in Waits |-> "none"]
  /\ force = [rev |-> 1, of |-> "pending"]
  /\ opa = force
  /\ said = {"pending"}
  /\ call = [c \in Calls |-> Idle]
  /\ ended = [w \in Waits |-> 0]

-----------------------------------------------------------------------------
(* The owner: its lease and its end *)

Mine == row # NoRow

\* permissionSessionLeaseCurrent
RowCurrent == Mine /\ row.left > 0

\* ownerCurrentLocked
OwnerCurrent == owner \in {"open", "closing"} /\ expiry > 0

\* renew: the row is read and written under the registry's lock,
RenewRow ==
  /\ owner \in {"open", "closing", "invalid"}
  /\ beat = "idle"
  /\ RowCurrent /\ row.left < Lease
  /\ row' = [row EXCEPT !.left = Lease]
  /\ beat' = "written"
  /\ UNCHANGED <<owner, expiry, held, left, gate, sent, policy, call, ended>>

\* Altered: the owner counts a whole lease from when it hears of it.
RenewOwnerAfresh ==
  /\ beat = "written"
  /\ beat' = "idle"
  /\ IF owner \in {"open", "closing"} THEN expiry' = Lease ELSE UNCHANGED expiry
  /\ UNCHANGED <<row, owner, held, left, gate, sent, policy, call, ended>>

\* and RenewOwner gives the waits the same deadline; it refuses once they are
\* invalidated.
RenewOwner ==
  /\ beat = "written"
  /\ beat' = "idle"
  /\ IF owner \in {"open", "closing"}
     THEN expiry' = IF Mine THEN row.left ELSE 0
     ELSE UNCHANGED expiry
  /\ UNCHANGED <<row, owner, held, left, gate, sent, policy, call, ended>>

\* failClosed, by the end of the session or by a heartbeat or an accept that
\* failed: every connection is closed,
CloseTransport ==
  /\ owner = "open"
  /\ owner' = "closing"
  /\ UNCHANGED <<row, expiry, beat, held, left, gate, sent, policy, call, ended>>

\* the waits are invalidated,
Invalidate ==
  /\ owner = "closing"
  /\ owner' = "invalid"
  /\ UNCHANGED <<row, expiry, beat, held, left, gate, sent, policy, call, ended>>

\* and the exact row is removed.
CleanupAuthority ==
  /\ owner = "invalid"
  /\ owner' = "gone"
  /\ row' = IF Mine THEN NoRow ELSE row
  /\ UNCHANGED <<expiry, beat, held, left, gate, sent, policy, call, ended>>

\* Another entry replaces an expired row nobody answers for by its own.
Succeed ==
  /\ Mine /\ row.left = 0
  /\ owner # "open"
  /\ row' = NoRow
  /\ UNCHANGED <<owner, expiry, beat, held, left, gate, sent, policy, call, ended>>

-----------------------------------------------------------------------------
(* Gateway: _permission_resume *)

\* PermissionSessionSource.resolve finds the one current row; the record is
\* made, and sent to the owner's endpoint.
Resolve(w) ==
  /\ gate[w] = "none"
  /\ RowCurrent
  /\ gate' = [gate EXCEPT ![w] = "sent"]
  /\ left' = [left EXCEPT ![w] = WaitLease]
  /\ sent' = sent \cup {w}
  /\ UNCHANGED <<session, held, policy, call, ended>>

\* Altered: a record outlives its deadline.
NeverExpired(w) == left[w] < 0

\* PermissionWaitRecord.Expired
Expired(w) == left[w] = 0

Answered(w, fits) ==
  gate' = [gate EXCEPT ![w] = IF @ # "sent" \/ owner # "open" THEN @
                              ELSE IF fits THEN "acked" ELSE "dropped"]

\* Register: expired records nobody waits on make room, and a full registry
\* refuses.  The acknowledgement finds Gateway waiting, or not any more.
Register(w) ==
  /\ w \in sent
  /\ sent' = sent \ {w}
  /\ owner \in {"open", "closing"}
  /\ LET live == OwnerCurrent /\ ~Expired(w)
         kept == {v \in records : ~Expired(v) \/ v \in active}
         fits == live /\ Cardinality(kept) < MaxLive
     IN  /\ records' = IF ~live THEN records ELSE IF fits THEN kept \cup {w} ELSE kept
         /\ tries' = [v \in Waits |-> IF v \in records' THEN tries[v] ELSE 0]
         /\ Answered(w, fits)
  /\ UNCHANGED <<session, active, left, policy, call, ended>>

\* The connection fails or takes too long; what was sent may arrive later, or
\* never.
RegisterTimesOut(w) ==
  /\ gate[w] \in {"sent", "acked"}
  /\ gate' = [gate EXCEPT ![w] = "dropped"]
  /\ UNCHANGED <<session, held, left, sent, policy, call, ended>>

\* PermissionSessionSource.confirm: the row is still the same owner's; only
\* then the denial names the wait.
Confirm(w) ==
  /\ gate[w] = "acked"
  /\ gate' = [gate EXCEPT ![w] = IF RowCurrent THEN "shown" ELSE "dropped"]
  /\ UNCHANGED <<session, held, left, sent, policy, call, ended>>

-----------------------------------------------------------------------------
(* The helpers' calls: WaitPermission *)

Call(c, fields) == call' = [call EXCEPT ![c] = fields]
To(c, place) == Call(c, [call[c] EXCEPT !.at = place])

\* StartAttempt
StartAttempt(w) == w \in records /\ w \notin active /\ tries[w] < MaxAttempts

\* begin, on the next free connection: anything else is one fault that tells
\* nothing apart.
Begin(c, w) ==
  /\ call[c].at = "idle"
  /\ \A b \in Calls : b < c => call[b].at # "idle"
  /\ gate[w] = "shown"
  /\ owner = "open" /\ OwnerCurrent
  /\ StartAttempt(w)
  /\ tries' = [tries EXCEPT ![w] = @ + 1]
  /\ active' = active \cup {w}
  /\ Call(c, [Idle EXCEPT !.at = "check", !.wait = w])
  /\ UNCHANGED <<session, records, left, gate, sent, policy, ended>>

\* Altered: a result does not consume its record.
FinishKeeping(c, result) ==
  LET w == call[c].wait
      terminal == result \in Results
  IN  /\ active' = active \ {w}
      /\ UNCHANGED <<records, tries>>
      /\ ended' = IF terminal THEN [ended EXCEPT ![w] = @ + 1] ELSE ended
      /\ Call(c, [call[c] EXCEPT !.at = "reply", !.result = result])

\* finish: the attempt is over, and a terminal one takes the record with it.
Finish(c, result) ==
  LET w == call[c].wait
      terminal == result \in Results
  IN  /\ active' = active \ {w}
      /\ records' = IF terminal THEN records \ {w} ELSE records
      /\ tries' = IF terminal THEN [tries EXCEPT ![w] = 0] ELSE tries
      /\ ended' = IF terminal THEN [ended EXCEPT ![w] = @ + 1] ELSE ended
      /\ Call(c, [call[c] EXCEPT !.at = "reply", !.result = result])

\* The loop's head: the owner first, then the wait's own deadline; then
\* ObservePermissionDisposition reads the active receipt
Check(c) ==
  /\ call[c].at = "check"
  /\ IF ~OwnerCurrent THEN Finish(c, "fault")
     ELSE IF Expired(call[c].wait) THEN Finish(c, "expired")
     ELSE /\ Call(c, [call[c] EXCEPT !.at = "observe", !.rev = force.rev])
          /\ UNCHANGED <<held, ended>>
  /\ UNCHANGED <<session, left, gate, sent, policy>>

\* Altered: whatever the evaluator says is taken.
ObserveAny(c) ==
  /\ call[c].at = "observe"
  /\ Call(c, [call[c] EXCEPT !.at = "fence", !.saw = opa.of])
  /\ UNCHANGED <<session, held, left, gate, sent, policy, ended>>

\* and asks the live evaluator: another revision decides nothing.
Observe(c) ==
  /\ call[c].at = "observe"
  /\ Call(c, [call[c] EXCEPT !.at = "fence",
                             !.saw = IF opa.rev = call[c].rev THEN opa.of
                                     ELSE "pending"])
  /\ UNCHANGED <<session, held, left, gate, sent, policy, ended>>

\* fenceTerminal and what follows it: both deadlines are looked at again.  The
\* code lets go of the registry's lock between this and finish; what others do in
\* between (an attempt is active until finish) they could do just after it.
Fence(c) ==
  /\ call[c].at = "fence"
  /\ IF ~OwnerCurrent THEN Finish(c, "fault")
     ELSE IF Expired(call[c].wait) THEN Finish(c, "expired")
     ELSE IF call[c].saw # "pending" THEN Finish(c, call[c].saw)
     ELSE To(c, "sleep") /\ UNCHANGED <<held, ended>>
  /\ UNCHANGED <<session, left, gate, sent, policy>>

\* The delay before the next observation ends,
Wake(c) ==
  /\ call[c].at = "sleep"
  /\ owner \in {"open", "closing"}
  /\ To(c, "check")
  /\ UNCHANGED <<session, held, left, gate, sent, policy, ended>>

\* or the call is interrupted: the helper hangs up, the connection is closed or
\* breaks, the observation fails, or the waits were invalidated.
Interrupt(c) ==
  /\ call[c].at \in {"observe", "sleep"}
  /\ Finish(c, "fault")
  /\ UNCHANGED <<session, left, gate, sent, policy>>

\* The response is written, to whoever is still there.  (The deadline of a wait
\* that came to its result is of no more use.)
Reply(c) ==
  /\ call[c].at = "reply"
  /\ Call(c, Idle)
  /\ left' = IF call[c].result \in Results THEN [left EXCEPT ![call[c].wait] = 0] ELSE left
  /\ UNCHANGED <<session, held, gate, sent, policy, ended>>

-----------------------------------------------------------------------------
(* The policy, and time *)

\* A settlement replaces the policy by the deny-all fence of its candidate,
\* whose revision no receipt names (nobody looks once the owner is gone),
FencePolicy(d) ==
  /\ opa = force
  /\ force.rev < MaxRev
  /\ d # force.of
  /\ owner # "gone"
  /\ opa' = [rev |-> 0, of |-> d]
  /\ UNCHANGED <<session, held, left, gate, sent, force, said, call, ended>>

\* loads the candidate,
OpenPolicy ==
  /\ opa.rev = 0
  /\ opa' = [opa EXCEPT !.rev = force.rev + 1]
  /\ UNCHANGED <<session, held, left, gate, sent, force, said, call, ended>>

\* and writes its receipt;
WriteReceipt ==
  /\ opa.rev > force.rev
  /\ force' = opa
  /\ said' = said \cup {opa.of}
  /\ UNCHANGED <<session, held, left, gate, sent, opa, call, ended>>

\* or is cut off before that, and repeated from the fence.
RepeatSettlement ==
  /\ opa.rev > force.rev
  /\ opa' = [opa EXCEPT !.rev = 0]
  /\ UNCHANGED <<session, held, left, gate, sent, force, said, call, ended>>

Less(n) == IF n = 0 THEN 0 ELSE n - 1

Tick ==
  /\ row' = IF ~Mine THEN row ELSE [row EXCEPT !.left = Less(@)]
  /\ expiry' = Less(expiry)
  /\ left' = [w \in Waits |-> Less(left[w])]
  /\ UNCHANGED <<owner, beat, held, gate, sent, policy, call, ended>>

CallStep(c) ==
  Check(c) \/ Observe(c) \/ Fence(c) \/ Wake(c) \/ Interrupt(c) \/ Reply(c)

Next ==
  \/ RenewRow \/ RenewOwner \/ CloseTransport \/ Invalidate \/ CleanupAuthority
  \/ Succeed
  \/ \E w \in Waits : Resolve(w) \/ Register(w) \/ RegisterTimesOut(w) \/ Confirm(w)
  \/ \E c \in Calls : CallStep(c) \/ \E w \in Waits : Begin(c, w)
  \/ \E d \in Reviews \cup {"pending"} : FencePolicy(d)
  \/ OpenPolicy \/ WriteReceipt \/ RepeatSettlement
  \/ Tick

Spec == Init /\ [][Next]_vars

\* Goroutines that can run do run, and time passes.
FairSpec == Spec /\ WF_vars(Tick) /\ \A c \in Calls : WF_vars(CallStep(c))

-----------------------------------------------------------------------------
(* Properties *)

Places == {"idle", "check", "observe", "fence", "sleep", "reply"}

CallRecords == [at : Places, wait : Waits, rev : Nat, saw : Reviews \cup {"pending"},
                result : Results \cup {"fault"}]

\* A call whose attempt is under way.
Busy(c) == call[c].at \notin {"idle", "reply"}

TypeOK ==
  /\ row \in {NoRow} \cup [left : 0..Lease]
  /\ owner \in {"open", "closing", "invalid", "gone"}
  /\ expiry \in 0..Lease
  /\ beat \in {"idle", "written"}
  /\ records \subseteq Waits /\ sent \subseteq Waits
  /\ active = {call[c].wait : c \in {b \in Calls : Busy(b)}}
  /\ active \subseteq records
  /\ tries \in [Waits -> 0..MaxAttempts]
  /\ left \in [Waits -> 0..WaitLease]
  /\ gate \in [Waits -> {"none", "sent", "acked", "shown", "dropped"}]
  /\ {force, opa} \subseteq [rev : Nat, of : Reviews \cup {"pending"}]
  /\ call \in [Calls -> CallRecords]
  /\ ended \in [Waits -> Nat]

\* A result is given out only while the owner's row stands in the registry with
\* a current lease: what the owner remembers of its lease never outlasts what
\* Gateway and the other entries read, however heartbeat, shutdown and the
\* observation are interleaved.
ResultUnderLease ==
  [][\A w \in Waits : ended'[w] # ended[w] => RowCurrent]_vars

\* A wait comes to one result at most, over all its attempts, and until then
\* one that was shown to the workload is held by the owner: capacity, other
\* requests and broken connections never take it away.
OneResult ==
  /\ TypeOK
  /\ \A w \in Waits :
       /\ ended[w] <= 1
       /\ gate[w] = "shown" => w \in records \/ ended[w] = 1 \/ Expired(w) \/ owner # "open"

\* "Allow" and "deny" are what an active receipt has said of the request: a
\* candidate whose receipt is not written is never reported, and "expired" is
\* reported of nothing but the wait's own deadline.
ResultWasInForce ==
  \A c \in Calls : call[c].at = "reply" =>
    /\ call[c].result \in {"allow", "deny"} => call[c].result \in said
    /\ call[c].result = "expired" => Expired(call[c].wait)

\* Every call ends, with a result or a fault: the poll is bounded by the wait's
\* own deadline, whatever the policy, the owner and the helper do.
CallsEnd == \A c \in Calls : call[c].at # "idle" ~> call[c].at = "idle"
====
