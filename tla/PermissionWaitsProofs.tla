---- MODULE PermissionWaitsProofs ----
(***************************************************************************)
(* A wait comes to one result, of a policy that was in force and under a   *)
(* current lease, for every set of waits, every number of calls and every  *)
(* bound.                                                                  *)
(*                                                                         *)
(* What carries it: a record the owner holds has had no result and is not  *)
(* on its way a second time; two attempts under way are for two waits; the *)
(* lease in the owner's memory never outlasts the row's; and a revision a  *)
(* call has read is one whose receipt was written.                         *)
(***************************************************************************)
EXTENDS PermissionWaits, TLAPS

\* What is held or on its way had no result, is not both, and was resolved by
\* Gateway; nothing has become of a wait that was not.
RecordInv ==
  \A w \in Waits :
    /\ w \in records \cup sent => ended[w] = 0 /\ gate[w] # "none"
    /\ w \notin records \cap sent
    /\ gate[w] = "none" => ended[w] = 0
    /\ gate[w] = "acked" => w \in records \/ ended[w] = 1 \/ Expired(w) \/ owner # "open"

\* Attempts under way are for different waits, and for waits of Gateway.
AttemptInv ==
  \A c \in Calls :
    /\ call[c].at # "idle" => gate[call[c].wait] # "none"
    /\ \A b \in Calls : Busy(b) /\ Busy(c) /\ call[b].wait = call[c].wait => b = c

\* While the owner may still answer, its lease is no longer than its row's.
LeaseInv == OwnerCurrent => Mine /\ expiry <= row.left

\* The evaluator has the receipt's policy, the fence or the next candidate; a
\* call has read a receipt's revision, and what it saw a receipt has said.
PolicyInv ==
  /\ force.rev > 0 /\ force.of \in said
  /\ opa = force \/ opa.rev = 0 \/ opa.rev = force.rev + 1
  /\ \A c \in Calls :
       /\ call[c].at = "observe" => call[c].rev \in 1..force.rev
       /\ call[c].at = "fence" => call[c].saw \in said \cup {"pending"}

WInv ==
  /\ OneResult /\ ResultWasInForce
  /\ RecordInv /\ AttemptInv /\ LeaseInv /\ PolicyInv

-----------------------------------------------------------------------------
\* Nothing is held, nothing is under way, and the lease is whole.
LEMMA InitWInv == Init => WInv
<1> SUFFICES ASSUME Init PROVE WInv
  OBVIOUS
<1> USE WaitsAssumption DEF Init
<1>1. Idle \in CallRecords /\ Idle.at = "idle"
  BY DEF Idle, CallRecords, Places, Results
<1>2. TypeOK
  BY <1>1 DEF TypeOK, Busy, Calls
<1>3. OneResult /\ ResultWasInForce /\ RecordInv /\ AttemptInv /\ PolicyInv
  BY <1>1, <1>2 DEF OneResult, ResultWasInForce, RecordInv, AttemptInv, PolicyInv, Busy, Calls
<1>4. LeaseInv
  BY DEF LeaseInv, OwnerCurrent, Mine
<1> QED
  BY <1>3, <1>4 DEF WInv

\* Heartbeat and shutdown touch the lease and nothing a call depends on; an
\* owner that closes never opens again.
LEMMA OwnerWInv ==
  ASSUME WInv, \/ RenewRow \/ RenewOwner \/ CloseTransport \/ Invalidate
               \/ CleanupAuthority \/ Succeed
  PROVE  WInv'
<1> USE WaitsAssumption
<1>1. UNCHANGED <<held, left, gate, sent, policy, call, ended>>
  BY DEF RenewRow, RenewOwner, CloseTransport, Invalidate, CleanupAuthority, Succeed
<1>2. owner' # "open" \/ owner = "open"
  BY DEF RenewRow, RenewOwner, CloseTransport, Invalidate, CleanupAuthority, Succeed
<1>3. /\ row' \in {NoRow} \cup [left : 0..Lease] /\ expiry' \in 0..Lease
      /\ owner' \in {"open", "closing", "invalid", "gone"} /\ beat' \in {"idle", "written"}
  BY DEF WInv, OneResult, TypeOK, RenewRow, RenewOwner, CloseTransport, Invalidate,
     CleanupAuthority, Succeed, Mine, RowCurrent
<1>4. LeaseInv'
  BY DEF WInv, OneResult, TypeOK, LeaseInv, OwnerCurrent, RenewRow, RenewOwner,
     CloseTransport, Invalidate, CleanupAuthority, Succeed, Mine, RowCurrent
<1>5. TypeOK'
  BY <1>1, <1>3 DEF WInv, OneResult, TypeOK, held, policy, Busy
<1>6. OneResult' /\ RecordInv'
  BY <1>1, <1>2, <1>5 DEF WInv, OneResult, RecordInv, Expired, held, policy
<1>7. AttemptInv' /\ PolicyInv' /\ ResultWasInForce'
  BY <1>1 DEF WInv, AttemptInv, PolicyInv, ResultWasInForce, Busy, Expired, policy
<1> QED
  BY <1>4, <1>6, <1>7 DEF WInv

\* Gateway resolves a wait once, so a record is new when it arrives.
LEMMA GatewayWInv ==
  ASSUME WInv, NEW w \in Waits, Resolve(w) \/ RegisterTimesOut(w) \/ Confirm(w)
  PROVE  WInv'
<1> USE WaitsAssumption
<1>1. UNCHANGED <<session, held, policy, call, ended>>
  BY DEF Resolve, RegisterTimesOut, Confirm
<1>2. /\ sent' \subseteq sent \cup {w}
      /\ \A v \in Waits \ {w} : gate'[v] = gate[v] /\ left'[v] = left[v]
      /\ gate' \in [Waits -> {"none", "sent", "acked", "shown", "dropped"}]
      /\ left' \in [Waits -> 0..WaitLease] /\ sent' \subseteq Waits
      /\ gate'[w] # "none"
  BY DEF WInv, OneResult, TypeOK, Resolve, RegisterTimesOut, Confirm
<1>3. \/ gate[w] = "none" /\ gate'[w] = "sent"
      \/ /\ gate[w] # "none" /\ left' = left /\ sent' = sent
         /\ gate'[w] = "dropped" \/ (gate[w] = "acked" /\ gate'[w] = "shown")
  BY DEF WInv, OneResult, TypeOK, Resolve, RegisterTimesOut, Confirm
<1>4. TypeOK'
  BY <1>1, <1>2 DEF WInv, OneResult, TypeOK, session, held, policy, Busy
<1>5. OneResult' /\ RecordInv'
  BY <1>1, <1>2, <1>3, <1>4 DEF WInv, OneResult, RecordInv, Expired, held, session
<1>6. AttemptInv'
  BY <1>1, <1>2 DEF WInv, OneResult, TypeOK, CallRecords, AttemptInv, Busy
<1>7. ResultWasInForce'
  BY <1>1, <1>2, <1>3 DEF WInv, OneResult, TypeOK, CallRecords, AttemptInv, ResultWasInForce, Expired, policy
<1>8. LeaseInv' /\ PolicyInv'
  BY <1>1 DEF WInv, LeaseInv, PolicyInv, OwnerCurrent, Mine, session, policy
<1> QED
  BY <1>5, <1>6, <1>7, <1>8 DEF WInv

\* A registration drops only records that expired with nobody waiting on them.
LEMMA RegisterWInv ==
  ASSUME WInv, NEW w \in Waits, Register(w)
  PROVE  WInv'
<1> USE WaitsAssumption
<1>1. /\ w \in sent /\ sent' = sent \ {w}
      /\ UNCHANGED <<session, active, left, policy, call, ended>>
  BY DEF Register
<1>2. /\ records' \subseteq records \cup {w}
      /\ \A v \in records \ records' : Expired(v) /\ v \notin active
      /\ \A v \in Waits \ {w} : gate'[v] = gate[v]
      /\ gate'[w] = gate[w] \/ (gate'[w] = "acked" /\ w \in records') \/ gate'[w] = "dropped"
      /\ gate' \in [Waits -> {"none", "sent", "acked", "shown", "dropped"}]
  BY DEF Register, Answered, WInv, OneResult, TypeOK
<1>3. tries' \in [Waits -> 0..MaxAttempts]
  BY DEF Register, WInv, OneResult, TypeOK
<1>4. TypeOK'
  BY <1>1, <1>2, <1>3 DEF WInv, OneResult, TypeOK, session, policy, Busy
<1>5. OneResult' /\ RecordInv'
  BY <1>1, <1>2, <1>4 DEF WInv, OneResult, TypeOK, RecordInv, Expired, session
<1>6. AttemptInv'
  BY <1>1, <1>2 DEF WInv, OneResult, TypeOK, CallRecords, AttemptInv, RecordInv, Busy
<1>7. ResultWasInForce' /\ LeaseInv' /\ PolicyInv'
  BY <1>1 DEF WInv, ResultWasInForce, LeaseInv, PolicyInv, OwnerCurrent, Mine, Expired,
     session, policy
<1> QED
  BY <1>5, <1>6, <1>7 DEF WInv

\* An attempt that ends frees its wait; a terminal one takes the record, and
\* with it every way to a second result.
LEMMA FinishWInv ==
  ASSUME WInv, NEW c \in Calls, Busy(c), NEW result \in Results \cup {"fault"},
         Finish(c, result), UNCHANGED <<session, left, gate, sent, policy>>,
         result \in {"allow", "deny"} => result \in said,
         result = "expired" => Expired(call[c].wait)
  PROVE  WInv'
<1> USE WaitsAssumption
<1> DEFINE w == call[c].wait
           terminal == result \in Results
<1>1. /\ w \in Waits /\ w \in active /\ w \in records
      /\ active' = active \ {w}
      /\ records' = IF terminal THEN records \ {w} ELSE records
      /\ ended' = IF terminal THEN [ended EXCEPT ![w] = @ + 1] ELSE ended
      /\ tries' \in [Waits -> 0..MaxAttempts]
  BY DEF Finish, WInv, OneResult, TypeOK, Busy
<1>2. /\ call' \in [Calls -> CallRecords]
      /\ call'[c].at = "reply" /\ call'[c].result = result /\ call'[c].wait = w
      /\ \A b \in Calls \ {c} : call'[b] = call[b]
  <2> DEFINE over == [call[c] EXCEPT !.at = "reply", !.result = result]
  <2>1. call[c] \in CallRecords
    BY DEF WInv, OneResult, TypeOK
  <2>2. over \in CallRecords /\ over.at = "reply" /\ over.result = result /\ over.wait = w
    BY <2>1 DEF CallRecords, Places
  <2>3. call' = [call EXCEPT ![c] = over]
    BY DEF Finish, Call
  <2> HIDE DEF over
  <2> QED
    BY <2>2, <2>3 DEF WInv, OneResult, TypeOK
<1>3. active' = {call'[b].wait : b \in {d \in Calls : Busy(d)'}}
  <2>1. \A b \in Calls \ {c} : Busy(b) => call[b].wait # w
    BY DEF WInv, AttemptInv
  <2>2. ~Busy(c)' /\ \A b \in Calls \ {c} : Busy(b)' <=> Busy(b)
    BY <1>2 DEF Busy
  <2> QED
    BY <1>1, <1>2, <2>1, <2>2 DEF WInv, OneResult, TypeOK
<1>4. ended[w] = 0 /\ w \notin sent /\ gate[w] # "none"
  BY <1>1 DEF WInv, RecordInv
<1>5. ended' \in [Waits -> Nat] /\ ended'[w] \in {0, 1}
      /\ (terminal => ended'[w] = 1) /\ \A v \in Waits \ {w} : ended'[v] = ended[v]
  BY <1>1, <1>4 DEF WInv, OneResult, TypeOK
<1>6. TypeOK'
  BY <1>1, <1>2, <1>3, <1>5 DEF WInv, OneResult, TypeOK, session, policy
<1>7. OneResult' /\ RecordInv'
  BY <1>1, <1>4, <1>5, <1>6 DEF WInv, OneResult, RecordInv, Expired, session
<1>8. AttemptInv'
  BY <1>2, <1>4 DEF WInv, AttemptInv, Busy
<1>9. ResultWasInForce'
  BY <1>2 DEF WInv, ResultWasInForce, Expired, policy, Results
<1>10. LeaseInv' /\ PolicyInv'
  BY <1>2 DEF WInv, LeaseInv, PolicyInv, OwnerCurrent, Mine, session, policy
<1> QED
  BY <1>7, <1>8, <1>9, <1>10 DEF WInv

\* A step of a call that keeps its attempt.
LEMMA StayWInv ==
  ASSUME WInv, NEW c \in Calls, Busy(c), NEW next \in CallRecords,
         call' = [call EXCEPT ![c] = next], next.at \notin {"idle", "reply"},
         next.wait = call[c].wait,
         next.at = "observe" => next.rev \in 1..force.rev,
         next.at = "fence" => next.saw \in said \cup {"pending"},
         UNCHANGED <<session, held, left, gate, sent, policy, ended>>
  PROVE  WInv'
<1> USE WaitsAssumption
<1>1. /\ call' \in [Calls -> CallRecords]
      /\ call'[c] = next /\ \A b \in Calls \ {c} : call'[b] = call[b]
  BY DEF WInv, OneResult, TypeOK
<1>2. \A b \in Calls : call'[b].wait = call[b].wait /\ (Busy(b)' <=> Busy(b))
  BY <1>1 DEF Busy
<1>3. TypeOK'
  BY <1>1, <1>2 DEF WInv, OneResult, TypeOK, session, held, policy
<1>4. OneResult' /\ RecordInv' /\ LeaseInv'
  BY <1>3 DEF WInv, OneResult, RecordInv, LeaseInv, OwnerCurrent, Mine, Expired, session, held
<1>5. AttemptInv'
  BY <1>1, <1>2 DEF WInv, AttemptInv, Busy
<1>6. ResultWasInForce' /\ PolicyInv'
  BY <1>1, <1>2 DEF WInv, ResultWasInForce, PolicyInv, Expired, policy
<1> QED
  BY <1>4, <1>5, <1>6 DEF WInv

\* An attempt starts on a wait that is held and that nobody else attempts.
LEMMA BeginWInv ==
  ASSUME WInv, NEW c \in Calls, NEW w \in Waits, Begin(c, w)
  PROVE  WInv'
<1> USE WaitsAssumption
<1> DEFINE new == [Idle EXCEPT !.at = "check", !.wait = w]
<1>1. /\ new \in CallRecords
      /\ new.at = "check" /\ new.wait = w
  BY DEF Idle, CallRecords, Places, Results
<1>2. /\ call' \in [Calls -> CallRecords]
      /\ call'[c] = new /\ \A b \in Calls \ {c} : call'[b] = call[b]
  BY <1>1 DEF Begin, Call, WInv, OneResult, TypeOK
<1> HIDE DEF new
<1>3. /\ w \in records /\ w \notin active /\ active' = active \cup {w} /\ ~Busy(c)
      /\ gate[w] = "shown" /\ tries' \in [Waits -> 0..MaxAttempts]
      /\ UNCHANGED <<session, records, left, gate, sent, policy, ended>>
  BY DEF Begin, StartAttempt, Busy, WInv, OneResult, TypeOK
<1>4. Busy(c)' /\ \A b \in Calls \ {c} : Busy(b)' <=> Busy(b)
  BY <1>1, <1>2 DEF Busy
<1>5. active' = {call'[b].wait : b \in {d \in Calls : Busy(d)'}}
  BY <1>1, <1>2, <1>3, <1>4 DEF WInv, OneResult, TypeOK
<1>6. TypeOK'
  BY <1>2, <1>3, <1>5 DEF WInv, OneResult, TypeOK, session, policy
<1>7. OneResult' /\ RecordInv' /\ LeaseInv'
  BY <1>3, <1>6 DEF WInv, OneResult, RecordInv, LeaseInv, OwnerCurrent, Mine, Expired, session
<1>8. AttemptInv'
  <2>1. \A b \in Calls : Busy(b) => call[b].wait # w
    BY <1>3 DEF WInv, OneResult, TypeOK
  <2> QED
    BY <1>1, <1>2, <1>3, <1>4, <2>1 DEF WInv, AttemptInv
<1>9. ResultWasInForce' /\ PolicyInv'
  BY <1>1, <1>2, <1>3 DEF WInv, ResultWasInForce, PolicyInv, Expired, policy
<1> QED
  BY <1>7, <1>8, <1>9 DEF WInv

\* The loop of WaitPermission: what a call observed of the revision it had read
\* is what that revision's receipt says.
LEMMA CallWInv ==
  ASSUME WInv, NEW c \in Calls,
         Check(c) \/ Observe(c) \/ Fence(c) \/ Wake(c) \/ Interrupt(c)
  PROVE  WInv'
<1> USE WaitsAssumption
<1>1. Busy(c) /\ call[c] \in CallRecords
  BY DEF WInv, OneResult, TypeOK, Busy, Check, Observe, Fence, Wake, Interrupt
<1>2. CASE Check(c)
  <2>1. CASE ~OwnerCurrent
    BY <1>1, <1>2, <2>1, FinishWInv DEF Check
  <2>2. CASE OwnerCurrent /\ Expired(call[c].wait)
    BY <1>1, <1>2, <2>2, FinishWInv DEF Check, Results
  <2>3. CASE OwnerCurrent /\ ~Expired(call[c].wait)
    <3> DEFINE next == [call[c] EXCEPT !.at = "observe", !.rev = force.rev]
    <3>1. call' = [call EXCEPT ![c] = next]
          /\ UNCHANGED <<session, held, left, gate, sent, policy, ended>>
      BY <1>2, <2>3 DEF Check, Call
    <3>2. /\ next \in CallRecords
          /\ next.at = "observe" /\ next.wait = call[c].wait /\ next.rev \in 1..force.rev
      <4>1. force.rev \in Nat /\ force.rev \in 1..force.rev
        BY DEF WInv, OneResult, TypeOK, PolicyInv
      <4> QED
        BY <1>1, <4>1 DEF CallRecords, Places
    <3> HIDE DEF next
    <3> QED
      BY <1>1, <3>1, <3>2, StayWInv
  <2> QED
    BY <2>1, <2>2, <2>3
<1>3. CASE Observe(c)
  <2> DEFINE next == [call[c] EXCEPT !.at = "fence",
                             !.saw = IF opa.rev = call[c].rev THEN opa.of ELSE "pending"]
  <2>1. call' = [call EXCEPT ![c] = next]
        /\ UNCHANGED <<session, held, left, gate, sent, policy, ended>>
    BY <1>3 DEF Observe, Call
  <2>2. opa.rev = call[c].rev => opa.of \in said
    BY <1>1, <1>3 DEF Observe, WInv, OneResult, TypeOK, PolicyInv
  <2>3. /\ next \in CallRecords
        /\ next.at = "fence" /\ next.wait = call[c].wait /\ next.saw \in said \cup {"pending"}
    BY <1>1, <2>2 DEF WInv, OneResult, TypeOK, CallRecords, Places
  <2> HIDE DEF next
  <2> QED
    BY <1>1, <2>1, <2>3, StayWInv
<1>4. CASE Fence(c)
  <2>1. CASE ~OwnerCurrent
    BY <1>1, <1>4, <2>1, FinishWInv DEF Fence
  <2>2. CASE OwnerCurrent /\ Expired(call[c].wait)
    BY <1>1, <1>4, <2>2, FinishWInv DEF Fence, Results
  <2>3. CASE OwnerCurrent /\ ~Expired(call[c].wait) /\ call[c].saw # "pending"
    <3>1. call[c].saw \in said /\ call[c].saw \in {"allow", "deny"}
      BY <1>1, <1>4, <2>3 DEF Fence, WInv, PolicyInv, CallRecords
    <3> QED
      BY <1>1, <1>4, <2>3, <3>1, FinishWInv DEF Fence, Results
  <2>4. CASE OwnerCurrent /\ ~Expired(call[c].wait) /\ call[c].saw = "pending"
    <3> DEFINE next == [call[c] EXCEPT !.at = "sleep"]
    <3>1. call' = [call EXCEPT ![c] = next]
          /\ UNCHANGED <<session, held, left, gate, sent, policy, ended>>
      BY <1>4, <2>4 DEF Fence, To, Call
    <3>2. /\ next \in CallRecords
          /\ next.at = "sleep" /\ next.wait = call[c].wait
      BY <1>1 DEF CallRecords, Places
    <3> HIDE DEF next
    <3> QED
      BY <1>1, <3>1, <3>2, StayWInv
  <2> QED
    BY <2>1, <2>2, <2>3, <2>4
<1>5. CASE Wake(c)
  <2> DEFINE next == [call[c] EXCEPT !.at = "check"]
  <2>1. call' = [call EXCEPT ![c] = next]
        /\ UNCHANGED <<session, held, left, gate, sent, policy, ended>>
    BY <1>5 DEF Wake, To, Call
  <2>2. /\ next \in CallRecords
        /\ next.at = "check" /\ next.wait = call[c].wait
    BY <1>1 DEF CallRecords, Places
  <2> HIDE DEF next
  <2> QED
    BY <1>1, <2>1, <2>2, StayWInv
<1>6. CASE Interrupt(c)
  BY <1>1, <1>6, FinishWInv DEF Interrupt
<1> QED
  BY <1>2, <1>3, <1>4, <1>5, <1>6

\* A response ends the call and forgets the wait's deadline.
LEMMA ReplyWInv ==
  ASSUME WInv, NEW c \in Calls, Reply(c)
  PROVE  WInv'
<1> USE WaitsAssumption
<1>1. Idle \in CallRecords /\ Idle.at = "idle"
  BY DEF Idle, CallRecords, Places, Results
<1>2. /\ call' \in [Calls -> CallRecords]
      /\ call'[c] = Idle /\ \A b \in Calls \ {c} : call'[b] = call[b]
  BY <1>1 DEF Reply, Call, WInv, OneResult, TypeOK
<1>3. /\ left' \in [Waits -> 0..WaitLease] /\ \A w \in Waits : Expired(w) => Expired(w)'
      /\ UNCHANGED <<session, held, gate, sent, policy, ended>>
  BY DEF Reply, WInv, OneResult, TypeOK, CallRecords, Expired
<1>4. ~Busy(c) /\ \A b \in Calls : (Busy(b)' <=> Busy(b)) /\ (Busy(b) => call'[b] = call[b])
  BY <1>1, <1>2 DEF Busy, Reply
<1>5. active' = {call'[b].wait : b \in {d \in Calls : Busy(d)'}}
  BY <1>3, <1>4 DEF WInv, OneResult, TypeOK, held
<1>6. TypeOK'
  BY <1>2, <1>3, <1>5 DEF WInv, OneResult, TypeOK, session, held, policy
<1>7. OneResult' /\ RecordInv' /\ LeaseInv'
  BY <1>3, <1>6 DEF WInv, OneResult, RecordInv, LeaseInv, OwnerCurrent, Mine, session, held
<1>8. AttemptInv' /\ ResultWasInForce' /\ PolicyInv'
  BY <1>1, <1>2, <1>3, <1>4 DEF WInv, OneResult, TypeOK, CallRecords, AttemptInv, ResultWasInForce, PolicyInv, policy
<1> QED
  BY <1>7, <1>8 DEF WInv

\* Settlements: a candidate is what the evaluator has before its receipt is
\* written, under a revision nobody has read.
LEMMA PolicyWInv ==
  ASSUME WInv, \/ \E d \in Reviews \cup {"pending"} : FencePolicy(d)
               \/ OpenPolicy \/ WriteReceipt \/ RepeatSettlement
  PROVE  WInv'
<1> USE WaitsAssumption
<1>1. UNCHANGED <<session, held, left, gate, sent, call, ended>>
  BY DEF FencePolicy, OpenPolicy, WriteReceipt, RepeatSettlement
<1>2. /\ {force', opa'} \subseteq [rev : Nat, of : Reviews \cup {"pending"}]
      /\ said \subseteq said' /\ force'.rev >= force.rev
      /\ force'.rev > 0 /\ force'.of \in said'
      /\ opa' = force' \/ opa'.rev = 0 \/ opa'.rev = force'.rev + 1
  BY DEF WInv, OneResult, TypeOK, PolicyInv, FencePolicy, OpenPolicy, WriteReceipt,
     RepeatSettlement
<1>3. TypeOK'
  BY <1>1, <1>2, SMTT(40) DEF WInv, OneResult, TypeOK, session, held, Busy
<1>4. OneResult' /\ RecordInv' /\ LeaseInv' /\ AttemptInv'
  BY <1>1, <1>3 DEF WInv, OneResult, RecordInv, LeaseInv, AttemptInv, OwnerCurrent, Mine,
     Expired, Busy, session, held
<1>5. ResultWasInForce' /\ PolicyInv'
  BY <1>1, <1>2, SMTT(40) DEF WInv, OneResult, TypeOK, ResultWasInForce, PolicyInv, Expired
<1> QED
  BY <1>4, <1>5 DEF WInv

\* Time runs for the row and for the owner alike.
LEMMA TickWInv == ASSUME WInv, Tick PROVE WInv'
<1> USE WaitsAssumption
<1>1. UNCHANGED <<owner, beat, held, gate, sent, policy, call, ended>>
  BY DEF Tick
<1>2. /\ row' \in {NoRow} \cup [left : 0..Lease] /\ expiry' \in 0..Lease
      /\ left' \in [Waits -> 0..WaitLease] /\ \A w \in Waits : Expired(w) => Expired(w)'
  BY DEF Tick, Less, Mine, Expired, WInv, OneResult, TypeOK
<1>3. LeaseInv'
  BY DEF Tick, Less, Mine, LeaseInv, OwnerCurrent, WInv, OneResult, TypeOK
<1>4. TypeOK'
  BY <1>1, <1>2 DEF WInv, OneResult, TypeOK, held, policy, Busy
<1>5. OneResult' /\ RecordInv' /\ AttemptInv' /\ ResultWasInForce' /\ PolicyInv'
  BY <1>1, <1>2, <1>4 DEF WInv, OneResult, TypeOK, CallRecords, RecordInv, AttemptInv, ResultWasInForce,
     PolicyInv, Busy, held, policy
<1> QED
  BY <1>3, <1>5 DEF WInv

-----------------------------------------------------------------------------
\* Every step of Gateway, the owner, the helpers, the settlements and the clock
\* keeps the invariant.
LEMMA NextWInv == WInv /\ [Next]_vars => WInv'
<1> SUFFICES ASSUME WInv, [Next]_vars PROVE WInv'
  OBVIOUS
<1>1. CASE UNCHANGED vars
  BY <1>1, SMTT(40) DEF vars, WInv, OneResult, TypeOK, ResultWasInForce, RecordInv, AttemptInv, LeaseInv,
     PolicyInv, Busy, Expired, OwnerCurrent, Mine
<1>2. CASE Next
  BY <1>2, OwnerWInv, GatewayWInv, RegisterWInv, BeginWInv, CallWInv, ReplyWInv, PolicyWInv,
     TickWInv DEF Next, CallStep
<1> QED
  BY <1>1, <1>2

\* The inductive invariant of registration, attempts, lease and policy.
THEOREM WaitsInvariant == Spec => []WInv
  BY InitWInv, NextWInv, PTL DEF Spec

\* A wait is given one result at most, and one that was shown is held until
\* then, for every number of waits and helpers.
THEOREM OneResultEach == Spec => []OneResult
  BY WaitsInvariant, PTL DEF WInv

\* What is reported as allowed or denied was said by an active receipt
\* (ObservePermissionDisposition, fenceTerminal).
THEOREM ResultsWereInForce == Spec => []ResultWasInForce
  BY WaitsInvariant, PTL DEF WInv

\* A result is given out under a current row (ownerCurrentLocked, RenewOwner).
THEOREM ResultsUnderLease == Spec => ResultUnderLease
<1>1. WInv /\ [Next]_vars => [\A w \in Waits : ended'[w] # ended[w] => RowCurrent]_vars
  <2> SUFFICES ASSUME WInv, Next, ended' # ended PROVE RowCurrent
    BY DEF vars
  <2>1. PICK c \in Calls : (Check(c) \/ Fence(c)) /\ OwnerCurrent
    BY ZenonT(60) DEF Next, CallStep, RenewRow, RenewOwner, CloseTransport, Invalidate, CleanupAuthority,
       Succeed, Resolve, Register, RegisterTimesOut, Confirm, Check, Observe, Fence, Wake,
       Interrupt, Reply, Begin, FencePolicy, OpenPolicy, WriteReceipt, RepeatSettlement, Tick,
       Finish, Results
  <2> QED
    BY <2>1, WaitsAssumption DEF WInv, LeaseInv, OneResult, TypeOK, OwnerCurrent, RowCurrent, Mine
<1> QED
  BY <1>1, WaitsInvariant, PTL DEF Spec, ResultUnderLease
====
