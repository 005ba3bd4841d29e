-------------------------- MODULE EnforcedAuthority --------------------------
(***************************************************************************)
(* What the mutation protocol promises, without locks, stages or processes:  *)
(* one authority, what is enforced of it, and at most one intent between an  *)
(* authority and the next.  EffectJournal implements it.                     *)
(***************************************************************************)
EXTENDS Naturals

CONSTANTS Contexts, None

VARIABLES authority,   \* the published collection
          intent,      \* the transition that is being carried out, or None
          enforced     \* the receipt version enforced for each Context

avars == <<authority, intent, enforced>>

Nothing == [c \in Contexts |-> 0]

AInit ==
  /\ authority.gen = 1
  /\ authority.mem = Nothing
  /\ intent = None
  /\ enforced = Nothing

\* Desired authority moves alone: no receipt is invented.
PublishDesired ==
  /\ intent = None
  /\ authority'.gen = authority.gen + 1
  /\ \A x \in Contexts : authority'.mem[x] \in {authority.mem[x], 0}
  /\ UNCHANGED <<intent, enforced>>

\* A transition becomes durable before anything outside is touched.
Intend ==
  /\ intent = None
  /\ intent' # None
  /\ intent'.prev = authority
  /\ intent'.next = authority \/ intent'.next.gen = authority.gen + 1
  /\ UNCHANGED <<authority, enforced>>

\* Enforcement moves to the fence or to the intended receipts, any number of
\* times.
Enforce ==
  /\ intent # None
  /\ authority = intent.prev
  /\ enforced' \in {Nothing, intent.next.mem}
  /\ UNCHANGED <<authority, intent>>

\* The intended authority is published once it is enforced.
Commit ==
  /\ intent # None
  /\ authority = intent.prev
  /\ enforced = intent.next.mem
  /\ authority' = intent.next
  /\ UNCHANGED <<intent, enforced>>

Retire ==
  /\ intent # None
  /\ authority = intent.next
  /\ enforced = intent.next.mem
  /\ intent' = None
  /\ UNCHANGED <<authority, enforced>>

ANext == PublishDesired \/ Intend \/ Enforce \/ Commit \/ Retire

ASpec == AInit /\ [][ANext]_avars

=============================================================================
