---- MODULE SettledPolicy ----
(***************************************************************************)
(* What the settlement of Gateway and OPA promises to the command that     *)
(* started it.  One plan is enforced, or none: from one plan to another    *)
(* enforcement always passes through none, a plan is enforced only under   *)
(* the intent that names it, and an intent is over only when no other plan *)
(* than its own is enforced.  Losing a container also ends enforcement.    *)
(***************************************************************************)

CONSTANTS Plans, None

VARIABLES enforced, intent

vars == <<enforced, intent>>

Intents == [op : {"settle"}, plan : Plans] \cup [op : {"down"}, plan : {None}]

Init == enforced = None /\ intent = None

Decide ==
  /\ intent = None
  /\ intent' \in Intents
  /\ UNCHANGED enforced

Close ==
  /\ enforced' = None
  /\ UNCHANGED intent

Open ==
  /\ intent # None
  /\ enforced = None
  /\ enforced' = intent.plan
  /\ UNCHANGED intent

Finish ==
  /\ intent # None
  /\ enforced \in {None, intent.plan}
  /\ intent' = None
  /\ UNCHANGED enforced

Next == Decide \/ Close \/ Open \/ Finish

Spec == Init /\ [][Next]_vars
====
