--------------------------- MODULE MCEffectJournal ---------------------------
(***************************************************************************)
(* EffectJournal on small instances.                                         *)
(***************************************************************************)
EXTENDS EffectJournal

CONSTANTS p1, p2, a, b

MCProcs == {p1, p2}
MCContexts == {a, b}

\* A policy command and a rule reset on one Context, a reviewed set on the
\* other, cluster reconciliation and cluster down, and a Template Apply that
\* narrows the boundary; one that does not moves the generation and nothing
\* else, which the narrowing one moves too.
MCRequests ==
  { [kind |-> "allow",    target |-> a, ref |-> 1],
    [kind |-> "reset",    target |-> a, ref |-> 1],
    [kind |-> "reviewed", target |-> b, ref |-> 1],
    [kind |-> "cluster",  target |-> a, ref |-> 1],
    [kind |-> "down",     target |-> a, ref |-> 1],
    [kind |-> "narrow",   target |-> a, ref |-> 1] }

=============================================================================
