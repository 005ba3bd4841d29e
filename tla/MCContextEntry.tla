---- MODULE MCContextEntry ----
(* Three Template revisions, of which the first two share their policy.  *)
EXTENDS ContextEntry

MCPolicyOf == <<1, 1, 2>>
====
