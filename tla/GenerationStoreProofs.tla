----------------------- MODULE GenerationStoreProofs -----------------------
(*************************************************************************)
(* The generation store for any number of mutating processes, readers    *)
(* and Contexts and any number of generations. As long as the machine    *)
(* keeps its power (MaxLosses = 0), whatever processes die and file      *)
(* operations fail: the selected generation is always complete, what a   *)
(* reader without the lock returns was selected between its two passes,  *)
(* and the files implement one atomic register. As long as no process    *)
(* dies and no operation fails (MaxStops = 0), however often the power   *)
(* is lost: every pointer that survives leads to what survives. The      *)
(* inductive invariants tie the steps of publishGeneration and           *)
(* purgeDeletedAuthority to the files that each of them takes for        *)
(* granted, there and on disk.                                           *)
(*************************************************************************)
EXTENDS GenerationStore, TLAPS

\* The steps a mutation takes while it holds the lifecycle lock.
Locked == {"mkdir", "objects", "barrier", "manifest", "generations", "rename", "settle"}

\* The lifecycle lock is held exactly during those steps, and a creation
\* or a deletion holds the catalog lease from its first check to its
\* last removal.
HoldersInv ==
    \A p \in Procs :
        /\ pc[p] \in Locked <=> lock = p
        /\ pc[p] # "idle" => target[p] # None
        /\ pc[p] # "idle" /\ target[p].op # "update" => lease = p
        /\ pc[p] \in {"tombstone", "purge"} => target[p].op = "delete"

\* What is being published is the successor of what is selected, until
\* the rename makes it the selected one; each step finds the files that
\* the ones before it wrote.
NextInv ==
    \A p \in Procs : pc[p] \in Locked =>
        /\ next[p] # None
        /\ IF pc[p] = "settle" THEN active = next[p] ELSE next[p].n = Generation + 1
        /\ target[p].op = "delete" => next[p].of[target[p].of] = 0
        /\ pc[p] # "mkdir" => root # "none" /\ dirs = AllConcepts
        /\ pc[p] \notin {"mkdir", "objects"} => \A f \in Named(next[p]) : files[f].bytes = "whole"
        /\ pc[p] \in {"generations", "rename", "settle"} => files[next[p]].bytes = "whole"

\* No generation that is selected, or may still be selected, has the
\* Context.
Gone(c) ==
    /\ Current[c] = 0
    /\ \A q \in Procs : pc[q] \in Locked => next[q].of[c] = 0

\* The Context has a tombstone, whole or torn.
Buried(c) == files[Tombstone(c)].bytes # "absent"

\* A purge runs only for a Context that is gone, so that what it removes
\* belongs to no generation anyone can select; once the tombstone exists
\* no plan can bring the Context back, and no creation that passed the
\* tombstone check before is still under way, as the lease kept it out.
GoneInv ==
    \A c \in Contexts, p \in Procs :
        /\ pc[p] \in {"tombstone", "purge"} /\ target[p].of = c => Gone(c)
        /\ Buried(c) =>
              Current[c] = 0
              /\ (pc[p] \in Locked => next[p].of[c] = 0)
              /\ ~(pc[p] = "begin" /\ target[p] = [op |-> "create", of |-> c])

\* Generation a was selected no later than b: each one published has the
\* number after the one before it.
Rank(m) == IF m = None THEN 0 ELSE m.n
NoLater(a, b) == a = b \/ Rank(a) < Rank(b)

\* A reader holds a manifest that was complete when it was selected, and
\* that only a purge can have taken objects from. What the first pass
\* returned, what was selected between the passes, what the second pass
\* holds and what is selected now follow one another.
ReadFollows(r) ==
    /\ at[r] = "idle" => pass[r] = 1
    /\ at[r] # "idle" => active \in seen[r]
    /\ at[r] = "pointer" => active # None
    /\ at[r] \in {"manifest", "objects"} =>
          /\ got[r] # None /\ got[r] \in seen[r]
          /\ purged[r] \/ Complete(got[r])
          /\ NoLater(got[r], active)
    /\ pass[r] = 2 =>
          /\ first[r] \in seen[r]
          /\ NoLater(first[r], between[r]) /\ NoLater(between[r], active)
          /\ at[r] \in {"manifest", "objects"} => NoLater(between[r], got[r])
ReaderInv == \A r \in Readers : ReadFollows(r)

\* ReadsCoherent for one reader.
ReadIsCoherent(r) ==
    /\ at[r] = "done" => got[r] = between[r] /\ got[r] \in seen[r]
    /\ at[r] = "changed" => {first[r], got[r]} \subseteq seen[r]
    /\ at[r] = "error" => None \in seen[r] \/ purged[r]

\* A generation is selected only below a complete root.
RootInv == active # None => root # "none" /\ dirs = AllConcepts

\* The inductive invariant.
GInv ==
    /\ ActiveComplete /\ ReadsCoherent
    /\ HoldersInv /\ NextInv /\ GoneInv /\ ReaderInv /\ RootInv

----------------------------------------------------------------------------
\* Objects, manifests and tombstones are different files.
LEMMA PathFacts ==
    /\ Objects \subseteq Paths /\ Manifests \subseteq Paths
    /\ \A m \in Manifests : Named(m) \subseteq Objects /\ m \notin Objects
    /\ \A c \in Contexts : Tombstone(c) \in Paths \ (Objects \cup Manifests)
  BY Zenon DEF Paths, Objects, Manifests, Tombstones, Tombstone, Named

\* The fields of manifests, objects and mutation targets.
LEMMA RecordFacts ==
    /\ \A m \in Manifests : m.of \in [Contexts -> 0..Versions] /\ m.n \in 1..MaxGen
    /\ \A o \in Objects : o.of \in Contexts /\ o.n \in 1..Versions
    /\ \A t \in Targets : t.of \in Contexts /\ t.op \in {"create", "update", "delete"}
  BY Zenon DEF Manifests, Objects, Targets

\* What the file operations do to the state of a file.
LEMMA FileFacts ==
    /\ [NoFile EXCEPT !.bytes = "torn"] \in Files
    /\ [NoFile EXCEPT !.bytes = "torn"].bytes = "torn"
    /\ \A s \in Files :
          /\ \A b \in {"absent", "whole"} :
                [s EXCEPT !.bytes = b] \in Files /\ [s EXCEPT !.bytes = b].bytes = b
          /\ \A e \in BOOLEAN :
                /\ [s EXCEPT !.data = e] \in Files /\ [s EXCEPT !.data = e].bytes = s.bytes
                /\ [s EXCEPT !.entry = e] \in Files /\ [s EXCEPT !.entry = e].bytes = s.bytes
  BY ZenonT(30) DEF Files, NoFile

\* The types of the selected generation's contents and number.
LEMMA CurrentFacts ==
    ASSUME TypeOK
    PROVE  Current \in [Contexts -> 0..Versions] /\ Generation \in 0..MaxGen
  BY StoreBounds, RecordFacts DEF Current, Generation, TypeOK

\* NoLater is an order with no generation first.
LEMMA NoLaterFacts ==
    \A a, b, c \in Manifests \cup {None} :
        /\ NoLater(a, a)
        /\ NoLater(a, b) /\ NoLater(b, c) => NoLater(a, c)
        /\ NoLater(a, b) /\ NoLater(b, a) => a = b
        /\ NoLater(a, None) => a = None
<1>1. \A a \in Manifests \cup {None} : Rank(a) \in Nat
  BY StoreBounds, RecordFacts DEF Rank
<1>2. Rank(None) = 0
  BY Zenon DEF Rank
<1> QED
  BY <1>1, <1>2 DEF NoLater

\* A step that leaves what is written, and the directories, in place.
Grows ==
    /\ \A f \in Paths : files[f].bytes = "whole" => files'[f].bytes = "whole"
    /\ root # "none" => root' # "none"
    /\ dirs = AllConcepts => dirs' = AllConcepts

\* Such a step, if it selects nothing else, leaves every generation
\* complete that was, for active.json and for the readers.
LEMMA GrowsReadable ==
    ASSUME GInv, TypeOK', GoneInv', Grows, Procs # {},
           UNCHANGED << active, at, got, pass, first, between, seen, purged >>
    PROVE  ActiveComplete' /\ ReadsCoherent' /\ ReaderInv' /\ RootInv'
<1>1. \A m \in Manifests : Complete(m) => Complete(m)'
  BY PathFacts, Zenon DEF Complete, Grows
<1>2. RootInv'
  BY Zenon DEF GInv, RootInv, Grows
<1>3. active # None => ReadOK'
  BY <1>1, <1>2, Zenon DEF GInv, ActiveComplete, TypeOK, ReadOK, Acceptable, RootInv
<1>4. \A c \in Contexts : Buried(c)' => Current'[c] = 0
  BY ZenonT(30) DEF GoneInv
<1>5. ActiveComplete'
  BY <1>3, <1>4, Zenon DEF ActiveComplete, Buried
<1>6. ReadsCoherent' /\ ReaderInv'
  BY <1>1, Zenon DEF GInv, ReadsCoherent, ReaderInv, ReadFollows, NoLater,
     ActiveComplete, TypeOK
<1> QED
  BY <1>2, <1>5, <1>6, Zenon

\* A process that keeps its locks goes on to step s, or stays there, and
\* the files that s takes for granted are there.
Advances(p, s) ==
    /\ pc' = [pc EXCEPT ![p] = s]
    /\ UNCHANGED << lock, lease, target, next, active, at, got, pass, first, between, seen, purged >>
    /\ s = "idle" <=> pc[p] = "idle"
    /\ s = "begin" <=> pc[p] = "begin"
    /\ s \in Locked <=> pc[p] \in Locked
    /\ s = "settle" <=> pc[p] = "settle"
    /\ s \in Locked \ {"mkdir"} => root' # "none" /\ dirs' = AllConcepts
    /\ s \in Locked \ {"mkdir", "objects"} => \A f \in Named(next[p]) : files'[f].bytes = "whole"
    /\ s \in {"generations", "rename", "settle"} => files'[next[p]].bytes = "whole"

\* Such a process preserves the invariant, if the only tombstone it may
\* create is the one of the Context it deletes.
LEMMA AdvancesGInv ==
    ASSUME GInv, TypeOK', NEW p \in Procs, NEW s \in Steps, Grows, Advances(p, s),
           \A c \in Contexts : Buried(c)' => Buried(c) \/ (pc[p] = "tombstone" /\ target[p].of = c)
    PROVE  GInv'
<1> USE DEF Advances
<1>1. TypeOK /\ pc'[p] = s /\ \A q \in Procs \ {p} : pc'[q] = pc[q]
  BY Zenon DEF GInv, ActiveComplete, TypeOK
<1>2. \A q \in Procs : /\ pc'[q] = "idle" <=> pc[q] = "idle"
                       /\ pc'[q] = "begin" <=> pc[q] = "begin"
                       /\ pc'[q] \in Locked <=> pc[q] \in Locked
                       /\ pc'[q] \in {"tombstone", "purge"} <=> pc[q] \in {"tombstone", "purge"}
                       /\ pc'[q] = "settle" <=> pc[q] = "settle"
  BY <1>1 DEF Steps, Locked, TypeOK
<1>3. HoldersInv'
  BY <1>2, Zenon DEF HoldersInv, GInv
<1>4. NextInv'
  <2> SUFFICES ASSUME NEW q \in Procs, pc'[q] \in Locked
               PROVE  /\ next[q] # None
                      /\ IF pc'[q] = "settle" THEN active = next[q] ELSE next[q].n = Generation + 1
                      /\ target[q].op = "delete" => next[q].of[target[q].of] = 0
                      /\ pc'[q] # "mkdir" => root' # "none" /\ dirs' = AllConcepts
                      /\ pc'[q] \notin {"mkdir", "objects"} =>
                            \A f \in Named(next[q]) : files'[f].bytes = "whole"
                      /\ pc'[q] \in {"generations", "rename", "settle"} =>
                            files'[next[q]].bytes = "whole"
    BY Zenon DEF NextInv, Generation
  <2>1. CASE q = p
    BY <1>1, <1>2, <2>1, ZenonT(30) DEF GInv, NextInv
  <2>2. CASE q # p
    <3>1. pc'[q] = pc[q] /\ next[q] \in Manifests
      BY <1>1, <1>2, <2>2 DEF GInv, NextInv, TypeOK
    <3> QED
      BY <3>1, PathFacts, Zenon DEF GInv, NextInv, Grows
  <2> QED
    BY <2>1, <2>2, Zenon
<1>5. \A c \in Contexts : Gone(c) => Gone(c)'
  BY <1>2, Zenon DEF Gone, Current
<1>6. GoneInv'
  <2> SUFFICES ASSUME NEW c \in Contexts, NEW q \in Procs
               PROVE  /\ pc'[q] \in {"tombstone", "purge"} /\ target[q].of = c => Gone(c)'
                      /\ Buried(c)' =>
                            Current[c] = 0
                            /\ (pc'[q] \in Locked => next[q].of[c] = 0)
                            /\ ~(pc'[q] = "begin" /\ target[q] = [op |-> "create", of |-> c])
    BY ZenonT(30) DEF GoneInv, Current
  <2>1. pc'[q] \in {"tombstone", "purge"} /\ target[q].of = c => Gone(c)'
    BY <1>2, <1>5, ZenonT(30) DEF GInv, GoneInv
  <2>2. CASE Buried(c)
    BY <1>2, <2>1, <2>2, Zenon DEF GInv, GoneInv
  <2>3. CASE pc[p] = "tombstone" /\ target[p].of = c
    <3>1. Gone(c) /\ lease = p
      BY <2>3, ZenonT(30) DEF GInv, GoneInv, HoldersInv
    <3>2. ~(pc[q] = "begin" /\ target[q] = [op |-> "create", of |-> c])
      BY <2>3, <3>1 DEF GInv, HoldersInv
    <3> QED
      BY <1>2, <2>1, <3>1, <3>2, Zenon DEF Gone
  <2> QED
    BY <2>1, <2>2, <2>3, Zenon
<1> QED
  BY <1>3, <1>4, <1>6, GrowsReadable, Zenon DEF GInv

\* A process that returns, wherever it is, preserves the invariant: its
\* files stay.
LEMMA ReleaseGInv ==
    ASSUME GInv, TypeOK', NEW p \in Procs, Release(p),
           UNCHANGED << dirs, files, active, at, got, pass, first, between, seen, purged >>,
           root # "none" => root' # "none"
    PROVE  GInv'
<1>1. /\ TypeOK /\ pc'[p] = "idle"
      /\ \A q \in Procs \ {p} : /\ pc'[q] = pc[q] /\ target'[q] = target[q]
                                /\ next'[q] = next[q]
  BY Zenon DEF GInv, ActiveComplete, TypeOK, Release
<1>2. HoldersInv'
  BY <1>1, StoreBounds DEF HoldersInv, GInv, Release, Locked
<1>3. NextInv'
  BY <1>1 DEF NextInv, GInv, Locked, Generation
<1>4. \A c \in Contexts : Gone(c) => Gone(c)'
  BY <1>1, Zenon DEF Gone, Current, Locked
<1>5. GoneInv'
  <2> SUFFICES ASSUME NEW c \in Contexts, NEW q \in Procs
               PROVE  /\ pc'[q] \in {"tombstone", "purge"} /\ target'[q].of = c => Gone(c)'
                      /\ Buried(c) =>
                            Current[c] = 0
                            /\ (pc'[q] \in Locked => next'[q].of[c] = 0)
                            /\ ~(pc'[q] = "begin" /\ target'[q] = [op |-> "create", of |-> c])
    BY ZenonT(30) DEF GoneInv, Current, Buried
  <2>1. CASE q = p
    BY <1>1, <2>1, Zenon DEF GInv, GoneInv, Locked
  <2>2. CASE q # p
    BY <1>1, <1>4, <2>2 DEF GInv, GoneInv
  <2> QED
    BY <2>1, <2>2, Zenon
<1> QED
  BY <1>2, <1>3, <1>5, GrowsReadable, Zenon DEF GInv, Grows

\* The types of an installation without an authority root.
LEMMA InitTypeOK ==
    ASSUME Init
    PROVE  TypeOK
<1>1. /\ at \in [Readers -> ReadSteps] /\ got \in [Readers -> Manifests \cup {None}]
      /\ seen \in [Readers -> SUBSET (Manifests \cup {None})]
      /\ purged \in [Readers -> BOOLEAN]
  BY Zenon DEF Init, ReadSteps
<1>2. /\ pass \in [Readers -> 1..2] /\ first \in [Readers -> Manifests \cup {None}]
      /\ between \in [Readers -> Manifests \cup {None}]
  BY DEF Init
<1>3. /\ files \in [Paths -> Files] /\ stops \in 0..MaxStops /\ losses \in 0..MaxLosses
  BY StoreBounds DEF Init, Files, NoFile
<1> QED
  BY <1>1, <1>2, <1>3, Zenon DEF Init, TypeOK, Steps

\* An installation without an authority root satisfies the invariant.
LEMMA InitGInv ==
    ASSUME Init
    PROVE  GInv
<1>1. TypeOK
  BY InitTypeOK, Zenon
<1>2. \A c \in Contexts : ~Buried(c)
  BY PathFacts, Zenon DEF Buried, Init, NoFile
<1>3. ActiveComplete
  BY <1>1, <1>2, Zenon DEF Init, ActiveComplete, Buried
<1>4. ReadsCoherent /\ ReaderInv /\ RootInv
  BY DEF Init, ReadsCoherent, ReaderInv, ReadFollows, RootInv
<1>5. HoldersInv /\ NextInv /\ GoneInv
  BY <1>2, StoreBounds, Zenon DEF Init, HoldersInv, NextInv, GoneInv, Locked
<1> QED
  BY <1>3, <1>4, <1>5, Zenon DEF GInv

\* Taking the catalog lease and looking at the tombstone: the lease is
\* free, so no purge is under way.
LEMMA BeginGInv ==
    ASSUME GInv, NEW p \in Procs, Begin(p)
    PROVE  GInv'
<1>1. PICK t \in Targets :
         /\ t.op # "update" => lease = None /\ files[Tombstone(t.of)].bytes = "absent"
         /\ lease' = IF t.op = "update" THEN lease ELSE p
         /\ target' = [target EXCEPT ![p] = t]
  BY ZenonT(30) DEF Begin
<1>2. /\ pc[p] = "idle" /\ pc' = [pc EXCEPT ![p] = "begin"]
      /\ UNCHANGED << lock, storage, next, writing, reads, journal, counts >>
  BY Zenon DEF Begin
<1>3. TypeOK'
  BY <1>1, <1>2, Zenon DEF GInv, ActiveComplete, TypeOK, Steps, storage, reads, journal, counts
<1>4. /\ pc'[p] = "begin" /\ target'[p] = t
      /\ \A q \in Procs \ {p} : pc'[q] = pc[q] /\ target'[q] = target[q]
  BY <1>1, <1>2, Zenon DEF GInv, ActiveComplete, TypeOK
<1>5. HoldersInv'
  <2> SUFFICES ASSUME NEW q \in Procs
               PROVE  /\ pc'[q] \in Locked <=> lock' = q
                      /\ pc'[q] # "idle" => target'[q] # None
                      /\ pc'[q] # "idle" /\ target'[q].op # "update" => lease' = q
                      /\ pc'[q] \in {"tombstone", "purge"} => target'[q].op = "delete"
    BY Zenon DEF HoldersInv
  <2>1. CASE q = p
    BY <1>1, <1>2, <1>4, <2>1, NoneIsNothing DEF GInv, HoldersInv, Locked
  <2>2. CASE q # p
    BY <1>1, <1>2, <1>4, <2>2, StoreBounds DEF GInv, HoldersInv
  <2> QED
    BY <2>1, <2>2, Zenon
<1>6. NextInv'
  BY <1>2, <1>4 DEF GInv, NextInv, Locked, Generation, storage
<1>7. \A c \in Contexts : Gone(c) => Gone(c)'
  BY <1>2, <1>4, Zenon DEF Gone, Current, Locked, storage
<1>8. GoneInv'
  <2> SUFFICES ASSUME NEW c \in Contexts, NEW q \in Procs
               PROVE  /\ pc'[q] \in {"tombstone", "purge"} /\ target'[q].of = c => Gone(c)'
                      /\ Buried(c) =>
                            Current[c] = 0
                            /\ (pc'[q] \in Locked => next[q].of[c] = 0)
                            /\ ~(pc'[q] = "begin" /\ target'[q] = [op |-> "create", of |-> c])
    BY <1>2, ZenonT(30) DEF GoneInv, Current, Buried, storage
  <2>1. CASE q = p
    BY <1>1, <1>4, <2>1 DEF GInv, GoneInv, Locked, Buried
  <2>2. CASE q # p
    BY <1>4, <1>7, <2>2 DEF GInv, GoneInv
  <2> QED
    BY <2>1, <2>2, Zenon
<1> QED
  BY <1>2, <1>3, <1>5, <1>6, <1>8, GrowsReadable, Zenon DEF GInv, Grows, storage, reads

\* Planning under the lifecycle lock: a Context that is gone does not
\* come back, because an update needs it to be there and a creation
\* still holds the lease.
LEMMA PlanGInv ==
    ASSUME GInv, NEW p \in Procs, Plan(p)
    PROVE  GInv'
<1>1. PICK v \in Contents(target[p]) :
         next' = [next EXCEPT ![p] =
                    [kind |-> "manifest", n |-> Generation + 1,
                     of |-> [Current EXCEPT ![target[p].of] = v]]]
  BY ZenonT(30) DEF Plan
<1>2. TypeOK /\ target[p] \in Targets
  BY SMTT(40) DEF Plan, GInv, ActiveComplete, TypeOK, HoldersInv
<1>3. Current \in [Contexts -> 0..Versions] /\ Generation \in 0..MaxGen
  BY <1>2, CurrentFacts, Zenon
<1>4. /\ v \in 0..Versions
      /\ target[p].op = "delete" => v = 0
      /\ target[p].op = "update" => Current[target[p].of] # 0
  BY <1>2, <1>3, StoreBounds, RecordFacts DEF Contents
<1> DEFINE m == [kind |-> "manifest", n |-> Generation + 1,
                 of |-> [Current EXCEPT ![target[p].of] = v]]
<1>5. /\ m \in Manifests /\ m.n = Generation + 1
      /\ m.of = [Current EXCEPT ![target[p].of] = v]
  BY <1>2, <1>3, <1>4, StoreBounds, RecordFacts, SMTT(40) DEF Plan, Manifests
<1>6. next' = [next EXCEPT ![p] = m]
  BY <1>1, Zenon
<1> HIDE DEF m
<1>7. /\ pc[p] = "begin" /\ lock = None /\ lock' = p /\ pc' = [pc EXCEPT ![p] = "mkdir"]
      /\ decided' \in Contexts \cup {None}
      /\ UNCHANGED << lease, storage, target, writing, reads, deleted, counts >>
  BY <1>2, RecordFacts, Zenon DEF Plan
<1>8. TypeOK'
  BY <1>2, <1>5, <1>6, <1>7, Zenon DEF TypeOK, Steps, storage, reads, counts
<1>9. /\ pc'[p] = "mkdir" /\ next'[p] = m
      /\ \A q \in Procs \ {p} : /\ pc'[q] = pc[q] /\ next'[q] = next[q]
                                /\ pc[q] \notin Locked
  BY <1>2, <1>6, <1>7, StoreBounds DEF TypeOK, GInv, HoldersInv
<1>10. HoldersInv'
  BY <1>7, <1>9, StoreBounds, Zenon DEF GInv, HoldersInv, Locked
<1>11. NextInv'
  <2>1. \A q \in Procs : pc'[q] \in Locked => q = p
    BY <1>9, Zenon
  <2>2. target[p].op = "delete" => m.of[target[p].of] = 0
    BY <1>2, <1>3, <1>4, <1>5, RecordFacts, Zenon
  <2> QED
    BY <1>5, <1>7, <1>9, <2>1, <2>2, NoneIsNothing, PathFacts, ZenonT(30) DEF NextInv, Generation,
       storage
<1>12. \A c \in Contexts : Current[c] = 0 /\ c # target[p].of => m.of[c] = 0
  BY <1>2, <1>3, <1>5, RecordFacts, Zenon
<1>13. \A c \in Contexts :
          /\ Buried(c) => m.of[c] = 0
          /\ \A q \in Procs : pc[q] \in {"tombstone", "purge"} /\ target[q].of = c => m.of[c] = 0
  <2> SUFFICES ASSUME NEW c \in Contexts, c = target[p].of, target[p].op # "delete"
               PROVE  /\ ~Buried(c)
                      /\ \A q \in Procs : ~(pc[q] \in {"tombstone", "purge"} /\ target[q].of = c)
    BY <1>2, <1>3, <1>4, <1>5, <1>12, RecordFacts, ZenonT(30) DEF GInv, GoneInv, Gone
  <2>1. target[p].op = "update" => Current[c] # 0
    BY <1>4, Zenon
  <2>2. CASE target[p].op = "update"
    BY <2>1, <2>2, ZenonT(30) DEF GInv, GoneInv, Gone
  <2>3. CASE target[p].op = "create"
    <3>1. target[p] = [op |-> "create", of |-> c] /\ lease = p
      BY <1>2, <1>7, <2>3, ZenonT(30) DEF Targets, GInv, HoldersInv
    <3> QED
      BY <1>7, <3>1, ZenonT(30) DEF GInv, GoneInv, HoldersInv
  <2> QED
    BY <1>2, <2>2, <2>3, RecordFacts, Zenon
<1>14. GoneInv'
  <2> SUFFICES ASSUME NEW c \in Contexts, NEW q \in Procs
               PROVE  /\ pc'[q] \in {"tombstone", "purge"} /\ target[q].of = c => Gone(c)'
                      /\ Buried(c) =>
                            Current[c] = 0
                            /\ (pc'[q] \in Locked => next'[q].of[c] = 0)
                            /\ ~(pc'[q] = "begin" /\ target[q] = [op |-> "create", of |-> c])
    BY <1>7, ZenonT(30) DEF GoneInv, Current, Buried, storage
  <2>1. ASSUME pc'[q] \in {"tombstone", "purge"}, target[q].of = c
        PROVE  Gone(c)'
    <3>1. q # p /\ pc[q] \in {"tombstone", "purge"}
      BY <1>9, <2>1, Zenon
    <3>2. Current'[c] = 0
      BY <1>7, <2>1, <3>1, ZenonT(30) DEF GInv, GoneInv, Gone, Current, storage
    <3> QED
      BY <1>9, <1>13, <2>1, <3>1, <3>2, Zenon DEF Gone
  <2> QED
    BY <1>9, <1>13, <2>1, SMTT(40) DEF GInv, GoneInv
<1> QED
  BY <1>7, <1>8, <1>10, <1>11, <1>14, GrowsReadable, Zenon DEF GInv, Grows, storage, reads

\* Refusals, conflicts with a torn file, the end of a purge, and a
\* process death.
LEMMA ReturnsGInv ==
    ASSUME GInv, NEW p \in Procs, PlanRefused(p) \/ FileConflict(p) \/ Purged(p) \/ Stop(p)
    PROVE  GInv'
<1>1. /\ Release(p) /\ UNCHANGED << storage, reads, journal, losses >>
      /\ stops' \in 0..MaxStops
  BY StoreBounds, SMTT(40) DEF PlanRefused, FileConflict, Purged, Stop, journal, counts, GInv,
     ActiveComplete, TypeOK
<1>2. TypeOK'
  BY <1>1, ZenonT(30) DEF Release, GInv, ActiveComplete, TypeOK, Steps, storage, reads, journal
<1> QED
  BY <1>1, <1>2, ReleaseGInv, ZenonT(30) DEF storage, reads

\* A process writes a tombstone only for the Context it deletes.
LEMMA WritesFacts ==
    ASSUME GInv, NEW p \in Procs, NEW f \in Writes(p)
    PROVE  /\ f \in Paths
           /\ \A c \in Contexts : f = Tombstone(c) => pc[p] = "tombstone" /\ target[p].of = c
<1>1. /\ pc[p] \in Locked => next[p] \in Manifests
      /\ pc[p] # "idle" => target[p] \in Targets
  BY SMTT(40) DEF GInv, ActiveComplete, TypeOK, NextInv, HoldersInv
<1>2. CASE pc[p] \in {"objects", "manifest"}
  BY <1>1, <1>2, PathFacts, Zenon DEF Writes, Locked
<1>3. CASE pc[p] = "tombstone"
  BY <1>1, <1>3, PathFacts, RecordFacts DEF Writes, Tombstone
<1> QED
  BY <1>2, <1>3, Zenon DEF Writes

\* The single file operations: mkdir, exclusive create, write, sync.
LEMMA WritingGInv ==
    ASSUME GInv, NEW p \in Procs,
           MakeDirectory(p) \/ CreateFile(p) \/ WriteFile(p) \/ SyncFile(p)
    PROVE  GInv'
<1>1. TypeOK /\ pc[p] \in Steps /\ pc = [pc EXCEPT ![p] = pc[p]]
  BY Zenon DEF GInv, ActiveComplete, TypeOK
<1>2. ASSUME TypeOK', Grows,
             UNCHANGED << lock, lease, pc, target, next, active, at, got, pass, first, between, seen,
                             purged >>,
             \A c \in Contexts :
                Buried(c)' => Buried(c) \/ (pc[p] = "tombstone" /\ target[p].of = c)
      PROVE  GInv'
  <2>1. pc[p] \in Locked => next[p] \in Manifests
    BY <1>1, Zenon DEF TypeOK, GInv, NextInv
  <2>2. Advances(p, pc[p])
    BY <1>1, <1>2, <2>1, PathFacts, Zenon DEF Advances, GInv, NextInv, Grows, Locked
  <2> QED
    BY <1>1, <1>2, <2>2, AdvancesGInv, ZenonT(30)
<1>3. CASE MakeDirectory(p)
  <2>1. /\ dirs' \subseteq AllConcepts /\ dirs \subseteq dirs'
        /\ root' \in {"made", root} /\ (root # "none" => root' = root)
    BY <1>1, <1>3 DEF MakeDirectory, TypeOK, AllConcepts
  <2>2. UNCHANGED << lock, lease, kept, files, active, disk, procs, reads, journal, counts >>
    BY <1>3, Zenon DEF MakeDirectory
  <2>3. TypeOK'
    BY <1>1, <2>1, <2>2, Zenon DEF TypeOK, procs, reads, journal, counts
  <2> QED
    BY <1>1, <1>2, <2>1, <2>2, <2>3, ZenonT(30) DEF Grows, Buried, procs, reads
<1>4. CASE CreateFile(p)
  <2>1. PICK f \in Writes(p) :
          /\ files[f].bytes = "absent"
          /\ files' = [files EXCEPT ![f] = [NoFile EXCEPT !.bytes = "torn"]]
          /\ writing' = [writing EXCEPT ![p] = f]
    BY <1>4, ZenonT(30) DEF CreateFile
  <2>2. UNCHANGED << lock, lease, root, dirs, kept, active, disk, pc, target, next,
                     reads, journal, counts >>
    BY <1>4, Zenon DEF CreateFile
  <2>3. f \in Paths
    BY WritesFacts, Zenon
  <2>4. files' \in [Paths -> Files] /\ \A g \in Paths \ {f} : files'[g] = files[g]
    BY <1>1, <2>1, <2>3, FileFacts, Zenon DEF TypeOK
  <2>5. TypeOK'
    BY <1>1, <2>1, <2>2, <2>3, <2>4, Zenon DEF TypeOK, reads, journal, counts
  <2>6. Grows
    BY <2>1, <2>2, <2>4, ZenonT(30) DEF Grows
  <2>7. \A c \in Contexts :
            Buried(c)' => Buried(c) \/ (pc[p] = "tombstone" /\ target[p].of = c)
    BY <2>4, PathFacts, WritesFacts DEF Buried, Tombstone
  <2> QED
    BY <1>2, <2>2, <2>5, <2>6, <2>7, ZenonT(30) DEF reads
<1>5. CASE WriteFile(p) \/ SyncFile(p)
  <2>1. writing[p] \in Paths /\ files[writing[p]] \in Files
    BY <1>1, <1>5, Zenon DEF WriteFile, SyncFile, TypeOK
  <2>2. /\ files' \in [Paths -> Files]
        /\ \A g \in Paths : \/ files'[g].bytes = files[g].bytes
                            \/ files[g].bytes = "torn" /\ files'[g].bytes = "whole"
    <3> DEFINE s == files[writing[p]]
    <3>1. CASE WriteFile(p)
      <4>1. files' = [files EXCEPT ![writing[p]] = [s EXCEPT !.bytes = "whole"]] /\ s.bytes = "torn"
        BY <3>1, Zenon DEF WriteFile
      <4> QED
        BY <1>1, <2>1, <4>1, FileFacts, ZenonT(30) DEF TypeOK
    <3>2. CASE SyncFile(p)
      <4>1. files' = [files EXCEPT ![writing[p]] = [s EXCEPT !.data = TRUE]]
        BY <3>2, Zenon DEF SyncFile
      <4>2. [s EXCEPT !.data = TRUE] \in Files /\ [s EXCEPT !.data = TRUE].bytes = s.bytes
        BY <2>1, FileFacts, ZenonT(30)
      <4> HIDE DEF s
      <4> QED
        BY <1>1, <2>1, <4>1, <4>2, Zenon DEF TypeOK, s
    <3> QED
      BY <1>5, <3>1, <3>2, Zenon
  <2>3. /\ UNCHANGED << lock, lease, root, dirs, kept, active, disk, pc, target, next,
                        reads, journal, counts >>
        /\ writing' \in [Procs -> Paths \cup {None}]
    BY <1>1, <1>5, Zenon DEF WriteFile, SyncFile, procs, TypeOK
  <2>4. TypeOK'
    BY <1>1, <2>2, <2>3, Zenon DEF TypeOK, reads, journal, counts
  <2>5. Grows
    BY <2>2, <2>3, ZenonT(30) DEF Grows
  <2>6. \A c \in Contexts : Buried(c)' => Buried(c)
    BY <2>2, PathFacts, ZenonT(30) DEF Buried, Tombstone
  <2> QED
    BY <1>2, <2>3, <2>4, <2>5, <2>6, Zenon DEF reads
<1> QED
  BY <1>3, <1>4, <1>5, Zenon

\* The ends of the phases of publishGeneration, and of the tombstone's
\* write.
LEMMA PhasesGInv ==
    ASSUME GInv, NEW p \in Procs,
           \/ DirectoriesMade(p) \/ ObjectsWritten(p) \/ Barrier(p) \/ ManifestWritten(p)
           \/ SyncGenerations(p) \/ TombstoneWritten(p)
    PROVE  GInv'
<1>1. TypeOK /\ (pc[p] \in Locked => next[p] \in Manifests)
  BY ZenonT(30) DEF GInv, ActiveComplete, TypeOK, NextInv
<1>2. /\ files' \in [Paths -> Files]
      /\ \A f \in Paths : files'[f].bytes = files[f].bytes
  <2>1. UNCHANGED files \/ SyncEntries(Paths) \/ SyncEntries(Manifests)
    BY Zenon DEF DirectoriesMade, ObjectsWritten, Barrier, ManifestWritten, SyncGenerations,
          TombstoneWritten, storage
  <2>2. ASSUME NEW fs, SyncEntries(fs)
        PROVE  /\ files' \in [Paths -> Files]
               /\ \A f \in Paths : files'[f].bytes = files[f].bytes
    <3> SUFFICES ASSUME NEW f \in Paths
                 PROVE  files'[f] \in Files /\ files'[f].bytes = files[f].bytes
      BY <2>2, Zenon DEF SyncEntries
    <3>1. files[f] \in Files /\ (files[f].bytes # "absent") \in BOOLEAN
      BY <1>1, Zenon DEF TypeOK
    <3>2. files'[f] \in {files[f], [files[f] EXCEPT !.entry = (files[f].bytes # "absent")]}
      BY <2>2, Zenon DEF SyncEntries
    <3> QED
      BY <3>1, <3>2, FileFacts, ZenonT(30)
  <2> QED
    BY <1>1, <2>1, <2>2, Zenon DEF TypeOK
<1>3. PICK s \in Steps :
         /\ Goto(p, s)
         /\ << pc[p], s >> \in {<< "mkdir", "objects" >>, << "objects", "barrier" >>,
                                << "barrier", "manifest" >>, << "manifest", "generations" >>,
                                << "generations", "rename" >>, << "tombstone", "purge" >>}
  BY Zenon DEF DirectoriesMade, ObjectsWritten, Barrier, ManifestWritten, SyncGenerations,
        TombstoneWritten, Steps
<1>4. /\ UNCHANGED << root, dirs, active, reads, journal, counts >>
      /\ kept' \in {kept, dirs} /\ disk' \in {disk, {active}}
  BY Zenon DEF DirectoriesMade, ObjectsWritten, Barrier, ManifestWritten, SyncGenerations,
        TombstoneWritten, storage
<1>5. /\ s = "objects" => root # "none" /\ dirs = AllConcepts
      /\ s = "barrier" => \A f \in Named(next[p]) : files[f].bytes = "whole"
      /\ s = "generations" => files[next[p]].bytes = "whole"
  BY <1>3, Zenon DEF DirectoriesMade, ObjectsWritten, Barrier, ManifestWritten, SyncGenerations,
        TombstoneWritten, Written, Writes
<1>6. TypeOK'
  BY <1>1, <1>2, <1>3, <1>4, ZenonT(30) DEF TypeOK, Goto, reads, journal, counts
<1>7. Grows
  BY <1>2, <1>4, Zenon DEF Grows
<1>8. /\ s \in Locked \ {"mkdir"} => root # "none" /\ dirs = AllConcepts
      /\ s \in Locked \ {"mkdir", "objects"} => \A f \in Named(next[p]) : files[f].bytes = "whole"
      /\ s \in {"generations", "rename", "settle"} => files[next[p]].bytes = "whole"
  BY <1>3, <1>5, ZenonT(30) DEF GInv, NextInv, Locked
<1>9. Advances(p, s)
  BY <1>1, <1>2, <1>3, <1>4, <1>8, PathFacts, ZenonT(30) DEF Advances, Goto, Locked, reads
<1>10. \A c \in Contexts : Buried(c)' => Buried(c)
  BY <1>2, PathFacts, Zenon DEF Buried, Tombstone
<1> QED
  BY <1>6, <1>7, <1>9, <1>10, AdvancesGInv, Zenon

\* The rename selects a generation all of whose files are whole.
LEMMA RenameGInv ==
    ASSUME GInv, NEW p \in Procs, RenamePointer(p)
    PROVE  GInv'
<1>1. TypeOK /\ pc[p] = "rename" /\ next[p] \in Manifests /\ target[p] \in Targets
  BY DEF RenamePointer, GInv, ActiveComplete, TypeOK, NextInv, HoldersInv, Locked
<1>2. /\ active' = next[p] /\ seen' = [r \in Readers |-> IF at[r] = "idle" THEN {} ELSE seen[r] \cup {next[p]}]
      /\ Goto(p, "settle")
      /\ UNCHANGED << root, dirs, kept, files, at, got, pass, first, between, purged, decided,
                      counts >>
  BY ZenonT(30) DEF RenamePointer
<1>3. TypeOK'
  <2>1. disk' \subseteq Manifests \cup {None} /\ deleted' \subseteq Contexts
    BY <1>1, RecordFacts, Zenon DEF RenamePointer, TypeOK
  <2> QED
    BY <1>1, <1>2, <2>1, Zenon DEF TypeOK, Goto, Steps, counts
<1>4. /\ pc'[p] = "settle"
      /\ \A q \in Procs \ {p} : pc'[q] = pc[q] /\ pc[q] \notin Locked
  BY <1>1, <1>2, Zenon DEF TypeOK, Goto, GInv, HoldersInv, Locked
<1>5. HoldersInv'
  BY <1>1, <1>2, <1>4, ZenonT(30) DEF Goto, GInv, HoldersInv, Locked
<1>6. /\ root # "none" /\ dirs = AllConcepts /\ Complete(next[p])
      /\ target[p].op = "delete" => next[p].of[target[p].of] = 0
  BY <1>1, Zenon DEF GInv, NextInv, Locked, Complete
<1>7. NextInv'
  BY <1>1, <1>2, <1>4, <1>6, NoneIsNothing, PathFacts, ZenonT(30) DEF Goto, NextInv, Complete
<1>8. Current' = next[p].of
  BY <1>1, <1>2, NoneIsNothing, PathFacts, ZenonT(30) DEF Current
<1>9. \A c \in Contexts : Gone(c) => Gone(c)'
  BY <1>1, <1>2, <1>4, <1>8, ZenonT(30) DEF Gone, Goto, Locked
<1>10. GoneInv'
  <2> SUFFICES ASSUME NEW c \in Contexts, NEW q \in Procs
               PROVE  /\ pc'[q] \in {"tombstone", "purge"} /\ target[q].of = c => Gone(c)'
                      /\ Buried(c) =>
                            Current'[c] = 0
                            /\ (pc'[q] \in Locked => next[q].of[c] = 0)
                            /\ ~(pc'[q] = "begin" /\ target[q] = [op |-> "create", of |-> c])
    BY <1>2, ZenonT(30) DEF GoneInv, Buried, Goto
  <2>1. Buried(c) => next[p].of[c] = 0
    BY <1>1, ZenonT(30) DEF GInv, GoneInv, Locked
  <2> QED
    BY <1>4, <1>8, <1>9, <2>1, SMTT(40) DEF GInv, GoneInv
<1>11. RootInv' /\ ActiveComplete'
  <2>1. ReadOK' /\ RootInv'
    BY <1>1, <1>2, <1>6, NoneIsNothing, PathFacts, Zenon DEF ReadOK, Acceptable, Complete, RootInv
  <2>2. \A c \in Contexts : Buried(c)' => Current'[c] = 0
    BY <1>10, ZenonT(30) DEF GoneInv
  <2> QED
    BY <1>3, <2>1, <2>2, ZenonT(30) DEF ActiveComplete, Buried
<1>12. \A m \in Manifests \cup {None} : NoLater(m, active) => NoLater(m, active')
  <2>1. next[p].n = Generation + 1 /\ Rank(next[p]) = next[p].n /\ Rank(active) = Generation
    BY <1>1, NoneIsNothing, PathFacts, ZenonT(30) DEF GInv, NextInv, Locked, Rank, Generation
  <2>2. \A m \in Manifests \cup {None} : Rank(m) \in Nat
    BY StoreBounds, RecordFacts DEF Rank
  <2> QED
    BY <1>1, <1>2, <2>1, <2>2 DEF NoLater, TypeOK
<1>13. ASSUME NEW r \in Readers
       PROVE  ReadIsCoherent(r)' /\ ReadFollows(r)'
  <2>1. ReadFollows(r) /\ ReadIsCoherent(r)
    BY Zenon DEF GInv, ReadsCoherent, ReaderInv, ReadIsCoherent
  <2>2. /\ at[r] # "idle" => seen'[r] = seen[r] \cup {active'}
        /\ active' # None
        /\ got[r] \in Manifests \cup {None} /\ first[r] \in Manifests \cup {None}
        /\ between[r] \in Manifests \cup {None}
    BY <1>1, <1>2, NoneIsNothing, PathFacts, ZenonT(30) DEF TypeOK
  <2>3. UNCHANGED << at, got, pass, first, between, purged, files >>
    BY <1>2, Zenon
  <2>4. Complete(got[r]) => Complete(got[r])'
    BY <2>3, Zenon DEF Complete
  <2> QED
    BY <1>12, <2>1, <2>2, <2>3, <2>4 DEF ReadIsCoherent, ReadFollows
<1>14. ReadsCoherent' /\ ReaderInv'
  BY <1>13, Zenon DEF ReadsCoherent, ReaderInv, ReadIsCoherent
<1> QED
  BY <1>5, <1>7, <1>10, <1>11, <1>14, Zenon DEF GInv

\* After the publication the lock is released; a deletion's Context is
\* gone from here on.
LEMMA SettleGInv ==
    ASSUME GInv, NEW p \in Procs, Settle(p) \/ SettleUnsynced(p)
    PROVE  GInv'
<1>1. TypeOK /\ pc[p] = "settle" /\ next[p] \in Manifests /\ target[p] \in Targets
  BY DEF Settle, SettleUnsynced, GInv, ActiveComplete, TypeOK, NextInv, HoldersInv, Locked
<1>2. /\ AfterPublication(p)
      /\ UNCHANGED << dirs, kept, files, active, reads, losses >>
      /\ root' \in {root, "kept"} /\ disk' \in {disk, {active}} /\ stops' \in 0..MaxStops
  BY <1>1, StoreBounds DEF Settle, SettleUnsynced, storage, counts, TypeOK
<1>3. TypeOK'
  <2>1. CASE target[p].op = "delete"
    BY <1>1, <1>2, <2>1, Zenon DEF AfterPublication, TypeOK, Steps, reads
  <2>2. CASE target[p].op # "delete"
    BY <1>1, <1>2, <2>2, Zenon DEF AfterPublication, Release, TypeOK, Steps, reads
  <2> QED
    BY <2>1, <2>2, Zenon
<1>4. CASE target[p].op # "delete"
  BY <1>2, <1>3, <1>4, ReleaseGInv, Zenon DEF AfterPublication, reads
<1>5. CASE target[p].op = "delete"
  <2>1. /\ lock' = None /\ pc' = [pc EXCEPT ![p] = "tombstone"]
        /\ UNCHANGED << lease, target, next, writing >>
    BY <1>2, <1>5, Zenon DEF AfterPublication
  <2>2. /\ pc'[p] = "tombstone"
        /\ \A q \in Procs \ {p} : pc'[q] = pc[q] /\ pc[q] \notin Locked
    BY <1>1, <2>1, Zenon DEF TypeOK, GInv, HoldersInv, Locked
  <2>3. HoldersInv'
    BY <1>1, <1>5, <2>1, <2>2, StoreBounds, Zenon DEF GInv, HoldersInv, Locked
  <2>4. NextInv'
    BY <2>2, ZenonT(30) DEF NextInv, Locked
  <2>5. Current' = Current /\ Current[target[p].of] = 0
    BY <1>1, <1>2, <1>5, NoneIsNothing, PathFacts, ZenonT(30) DEF GInv, NextInv, Locked, Current
  <2>6. \A c \in Contexts : Current[c] = 0 => Gone(c)'
    BY <2>2, <2>5, Zenon DEF Gone, Locked
  <2>7. GoneInv'
    <3> SUFFICES ASSUME NEW c \in Contexts, NEW q \in Procs
                 PROVE  /\ pc'[q] \in {"tombstone", "purge"} /\ target[q].of = c => Gone(c)'
                        /\ Buried(c) =>
                              Current[c] = 0
                              /\ (pc'[q] \in Locked => next[q].of[c] = 0)
                              /\ ~(pc'[q] = "begin" /\ target[q] = [op |-> "create", of |-> c])
      BY <1>2, <2>1, <2>5, ZenonT(30) DEF GoneInv, Buried
    <3>1. CASE q = p
      BY <2>2, <2>5, <2>6, <3>1, ZenonT(30) DEF GInv, GoneInv, Locked
    <3>2. CASE q # p
      BY <2>2, <2>6, <3>2, SMTT(40) DEF GInv, GoneInv, Gone
    <3> QED
      BY <3>1, <3>2, ZenonT(30)
  <2> QED
    BY <1>2, <1>3, <2>3, <2>4, <2>7, GrowsReadable, Zenon DEF GInv, Grows, reads
<1> QED
  BY <1>4, <1>5, ZenonT(30)

\* A purge removes an object that neither the selected generation nor
\* one being published names.
LEMMA RemoveGInv ==
    ASSUME GInv, NEW p \in Procs, RemoveObject(p)
    PROVE  GInv'
<1>1. TypeOK /\ pc[p] = "purge"
  BY Zenon DEF RemoveObject, GInv, ActiveComplete
<1>2. PICK o \in Owned(p) : files' = [files EXCEPT ![o].bytes = "absent"]
  BY ZenonT(30) DEF RemoveObject
<1>3. /\ purged' = [r \in Readers |-> at[r] # "idle"]
      /\ UNCHANGED << lock, lease, root, dirs, kept, active, disk, procs, at, got, pass,
                      first, between, seen, journal, counts >>
  BY Zenon DEF RemoveObject
<1>4. o \in Objects /\ o \in Paths /\ o.of = target[p].of /\ Gone(o.of)
  <2>1. o \in Objects /\ o.of = target[p].of /\ o.of \in Contexts
    BY RecordFacts, Zenon DEF Owned
  <2> QED
    BY <1>1, <2>1, PathFacts, ZenonT(30) DEF GInv, GoneInv
<1>5. files' \in [Paths -> Files] /\ \A f \in Paths \ {o} : files'[f] = files[f]
  <2>1. files' = [files EXCEPT ![o] = [files[o] EXCEPT !.bytes = "absent"]] /\ files[o] \in Files
    BY <1>1, <1>2, <1>4, Zenon DEF TypeOK
  <2> QED
    BY <1>1, <1>4, <2>1, FileFacts, ZenonT(30) DEF TypeOK
<1>6. TypeOK'
  BY <1>1, <1>3, <1>5, Zenon DEF TypeOK, procs, journal, counts
<1>7. HoldersInv'
  BY <1>3, ZenonT(30) DEF GInv, HoldersInv, procs
<1>8. \A m \in Manifests : m.of[o.of] = 0 /\ Complete(m) => Complete(m)'
  BY <1>4, <1>5, PathFacts, RecordFacts, SMTT(40) DEF Complete, Named
<1>9. NextInv'
  <2> SUFFICES ASSUME NEW q \in Procs, pc[q] \in Locked
               PROVE  /\ next[q] # None
                      /\ IF pc[q] = "settle" THEN active = next[q] ELSE next[q].n = Generation + 1
                      /\ target[q].op = "delete" => next[q].of[target[q].of] = 0
                      /\ pc[q] # "mkdir" => root # "none" /\ dirs = AllConcepts
                      /\ pc[q] \notin {"mkdir", "objects"} =>
                            \A f \in Named(next[q]) : files'[f].bytes = "whole"
                      /\ pc[q] \in {"generations", "rename", "settle"} =>
                            files'[next[q]].bytes = "whole"
    BY <1>3, ZenonT(30) DEF NextInv, Generation, procs
  <2>1. next[q] \in Manifests /\ next[q].of[o.of] = 0
    BY <1>1, <1>4, ZenonT(30) DEF TypeOK, GInv, NextInv, Gone
  <2>2. o \notin Named(next[q]) /\ Named(next[q]) \subseteq Paths
    <3>1. o \in Objects /\ o.n # 0
      BY <1>4, RecordFacts
    <3> QED
      BY <2>1, <3>1, PathFacts, Zenon DEF Named
  <2> QED
    BY <1>4, <1>5, <2>1, <2>2, PathFacts, ZenonT(30) DEF GInv, NextInv
<1>10. \A c \in Contexts : Buried(c)' <=> Buried(c)
  BY <1>4, <1>5, PathFacts, ZenonT(30) DEF Buried, Tombstone
<1>11. \A c \in Contexts : Gone(c) <=> Gone(c)'
  BY <1>3, Zenon DEF Gone, Current, procs
<1>12. GoneInv'
  <2>1. Current' = Current
    BY <1>3, Zenon DEF Current
  <2> QED
    BY <1>3, <1>10, <1>11, <2>1, ZenonT(30) DEF GInv, GoneInv, procs
<1>13. RootInv' /\ ActiveComplete'
  <2>1. RootInv'
    BY <1>3, Zenon DEF GInv, RootInv
  <2>2. active # None => active.of[o.of] = 0
    BY <1>4, Zenon DEF Gone, Current
  <2>3. active # None => ReadOK'
    BY <1>1, <1>3, <1>8, <2>2, ZenonT(30) DEF GInv, ActiveComplete, TypeOK, ReadOK, Acceptable
  <2>4. \A c \in Contexts : Buried(c)' => Current'[c] = 0
    BY <1>12, ZenonT(30) DEF GoneInv
  <2> QED
    BY <1>3, <1>6, <2>1, <2>3, <2>4, ZenonT(30) DEF ActiveComplete, Buried
<1>14. ReadsCoherent' /\ ReaderInv'
  BY <1>3, ZenonT(30) DEF GInv, ReadsCoherent, ReaderInv, ReadFollows, NoLater, Rank
<1> QED
  BY <1>7, <1>9, <1>12, <1>13, <1>14, Zenon DEF GInv

\* A reader changes only what it has read itself.
LEMMA ReadTypeOK ==
    ASSUME TypeOK, NEW r \in Readers, Read(r)
    PROVE  Quiet /\ TypeOK'
<1>1. Quiet
  BY Zenon DEF Read, StartRead, ListRoot, ReadPointer, ReadManifest, ReadObjects, EndRead
<1>2. /\ at' \in [Readers -> ReadSteps]
      /\ got' \in [Readers -> Manifests \cup {None}]
      /\ pass' \in [Readers -> 1..2] /\ first' \in [Readers -> Manifests \cup {None}]
      /\ between' \in [Readers -> Manifests \cup {None}]
      /\ seen' \in [Readers -> SUBSET (Manifests \cup {None})]
      /\ purged' \in [Readers -> BOOLEAN]
  <2>1. CASE StartRead(r)
    BY <2>1 DEF StartRead, TypeOK, ReadSteps
  <2>2. ASSUME NEW m \in Manifests \cup {None}, EndPass(r, m)
        PROVE  /\ at' \in [Readers -> ReadSteps]
               /\ got' \in [Readers -> Manifests \cup {None}]
               /\ pass' \in [Readers -> 1..2] /\ first' \in [Readers -> Manifests \cup {None}]
               /\ between' \in [Readers -> Manifests \cup {None}]
    BY <2>2 DEF EndPass, TypeOK, ReadSteps
  <2>3. CASE ListRoot(r)
    BY <2>2, <2>3, Zenon DEF ListRoot, ReadFails, TypeOK, ReadSteps
  <2>4. CASE ReadManifest(r)
    BY <2>4, Zenon DEF ReadManifest, ReadFails, TypeOK, ReadSteps
  <2>5. CASE ReadObjects(r)
    BY <2>2, <2>5, Zenon DEF ReadObjects, ReadFails, TypeOK, ReadSteps
  <2>6. CASE EndRead(r)
    <3>1. 1 \in 1..2
      OBVIOUS
    <3> QED
      BY <2>6, <3>1, Zenon DEF EndRead, TypeOK, ReadSteps
  <2>7. CASE ReadPointer(r)
    BY <2>7, Zenon DEF ReadPointer, TypeOK, ReadSteps
  <2> QED
    BY <2>1, <2>3, <2>4, <2>5, <2>6, <2>7, Zenon DEF Read
<1> QED
  BY <1>1, <1>2, Zenon DEF Quiet, TypeOK, storage, procs, journal, counts

\* The steps of a lock-free reader.
LEMMA ReadGInv ==
    ASSUME GInv, NEW r \in Readers, Read(r)
    PROVE  GInv'
<1>1. Quiet /\ TypeOK
  BY ReadTypeOK, Zenon DEF GInv, ActiveComplete
<1>2. TypeOK'
  BY <1>1, ReadTypeOK, Zenon
<1>3. Current' = Current /\ Generation' = Generation /\ \A m : Complete(m)' = Complete(m)
  BY <1>1, ZenonT(30) DEF Quiet, Current, Generation, Complete, storage
<1>4. HoldersInv' /\ NextInv' /\ RootInv'
  BY <1>1, <1>3, Zenon DEF GInv, HoldersInv, NextInv, RootInv, Quiet, storage, procs
<1>5. \A c \in Contexts : Gone(c)' = Gone(c) /\ Buried(c)' = Buried(c)
  BY <1>1, <1>3, ZenonT(30) DEF Gone, Buried, Quiet, storage, procs
<1>6. GoneInv'
  BY <1>1, <1>3, <1>5, ZenonT(30) DEF GInv, GoneInv, Quiet, procs
<1>7. ActiveComplete'
  BY <1>1, <1>2, <1>3, <1>5, ZenonT(30) DEF GInv, ActiveComplete, ReadOK, Acceptable, Buried,
     Quiet, storage
<1>8. active # None => Acceptable /\ Complete(active)
  BY Zenon DEF GInv, ActiveComplete, ReadOK
<1>9. \A q \in Readers \ {r} :
         /\ at'[q] = at[q] /\ got'[q] = got[q] /\ pass'[q] = pass[q] /\ first'[q] = first[q]
         /\ between'[q] = between[q] /\ seen'[q] = seen[q] /\ purged'[q] = purged[q]
  BY <1>1, ZenonT(30) DEF Read, StartRead, ListRoot, ReadPointer, ReadManifest, ReadObjects,
     EndRead, EndPass, ReadFails, TypeOK
<1>10. ReadIsCoherent(r)' /\ ReadFollows(r)'
  <2>1. active' = active
    BY <1>1, Zenon DEF Quiet, storage
  <2>2. ReadFollows(r) /\ active \in Manifests \cup {None} /\ got[r] \in Manifests \cup {None}
        /\ first[r] \in Manifests \cup {None} /\ between[r] \in Manifests \cup {None}
        /\ pass[r] \in 1..2
    BY <1>1, Zenon DEF GInv, ReaderInv, TypeOK
  <2>3. CASE StartRead(r)
    BY <1>1, <2>1, <2>2, <2>3 DEF StartRead, TypeOK, ReadIsCoherent, ReadFollows
  <2>4. CASE EndRead(r)
    BY <1>1, <2>1, <2>4 DEF EndRead, TypeOK, ReadIsCoherent, ReadFollows
  <2>5. CASE ReadPointer(r)
    BY <1>1, <1>3, <1>8, <2>1, <2>2, <2>5, NoLaterFacts DEF ReadPointer, TypeOK, ReadIsCoherent,
       ReadFollows
  <2>6. ASSUME ReadFails(r), UNCHANGED << seen, purged >>, None \in seen[r] \/ purged[r],
               at[r] # "idle"
        PROVE  ReadIsCoherent(r)' /\ ReadFollows(r)'
    BY <1>1, <2>1, <2>2, <2>6 DEF ReadFails, TypeOK, ReadIsCoherent, ReadFollows
  <2>7. ASSUME NEW m \in Manifests \cup {None}, EndPass(r, m), UNCHANGED << seen, purged >>,
               at[r] # "idle", m \in seen[r], NoLater(m, active),
               pass[r] = 2 => NoLater(between[r], m)
        PROVE  ReadIsCoherent(r)' /\ ReadFollows(r)'
    <3>1. got'[r] = m /\ seen'[r] = seen[r] /\ active \in seen[r]
      BY <1>1, <2>2, <2>7, Zenon DEF EndPass, TypeOK, ReadFollows
    <3>2. CASE pass[r] = 1
      <4>1. at'[r] = "list" /\ first'[r] = m /\ between'[r] = active /\ pass'[r] = 2
        BY <1>1, <2>7, <3>2, Zenon DEF EndPass, TypeOK
      <4> QED
        BY <2>1, <2>2, <2>7, <3>1, <4>1, NoLaterFacts DEF ReadIsCoherent, ReadFollows
    <3>3. CASE pass[r] = 2
      <4>1. /\ at'[r] = IF m = first[r] THEN "done" ELSE "changed"
            /\ first'[r] = first[r] /\ between'[r] = between[r] /\ pass'[r] = 2
        BY <1>1, <2>7, <3>3 DEF EndPass, TypeOK
      <4>2. first[r] \in seen[r] /\ NoLater(first[r], between[r]) /\ NoLater(between[r], active)
        BY <2>2, <3>3, Zenon DEF ReadFollows
      <4>3. m = first[r] => m = between[r]
        BY <2>2, <2>7, <3>3, <4>2, NoLaterFacts
      <4> QED
        BY <2>1, <2>7, <3>1, <4>1, <4>2, <4>3 DEF ReadIsCoherent, ReadFollows
    <3> QED
      BY <2>2, <3>2, <3>3
  <2>8. CASE ListRoot(r)
    <3>1. active \in seen[r] /\ at[r] = "list" /\ UNCHANGED << seen, purged >>
      BY <2>2, <2>8, Zenon DEF ListRoot, ReadFollows
    <3>2. CASE ~Acceptable /\ ReadFails(r)
      BY <1>8, <2>6, <3>1, <3>2, Zenon
    <3>3. CASE active = None /\ EndPass(r, None)
      <4>1. pass[r] = 2 => NoLater(between[r], None)
        BY <2>2, <3>3, Zenon DEF ReadFollows
      <4> QED
        BY <2>2, <2>7, <3>1, <3>3, <4>1, NoLaterFacts, Zenon
    <3>4. CASE /\ active # None /\ at' = [at EXCEPT ![r] = "pointer"]
               /\ UNCHANGED << got, pass, first, between >>
      BY <1>1, <2>1, <2>2, <3>1, <3>4 DEF TypeOK, ReadIsCoherent, ReadFollows
    <3> QED
      BY <2>8, <3>2, <3>3, <3>4, Zenon DEF ListRoot
  <2>9. ASSUME at[r] \in {"manifest", "objects"}
        PROVE  /\ got[r] \in Manifests /\ got[r] \in seen[r] /\ NoLater(got[r], active)
               /\ purged[r] \/ Complete(got[r])
               /\ pass[r] = 2 => NoLater(between[r], got[r])
    BY <2>2, <2>9, Zenon DEF ReadFollows
  <2>10. CASE ReadManifest(r)
    <3>1. at[r] = "manifest" /\ UNCHANGED << seen, purged >>
      BY <2>10, Zenon DEF ReadManifest
    <3>2. CASE ReadFails(r) /\ files[got[r]].bytes # "whole"
      <4>1. purged[r]
        BY <2>9, <3>1, <3>2, Zenon DEF Complete
      <4> QED
        BY <2>6, <3>1, <3>2, <4>1, Zenon
    <3>3. CASE at' = [at EXCEPT ![r] = "objects"] /\ UNCHANGED << got, pass, first, between >>
      BY <1>1, <1>3, <2>1, <2>2, <3>1, <3>3 DEF TypeOK, ReadIsCoherent, ReadFollows
    <3> QED
      BY <2>10, <3>2, <3>3, Zenon DEF ReadManifest
  <2>11. CASE ReadObjects(r)
    <3>1. at[r] = "objects" /\ UNCHANGED << seen, purged >>
      BY <2>11, Zenon DEF ReadObjects
    <3>2. CASE EndPass(r, got[r])
      BY <2>7, <2>9, <3>1, <3>2, Zenon
    <3>3. CASE ReadFails(r) /\ ~Complete(got[r])
      BY <2>6, <2>9, <3>1, <3>3, Zenon
    <3> QED
      BY <2>11, <3>2, <3>3, Zenon DEF ReadObjects
  <2> QED
    BY <2>3, <2>4, <2>5, <2>8, <2>10, <2>11, ZenonT(30) DEF Read
<1>11. ReadsCoherent' /\ ReaderInv'
  <2>1. active' = active
    BY <1>1, Zenon DEF Quiet, storage
  <2>2. \A q \in Readers \ {r} : ReadIsCoherent(q)' /\ ReadFollows(q)'
    <3> SUFFICES ASSUME NEW q \in Readers \ {r}
                 PROVE  ReadIsCoherent(q)' /\ ReadFollows(q)'
      BY Zenon
    <3>1. ReadIsCoherent(q) /\ ReadFollows(q)
      BY Zenon DEF GInv, ReadsCoherent, ReaderInv, ReadIsCoherent
    <3> QED
      BY <1>3, <1>9, <2>1, <3>1 DEF ReadIsCoherent, ReadFollows, NoLater, Rank
  <2> QED
    BY <1>10, <2>2, Zenon DEF ReadsCoherent, ReaderInv, ReadIsCoherent
<1> QED
  BY <1>4, <1>6, <1>7, <1>11, ZenonT(30) DEF GInv

\* Every step preserves the invariant while the power stays on.
LEMMA NextGInv ==
    ASSUME MaxLosses = 0, GInv, [Next]_vars
    PROVE  GInv'
<1>1. ~PowerLoss
  <2>1. ~(losses < MaxLosses)
    BY DEF GInv, ActiveComplete, TypeOK
  <2> QED
    BY <2>1, Zenon DEF PowerLoss
<1>2. ASSUME NEW p \in Procs, Mutate(p)
      PROVE  GInv'
  BY <1>2, BeginGInv, PlanGInv, ReturnsGInv, WritingGInv, PhasesGInv, RenameGInv, SettleGInv,
     RemoveGInv, Zenon DEF Mutate
<1>3. CASE UNCHANGED vars
  <2>1. UNCHANGED << root, dirs, files, active, pc, target, next, at, got, pass, first, between,
                     seen, purged, lock, lease >>
    BY <1>3, ZenonT(30) DEF vars, storage, procs, reads
  <2>2. TypeOK'
    BY <1>3, Zenon DEF GInv, ActiveComplete, TypeOK, vars, storage, procs, reads, journal, counts
  <2>3. Current' = Current /\ Generation' = Generation /\ \A m : Complete(m)' = Complete(m)
    BY <2>1, Zenon DEF Current, Generation, Complete
  <2>4. \A c \in Contexts : Gone(c)' = Gone(c) /\ Buried(c)' = Buried(c)
    BY <2>1, <2>3, ZenonT(30) DEF Gone, Buried
  <2>5. GoneInv'
    BY <2>1, <2>3, <2>4, ZenonT(30) DEF GInv, GoneInv
  <2>6. HoldersInv' /\ NextInv' /\ RootInv' /\ ReadsCoherent' /\ ReaderInv'
    BY <2>1, <2>3, ZenonT(30) DEF GInv, HoldersInv, NextInv, RootInv, ReadsCoherent, ReaderInv,
       ReadFollows
  <2>7. ActiveComplete'
    BY <2>1, <2>2, <2>3, <2>4, ZenonT(30) DEF GInv, ActiveComplete, ReadOK, Acceptable, Buried
  <2> QED
    BY <2>5, <2>6, <2>7, Zenon DEF GInv
<1> QED
  BY <1>1, <1>2, <1>3, ReadGInv, Zenon DEF Next

----------------------------------------------------------------------------
(*************************************************************************)
(* The invariant holds in every reachable state, wherever processes die  *)
(* or file operations fail.                                              *)
(*************************************************************************)
THEOREM StoreInvariant ==
    ASSUME MaxLosses = 0
    PROVE  Spec => []GInv
<1>1. Init => GInv
  BY InitGInv, Zenon
<1>2. GInv /\ [Next]_vars => GInv'
  BY NextGInv, Zenon
<1> QED
  BY <1>1, <1>2, PTL DEF Spec

(*************************************************************************)
(* The generation active.json selects can always be read whole, and      *)
(* holds no Context with a tombstone: publishGeneration writes before it *)
(* renames, and purgeDeletedAuthority removes only what nothing selects. *)
(*************************************************************************)
THEOREM ActiveAlwaysComplete ==
    ASSUME MaxLosses = 0
    PROVE  Spec => []ActiveComplete
<1>1. GInv => ActiveComplete
  BY Zenon DEF GInv
<1> QED
  BY <1>1, StoreInvariant, PTL

(*************************************************************************)
(* A lock-free ReadComplete returns the generation that was selected     *)
(* between its two passes; it reports a change only after a publication, *)
(* and fails otherwise only if it began before the first one or a purge  *)
(* ran beside it.                                                        *)
(*************************************************************************)
THEOREM ReadsAlwaysCoherent ==
    ASSUME MaxLosses = 0
    PROVE  Spec => []ReadsCoherent
<1>1. GInv => ReadsCoherent
  BY Zenon DEF GInv
<1> QED
  BY <1>1, StoreInvariant, PTL

(*************************************************************************)
(* The file operations of the store implement the atomic register: a     *)
(* complete read changes only at the rename, from a generation to its    *)
(* successor.                                                            *)
(*************************************************************************)
THEOREM StoreIsAtomic ==
    ASSUME MaxLosses = 0
    PROVE  Spec => ImplementsAtomicStore
<1>1. Init => Register!AInit
  BY Zenon DEF Init, Register!AInit, View
<1>2. ASSUME GInv, GInv', [Next]_vars
      PROVE  [\E g \in Manifests : Register!Replace(g)]_View
  <2>1. View = active /\ View' = active'
    BY <1>2, Zenon DEF View, GInv, ActiveComplete
  <2>2. ~PowerLoss
    <3>1. ~(losses < MaxLosses)
      BY <1>2 DEF GInv, ActiveComplete, TypeOK
    <3> QED
      BY <3>1, ZenonT(30) DEF PowerLoss
  <2>3. ASSUME NEW p \in Procs, RenamePointer(p)
        PROVE  Register!Replace(next[p]) /\ next[p] \in Manifests
    <3>1. next[p] \in Manifests /\ next[p].n = Generation + 1 /\ active' = next[p]
      BY <1>2, <2>3, ZenonT(30) DEF RenamePointer, GInv, ActiveComplete, TypeOK, NextInv, Locked
    <3> QED
      BY <2>1, <3>1 DEF Register!Replace, Generation
  <2>4. ASSUME NEW p \in Procs, Mutate(p), ~RenamePointer(p)
        PROVE  active' = active
    BY <2>4, Zenon DEF Mutate, Begin, Plan, PlanRefused, MakeDirectory, DirectoriesMade, CreateFile,
          WriteFile, SyncFile, FileConflict, ObjectsWritten, Barrier, ManifestWritten,
          SyncGenerations, Settle, SettleUnsynced, TombstoneWritten,
          RemoveObject, Purged, Stop, storage
  <2>5. ASSUME NEW r \in Readers, Read(r)
        PROVE  active' = active
    BY <2>5, ZenonT(30) DEF Read, StartRead, ListRoot, ReadPointer, ReadManifest, ReadObjects,
       EndRead, Quiet, storage
  <2>6. UNCHANGED vars => active' = active
    BY Zenon DEF vars, storage
  <2> QED
    BY <1>2, <2>1, <2>2, <2>3, <2>4, <2>5, <2>6, Zenon DEF Next
<1> QED
  BY <1>1, <1>2, StoreInvariant, PTL DEF Spec, ImplementsAtomicStore, Register!ASpec

----------------------------------------------------------------------------
(* Power loss, while no process dies and no file operation fails.          *)

\* The file that is being written is one that the process's step writes;
\* bytes are whole and not on disk only until their writer syncs them.
WriteInv ==
    /\ \A p \in Procs : writing[p] # None => writing[p] \in Writes(p)
    /\ \A f \in Paths : files[f].bytes = "whole" /\ ~files[f].data =>
          \E p \in Procs : writing[p] = f

\* The bytes of the file are on disk.
Synced(f) == files[f].bytes = "whole" /\ files[f].data

\* What a mutation that holds the lifecycle lock finds on disk: its objects
\* after the barrier, its manifest before the rename.
Staged(p) ==
    /\ next[p] # None
    /\ target[p].op = "delete" => next[p].of[target[p].of] = 0
    /\ pc[p] = "settle" => active = next[p]
    /\ pc[p] # "mkdir" => dirs = AllConcepts
    /\ pc[p] = "barrier" => \A f \in Named(next[p]) : Synced(f)
    /\ pc[p] \in {"manifest", "generations", "rename"} =>
          kept = AllConcepts /\ \A f \in Named(next[p]) : OnDisk(f)
    /\ pc[p] = "generations" => Synced(next[p])
    /\ pc[p] = "rename" => OnDisk(next[p])

\* The selected pointer is one that may survive, and every such pointer leads
\* to what must survive.
DiskInv ==
    /\ active \in disk /\ PointerDurable
    /\ \A p \in Procs : pc[p] \in Locked => Staged(p)

\* What is purged belongs to no generation that may be selected after a power
\* loss, nor to one that is being published.
PurgeInv ==
    \A p \in Procs : pc[p] \in {"tombstone", "purge"} =>
        /\ \A m \in disk \ {None} : m.of[target[p].of] = 0
        /\ \A q \in Procs : pc[q] \in Locked => next[q].of[target[p].of] = 0

\* The inductive invariant under power loss.
PInv == TypeOK /\ HoldersInv /\ WriteInv /\ DiskInv /\ PurgeInv

\* A process that holds the lock is about to publish a manifest, and one that
\* is not idle has a target.
LEMMA HolderFacts ==
    ASSUME PInv, NEW p \in Procs
    PROVE  /\ pc[p] \in Locked => next[p] \in Manifests /\ Staged(p)
           /\ pc[p] # "idle" => target[p] \in Targets
  BY DEF PInv, TypeOK, HoldersInv, DiskInv, Staged

\* Only the holder of the lifecycle lock writes objects and manifests, and
\* every file a step writes is a path.
LEMMA WriterFacts ==
    ASSUME PInv, NEW p \in Procs
    PROVE  /\ Writes(p) \subseteq Paths
           /\ \A f \in Writes(p) : f \in Objects \cup Manifests => pc[p] \in {"objects", "manifest"}
           /\ pc[p] \notin {"objects", "manifest", "tombstone"} => writing[p] = None
<1>1. CASE pc[p] \in {"objects", "manifest"}
  BY <1>1, HolderFacts, PathFacts, Zenon DEF Writes, Locked
<1>2. CASE pc[p] = "tombstone"
  BY <1>2, HolderFacts, PathFacts, RecordFacts, Zenon DEF Writes
<1>3. CASE pc[p] \notin {"objects", "manifest", "tombstone"}
  BY <1>3, Zenon DEF Writes, PInv, WriteInv
<1> QED
  BY <1>1, <1>2, <1>3, Zenon

\* A file of the generation that the lock's holder publishes, once it is
\* whole and the holder writes nothing, has its bytes on disk.
LEMMA WrittenSynced ==
    ASSUME PInv, NEW p \in Procs, pc[p] \in Locked, writing[p] = None,
           NEW f \in Objects \cup Manifests, files[f].bytes = "whole"
    PROVE  Synced(f)
<1> SUFFICES ASSUME ~files[f].data PROVE FALSE
  BY Zenon DEF Synced
<1>1. PICK q \in Procs : writing[q] = f
  BY PathFacts, Zenon DEF PInv, WriteInv
<1>2. f # None
  BY PathFacts, NoneIsNothing, Zenon
<1>3. f \in Writes(q)
  BY <1>1, <1>2, Zenon DEF PInv, WriteInv
<1>4. pc[q] \in Locked
  BY <1>3, WriterFacts, Zenon DEF Locked
<1>5. q = p
  BY <1>4, Zenon DEF PInv, HoldersInv
<1> QED
  BY <1>1, <1>2, <1>5, Zenon

\* What file operations leave in place.
Persists ==
    /\ \A f \in Paths : (Synced(f) => Synced(f)') /\ (OnDisk(f) => OnDisk(f)')
    /\ kept = AllConcepts => kept' = AllConcepts
    /\ dirs = AllConcepts => dirs' = AllConcepts

\* A pointer keeps what it leads to.
LEMMA PersistsPointers ==
    ASSUME PInv, Persists, disk' \subseteq disk
    PROVE  PointerDurable'
<1>1. \A m \in disk \ {None} : m \in Manifests /\ {m} \cup Named(m) \subseteq Paths
  BY PathFacts, Zenon DEF PInv, TypeOK
<1> QED
  BY <1>1, Zenon DEF PInv, DiskInv, PointerDurable, Persists

\* A holder that stays where it is finds what it found before.
LEMMA PersistsStaged ==
    ASSUME PInv, Persists, NEW p \in Procs, pc[p] \in Locked,
           pc'[p] = pc[p], next'[p] = next[p], target'[p] = target[p], active' = active
    PROVE  Staged(p)'
<1>1. next[p] \in Paths /\ Named(next[p]) \subseteq Paths /\ Staged(p)
  BY HolderFacts, PathFacts, Zenon
<1> QED
  BY <1>1, Zenon DEF Staged, Persists

\* A process that keeps its locks goes on to step s, or stays there, and finds
\* on disk what s takes for granted.
LEMMA AdvancesPInv ==
    ASSUME PInv, TypeOK', WriteInv', Persists, NEW p \in Procs, NEW s \in Steps,
           pc' = [pc EXCEPT ![p] = s],
           UNCHANGED << lock, lease, target, next, active >>,
           s = "idle" <=> pc[p] = "idle",
           s \in Locked <=> pc[p] \in Locked,
           s \in {"tombstone", "purge"} <=> pc[p] \in {"tombstone", "purge"},
           disk' \subseteq disk, active \in disk',
           s \in Locked => Staged(p)'
    PROVE  PInv'
<1>1. pc'[p] = s /\ \A q \in Procs \ {p} : pc'[q] = pc[q]
  BY Zenon DEF TypeOK
<1>2. HoldersInv'
  BY <1>1, Zenon DEF PInv, HoldersInv
<1>3. \A q \in Procs : pc'[q] \in Locked => Staged(q)'
  <2> SUFFICES ASSUME NEW q \in Procs, pc'[q] \in Locked
               PROVE  Staged(q)'
    BY Zenon
  <2>1. CASE q = p
    BY <1>1, <2>1, Zenon
  <2>2. CASE q # p
    BY <1>1, PersistsStaged, Zenon
  <2> QED
    BY <2>1, <2>2, Zenon
<1>4. DiskInv'
  BY <1>3, PersistsPointers, Zenon DEF DiskInv
<1>5. PurgeInv'
  BY <1>1, Zenon DEF PInv, PurgeInv
<1> QED
  BY <1>2, <1>4, <1>5, Zenon DEF PInv

\* A process that returns while it writes no file leaves everything as it is.
LEMMA ReleasePInv ==
    ASSUME PInv, NEW p \in Procs, Release(p), writing[p] = None, TypeOK',
           UNCHANGED << dirs, kept, files, active >>, disk' \subseteq disk, active \in disk'
    PROVE  PInv'
<1>1. /\ pc'[p] = "idle" /\ writing' = writing
      /\ \A q \in Procs \ {p} : /\ pc'[q] = pc[q] /\ target'[q] = target[q]
                                /\ next'[q] = next[q]
  BY ZenonT(30) DEF PInv, TypeOK, Release
<1>2. HoldersInv'
  BY <1>1, StoreBounds DEF HoldersInv, PInv, Release, Locked
<1>3. WriteInv'
  BY <1>1, Zenon DEF PInv, WriteInv, Writes
<1>4. Persists
  BY Zenon DEF Persists, Synced, OnDisk
<1>5. DiskInv'
  BY <1>1, <1>4, PersistsPointers, PersistsStaged, Zenon DEF DiskInv, Locked
<1>6. PurgeInv'
  BY <1>1 DEF PInv, PurgeInv, Locked
<1> QED
  BY <1>2, <1>3, <1>5, <1>6, Zenon DEF PInv

\* An installation without an authority root.
LEMMA InitPInv ==
    ASSUME Init
    PROVE  PInv
<1>1. TypeOK
  BY InitTypeOK, Zenon
<1>2. HoldersInv /\ DiskInv /\ PurgeInv
  BY StoreBounds, Zenon DEF Init, HoldersInv, DiskInv, PointerDurable, PurgeInv, Locked
<1>3. WriteInv
  BY Zenon DEF Init, WriteInv, NoFile
<1> QED
  BY <1>1, <1>2, <1>3, Zenon DEF PInv

\* The refusals of a plan, a conflict with a torn file, the end of a purge.
LEMMA ReturnsPInv ==
    ASSUME PInv, NEW p \in Procs, PlanRefused(p) \/ FileConflict(p) \/ Purged(p)
    PROVE  PInv'
<1>1. /\ Release(p) /\ UNCHANGED << storage, reads, journal, counts >>
      /\ pc[p] \in {"begin", "purge"} \/ writing[p] = None
  BY Zenon DEF PlanRefused, FileConflict, Purged
<1>2. writing[p] = None
  BY <1>1, WriterFacts, Zenon
<1>3. TypeOK'
  BY <1>1, Zenon DEF Release, PInv, TypeOK, Steps, storage, reads, journal, counts
<1> QED
  BY <1>1, <1>2, <1>3, ReleasePInv, Zenon DEF storage, PInv, DiskInv

\* Taking the catalog lease: it is free, so no purge is under way.
LEMMA BeginPInv ==
    ASSUME PInv, NEW p \in Procs, Begin(p)
    PROVE  PInv'
<1>1. PICK t \in Targets :
         /\ t.op # "update" => lease = None
         /\ lease' = IF t.op = "update" THEN lease ELSE p
         /\ target' = [target EXCEPT ![p] = t]
  BY Zenon DEF Begin
<1>2. /\ pc[p] = "idle" /\ pc' = [pc EXCEPT ![p] = "begin"]
      /\ UNCHANGED << lock, storage, next, writing, reads, journal, counts >>
  BY Zenon DEF Begin
<1>3. TypeOK'
  BY <1>1, <1>2, Zenon DEF PInv, TypeOK, Steps, storage, reads, journal, counts
<1>4. /\ pc'[p] = "begin" /\ target'[p] = t
      /\ \A q \in Procs \ {p} : pc'[q] = pc[q] /\ target'[q] = target[q]
  BY <1>1, <1>2, Zenon DEF PInv, TypeOK
<1>5. HoldersInv'
  <2> SUFFICES ASSUME NEW q \in Procs
               PROVE  /\ pc'[q] \in Locked <=> lock' = q
                      /\ pc'[q] # "idle" => target'[q] # None
                      /\ pc'[q] # "idle" /\ target'[q].op # "update" => lease' = q
                      /\ pc'[q] \in {"tombstone", "purge"} => target'[q].op = "delete"
    BY Zenon DEF HoldersInv
  <2>1. CASE q = p
    BY <1>1, <1>2, <1>4, <2>1, NoneIsNothing DEF PInv, HoldersInv, Locked
  <2>2. CASE q # p
    BY <1>1, <1>2, <2>2, StoreBounds DEF PInv, HoldersInv
  <2> QED
    BY <2>1, <2>2, Zenon
<1>6. writing[p] = None
  BY <1>2, WriterFacts, Zenon
<1>7. WriteInv'
  BY <1>2, <1>4, Zenon DEF PInv, WriteInv, Writes, storage
<1>8. Persists
  BY <1>2, Zenon DEF Persists, Synced, OnDisk, storage
<1>9. DiskInv'
  BY <1>2, <1>4, <1>8, PersistsPointers, PersistsStaged, ZenonT(30) DEF PInv, DiskInv, Locked,
     storage
<1>10. PurgeInv'
  BY <1>2, <1>4 DEF PInv, PurgeInv, Locked, storage
<1> QED
  BY <1>3, <1>5, <1>7, <1>9, <1>10, Zenon DEF PInv

\* Planning under the lifecycle lock: a Context that is being purged does not
\* come back, because an update needs it to be there and a creation holds the
\* lease that the deletion still has.
LEMMA PlanPInv ==
    ASSUME PInv, NEW p \in Procs, Plan(p)
    PROVE  PInv'
<1>1. PICK v \in Contents(target[p]) :
         next' = [next EXCEPT ![p] =
                    [kind |-> "manifest", n |-> Generation + 1,
                     of |-> [Current EXCEPT ![target[p].of] = v]]]
  BY Zenon DEF Plan
<1>2. TypeOK /\ target[p] \in Targets
  BY HolderFacts, Zenon DEF Plan, PInv
<1>3. Current \in [Contexts -> 0..Versions] /\ Generation \in 0..MaxGen
  BY <1>2, CurrentFacts, Zenon
<1>4. /\ v \in 0..Versions
      /\ target[p].op = "delete" => v = 0
      /\ target[p].op = "update" => Current[target[p].of] # 0
  BY <1>2, StoreBounds, RecordFacts DEF Contents
<1> DEFINE m == [kind |-> "manifest", n |-> Generation + 1,
                 of |-> [Current EXCEPT ![target[p].of] = v]]
<1>5. /\ m \in Manifests /\ m.n = Generation + 1
      /\ m.of = [Current EXCEPT ![target[p].of] = v]
  BY <1>2, <1>3, <1>4, StoreBounds, RecordFacts, SMTT(40) DEF Plan, Manifests
<1>6. next' = [next EXCEPT ![p] = m]
  BY <1>1, Zenon
<1> HIDE DEF m
<1>7. /\ pc[p] = "begin" /\ lock = None /\ lock' = p /\ pc' = [pc EXCEPT ![p] = "mkdir"]
      /\ decided' \in Contexts \cup {None}
      /\ UNCHANGED << lease, storage, target, writing, reads, deleted, counts >>
  BY <1>2, RecordFacts, Zenon DEF Plan
<1>8. TypeOK'
  BY <1>2, <1>5, <1>6, <1>7, Zenon DEF TypeOK, Steps, storage, reads, counts
<1>9. /\ pc'[p] = "mkdir" /\ next'[p] = m
      /\ \A q \in Procs \ {p} : /\ pc'[q] = pc[q] /\ next'[q] = next[q]
                                /\ pc[q] \notin Locked
  BY <1>6, <1>7, StoreBounds DEF TypeOK, PInv, HoldersInv
<1>10. HoldersInv'
  BY <1>7, <1>9, StoreBounds, ZenonT(30) DEF PInv, HoldersInv, Locked
<1>11. writing[p] = None
  BY <1>7, WriterFacts, Zenon
<1>12. WriteInv'
  BY <1>7, <1>9, Zenon DEF PInv, WriteInv, Writes, storage
<1>13. target[p].op = "delete" => m.of[target[p].of] = 0
  BY <1>2, <1>4, <1>5, RecordFacts, Zenon
<1>14. DiskInv'
  <2>1. Persists
    BY <1>7, Zenon DEF Persists, Synced, OnDisk, storage
  <2>2. Staged(p)'
    BY <1>5, <1>7, <1>9, <1>13, NoneIsNothing, PathFacts, Zenon DEF Staged
  <2>3. \A q \in Procs : pc'[q] \in Locked => q = p
    BY <1>9, Zenon
  <2> QED
    BY <1>7, <2>1, <2>2, <2>3, PersistsPointers, Zenon DEF PInv, DiskInv, storage
<1>15. ASSUME NEW q \in Procs, pc[q] \in {"tombstone", "purge"}
       PROVE  m.of[target[q].of] = 0
  <2>1. target[q] \in Targets /\ target[q].op = "delete" /\ lease = q /\ target[q].of \in Contexts
    BY <1>15, HolderFacts, RecordFacts, Zenon DEF PInv, HoldersInv
  <2>2. Current[target[q].of] = 0
    BY <1>15, <2>1, Zenon DEF PInv, DiskInv, PurgeInv, Current
  <2>3. target[q].of = target[p].of => target[p].op # "update"
    BY <1>4, <2>2, Zenon
  <2>4. target[p].op # "create"
    BY <1>7, <2>1, Zenon DEF PInv, HoldersInv
  <2>5. target[q].of = target[p].of => v = 0
    BY <1>2, <1>4, <2>3, <2>4, RecordFacts, Zenon
  <2> QED
    BY <1>5, <2>1, <2>2, <2>5, RecordFacts, Zenon
<1>16. PurgeInv'
  BY <1>7, <1>9, <1>15, Zenon DEF PInv, PurgeInv, storage
<1> QED
  BY <1>8, <1>10, <1>12, <1>14, <1>16, Zenon DEF PInv

\* mkdir, exclusive create, write, sync.
LEMMA WritingPInv ==
    ASSUME PInv, NEW p \in Procs,
           MakeDirectory(p) \/ CreateFile(p) \/ WriteFile(p) \/ SyncFile(p)
    PROVE  PInv'
<1>1. TypeOK /\ pc[p] \in Steps /\ pc = [pc EXCEPT ![p] = pc[p]]
  BY Zenon DEF PInv, TypeOK
<1>2. ASSUME TypeOK', WriteInv', Persists,
             UNCHANGED << lock, lease, pc, target, next, active, disk >>
      PROVE  PInv'
  <2>1. active \in disk' /\ (pc[p] \in Locked => Staged(p)')
    BY <1>2, PersistsStaged, Zenon DEF PInv, DiskInv
  <2> QED
    BY <1>1, <1>2, <2>1, AdvancesPInv, Zenon
<1>3. CASE MakeDirectory(p)
  <2>1. dirs' \subseteq AllConcepts /\ dirs \subseteq dirs' /\ root' \in {"made", root}
    BY <1>1, <1>3 DEF MakeDirectory, TypeOK, AllConcepts
  <2>2. UNCHANGED << lock, lease, kept, files, active, disk, procs, reads, journal, counts >>
    BY <1>3, Zenon DEF MakeDirectory
  <2>3. TypeOK'
    BY <1>1, <2>1, <2>2, Zenon DEF TypeOK, procs, reads, journal, counts
  <2>4. WriteInv'
    BY <2>2, Zenon DEF PInv, WriteInv, Writes, procs
  <2>5. Persists
    BY <2>1, <2>2, Zenon DEF Persists, Synced, OnDisk
  <2> QED
    BY <1>2, <2>2, <2>3, <2>4, <2>5, Zenon DEF procs
<1>4. CASE CreateFile(p)
  <2>1. PICK f \in Writes(p) :
          /\ files[f].bytes = "absent"
          /\ files' = [files EXCEPT ![f] = [NoFile EXCEPT !.bytes = "torn"]]
          /\ writing' = [writing EXCEPT ![p] = f]
    BY <1>4, Zenon DEF CreateFile
  <2>2. /\ writing[p] = None
        /\ UNCHANGED << lock, lease, root, dirs, kept, active, disk, pc, target, next,
                        reads, journal, counts >>
    BY <1>4, Zenon DEF CreateFile
  <2>3. f \in Paths
    BY WriterFacts, Zenon
  <2>4. /\ files' \in [Paths -> Files] /\ files'[f].bytes = "torn"
        /\ \A g \in Paths \ {f} : files'[g] = files[g]
    BY <1>1, <2>1, <2>3, FileFacts, Zenon DEF TypeOK
  <2>5. TypeOK'
    BY <1>1, <2>1, <2>2, <2>3, <2>4, Zenon DEF TypeOK, reads, journal, counts
  <2>6. /\ writing'[p] = f /\ \A q \in Procs \ {p} : writing'[q] = writing[q]
        /\ \A q \in Procs : Writes(q)' = Writes(q)
    BY <1>1, <2>1, <2>2, Zenon DEF TypeOK, Writes
  <2>7. WriteInv'
    <3>1. \A q \in Procs : writing'[q] # None => writing'[q] \in Writes(q)'
      BY <2>6, Zenon DEF PInv, WriteInv
    <3>2. ASSUME NEW g \in Paths, files'[g].bytes = "whole", ~files'[g].data
          PROVE  \E q \in Procs : writing'[q] = g
      <4>1. g # f /\ files'[g] = files[g]
        BY <2>4, <3>2, Zenon
      <4>2. PICK q \in Procs : writing[q] = g
        BY <3>2, <4>1, Zenon DEF PInv, WriteInv
      <4>3. q # p
        BY <2>2, <4>2, NoneIsNothing, Zenon
      <4> QED
        BY <2>6, <4>2, <4>3, Zenon
    <3> QED
      BY <3>1, <3>2, Zenon DEF WriteInv
  <2>8. Persists
    BY <2>1, <2>2, <2>4, Zenon DEF Persists, Synced, OnDisk
  <2> QED
    BY <1>2, <2>2, <2>5, <2>7, <2>8, Zenon
<1>5. CASE WriteFile(p)
  <2> DEFINE f == writing[p]
             s == [files[f] EXCEPT !.bytes = "whole"]
  <2>1. f \in Paths /\ files[f] \in Files /\ files[f].bytes = "torn"
    BY <1>1, <1>5, Zenon DEF WriteFile, TypeOK
  <2>2. s \in Files
    BY <2>1, FileFacts, Zenon
  <2>3. files' = [files EXCEPT ![f] = s]
    BY <1>5, Zenon DEF WriteFile
  <2> HIDE DEF f, s
  <2>4. files' \in [Paths -> Files] /\ \A g \in Paths \ {f} : files'[g] = files[g]
    BY <1>1, <2>2, <2>3, Zenon DEF TypeOK
  <2>5. UNCHANGED << lock, lease, root, dirs, kept, active, disk, procs, reads, journal, counts >>
    BY <1>5, Zenon DEF WriteFile
  <2>6. TypeOK'
    BY <1>1, <2>4, <2>5, Zenon DEF TypeOK, procs, reads, journal, counts
  <2>7. WriteInv'
    BY <2>4, <2>5, Zenon DEF PInv, WriteInv, Writes, procs, f
  <2>8. Persists
    BY <2>1, <2>4, <2>5, Zenon DEF Persists, Synced, OnDisk
  <2> QED
    BY <1>2, <2>5, <2>6, <2>7, <2>8, Zenon DEF procs
<1>6. CASE SyncFile(p)
  <2> DEFINE f == writing[p]
             s == [files[f] EXCEPT !.data = TRUE]
  <2>1. f \in Paths /\ files[f] \in Files
    BY <1>1, <1>6, Zenon DEF SyncFile, TypeOK
  <2>2. s \in Files /\ s.data /\ s.bytes = files[f].bytes /\ s.entry = files[f].entry
    BY <2>1, Zenon DEF Files
  <2>3. /\ files' = [files EXCEPT ![f] = s] /\ writing' = [writing EXCEPT ![p] = None]
        /\ UNCHANGED << lock, lease, root, dirs, kept, active, disk, pc, target, next,
                        reads, journal, counts >>
    BY <1>6, Zenon DEF SyncFile
  <2> HIDE DEF s
  <2>4. /\ files' \in [Paths -> Files] /\ files'[f] = s
        /\ \A g \in Paths \ {f} : files'[g] = files[g]
    BY <1>1, <2>1, <2>2, <2>3, Zenon DEF TypeOK
  <2>5. TypeOK'
    BY <1>1, <2>3, <2>4, Zenon DEF TypeOK, reads, journal, counts
  <2>6. /\ writing'[p] = None /\ \A q \in Procs \ {p} : writing'[q] = writing[q]
        /\ \A q \in Procs : Writes(q)' = Writes(q)
    BY <1>1, <2>3, Zenon DEF TypeOK, Writes
  <2>7. WriteInv'
    <3>1. \A q \in Procs : writing'[q] # None => writing'[q] \in Writes(q)'
      BY <2>6, Zenon DEF PInv, WriteInv
    <3>2. ASSUME NEW g \in Paths, files'[g].bytes = "whole", ~files'[g].data
          PROVE  \E q \in Procs : writing'[q] = g
      <4>1. g # f /\ files'[g] = files[g]
        BY <2>2, <2>4, <3>2, Zenon
      <4>2. PICK q \in Procs : writing[q] = g
        BY <3>2, <4>1, Zenon DEF PInv, WriteInv
      <4> QED
        BY <2>6, <4>1, <4>2, Zenon
    <3> QED
      BY <3>1, <3>2, Zenon DEF WriteInv
  <2>8. Persists
    BY <2>2, <2>3, <2>4, Zenon DEF Persists, Synced, OnDisk
  <2> QED
    BY <1>2, <2>3, <2>5, <2>7, <2>8, Zenon
<1> QED
  BY <1>3, <1>4, <1>5, <1>6, Zenon

\* The phases of publishGeneration up to the rename, and the tombstone.
LEMMA PhasesPInv ==
    ASSUME PInv, NEW p \in Procs,
           \/ DirectoriesMade(p) \/ ObjectsWritten(p) \/ Barrier(p)
           \/ ManifestWritten(p) \/ SyncGenerations(p) \/ TombstoneWritten(p)
    PROVE  PInv'
<1>1. TypeOK /\ active \in disk
  BY Zenon DEF PInv, DiskInv
<1>2. ASSUME NEW s \in Steps, Goto(p, s), writing[p] = None,
             UNCHANGED << root, dirs, active, reads, journal, counts >>,
             kept' \in {kept, dirs}, files' \in [Paths -> Files], disk' \in {disk, {active}},
             s \in {"objects", "barrier", "manifest", "generations", "rename", "purge"},
             s \in Locked <=> pc[p] \in Locked,
             s = "purge" <=> pc[p] = "tombstone", pc[p] \notin {"idle", "purge"},
             \A f \in Paths :
                /\ files'[f].bytes = files[f].bytes /\ files'[f].data = files[f].data
                /\ OnDisk(f) => files'[f].entry,
             s \in Locked => Staged(p)'
      PROVE  PInv'
  <2>1. TypeOK'
    BY <1>1, <1>2, Zenon DEF TypeOK, Goto, reads, journal, counts
  <2>2. \A q \in Procs \ {p} : Writes(q)' = Writes(q)
    BY <1>1, <1>2, Zenon DEF TypeOK, Goto, Writes
  <2>3. WriteInv'
    BY <1>2, <2>2, Zenon DEF PInv, WriteInv, Goto
  <2>4. Persists
    BY <1>1, <1>2, Zenon DEF TypeOK, Persists, Synced, OnDisk
  <2>5. disk' \subseteq disk /\ active \in disk'
    BY <1>1, <1>2, Zenon
  <2>6. /\ pc' = [pc EXCEPT ![p] = s] /\ UNCHANGED << lock, lease, target, next, active >>
        /\ s = "idle" <=> pc[p] = "idle"
        /\ s \in {"tombstone", "purge"} <=> pc[p] \in {"tombstone", "purge"}
    BY <1>2, Zenon DEF Goto
  <2> QED
    BY <1>2, <2>1, <2>3, <2>4, <2>5, <2>6, AdvancesPInv, Zenon
<1>3. pc[p] \in Locked => next[p] \in Manifests /\ Named(next[p]) \subseteq Paths
                          /\ next[p] \in Paths /\ Named(next[p]) \subseteq Objects /\ Staged(p)
  BY HolderFacts, PathFacts, Zenon
<1>4. CASE DirectoriesMade(p)
  <2>1. /\ pc[p] = "mkdir" /\ dirs = AllConcepts /\ Goto(p, "objects")
        /\ UNCHANGED << storage, reads, journal, counts >>
    BY <1>4, Zenon DEF DirectoriesMade
  <2>2. writing[p] = None
    BY <2>1, WriterFacts, Zenon
  <2>3. pc'[p] = "objects"
    BY <1>1, <2>1, Zenon DEF TypeOK, Goto
  <2>4. Staged(p)'
    BY <1>3, <2>1, <2>3, Zenon DEF Staged, Goto, storage, Locked
  <2> QED
    BY <1>1, <1>2, <2>1, <2>2, <2>4, Zenon DEF TypeOK, storage, Steps, Locked, OnDisk
<1>5. CASE ObjectsWritten(p)
  <2>1. /\ pc[p] = "objects" /\ Written(p) /\ Goto(p, "barrier")
        /\ UNCHANGED << storage, reads, journal, counts >>
    BY <1>5, Zenon DEF ObjectsWritten
  <2>2. writing[p] = None /\ \A f \in Named(next[p]) : files[f].bytes = "whole"
    BY <2>1, Zenon DEF Written, Writes
  <2>3. pc'[p] = "barrier"
    BY <1>1, <2>1, Zenon DEF TypeOK, Goto
  <2>4. \A f \in Named(next[p]) : Synced(f)
    BY <1>3, <2>1, <2>2, WrittenSynced, Zenon DEF Locked
  <2>5. Staged(p)'
    BY <1>3, <2>1, <2>3, <2>4, Zenon DEF Staged, Goto, storage, Locked, Synced
  <2> QED
    BY <1>1, <1>2, <2>1, <2>2, <2>5, Zenon DEF TypeOK, storage, Steps, Locked, OnDisk
<1>6. CASE Barrier(p)
  <2>1. /\ pc[p] = "barrier" /\ SyncEntries(Paths) /\ kept' = dirs /\ Goto(p, "manifest")
        /\ UNCHANGED << root, dirs, active, disk, reads, journal, counts >>
    BY <1>6, Zenon DEF Barrier
  <2>2. writing[p] = None
    BY <2>1, WriterFacts, Zenon
  <2>3. /\ files' \in [Paths -> Files]
        /\ \A f \in Paths :
              /\ files'[f].bytes = files[f].bytes /\ files'[f].data = files[f].data
              /\ files'[f].entry = (files[f].bytes # "absent")
    BY <1>1, <2>1, ZenonT(30) DEF TypeOK, SyncEntries, Files
  <2>4. pc'[p] = "manifest"
    BY <1>1, <2>1, Zenon DEF TypeOK, Goto
  <2>5. \A f \in Named(next[p]) : OnDisk(f)'
    BY <1>3, <2>1, <2>3, ZenonT(30) DEF Staged, Synced, OnDisk, Locked
  <2>6. kept' = AllConcepts
    BY <1>3, <2>1, Zenon DEF Staged, Locked
  <2>7. Staged(p)'
    BY <1>3, <2>1, <2>4, <2>5, Zenon DEF Staged, Goto, Locked
  <2>8. \A f \in Paths : OnDisk(f) => files'[f].entry
    BY <2>3, Zenon DEF OnDisk
  <2> QED
    BY <1>2, <2>1, <2>2, <2>3, <2>7, <2>8, Zenon DEF Steps, Locked
<1>7. CASE ManifestWritten(p)
  <2>1. /\ pc[p] = "manifest" /\ Written(p) /\ Goto(p, "generations")
        /\ UNCHANGED << storage, reads, journal, counts >>
    BY <1>7, Zenon DEF ManifestWritten
  <2>2. writing[p] = None /\ files[next[p]].bytes = "whole"
    BY <2>1, Zenon DEF Written, Writes
  <2>3. pc'[p] = "generations"
    BY <1>1, <2>1, Zenon DEF TypeOK, Goto
  <2>4. Synced(next[p])
    BY <1>3, <2>1, <2>2, WrittenSynced, Zenon DEF Locked
  <2>5. Staged(p)'
    BY <1>3, <2>1, <2>3, <2>4, Zenon DEF Staged, Goto, storage, Locked, Synced, OnDisk
  <2> QED
    BY <1>1, <1>2, <2>1, <2>2, <2>5, Zenon DEF TypeOK, storage, Steps, Locked, OnDisk
<1>8. CASE SyncGenerations(p)
  <2>1. /\ pc[p] = "generations" /\ SyncEntries(Manifests) /\ disk' = {active}
        /\ Goto(p, "rename")
        /\ UNCHANGED << root, dirs, kept, active, reads, journal, counts >>
    BY <1>8, Zenon DEF SyncGenerations
  <2>2. writing[p] = None
    BY <2>1, WriterFacts, Zenon
  <2>3. /\ files' \in [Paths -> Files]
        /\ \A f \in Paths :
              /\ files'[f].bytes = files[f].bytes /\ files'[f].data = files[f].data
              /\ files'[f].entry = IF f \in Manifests THEN files[f].bytes # "absent"
                                                      ELSE files[f].entry
    BY <1>1, <2>1, ZenonT(30) DEF TypeOK, SyncEntries, Files
  <2>4. pc'[p] = "rename"
    BY <1>1, <2>1, Zenon DEF TypeOK, Goto
  <2>5. \A f \in Paths : OnDisk(f) => OnDisk(f)'
    BY <2>3, Zenon DEF OnDisk
  <2>6. OnDisk(next[p])'
    <3>1. next'[p] = next[p] /\ next[p] \in Paths \cap Manifests /\ Synced(next[p])
      BY <1>3, <2>1, Zenon DEF Staged, Goto, Locked
    <3> QED
      BY <2>3, <3>1, Zenon DEF Synced, OnDisk
  <2>7. Staged(p)'
    <3>1. /\ next'[p] = next[p] /\ target'[p] = target[p]
          /\ dirs' = dirs /\ kept' = kept
      BY <2>1, Zenon DEF Goto
    <3>2. /\ next[p] # None
          /\ target[p].op = "delete" => next[p].of[target[p].of] = 0
          /\ dirs = AllConcepts /\ kept = AllConcepts
          /\ Named(next[p]) \subseteq Paths /\ \A f \in Named(next[p]) : OnDisk(f)
      BY <1>3, <2>1, Zenon DEF Staged, Locked
    <3>3. \A f \in Named(next[p]) : OnDisk(f)'
      BY <2>5, <3>2, Zenon
    <3> QED
      BY <2>4, <2>6, <3>1, <3>2, <3>3, Zenon DEF Staged
  <2>8. \A f \in Paths : OnDisk(f) => files'[f].entry
    BY <2>5, Zenon DEF OnDisk
  <2> QED
    BY <1>2, <2>1, <2>2, <2>3, <2>7, <2>8, Zenon DEF Steps, Locked
<1>9. CASE TombstoneWritten(p)
  <2>1. /\ pc[p] = "tombstone" /\ writing[p] = None /\ Goto(p, "purge")
        /\ UNCHANGED << storage, reads, journal, counts >>
    BY <1>9, Zenon DEF TombstoneWritten, Written
  <2> QED
    BY <1>1, <1>2, <2>1, Zenon DEF TypeOK, storage, Steps, Locked, OnDisk
<1> QED
  BY <1>4, <1>5, <1>6, <1>7, <1>8, <1>9, Zenon

\* The rename: the new pointer leads to what the phases before it synced, and
\* has no Context that is being purged.
LEMMA RenamePInv ==
    ASSUME PInv, NEW p \in Procs, RenamePointer(p)
    PROVE  PInv'
<1>1. TypeOK /\ pc[p] = "rename" /\ next[p] \in Manifests /\ Staged(p)
  BY HolderFacts, Zenon DEF RenamePointer, PInv, Locked
<1>2. /\ active' = next[p] /\ disk' = disk \cup {next[p]} /\ Goto(p, "settle")
      /\ seen' = [r \in Readers |-> IF at[r] = "idle" THEN {} ELSE seen[r] \cup {next[p]}]
      /\ UNCHANGED << root, dirs, kept, files, at, got, pass, first, between, purged, decided,
                      counts >>
  BY Zenon DEF RenamePointer
<1>3. deleted' \subseteq Contexts
  BY <1>1, HolderFacts, RecordFacts, Zenon DEF RenamePointer, TypeOK
<1>4. seen' \in [Readers -> SUBSET (Manifests \cup {None})]
  BY <1>1, <1>2, Zenon DEF TypeOK
<1>5. /\ pc'[p] = "settle" /\ pc' \in [Procs -> Steps]
      /\ \A q \in Procs \ {p} : pc'[q] = pc[q]
      /\ UNCHANGED << lock, lease, target, next, writing >>
  BY <1>1, <1>2, Zenon DEF TypeOK, Goto, Steps
<1>6. TypeOK'
  BY <1>1, <1>2, <1>3, <1>5, Zenon DEF TypeOK, counts
<1>7. HoldersInv'
  BY <1>1, <1>5, Zenon DEF PInv, HoldersInv, Locked
<1>8. writing[p] = None
  BY <1>1, WriterFacts, Zenon
<1>9. WriteInv'
  BY <1>2, <1>5, <1>8, Zenon DEF PInv, WriteInv, Writes
<1>10. \A q \in Procs : pc[q] \in Locked => q = p
  BY <1>1, Zenon DEF PInv, HoldersInv, Locked
<1>11. DiskInv'
  <2>1. PointerDurable'
    BY <1>1, <1>2, ZenonT(30) DEF PInv, DiskInv, PointerDurable, Staged, OnDisk
  <2>2. Staged(p)'
    BY <1>1, <1>2, <1>5, Zenon DEF Staged
  <2>3. \A q \in Procs : pc'[q] \in Locked => q = p
    BY <1>5, <1>10, Zenon
  <2> QED
    BY <1>2, <2>1, <2>2, <2>3, Zenon DEF DiskInv
<1>12. PurgeInv'
  BY <1>1, <1>2, <1>5 DEF PInv, PurgeInv, Locked
<1> QED
  BY <1>6, <1>7, <1>9, <1>11, <1>12, Zenon DEF PInv

\* The pointer is synced before a deletion goes on to purge, so that no old
\* pointer may come back to what the purge removes.
LEMMA SettlePInv ==
    ASSUME PInv, NEW p \in Procs, Settle(p)
    PROVE  PInv'
<1>1. /\ TypeOK /\ pc[p] = "settle" /\ next[p] \in Manifests /\ active = next[p]
      /\ target[p].op = "delete" => active.of[target[p].of] = 0
  BY HolderFacts, Zenon DEF Settle, PInv, Locked, Staged
<1>2. /\ disk' = {active} /\ root' = "kept" /\ decided' = None /\ AfterPublication(p)
      /\ UNCHANGED << dirs, kept, files, active, reads, deleted, counts >>
  BY Zenon DEF Settle, AfterPublication
<1>3. writing[p] = None
  BY <1>1, WriterFacts, Zenon
<1>4. disk' \subseteq disk /\ active \in disk'
  BY <1>2, Zenon DEF PInv, DiskInv
<1>5. CASE target[p].op # "delete"
  <2>1. Release(p)
    BY <1>2, <1>5, Zenon DEF AfterPublication
  <2>2. TypeOK'
    BY <1>1, <1>2, <2>1, Zenon DEF TypeOK, Release, Steps, reads, counts
  <2> QED
    BY <1>2, <1>3, <1>4, <2>1, <2>2, ReleasePInv, Zenon
<1>6. CASE target[p].op = "delete"
  <2>1. /\ lock' = None /\ pc' = [pc EXCEPT ![p] = "tombstone"]
        /\ UNCHANGED << lease, target, next, writing >>
    BY <1>2, <1>6, Zenon DEF AfterPublication
  <2>2. pc'[p] = "tombstone" /\ \A q \in Procs \ {p} : pc'[q] = pc[q] /\ pc[q] \notin Locked
    BY <1>1, <2>1, Zenon DEF TypeOK, PInv, HoldersInv, Locked
  <2>3. TypeOK'
    BY <1>1, <1>2, <2>1, Zenon DEF TypeOK, Steps, reads, counts
  <2>4. \A q \in Procs : pc'[q] \notin Locked
    BY <2>2, Zenon DEF Locked
  <2>5. HoldersInv'
    BY <1>1, <1>6, <2>1, <2>2, <2>4, StoreBounds, Zenon DEF PInv, HoldersInv
  <2>6. WriteInv'
    BY <1>2, <1>3, <2>1, <2>2, Zenon DEF PInv, WriteInv, Writes
  <2>7. Persists
    BY <1>2, Zenon DEF Persists, Synced, OnDisk
  <2>8. DiskInv'
    BY <1>2, <1>4, <2>4, <2>7, PersistsPointers, Zenon DEF DiskInv
  <2>9. PurgeInv'
    <3>1. ASSUME NEW q \in Procs, pc'[q] \in {"tombstone", "purge"}
          PROVE  active.of[target[q].of] = 0
      <4>1. CASE q = p
        BY <1>1, <1>6, <4>1, Zenon
      <4>2. CASE q # p
        <5>1. pc[q] \in {"tombstone", "purge"}
          BY <2>2, <3>1, <4>2, Zenon
        <5>2. active \in disk \ {None}
          BY <1>1, PathFacts, NoneIsNothing, Zenon DEF PInv, DiskInv
        <5> QED
          BY <5>1, <5>2, Zenon DEF PInv, PurgeInv
      <4> QED
        BY <4>1, <4>2, Zenon
    <3>2. target' = target /\ disk' = {active}
      BY <1>2, <2>1, Zenon
    <3> QED
      BY <2>4, <3>1, <3>2, Zenon DEF PurgeInv
  <2> QED
    BY <2>3, <2>5, <2>6, <2>8, <2>9, Zenon DEF PInv
<1> QED
  BY <1>5, <1>6, Zenon

\* The purge removes a Context's object: no generation that may be selected,
\* now or after a power loss, names it.
LEMMA RemovePInv ==
    ASSUME PInv, NEW p \in Procs, RemoveObject(p)
    PROVE  PInv'
<1>1. PICK o \in Owned(p) : files' = [files EXCEPT ![o].bytes = "absent"]
  BY Zenon DEF RemoveObject
<1>2. /\ pc[p] = "purge" /\ purged' = [r \in Readers |-> at[r] # "idle"]
      /\ UNCHANGED << lock, lease, root, dirs, kept, active, disk, procs, at, got, pass,
                      first, between, seen, journal, counts >>
  BY Zenon DEF RemoveObject
<1>3. o \in Objects /\ o \in Paths /\ o.of = target[p].of /\ o.n # 0
  BY PathFacts, RecordFacts DEF Owned
<1>4. TypeOK /\ files[o] \in Files
  BY <1>3, Zenon DEF PInv, TypeOK
<1>5. /\ files' \in [Paths -> Files] /\ files'[o].bytes = "absent"
      /\ \A f \in Paths \ {o} : files'[f] = files[f]
  BY <1>1, <1>3, <1>4, FileFacts, Zenon DEF TypeOK
<1>6. TypeOK'
  BY <1>2, <1>4, <1>5, Zenon DEF TypeOK, procs, journal, counts
<1>7. HoldersInv' /\ PurgeInv'
  BY <1>2, Zenon DEF PInv, HoldersInv, PurgeInv, procs
<1>8. WriteInv'
  BY <1>2, <1>5, Zenon DEF PInv, WriteInv, Writes, procs
<1>9. \A m \in disk \ {None} : o \notin Named(m)
  BY <1>2, <1>3, Zenon DEF PInv, PurgeInv, Named
<1>10. \A q \in Procs : pc[q] \in Locked => o \notin Named(next[q])
  BY <1>2, <1>3, Zenon DEF PInv, PurgeInv, Named
<1>11. \A m \in Manifests : m # o /\ m \in Paths /\ Named(m) \subseteq Paths
  BY <1>3, PathFacts, Zenon
<1>12. PointerDurable'
  BY <1>2, <1>5, <1>9, <1>11 DEF PInv, DiskInv, PointerDurable, OnDisk, TypeOK
<1>13. ASSUME NEW q \in Procs, pc[q] \in Locked
       PROVE  Staged(q)'
  <2>1. next[q] \in Manifests /\ Staged(q)
    BY <1>13, HolderFacts, Zenon
  <2>2. \A f \in {next[q]} \cup Named(next[q]) : files'[f] = files[f]
    BY <1>5, <1>10, <1>11, <1>13, <2>1, Zenon
  <2> QED
    BY <1>2, <2>1, <2>2, ZenonT(30) DEF Staged, Synced, OnDisk, procs
<1>14. DiskInv'
  BY <1>2, <1>12, <1>13, Zenon DEF PInv, DiskInv, procs
<1> QED
  BY <1>6, <1>7, <1>8, <1>14, Zenon DEF PInv

\* What a power loss leaves of a file: its bytes are on disk, and a file that
\* was on disk is as it was.
LEMMA SurvivorFacts ==
    ASSUME TypeOK, NEW f \in Paths
    PROVE  /\ Survivors(f) \subseteq {NoFile, Kept("torn"), Kept("whole")}
           /\ OnDisk(f) => f \notin Unsettled
           /\ f \notin Unsettled => files[f] \in {NoFile, Kept("torn"), Kept("whole")}
<1>1. Survivors(f) \subseteq {NoFile, Kept("torn"), Kept("whole")}
  BY Zenon DEF Survivors
<1>2. ASSUME OnDisk(f) PROVE Survivors(f) = {files[f]}
  <2>1. files[f] \in Files
    BY Zenon DEF TypeOK
  <2>2. files[f] = Kept("whole")
    BY <1>2, <2>1, Zenon DEF OnDisk, Files, Kept
  <2>3. Survivors(f) = {Kept("whole")}
    BY <1>2, Zenon DEF Survivors, OnDisk
  <2> QED
    BY <2>2, <2>3, Zenon
<1> QED
  BY <1>1, <1>2, Zenon DEF Unsettled

\* A power loss: it selects a pointer that leads to what it must leave.
LEMMA PowerLossPInv ==
    ASSUME PInv, PowerLoss
    PROVE  PInv'
<1>1. /\ disk' = {active'} /\ lock' = None /\ lease' = None
      /\ pc' = [q \in Procs |-> "idle"] /\ target' = [q \in Procs |-> None]
      /\ next' = [q \in Procs |-> None] /\ writing' = [q \in Procs |-> None]
      /\ at' = [r \in Readers |-> "idle"] /\ got' = [r \in Readers |-> None]
      /\ pass' = [r \in Readers |-> 1] /\ first' = [r \in Readers |-> None]
      /\ between' = [r \in Readers |-> None]
      /\ seen' = [r \in Readers |-> {}] /\ purged' = [r \in Readers |-> FALSE]
      /\ UNCHANGED << journal, stops >>
  BY Zenon DEF PowerLoss
<1>2. TypeOK /\ active \in disk /\ PointerDurable
  BY Zenon DEF PInv, DiskInv
<1>3. losses' \in 0..MaxLosses
  BY <1>2, StoreBounds DEF PowerLoss, TypeOK
<1>4. ASSUME root' \in {"none", "made", "kept"}, dirs' \subseteq AllConcepts, kept' \subseteq dirs',
             files' \in [Paths -> {NoFile, Kept("torn"), Kept("whole")}],
             active' \in disk \cup {None}, PointerDurable'
      PROVE  PInv'
  <2>1. files' \in [Paths -> Files]
    <3>1. {NoFile, Kept("torn"), Kept("whole")} \subseteq Files
      BY DEF Files, NoFile, Kept
    <3> QED
      BY <1>4, <3>1, Zenon
  <2>2. active' \in Manifests \cup {None} /\ disk' \subseteq Manifests \cup {None}
    BY <1>1, <1>2, <1>4, Zenon DEF TypeOK
  <2>3. TypeOK'
    <3>1. /\ at' \in [Readers -> ReadSteps] /\ pass' \in [Readers -> 1..2]
          /\ got' \in [Readers -> Manifests \cup {None}]
      BY <1>1 DEF ReadSteps
    <3> QED
      BY <1>1, <1>2, <1>3, <1>4, <2>1, <3>1, Zenon DEF TypeOK, Steps, journal
  <2>4. \A q \in Procs : pc'[q] = "idle" /\ writing'[q] = None
    BY <1>1, Zenon
  <2>5. HoldersInv' /\ PurgeInv'
    BY <1>1, StoreBounds, Zenon DEF HoldersInv, PurgeInv, Locked
  <2>6. \A f \in Paths : files'[f].bytes = "whole" => files'[f].data
    BY <1>4 DEF NoFile, Kept
  <2>7. WriteInv'
    BY <2>4, <2>6, Zenon DEF WriteInv
  <2>8. DiskInv'
    BY <1>1, <1>4, Zenon DEF DiskInv, Locked
  <2> QED
    BY <2>3, <2>5, <2>7, <2>8, Zenon DEF PInv
<1>5. CASE /\ root' = "none" /\ dirs' = {} /\ kept' = {} /\ active' = None
           /\ files' = [f \in Paths |-> NoFile]
  <2>1. PointerDurable'
    BY <1>1, <1>5, Zenon DEF PointerDurable
  <2> QED
    BY <1>4, <1>5, <2>1, Zenon
<1>6. ASSUME NEW d \in SUBSET (dirs \ kept), NEW a \in disk,
             NEW s \in [Unsettled -> {NoFile, Kept("torn"), Kept("whole")}],
             files' = [f \in Paths |-> IF f \in Unsettled THEN s[f] ELSE files[f]],
             dirs' = kept \cup d, kept' = kept \cup d, active' = a,
             root' = IF root = "none" THEN "none" ELSE "kept"
      PROVE  PInv'
  <2>1. files' \in [Paths -> {NoFile, Kept("torn"), Kept("whole")}]
    BY <1>2, <1>6, SurvivorFacts, Zenon
  <2>2. dirs' \subseteq AllConcepts /\ kept' \subseteq dirs' /\ root' \in {"none", "made", "kept"}
    BY <1>2, <1>6, Zenon DEF TypeOK
  <2>3. kept = AllConcepts => kept' = AllConcepts
    BY <1>2, <1>6, Zenon DEF TypeOK
  <2>4. \A f \in Paths : OnDisk(f) => files'[f] = files[f]
    BY <1>2, <1>6, SurvivorFacts, Zenon
  <2>5. \A f \in Paths : OnDisk(f) => OnDisk(f)'
    BY <2>4, Zenon DEF OnDisk
  <2>6. \A m \in disk \ {None} : {m} \cup Named(m) \subseteq Paths
    BY <1>2, PathFacts, Zenon DEF TypeOK
  <2>7. PointerDurable'
    BY <1>1, <1>2, <1>6, <2>3, <2>5, <2>6, Zenon DEF PointerDurable
  <2> QED
    BY <1>4, <1>6, <2>1, <2>2, <2>7, Zenon
<1> QED
  BY <1>5, <1>6, ZenonT(30) DEF PowerLoss

\* A step that changes no file, no pointer and no process.
LEMMA IdlePInv ==
    ASSUME PInv, TypeOK', UNCHANGED << lock, lease, storage, procs >>
    PROVE  PInv'
<1>1. /\ UNCHANGED << lock, lease, dirs, kept, files, active, disk >>
      /\ UNCHANGED << pc, target, next, writing >>
  BY Zenon DEF storage, procs
<1>2. HoldersInv' /\ PurgeInv'
  BY <1>1, Zenon DEF PInv, HoldersInv, PurgeInv
<1>3. WriteInv'
  BY <1>1, Zenon DEF PInv, WriteInv, Writes
<1>4. Persists
  BY <1>1, Zenon DEF Persists, Synced, OnDisk
<1>5. DiskInv'
  BY <1>1, <1>4, PersistsPointers, PersistsStaged, Zenon DEF PInv, DiskInv
<1> QED
  BY <1>2, <1>3, <1>5, Zenon DEF PInv

\* Every step keeps the invariant while no process dies and no call fails.
LEMMA NextPInv ==
    ASSUME PInv, [Next]_vars, MaxStops = 0
    PROVE  PInv'
<1>1. ASSUME NEW p \in Procs, Mutate(p) PROVE PInv'
  <2>1. ~(stops < MaxStops)
    BY DEF PInv, TypeOK
  <2>2. ~SettleUnsynced(p) /\ ~Stop(p)
    BY <2>1, Zenon DEF SettleUnsynced, Stop
  <2> QED
    BY <1>1, <2>2, BeginPInv, PlanPInv, ReturnsPInv, WritingPInv, PhasesPInv, RenamePInv,
       SettlePInv, RemovePInv, Zenon DEF Mutate
<1>2. ASSUME NEW r \in Readers, Read(r) PROVE PInv'
  BY <1>2, ReadTypeOK, IdlePInv, Zenon DEF PInv, Quiet
<1>3. CASE PowerLoss
  BY <1>3, PowerLossPInv, Zenon
<1>4. CASE UNCHANGED vars
  <2>1. TypeOK'
    BY <1>4, Zenon DEF PInv, TypeOK, vars, storage, procs, reads, journal, counts
  <2> QED
    BY <1>4, <2>1, IdlePInv, Zenon DEF vars
<1> QED
  BY <1>1, <1>2, <1>3, <1>4, Zenon DEF Next

\* The invariant holds through any number of power losses, for any number of
\* processes, readers, Contexts and generations, when no process dies and no
\* file operation fails.
THEOREM PowerLossInvariant ==
    ASSUME MaxStops = 0
    PROVE  Spec => []PInv
<1>1. Init => PInv
  BY InitPInv, Zenon
<1>2. PInv /\ [Next]_vars => PInv'
  BY NextPInv, Zenon
<1> QED
  BY <1>1, <1>2, PTL DEF Spec

\* Whatever pointer a power loss leaves, it leaves the generation the pointer
\* selects: publishGeneration syncs the objects, their directories and the
\* manifest before it renames active.json, and purgeDeletedAuthority removes
\* objects only once the pointer that no longer names them is synced.
THEOREM PointerAlwaysDurable ==
    ASSUME MaxStops = 0
    PROVE  Spec => []PointerDurable
<1>1. PInv => PointerDurable
  BY Zenon DEF PInv, DiskInv
<1> QED
  BY <1>1, PowerLossInvariant, PTL

============================================================================
