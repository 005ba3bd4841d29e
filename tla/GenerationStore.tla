-------------------------- MODULE GenerationStore --------------------------
(***************************************************************************)
(* The content-addressed file store behind the authority collection:       *)
(* publishGeneration, readGenerationRaw and purgeDeletedAuthority, one file*)
(* operation at a time, with process death, I/O errors and power loss      *)
(* between any two of them.                                                *)
(*                                                                         *)
(* A generation is a manifest file that names one object file per Context; *)
(* a single pointer file, active.json, selects it.  Objects and manifests  *)
(* are immutable and named by their digest, so a file is here its path and *)
(* the state of its bytes.  Contexts stand for every kind of resource: the *)
(* store treats Templates and Workspaces in the same way.                  *)
(***************************************************************************)
EXTENDS Naturals, FiniteSets, Sequences

CONSTANTS
    Procs,      \* processes that mutate the authority
    Readers,    \* processes that read it without the lifecycle lock
    Contexts,   \* the Contexts, each with an identity of its own
    None,
    Versions,   \* bound: the contents one Context's object may have
    MaxGen,     \* bound: generations
    MaxStops,   \* bound: process deaths and I/O errors
    MaxLosses   \* bound: power losses

ASSUME StoreBounds ==
    /\ Versions \in Nat \ {0} /\ MaxGen \in Nat \ {0}
    /\ MaxStops \in Nat /\ MaxLosses \in Nat
    /\ None \notin Procs \cup Contexts

\* authorityConceptDirectories, in the order they are made.
Concepts == << "contexts", "generations", "journal", "policy-memory",
               "templates", "tombstones", "workspaces" >>
AllConcepts == {Concepts[i] : i \in DOMAIN Concepts}

Objects == [kind : {"object"}, of : Contexts, n : 1..Versions]
Manifests == [kind : {"manifest"}, of : [Contexts -> 0..Versions], n : 1..MaxGen]
Tombstones == [kind : {"tombstone"}, of : Contexts, n : {0}]
Paths == Objects \cup Manifests \cup Tombstones

Targets == [op : {"create", "update", "delete"}, of : Contexts]

ASSUME NoneIsNothing == None \notin Paths /\ None \notin Targets

Tombstone(c) == [kind |-> "tombstone", of |-> c, n |-> 0]

\* The objects manifest m names: version 0 means that m has no such Context.
Named(m) ==
    {o \in Objects : m.of[o.of] = o.n}

\* bytes: what a read sees; data: the bytes are on disk; entry: the name is.
\* An absent file whose entry is on disk has been removed and not synced.
Files == [bytes : {"absent", "torn", "whole"}, data : BOOLEAN, entry : BOOLEAN]
NoFile == [bytes |-> "absent", data |-> FALSE, entry |-> FALSE]
Kept(bytes) == [bytes |-> bytes, data |-> TRUE, entry |-> TRUE]

VARIABLES
    lock,       \* the process that holds the lifecycle lock, or None
    lease,      \* the process that holds the resource catalog lease, or None
    root,       \* the authority root directory: "none", "made", or "kept" on disk
    dirs,       \* the concept directories that exist in it
    kept,       \* those of them that are on disk
    files,      \* the state of every file of the store
    active,     \* the manifest active.json selects, or None
    disk,       \* the pointers that a power loss may leave
    pc, target, next, writing,   \* per mutating process, see TypeOK
    at, got,    \* per reader: where it is and the manifest it has read
    pass, first,    \* per reader: which pass it is in, what the first one returned
    between,    \* per reader: the pointer that was active between the passes
    seen,       \* per reader: the pointers active since it began
    purged,     \* per reader: whether objects were removed since it began
    decided,    \* the Context whose deletion has an active decision, or None
    deleted,    \* the Contexts that a publication removed
    stops, losses

storage == << root, dirs, kept, files, active, disk >>
procs == << pc, target, next, writing >>
reads == << at, got, pass, first, between, seen, purged >>
counts == << stops, losses >>
journal == << decided, deleted >>
vars == << lock, lease, storage, procs, reads, journal, counts >>

Steps == {"idle", "begin", "mkdir", "objects", "barrier", "manifest",
          "generations", "rename", "settle", "tombstone", "purge"}
ReadSteps == {"idle", "list", "pointer", "manifest", "objects", "done", "changed", "error"}

\* Every variable keeps its type: what a process is about to publish, and what
\* active.json may select, is a numbered generation of known objects.
TypeOK ==
    /\ lock \in Procs \cup {None} /\ lease \in Procs \cup {None}
    /\ root \in {"none", "made", "kept"} /\ dirs \subseteq AllConcepts /\ kept \subseteq dirs
    /\ files \in [Paths -> Files]
    /\ active \in Manifests \cup {None} /\ disk \subseteq Manifests \cup {None}
    /\ pc \in [Procs -> Steps]
    /\ target \in [Procs -> Targets \cup {None}]
    /\ next \in [Procs -> Manifests \cup {None}]
    /\ writing \in [Procs -> Paths \cup {None}]
    /\ at \in [Readers -> ReadSteps]
    /\ got \in [Readers -> Manifests \cup {None}]
    /\ pass \in [Readers -> 1..2] /\ first \in [Readers -> Manifests \cup {None}]
    /\ between \in [Readers -> Manifests \cup {None}]
    /\ seen \in [Readers -> SUBSET (Manifests \cup {None})]
    /\ purged \in [Readers -> BOOLEAN]
    /\ decided \in Contexts \cup {None} /\ deleted \subseteq Contexts
    /\ stops \in 0..MaxStops /\ losses \in 0..MaxLosses

Init ==
    /\ lock = None /\ lease = None
    /\ root = "none" /\ dirs = {} /\ kept = {}
    /\ files = [f \in Paths |-> NoFile]
    /\ active = None /\ disk = {None}
    /\ pc = [p \in Procs |-> "idle"]
    /\ target = [p \in Procs |-> None]
    /\ next = [p \in Procs |-> None]
    /\ writing = [p \in Procs |-> None]
    /\ at = [r \in Readers |-> "idle"]
    /\ got = [r \in Readers |-> None]
    /\ pass = [r \in Readers |-> 1] /\ first = [r \in Readers |-> None]
    /\ between = [r \in Readers |-> None]
    /\ seen = [r \in Readers |-> {}]
    /\ purged = [r \in Readers |-> FALSE]
    /\ decided = None /\ deleted = {}
    /\ stops = 0 /\ losses = 0

----------------------------------------------------------------------------
(* Reading.                                                                *)

\* The listing of the root that a read accepts: no root, only the journal or
\* every concept directory while nothing is published, all of them after.
Acceptable ==
    \/ root = "none"
    \/ active = None /\ dirs \in {{"journal"}, AllConcepts}
    \/ active # None /\ dirs = AllConcepts

\* The digests of the manifest and of every object it names match.
Complete(m) ==
    \A f \in {m} \cup Named(m) : files[f].bytes = "whole"

\* A read under the lifecycle lock, where nothing changes while it runs.
ReadOK == Acceptable /\ (active # None => Complete(active))

Generation == IF active = None THEN 0 ELSE active.n
Current == IF active = None THEN [c \in Contexts |-> 0] ELSE active.of

----------------------------------------------------------------------------
(* Mutating processes.                                                     *)

Release(p) ==
    /\ lock' = IF lock = p THEN None ELSE lock
    /\ lease' = IF lease = p THEN None ELSE lease
    /\ pc' = [pc EXCEPT ![p] = "idle"]
    /\ target' = [target EXCEPT ![p] = None]
    /\ next' = [next EXCEPT ![p] = None]
    /\ writing' = [writing EXCEPT ![p] = None]

Goto(p, step) ==
    /\ pc' = [pc EXCEPT ![p] = step]
    /\ UNCHANGED << lock, lease, target, next, writing >>

\* A Context is created from its source and deleted under the catalog lease,
\* which a second process is refused; its tombstone forbids both.  Any other
\* mutation that gives it a new object takes only the lifecycle lock.
Begin(p) ==
    /\ pc[p] = "idle" /\ ReadOK
    /\ \E t \in Targets :
          /\ t.op # "update" =>
                lease = None /\ files[Tombstone(t.of)].bytes = "absent"
          /\ lease' = IF t.op = "update" THEN lease ELSE p
          /\ target' = [target EXCEPT ![p] = t]
    /\ pc' = [pc EXCEPT ![p] = "begin"]
    /\ UNCHANGED << lock, storage, next, writing, reads, journal, counts >>

\* The contents that the operation may give the Context, 0 to delete it.
Contents(t) ==
    LET v == Current[t.of]
    IN  CASE t.op = "create" -> IF v = 0 THEN 1..Versions ELSE {}
          [] t.op = "update" -> IF v = 0 THEN {} ELSE (1..Versions) \ {v}
          [] t.op = "delete" -> IF v = 0 THEN {} ELSE {0}

\* An active decision admits only the command that wrote it.
Admitted(t) == decided = None \/ (t.op = "delete" /\ t.of = decided)

\* Take the lifecycle lock, read again, plan the next generation.  A deletion
\* records its decision (and has the Gateway settle it) before it publishes.
Plan(p) ==
    /\ pc[p] = "begin" /\ lock = None /\ ReadOK
    /\ Admitted(target[p]) /\ Generation < MaxGen
    /\ \E v \in Contents(target[p]) :
          next' = [next EXCEPT ![p] =
                     [kind |-> "manifest", n |-> Generation + 1,
                      of |-> [Current EXCEPT ![target[p].of] = v]]]
    /\ decided' = IF target[p].op = "delete" THEN target[p].of ELSE None
    /\ lock' = p
    /\ pc' = [pc EXCEPT ![p] = "mkdir"]
    /\ UNCHANGED << lease, storage, target, writing, reads, deleted, counts >>

\* The operation does not apply to what is now current, or the read fails.
PlanRefused(p) ==
    /\ pc[p] = "begin" /\ lock = None
    /\ \/ ~ReadOK \/ ~Admitted(target[p])
       \/ Contents(target[p]) = {} \/ Generation = MaxGen
    /\ Release(p)
    /\ UNCHANGED << storage, reads, journal, counts >>

\* ensureAuthorityDirectory: the root, then the concept directories in order.
MakeDirectory(p) ==
    /\ pc[p] = "mkdir"
    /\ IF root = "none"
         THEN root' = "made" /\ UNCHANGED dirs
         ELSE /\ dirs # AllConcepts
              /\ root' = root
              /\ \E i \in DOMAIN Concepts :
                    /\ Concepts[i] \notin dirs
                    /\ \A j \in 1..(i - 1) : Concepts[j] \in dirs
                    /\ dirs' = dirs \cup {Concepts[i]}
    /\ UNCHANGED << lock, lease, kept, files, active, disk, procs, reads, journal, counts >>

\* The files the current step of the process writes.
Writes(p) ==
    CASE pc[p] = "objects"   -> Named(next[p])
      [] pc[p] = "manifest"  -> {next[p]}
      [] pc[p] = "tombstone" -> {Tombstone(target[p].of)}
      [] OTHER               -> {}

\* writeImmutableAuthorityFile: create exclusively, write, sync the bytes.
CreateFile(p) ==
    /\ writing[p] = None
    /\ \E f \in Writes(p) :
          /\ files[f].bytes = "absent"
          /\ files' = [files EXCEPT ![f] = [NoFile EXCEPT !.bytes = "torn"]]
          /\ writing' = [writing EXCEPT ![p] = f]
    /\ UNCHANGED << lock, lease, root, dirs, kept, active, disk, pc, target, next,
                    reads, journal, counts >>

WriteFile(p) ==
    /\ writing[p] # None /\ files[writing[p]].bytes = "torn"
    /\ files' = [files EXCEPT ![writing[p]].bytes = "whole"]
    /\ UNCHANGED << lock, lease, root, dirs, kept, active, disk, procs, reads, journal, counts >>

SyncFile(p) ==
    /\ writing[p] # None /\ files[writing[p]].bytes = "whole"
    /\ files' = [files EXCEPT ![writing[p]].data = TRUE]
    /\ writing' = [writing EXCEPT ![p] = None]
    /\ UNCHANGED << lock, lease, root, dirs, kept, active, disk, pc, target, next,
                    reads, journal, counts >>

\* A file of that name with other bytes is never replaced: the call fails.
FileConflict(p) ==
    /\ writing[p] = None
    /\ \E f \in Writes(p) : files[f].bytes = "torn"
    /\ Release(p)
    /\ UNCHANGED << storage, reads, journal, counts >>

\* Written that asks only whether the files exist.
WrittenIfPresent(p) == writing[p] = None /\ \A f \in Writes(p) : files[f].bytes # "absent"

\* A file that is there with the same bytes is accepted as it is.
Written(p) == writing[p] = None /\ \A f \in Writes(p) : files[f].bytes = "whole"

\* The names of the files in fs become what they are in memory.
SyncEntries(fs) ==
    files' = [f \in Paths |->
                IF f \in fs THEN [files[f] EXCEPT !.entry = (files[f].bytes # "absent")]
                            ELSE files[f]]

DirectoriesMade(p) ==
    /\ pc[p] = "mkdir" /\ root # "none" /\ dirs = AllConcepts
    /\ Goto(p, "objects")
    /\ UNCHANGED << storage, reads, journal, counts >>

\* ObjectsWritten that does not wait for every object.
ObjectsSkipped(p) ==
    /\ pc[p] = "objects" /\ writing[p] = None
    /\ Goto(p, "barrier")
    /\ UNCHANGED << storage, reads, journal, counts >>

ObjectsWritten(p) ==
    /\ pc[p] = "objects" /\ Written(p)
    /\ Goto(p, "barrier")
    /\ UNCHANGED << storage, reads, journal, counts >>

\* Barrier that syncs the concept directories but not the ones below them.
ShallowBarrier(p) ==
    /\ pc[p] = "barrier"
    /\ kept' = dirs
    /\ Goto(p, "manifest")
    /\ UNCHANGED << root, dirs, files, active, disk, reads, journal, counts >>

\* syncAuthorityTree: every directory of the tree, from the leaves up.
Barrier(p) ==
    /\ pc[p] = "barrier"
    /\ SyncEntries(Paths)
    /\ kept' = dirs
    /\ Goto(p, "manifest")
    /\ UNCHANGED << root, dirs, active, disk, reads, journal, counts >>

ManifestWritten(p) ==
    /\ pc[p] = "manifest" /\ Written(p)
    /\ Goto(p, "generations")
    /\ UNCHANGED << storage, reads, journal, counts >>

\* Sync the generations directory and the root; write and sync the pointer at
\* its stage path, where a torn one is simply truncated by the next writer.
SyncGenerations(p) ==
    /\ pc[p] = "generations"
    /\ SyncEntries(Manifests)
    /\ disk' = {active}
    /\ Goto(p, "rename")
    /\ UNCHANGED << root, dirs, kept, active, reads, journal, counts >>

RenamePointer(p) ==
    /\ pc[p] = "rename"
    /\ active' = next[p]
    /\ disk' = disk \cup {next[p]}
    /\ seen' = [r \in Readers |-> IF at[r] = "idle" THEN {} ELSE seen[r] \cup {next[p]}]
    /\ deleted' = IF target[p].op = "delete" THEN deleted \cup {target[p].of} ELSE deleted
    /\ Goto(p, "settle")
    /\ UNCHANGED << root, dirs, kept, files, at, got, pass, first, between, purged, decided,
                    counts >>

\* The publication is classified by reading it back, a decision is cleared and
\* the lifecycle lock released; a deletion goes on to purge.
AfterPublication(p) ==
    /\ decided' = None
    /\ UNCHANGED deleted
    /\ IF target[p].op = "delete"
         THEN /\ lock' = None
              /\ pc' = [pc EXCEPT ![p] = "tombstone"]
              /\ UNCHANGED << lease, target, next, writing >>
         ELSE Release(p)

Settle(p) ==
    /\ pc[p] = "settle"
    /\ disk' = {active}
    /\ root' = "kept"
    /\ AfterPublication(p)
    /\ UNCHANGED << dirs, kept, files, active, reads, counts >>

\* A directory sync after the rename fails: the read-back still finds the new
\* generation, so the call succeeds, with the pointer possibly not on disk.
SettleUnsynced(p) ==
    /\ pc[p] = "settle" /\ stops < MaxStops
    /\ stops' = stops + 1
    /\ AfterPublication(p)
    /\ UNCHANGED << storage, reads, losses >>

\* purgeDeletedAuthority, after the lock: the tombstone, then the Context's
\* objects one by one; the removals are not synced below the root.
TombstoneWritten(p) ==
    /\ pc[p] = "tombstone" /\ Written(p)
    /\ Goto(p, "purge")
    /\ UNCHANGED << storage, reads, journal, counts >>

Owned(p) == {o \in Objects : o.of = target[p].of /\ files[o].bytes # "absent"}

RemoveObject(p) ==
    /\ pc[p] = "purge"
    /\ \E o \in Owned(p) : files' = [files EXCEPT ![o].bytes = "absent"]
    /\ purged' = [r \in Readers |-> at[r] # "idle"]
    /\ UNCHANGED << lock, lease, root, dirs, kept, active, disk, procs, at, got, pass,
                    first, between, seen, journal, counts >>

Purged(p) ==
    /\ pc[p] = "purge" /\ Owned(p) = {}
    /\ Release(p)
    /\ UNCHANGED << storage, reads, journal, counts >>

----------------------------------------------------------------------------
(* Lock-free readers: ReadComplete reads the whole store twice.            *)

Quiet == UNCHANGED << lock, lease, storage, procs, journal, counts >>

StartRead(r) ==
    /\ at[r] = "idle"
    /\ at' = [at EXCEPT ![r] = "list"]
    /\ seen' = [seen EXCEPT ![r] = {active}]
    /\ UNCHANGED << got, pass, first, between, purged >>
    /\ Quiet

\* EndPass of a reader that does not compare the second pass with the first.
EndPassUncompared(r, m) ==
    /\ got' = [got EXCEPT ![r] = m]
    /\ IF pass[r] = 1
         THEN /\ at' = [at EXCEPT ![r] = "list"]
              /\ pass' = [pass EXCEPT ![r] = 2]
              /\ first' = [first EXCEPT ![r] = m]
              /\ between' = [between EXCEPT ![r] = active]
         ELSE /\ at' = [at EXCEPT ![r] = "done"]
              /\ UNCHANGED << pass, first, between >>

\* A pass that read generation m, or found none, is followed by the second or,
\* when it is the second, compared with the first.
EndPass(r, m) ==
    /\ got' = [got EXCEPT ![r] = m]
    /\ IF pass[r] = 1
         THEN /\ at' = [at EXCEPT ![r] = "list"]
              /\ pass' = [pass EXCEPT ![r] = 2]
              /\ first' = [first EXCEPT ![r] = m]
              /\ between' = [between EXCEPT ![r] = active]
         ELSE /\ at' = [at EXCEPT ![r] = IF m = first[r] THEN "done" ELSE "changed"]
              /\ UNCHANGED << pass, first, between >>

ReadFails(r) ==
    /\ at' = [at EXCEPT ![r] = "error"]
    /\ UNCHANGED << got, pass, first, between >>

ListRoot(r) ==
    /\ at[r] = "list"
    /\ \/ ~Acceptable /\ ReadFails(r)
       \/ Acceptable /\ active = None /\ EndPass(r, None)
       \/ /\ Acceptable /\ active # None
          /\ at' = [at EXCEPT ![r] = "pointer"]
          /\ UNCHANGED << got, pass, first, between >>
    /\ UNCHANGED << seen, purged >>
    /\ Quiet

ReadPointer(r) ==
    /\ at[r] = "pointer"
    /\ at' = [at EXCEPT ![r] = "manifest"]
    /\ got' = [got EXCEPT ![r] = active]
    /\ UNCHANGED << pass, first, between, seen, purged >>
    /\ Quiet

ReadManifest(r) ==
    /\ at[r] = "manifest"
    /\ IF files[got[r]].bytes = "whole"
         THEN at' = [at EXCEPT ![r] = "objects"] /\ UNCHANGED << got, pass, first, between >>
         ELSE ReadFails(r)
    /\ UNCHANGED << seen, purged >>
    /\ Quiet

ReadObjects(r) ==
    /\ at[r] = "objects"
    /\ IF Complete(got[r]) THEN EndPass(r, got[r]) ELSE ReadFails(r)
    /\ UNCHANGED << seen, purged >>
    /\ Quiet

EndRead(r) ==
    /\ at[r] \in {"done", "changed", "error"}
    /\ at' = [at EXCEPT ![r] = "idle"]
    /\ got' = [got EXCEPT ![r] = None]
    /\ pass' = [pass EXCEPT ![r] = 1]
    /\ first' = [first EXCEPT ![r] = None]
    /\ between' = [between EXCEPT ![r] = None]
    /\ seen' = [seen EXCEPT ![r] = {}]
    /\ purged' = [purged EXCEPT ![r] = FALSE]
    /\ Quiet

----------------------------------------------------------------------------
(* Faults.                                                                 *)

\* The process dies, or a file operation fails and the command returns its
\* error: the locks are released, the files stay as they are.
Stop(p) ==
    /\ pc[p] # "idle" /\ stops < MaxStops
    /\ stops' = stops + 1
    /\ Release(p)
    /\ UNCHANGED << storage, reads, decided, deleted, losses >>

\* What a power loss may leave of a file.
Survivors(f) ==
    LET s == files[f]
    IN  (IF s.entry /\ s.bytes # "absent" THEN {} ELSE {NoFile})
        \cup (IF s.bytes = "whole" \/ (s.bytes = "absent" /\ s.entry)
                THEN {Kept("whole")} ELSE {})
        \cup (IF s.bytes = "torn" \/ (s.bytes = "whole" /\ ~s.data)
                THEN {Kept("torn")} ELSE {})

\* The directory that holds a file.
Home(f) == CASE f \in Objects   -> "contexts"
             [] f \in Manifests -> "generations"
             [] OTHER           -> "tombstones"

Unsettled == {f \in Paths : Survivors(f) # {files[f]}}

\* Everything under a root that is itself not on disk may be gone; otherwise
\* what is not synced stays or goes, name by name.
PowerLoss ==
    /\ losses < MaxLosses
    /\ losses' = losses + 1
    /\ \/ /\ root = "made"
          /\ root' = "none" /\ dirs' = {} /\ kept' = {} /\ active' = None
          /\ files' = [f \in Paths |-> NoFile]
       \/ \E d \in SUBSET (dirs \ kept), a \in disk,
             s \in [Unsettled -> {NoFile, Kept("torn"), Kept("whole")}] :
             /\ \A f \in Unsettled :
                   s[f] \in IF Home(f) \in kept \cup d THEN Survivors(f) ELSE {NoFile}
             /\ files' = [f \in Paths |-> IF f \in Unsettled THEN s[f] ELSE files[f]]
             /\ dirs' = kept \cup d /\ kept' = kept \cup d
             /\ active' = a
             /\ root' = IF root = "none" THEN "none" ELSE "kept"
    /\ disk' = {active'}
    /\ lock' = None /\ lease' = None
    /\ pc' = [p \in Procs |-> "idle"]
    /\ target' = [p \in Procs |-> None]
    /\ next' = [p \in Procs |-> None]
    /\ writing' = [p \in Procs |-> None]
    /\ at' = [r \in Readers |-> "idle"]
    /\ got' = [r \in Readers |-> None]
    /\ pass' = [r \in Readers |-> 1] /\ first' = [r \in Readers |-> None]
    /\ between' = [r \in Readers |-> None]
    /\ seen' = [r \in Readers |-> {}]
    /\ purged' = [r \in Readers |-> FALSE]
    /\ UNCHANGED << journal, stops >>

----------------------------------------------------------------------------
Mutate(p) ==
    \/ Begin(p) \/ Plan(p) \/ PlanRefused(p)
    \/ MakeDirectory(p) \/ DirectoriesMade(p)
    \/ CreateFile(p) \/ WriteFile(p) \/ SyncFile(p) \/ FileConflict(p)
    \/ ObjectsWritten(p) \/ Barrier(p) \/ ManifestWritten(p) \/ SyncGenerations(p)
    \/ RenamePointer(p) \/ Settle(p) \/ SettleUnsynced(p)
    \/ TombstoneWritten(p) \/ RemoveObject(p) \/ Purged(p) \/ Stop(p)

Read(r) ==
    \/ StartRead(r) \/ ListRoot(r) \/ ReadPointer(r) \/ ReadManifest(r)
    \/ ReadObjects(r) \/ EndRead(r)

Next ==
    \/ \E p \in Procs : Mutate(p)
    \/ \E r \in Readers : Read(r)
    \/ PowerLoss

Spec == Init /\ [][Next]_vars

----------------------------------------------------------------------------
(* Properties.                                                             *)

(***************************************************************************)
(* The generation that active.json selects can be read whole: its manifest *)
(* and every object it names are there with all their bytes, and the root  *)
(* holds every concept directory.  Publication writes them before it       *)
(* renames the pointer, and a purge removes only what no generation that   *)
(* can still be selected names, whatever dies in between.  It holds no     *)
(* Context whose tombstone is written, as the catalog lease keeps a        *)
(* creation out between a deletion's publication and its tombstone.        *)
(***************************************************************************)
ActiveComplete ==
    /\ TypeOK
    /\ active # None => ReadOK
    /\ \A c \in Contexts : files[Tombstone(c)].bytes # "absent" => Current[c] = 0

(***************************************************************************)
(* What ReadComplete returns, without a lock, was the selected generation  *)
(* when the first pass had ended and the second had not begun, which is    *)
(* when the legacy guard is asked: the answer and the generation belong    *)
(* together.  It reports a change only if a generation was published while *)
(* it read, and fails otherwise only if it began before the first          *)
(* publication or a deleted Context's objects were removed while it ran:   *)
(* no file that a generation may name is ever overwritten.                 *)
(***************************************************************************)
ReadsCoherent ==
    \A r \in Readers :
        /\ at[r] = "done" => got[r] = between[r] /\ got[r] \in seen[r]
        /\ at[r] = "changed" => {first[r], got[r]} \subseteq seen[r]
        /\ at[r] = "error" => None \in seen[r] \/ purged[r]

(***************************************************************************)
(* Every pointer that a power loss may leave selects a manifest and objects*)
(* that the same power loss must leave as well.                            *)
(***************************************************************************)
OnDisk(f) == files[f].bytes = "whole" /\ files[f].data /\ files[f].entry
PointerDurable ==
    \A m \in disk \ {None} :
        /\ \A f \in {m} \cup Named(m) : OnDisk(f)
        /\ kept = AllConcepts

(***************************************************************************)
(* Seen through a complete read, the store is one atomic register: a file  *)
(* operation either leaves what is selected alone or replaces it by its    *)
(* successor.                                                              *)
(***************************************************************************)
View == IF active # None /\ ReadOK THEN active ELSE None
Register == INSTANCE AtomicStore WITH
    Nothing <- None, Generations <- Manifests, selected <- View
ImplementsAtomicStore == Register!ASpec

(***************************************************************************)
(* While no mutation runs, the root can be read: the first publication of  *)
(* an installation leaves no partial root behind, wherever it is cut off.  *)
(***************************************************************************)
NoPartialRoot == lock = None => Acceptable

(***************************************************************************)
(* An identity that was deleted is never published again, since deletion   *)
(* leaves a tombstone that every later plan and Apply checks.              *)
(***************************************************************************)
DeletedStaysDeleted == \A c \in deleted : Current[c] = 0

(***************************************************************************)
(* A deletion that was cut off after its decision can be carried through by*)
(* running the same command again.  The command first looks the Context up *)
(* in the current generation and recovers only when it finds it there.     *)
(***************************************************************************)
DeletionRecoverable == lock = None /\ decided # None => Current[decided] # 0
=============================================================================
