\* Two calls, two records, one renewal each, one death, and two restarts of
\* the broker, absences of the companion or removals of the manifest.
SPECIFICATION Spec
CONSTANTS
  Calls = {c1, c2}
  Kinds = {"renewable", "signing"}
  MaxRecords = 2
  MaxGeneration = 1
  Tasks = {"login", "logout"}
  Manifests = {m1}
  MaxDeaths = 1
  MaxFaults = 2
  None = None
  Pending = Pending
INVARIANTS NoReplay LoginMakesRecord
PROPERTIES RemovedStays 
CHECK_DEADLOCK FALSE
