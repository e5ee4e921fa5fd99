(* Two threads, one database, each call cancelled up to twice. *)
SPECIFICATION Spec
CONSTANTS
  page = page
  note = note
  batch = batch
  Calls = {page, note, batch}
  Origin <- OneOfEach
  Synchronous = {note, batch}
  Nests = {note}
  Threads = 2
  Databases = {d1}
  MaxCancels = 2
INVARIANTS DatabasesAreKept
PROPERTIES PoolAnswers ShutdownEnds
CHECK_DEADLOCK FALSE
