----------------------------- MODULE FileStore -----------------------------
(***************************************************************************)
(* The checkpoint file of internal/state/file_store.go, one system call at *)
(* a time.  Save writes a temporary file, syncs it and renames it over the *)
(* state file; Load reads the state file and takes a missing or damaged    *)
(* one for the empty state.  Calls are serialised by Service.mu, so there  *)
(* is at most one at a time.                                               *)
(*                                                                         *)
(* Killing the process loses nothing the kernel was given.  A power        *)
(* failure loses what was not synced: the data of a file may then be       *)
(* damaged, and a rename may not have happened.  A temporary file that a   *)
(* crash leaves behind is never read again, and is forgotten here.         *)
(***************************************************************************)
CONSTANTS
  States,   \* the checkpoints that may be saved
  NoState,  \* the empty state
  Damaged   \* data that is not the JSON of a checkpoint

\* They are different things.
DataAssumption == NoState \notin States /\ Damaged \notin States /\ NoState # Damaged

VARIABLES
  pc,       \* where the running Save is; "idle" between calls
  new,      \* the checkpoint it saves
  temp,     \* {data} of its temporary file, {} when it has none
  synced,   \* is that data on stable storage?
  current,  \* the data the state file's name leads to; NoState for no file
  stored,   \* the data it may lead to after a power failure
  done      \* the outcome of the last Save; "none" while it runs

vars == <<pc, new, temp, synced, current, stored, done>>

Data == States \cup {NoState, Damaged}

Places == {"idle", "create", "write", "sync", "settle", "rename", "syncdir"}

Init ==
  /\ pc = "idle" /\ new = NoState
  /\ temp = {} /\ synced = FALSE
  /\ current = NoState /\ stored = {NoState}
  /\ done = "none"

\* What Load returns: the empty state for a file it cannot parse.
Loaded(data) == IF data = Damaged THEN NoState ELSE data
-----------------------------------------------------------------------------
Save(st) ==
  /\ pc = "idle"
  /\ pc' = "create" /\ new' = st /\ done' = "none"
  /\ UNCHANGED <<temp, synced, current, stored>>

Goto(place) ==
  /\ pc' = place
  /\ UNCHANGED <<new, current, stored, done>>

\* An empty file is not the JSON of a checkpoint.
Create ==
  /\ pc = "create"
  /\ temp' = {Damaged} /\ synced' = FALSE
  /\ Goto("write")

Write ==
  /\ pc = "write"
  /\ temp' = {new} /\ synced' = FALSE
  /\ Goto("sync")

\* Mutant: the data is not synced before the rename.
SkipSync == pc = "sync" /\ Goto("settle") /\ UNCHANGED <<temp, synced>>

Sync == pc = "sync" /\ synced' = TRUE /\ Goto("settle") /\ UNCHANGED temp

\* Chmod, close and the last look at the context.
Settle == pc = "settle" /\ Goto("rename") /\ UNCHANGED <<temp, synced>>

\* The name leads to the new data at once; on stable storage it may do so now,
\* or only after the directory is synced, and unsynced data may be lost.
Rename ==
  /\ pc = "rename"
  /\ pc' = "syncdir"
  /\ current' \in temp
  /\ stored' = stored \cup temp \cup {d \in {Damaged} : ~synced}
  /\ temp' = {} /\ synced' = FALSE
  /\ UNCHANGED <<new, done>>

\* The directory is synced if it can be; the call succeeds all the same.
SyncDir ==
  /\ pc = "syncdir"
  /\ pc' = "idle" /\ done' = "ok"
  /\ stored' \in {stored, {current}}
  /\ UNCHANGED <<new, temp, synced, current>>

\* Mutant: the context is looked at once more after the rename.
FailAfterRename ==
  /\ pc # "idle"
  /\ pc' = "idle" /\ done' = "error"
  /\ temp' = {} /\ synced' = FALSE
  /\ UNCHANGED <<new, current, stored>>

\* A system call fails, or the context ends before a look at it: the temporary
\* file is removed, if there is one, and the error is returned.
Fail ==
  /\ pc \in Places \ {"idle", "syncdir"}
  /\ pc' = "idle" /\ done' = "error"
  /\ temp' = {} /\ synced' = FALSE
  /\ UNCHANGED <<new, current, stored>>

\* The process dies at any point of a call, or between calls.
Die ==
  /\ pc' = "idle" /\ temp' = {} /\ synced' = FALSE /\ done' = "none"
  /\ UNCHANGED new

Kill == Die /\ UNCHANGED <<current, stored>>

PowerFailure == Die /\ current' \in stored /\ stored' = {current'}

\* Somebody removes the state file.
Remove ==
  /\ current' = NoState
  /\ stored' = stored \cup {NoState}
  /\ UNCHANGED <<pc, new, temp, synced, done>>

Next ==
  \/ \E st \in States : Save(st)
  \/ Create \/ Write \/ Sync \/ Settle \/ Rename \/ SyncDir \/ Fail
  \/ Kill \/ PowerFailure \/ Remove

Spec == Init /\ [][Next]_vars
-----------------------------------------------------------------------------
(***************************************************************************)
(* Properties.                                                             *)
(***************************************************************************)

TypeOK ==
  /\ pc \in Places /\ new \in States \cup {NoState}
  /\ temp \in SUBSET Data /\ synced \in BOOLEAN
  /\ current \in Data /\ stored \in SUBSET Data
  /\ done \in {"none", "ok", "error"}

\* Whenever the power fails, in a Save or between two, the state file holds a
\* checkpoint in full (or there is none yet): never data Load cannot parse,
\* which Load would report as `no checkpoint'.
NeverDamaged == Damaged \notin stored \cup {current}

\* Save and Load implement an atomic checkpoint: `Save writes state atomically'.
Checkpoint == INSTANCE AtomicCheckpoint WITH
  value   <- Loaded(current),
  past    <- {Loaded(d) : d \in stored},
  phase   <- IF pc = "idle" THEN "idle"
             ELSE IF pc = "syncdir" THEN "committed" ELSE "pending",
  next    <- new,
  outcome <- done

\* A failed save changes nothing, an acknowledged one has taken effect, and a
\* crash brings back only a checkpoint that was in effect.
Atomic == Checkpoint!Spec

\* The inductive invariant: what a Save has established at each place.
IInv ==
  /\ TypeOK
  /\ NeverDamaged
  /\ current \in stored
  /\ pc \in {"idle", "create", "syncdir"} => temp = {}
  /\ pc \in {"sync", "settle", "rename"} => temp = {new}
  /\ pc \in {"settle", "rename"} => synced
  /\ pc # "idle" => new \in States
  /\ pc = "syncdir" => current \in {new, NoState}
=============================================================================
