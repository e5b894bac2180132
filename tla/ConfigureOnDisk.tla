--------------------------- MODULE ConfigureOnDisk ---------------------------
(***************************************************************************)
(* The configure path of ConfigureService with the checkpoint file of      *)
(* FileStore under it.  ConfigureService saves a checkpoint in one step;   *)
(* here Save runs one system call at a time, and other calls, their        *)
(* environment, crashes and power failures go on between any two of them.  *)
(* A call in Save holds the mutex until Save has returned.                 *)
(*                                                                         *)
(* file and stored are kept as what Load would make of the data on disk,   *)
(* so that the service is the one of ConfigureService and it can be asked  *)
(* whether its steps still are steps of that specification.                *)
(***************************************************************************)
EXTENDS ConfigureService

CONSTANT Damaged  \* of FileStore

VARIABLES
  place,   \* pc of FileStore: where the running FileStore.Save is
  saving,  \* new: the checkpoint it saves
  temp, synced,
  data,    \* current: what the state file's name leads to
  durable, \* stored: what it may lead to after a power failure
  saved    \* done: the outcome of the last Save

Store == INSTANCE FileStore WITH
  States  <- Record \ {Empty},
  NoState <- Empty,
  pc      <- place,
  new     <- saving,
  current <- data,
  stored  <- durable,
  done    <- saved

ASSUME DiskAssumption == Damaged \notin Record /\ StateFileSurvives

store   == <<place, saving, temp, synced, data, durable, saved>>
diskAll == <<vars, store>>

OnDiskInit == Init /\ Store!Init
-----------------------------------------------------------------------------
\* What the service sees of the store.
Mirrored ==
  /\ file' = Store!Loaded(data')
  /\ stored' = {Store!Loaded(d) : d \in durable'}

\* The call of w is inside FileStore.Save, or about to enter it.
InSave(w) == pc[w] = "save" \/ (place # "idle" /\ holder = {w})

\* A step of a call outside Save.
Elsewhere(w) ==
  /\ Acquire(w) \/ Proceed(w) \/ Falter(w)
  /\ ~InSave(w)
  /\ UNCHANGED store

Enter(w) ==
  /\ pc[w] = "save" /\ Store!Save(Checkpoint(w))
  /\ UNCHANGED vars

\* A system call that leaves the state file alone.
Prepare ==
  /\ Store!Create \/ Store!Write \/ Store!Sync \/ Store!Settle
  /\ UNCHANGED vars

\* The new checkpoint is in effect, and Save can only succeed now.
Rename(w) ==
  /\ pc[w] = "save" /\ Store!Rename
  /\ Mirrored
  /\ Goto(w, "report")
  /\ UNCHANGED <<device, boot, job>>

Leave ==
  /\ Store!SyncDir
  /\ Mirrored
  /\ UNCHANGED <<env, device, boot, up, holder, pc, job, result>>

\* Mutant: the error of Save is ignored.
RefusedUnseen(w) ==
  /\ InSave(w) /\ ~stable /\ Store!Fail
  /\ Mirrored
  /\ Goto(w, "report")
  /\ UNCHANGED <<device, boot, job>>

\* Save returns an error, and the call ends.
Refused(w) ==
  /\ InSave(w) /\ ~stable /\ Store!Fail
  /\ Mirrored
  /\ Return(w)
  /\ UNCHANGED <<device, boot>>

Killed == Store!Kill /\ Crash

PowerLost ==
  /\ Store!PowerFailure
  /\ Mirrored
  /\ Die
  /\ device' = boot /\ UNCHANGED boot

Removed ==
  /\ ~stable /\ Store!Remove
  /\ Mirrored
  /\ result' = NoResult
  /\ UNCHANGED <<env, device, boot, up, holder, pc, job>>

OnDiskNext ==
  \/ Arrive /\ UNCHANGED store
  \/ Prepare \/ Leave \/ Killed \/ PowerLost \/ Removed
  \/ \E w \in Workers : Elsewhere(w) \/ Enter(w) \/ Rename(w) \/ Refused(w)

OnDiskSpec == OnDiskInit /\ [][OnDiskNext]_diskAll
-----------------------------------------------------------------------------
(***************************************************************************)
(* Properties.                                                             *)
(***************************************************************************)

\* Whatever the service does and whenever the power fails, in a Save or between
\* two, the state file holds a checkpoint in full, or there is none: never data
\* that Load would report as `no checkpoint'.
Intact == Store!NeverDamaged

\* Save and Load are an atomic checkpoint for the service: a failed save changes
\* nothing, an acknowledged one has taken effect, and a power failure brings
\* back only a checkpoint that was in effect.
AtomicSaves == Store!Atomic

\* On this store the service is still the one of ConfigureService, whose Save is
\* one step: all that is shown of that holds with the real system calls.
OnePieceSaves == Spec

\* Between the calls of Save no call is in it; until the rename a call is, and
\* it holds the mutex; after the rename it has yet to report.
SaverInv ==
  /\ place \notin {"idle", "syncdir"} =>
       \E w \in Workers : pc[w] = "save" /\ saving = Checkpoint(w)
  /\ place = "syncdir" => \E w \in Workers : pc[w] = "report"

DiskInv ==
  /\ BaseInv
  /\ Store!IInv
  /\ file = Store!Loaded(data) /\ stored = {Store!Loaded(d) : d \in durable}
  /\ SaverInv
=============================================================================
