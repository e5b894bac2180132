----------------------- MODULE ConfigureOnDiskProofs -----------------------
(***************************************************************************)
(* The service on the real file store is the service of ConfigureService,  *)
(* and the store it uses is FileStore: the two modules fit.  So what is    *)
(* proved of either holds of the whole.                                    *)
(***************************************************************************)
EXTENDS ConfigureOnDisk, ConfigureServiceProofs

\* FileStore may be used with these checkpoints.
LEMMA StoreAssumption == Store!DataAssumption
BY DiskAssumption, Shapes DEF Store!DataAssumption

-----------------------------------------------------------------------------
(***************************************************************************)
(* The store: IInv of FileStore holds whatever is saved, and each of its   *)
(* steps is one of AtomicCheckpoint or changes nothing there.              *)
(***************************************************************************)

\* No Save has begun, and there is no state file.
LEMMA StoreInit == Store!Init => Store!IInv
<1> SUFFICES ASSUME Store!Init PROVE Store!IInv
  OBVIOUS
<1>1. Store!TypeOK
  BY StoreAssumption DEF Store!DataAssumption, Store!Init, Store!TypeOK, Store!Data, Store!Places
<1>2. Store!NeverDamaged
  BY StoreAssumption DEF Store!DataAssumption, Store!Init, Store!NeverDamaged
<1> QED
  BY <1>1, <1>2 DEF Store!Init, Store!IInv

\* The steps of a Save that succeed keep the invariant.
LEMMA StoreSaves ==
  ASSUME Store!IInv,
         \/ \E st \in Record \ {Empty} : Store!Save(st)
         \/ Store!Create \/ Store!Write \/ Store!Sync \/ Store!Settle
         \/ Store!Rename \/ Store!SyncDir
  PROVE  Store!IInv'
<1> USE StoreAssumption DEF Store!DataAssumption, Store!IInv, Store!TypeOK,
                            Store!NeverDamaged, Store!Data, Store!Places
<1>1. ASSUME NEW st \in Record \ {Empty}, Store!Save(st) PROVE Store!IInv'
  BY <1>1 DEF Store!Save
<1>2. CASE Store!Create
  BY <1>2 DEF Store!Create, Store!Goto
<1>3. CASE Store!Write
  BY <1>3 DEF Store!Write, Store!Goto
<1>4. CASE Store!Sync
  BY <1>4 DEF Store!Sync, Store!Goto
<1>5. CASE Store!Settle
  BY <1>5 DEF Store!Settle, Store!Goto
<1>6. CASE Store!Rename
  <2>1. temp = {saving} /\ synced /\ saving \in Record \ {Empty}
    BY <1>6 DEF Store!Rename
  <2>2. data' = saving /\ durable' = durable \cup {saving} /\ temp' = {}
    BY <1>6, <2>1 DEF Store!Rename
  <2> QED
    BY <1>6, <2>1, <2>2 DEF Store!Rename
<1>7. CASE Store!SyncDir
  BY <1>7 DEF Store!SyncDir
<1> QED
  BY <1>1, <1>2, <1>3, <1>4, <1>5, <1>6, <1>7

\* So do failed system calls and crashes.
LEMMA StoreFailures ==
  ASSUME Store!IInv,
         Store!Fail \/ Store!Kill \/ Store!PowerFailure \/ Store!Remove
  PROVE  Store!IInv'
<1> USE StoreAssumption DEF Store!DataAssumption, Store!IInv, Store!TypeOK,
                            Store!NeverDamaged, Store!Data, Store!Places
<1>1. CASE Store!Fail
  BY <1>1 DEF Store!Fail
<1>2. CASE Store!Kill
  BY <1>2 DEF Store!Kill, Store!Die
<1>3. CASE Store!PowerFailure
  <2>1. PICK d \in durable : data' = d /\ durable' = {d}
    BY <1>3 DEF Store!PowerFailure
  <2> QED
    BY <1>3, <2>1 DEF Store!PowerFailure, Store!Die
<1>4. CASE Store!Remove
  BY <1>4 DEF Store!Remove
<1> QED
  BY <1>1, <1>2, <1>3, <1>4

\* So every step keeps it.
LEMMA StoreKeepsInv == Store!IInv /\ [Store!Next]_(Store!vars) => Store!IInv'
<1> SUFFICES ASSUME Store!IInv, [Store!Next]_(Store!vars) PROVE Store!IInv'
  OBVIOUS
<1>1. CASE Store!Next
  BY <1>1, StoreSaves, StoreFailures DEF Store!Next
<1>2. CASE UNCHANGED Store!vars
  BY <1>2 DEF Store!vars, Store!IInv, Store!TypeOK, Store!NeverDamaged
<1> QED
  BY <1>1, <1>2

\* A step of FileStore is a step of AtomicCheckpoint or changes nothing there.
LEMMA StoreImplements ==
  Store!IInv /\ [Store!Next]_(Store!vars) =>
    [Store!Checkpoint!Next]_(Store!Checkpoint!vars)
<1> SUFFICES ASSUME Store!IInv, [Store!Next]_(Store!vars)
             PROVE  [Store!Checkpoint!Next]_(Store!Checkpoint!vars)
  OBVIOUS
<1> USE DEF Store!Checkpoint!vars, Store!Checkpoint!Next
<1>a. /\ Damaged \notin durable /\ data # Damaged /\ data \in durable
      /\ Damaged \notin Record \ {Empty}
  BY StoreAssumption DEF Store!DataAssumption, Store!IInv, Store!NeverDamaged
<1>1. ASSUME NEW st \in Record \ {Empty}, Store!Save(st) PROVE Store!Checkpoint!Begin(st)
  BY <1>1, <1>a DEF Store!Save, Store!Checkpoint!Begin
<1>2. CASE Store!Create \/ Store!Write \/ Store!Sync \/ Store!Settle
  BY <1>2 DEF Store!Create, Store!Write, Store!Sync, Store!Settle, Store!Goto
<1>3. CASE Store!Rename
  <2>1. temp = {saving} /\ synced /\ saving \in Record \ {Empty}
    BY <1>3 DEF Store!Rename, Store!IInv
  <2>2. data' = saving /\ durable' = durable \cup {saving}
    BY <1>3, <2>1 DEF Store!Rename
  <2>3. {Store!Loaded(d) : d \in durable'} = {Store!Loaded(d) : d \in durable} \cup {saving}
    BY <2>1, <2>2, <1>a DEF Store!Loaded
  <2>4. Store!Checkpoint!Commit
    BY <1>3, <2>1, <2>2, <2>3, <1>a DEF Store!Rename, Store!Checkpoint!Commit, Store!Loaded
  <2> QED
    BY <2>4
<1>4. CASE Store!SyncDir
  <2>1. durable' = {data} => {Store!Loaded(d) : d \in durable'} = {Store!Loaded(data)}
    OBVIOUS
  <2>2. Store!Checkpoint!Acknowledge
    BY <1>4, <2>1 DEF Store!SyncDir, Store!Checkpoint!Acknowledge
  <2> QED
    BY <2>2
<1>5. CASE Store!Fail
  <2>1. Store!Checkpoint!Refuse
    BY <1>5 DEF Store!Fail, Store!Places, Store!Checkpoint!Refuse
  <2> QED
    BY <2>1
<1>6. CASE Store!Kill
  <2>1. Store!Checkpoint!Kill
    BY <1>6 DEF Store!Kill, Store!Die, Store!Checkpoint!Kill
  <2> QED
    BY <2>1
<1>7. CASE Store!PowerFailure
  <2>1. PICK d \in durable : data' = d /\ durable' = {d}
    BY <1>7 DEF Store!PowerFailure
  <2>2. {Store!Loaded(e) : e \in durable'} = {Store!Loaded(data')}
    BY <2>1
  <2>3. Store!Loaded(data') \in {Store!Loaded(e) : e \in durable}
    BY <2>1
  <2>4. Store!Checkpoint!PowerFailure
    BY <1>7, <2>2, <2>3 DEF Store!PowerFailure, Store!Die, Store!Checkpoint!PowerFailure
  <2> QED
    BY <2>4
<1>8. CASE Store!Remove
  <2>1. {Store!Loaded(d) : d \in durable'} = {Store!Loaded(d) : d \in durable} \cup {Empty}
    BY <1>8 DEF Store!Remove, Store!Loaded
  <2>2. Store!Checkpoint!Remove
    BY <1>8, <2>1 DEF Store!Remove, Store!Loaded, Store!Checkpoint!Remove
  <2> QED
    BY <2>2
<1>9. CASE UNCHANGED Store!vars
  BY <1>9 DEF Store!vars
<1> QED
  BY <1>1, <1>2, <1>3, <1>4, <1>5, <1>6, <1>7, <1>8, <1>9 DEF Store!Next

\* So the initial states and the steps are those of the atomic checkpoint.
LEMMA InitImplements == Store!Init => Store!Checkpoint!Init
BY StoreAssumption DEF Store!DataAssumption, Store!Init, Store!Checkpoint!Init, Store!Loaded
-----------------------------------------------------------------------------
(***************************************************************************)
(* The service on the store.                                               *)
(***************************************************************************)

\* A checkpoint about to be saved is not the empty one.
LEMMA SavesRecord ==
  ASSUME BaseInv, NEW w \in Workers, pc[w] = "save"
  PROVE  Checkpoint(w) \in Record \ {Empty}
<1>1. job[w].msg \in Record /\ job[w].desired \in Record
  BY Shapes DEF BaseInv, TypeOK
<1>2. job[w].msg.target = job[w].desired.target /\ job[w].desired.target # Blank
  BY DEF BaseInv, CallInv, Renderable
<1> QED
  BY <1>1, <1>2, Shapes DEF Checkpoint, Empty

\* Only one call is inside its critical section, and it holds the mutex.
LEMMA OneSaver ==
  ASSUME BaseInv, NEW v \in Workers, pc[v] \in {"save", "report"}
  PROVE  holder = {v} /\ \A w \in Workers : holder = {w} \/ pc[w] = "save" => w = v
BY DEF BaseInv, LockInv, Locked, Places

\* What the system call that renames does to the data.
LEMMA RenameTakesEffect ==
  ASSUME DiskInv, Store!Rename
  PROVE  /\ place' = "syncdir" /\ data' = saving /\ durable' = durable \cup {saving}
         /\ saving # Damaged
<1>1. temp = {saving} /\ synced /\ saving \in Record
  BY DEF DiskInv, Store!Rename, Store!IInv
<1> QED
  BY <1>1, DiskAssumption DEF Store!Rename
-----------------------------------------------------------------------------
\* The rename is the step at which the service saves.
LEMMA RenameSaves ==
  ASSUME DiskInv, NEW w \in Workers, Rename(w)
  PROVE  Save(w)
<1>1. saving = Checkpoint(w)
  BY OneSaver DEF Rename, Store!Rename, DiskInv, SaverInv
<1>2. file' = saving /\ stored' = {Store!Loaded(d) : d \in durable \cup {saving}}
  BY RenameTakesEffect DEF Rename, Mirrored, Store!Loaded
<1>3. {Store!Loaded(d) : d \in durable \cup {saving}} = stored \cup {saving}
  BY RenameTakesEffect DEF Rename, DiskInv, Store!Loaded
<1> QED
  BY <1>1, <1>2, <1>3 DEF Rename, Save

\* The last system call of Save changes nothing for the service, or it writes
\* the directory back.
LEMMA LeaveWritesBack ==
  ASSUME DiskInv, Leave
  PROVE  WriteBack \/ UNCHANGED vars
<1>1. file' = file
  BY DEF Leave, Store!SyncDir, Mirrored, DiskInv
<1>2. CASE durable' = durable
  <2>1. stored' = stored
    BY <1>2 DEF Leave, Mirrored, DiskInv
  <2> QED
    BY <1>1, <2>1 DEF Leave, vars, disk, env
<1>3. CASE durable' = {data}
  <2>1. stored' = {Store!Loaded(data)}
    BY <1>3 DEF Leave, Mirrored
  <2> QED
    BY <1>1, <2>1 DEF Leave, DiskInv, WriteBack
<1> QED
  BY <1>2, <1>3 DEF Leave, Store!SyncDir

\* A failed Save changes nothing on disk and ends the call that is in it.
LEMMA RefusedFails ==
  ASSUME DiskInv, NEW w \in Workers, Refused(w)
  PROVE  SaveFails(w)
<1>1. /\ place \notin {"idle", "syncdir"}
      /\ UNCHANGED <<data, durable>>
  BY DEF Refused, Store!Fail
<1>2. pc[w] = "save"
  <2>1. PICK v \in Workers : pc[v] = "save"
    BY <1>1 DEF DiskInv, SaverInv
  <2> QED
    BY <2>1, OneSaver DEF Refused, InSave, DiskInv
<1>3. UNCHANGED <<file, stored>>
  BY <1>1 DEF Refused, Mirrored, DiskInv
<1> QED
  BY <1>2, <1>3 DEF Refused, SaveFails, disk

\* A power failure leaves a checkpoint the service counts with.
LEMMA PowerLostReboots ==
  ASSUME DiskInv, PowerLost
  PROVE  Reboot
<1>1. PICK d \in durable : data' = d /\ durable' = {d}
  BY DEF PowerLost, Store!PowerFailure
<1>2. file' = Store!Loaded(d) /\ stored' = {Store!Loaded(d)}
  BY <1>1 DEF PowerLost, Mirrored
<1>3. file' \in stored
  BY <1>2 DEF DiskInv
<1> QED
  BY <1>2, <1>3, DiskAssumption DEF PowerLost, Reboot

\* A state file that is removed is a checkpoint lost.
LEMMA RemovedLoses ==
  ASSUME DiskInv, Removed
  PROVE  LoseFile
<1>1. Store!Loaded(Empty) = Empty
  BY DEF Store!Loaded
<1>2. file' = Empty
  BY <1>1 DEF Removed, Mirrored, Store!Remove
<1>3. stored' = {Store!Loaded(d) : d \in durable \cup {Empty}}
  BY DEF Removed, Mirrored, Store!Remove
<1>4. stored' = stored \cup {Empty}
  BY <1>1, <1>3 DEF DiskInv
<1> QED
  BY <1>2, <1>4 DEF Removed, LoseFile

\* Every step, whatever system call it makes, is one of the service or changes
\* nothing there.
LEMMA ServiceStep == DiskInv /\ [OnDiskNext]_diskAll => [Next]_vars
<1> SUFFICES ASSUME DiskInv, [OnDiskNext]_diskAll PROVE [Next]_vars
  OBVIOUS
<1>1. CASE Arrive
  BY <1>1 DEF Next
<1>2. CASE Prepare \/ UNCHANGED diskAll
  BY <1>2 DEF Prepare, diskAll
<1>3. CASE Leave
  BY <1>3, LeaveWritesBack DEF Next
<1>4. CASE Killed \/ PowerLost \/ Removed
  BY <1>4, PowerLostReboots, RemovedLoses DEF Killed, Next
<1>5. ASSUME NEW w \in Workers, Elsewhere(w) PROVE Next
  BY <1>5 DEF Elsewhere, Next
<1>6. ASSUME NEW w \in Workers, Enter(w) PROVE UNCHANGED vars
  BY <1>6 DEF Enter
<1>7. ASSUME NEW w \in Workers, Rename(w) PROVE Next
  BY <1>7, RenameSaves DEF Next, Proceed
<1>8. ASSUME NEW w \in Workers, Refused(w) PROVE Next
  BY <1>8, RefusedFails DEF Next, Falter
<1> QED
  BY <1>1, <1>2, <1>3, <1>4, <1>5, <1>6, <1>7, <1>8 DEF OnDiskNext

\* And it is one of the store, or changes nothing there.
LEMMA StoreStep == DiskInv /\ [OnDiskNext]_diskAll => [Store!Next]_(Store!vars)
<1> SUFFICES ASSUME DiskInv, [OnDiskNext]_diskAll PROVE [Store!Next]_(Store!vars)
  OBVIOUS
<1>1. CASE UNCHANGED store
  BY <1>1 DEF store, Store!vars
<1>2. ASSUME NEW w \in Workers, Enter(w) PROVE Store!Next
  BY <1>2, SavesRecord DEF Enter, DiskInv, Store!Next
<1>3. ASSUME NEW w \in Workers, Rename(w) \/ Refused(w) PROVE Store!Next
  BY <1>3 DEF Rename, Refused, Store!Next
<1>4. CASE Prepare \/ Leave \/ Killed \/ PowerLost \/ Removed
  BY <1>4 DEF Prepare, Leave, Killed, PowerLost, Removed, Store!Next
<1> QED
  BY <1>1, <1>2, <1>3, <1>4 DEF OnDiskNext, Elsewhere, diskAll
-----------------------------------------------------------------------------
\* A step of another call does not touch the one that saves.
LEMMA OthersKept ==
  ASSUME BaseInv, NEW v \in Workers, pc[v] # "idle", NEW w \in Workers, w # v,
         Acquire(w) \/ Proceed(w) \/ Falter(w)
  PROVE  pc'[v] = pc[v] /\ job'[v] = job[v]
<1>1. pc \in [Workers -> Places] /\ job \in [Workers -> Jobs]
  BY DEF BaseInv, TypeOK
<1> QED
  BY <1>1 DEF Acquire, Proceed, HandleLoadsDesired, ReconcileLoadsDesired, ReconcileReturns,
     LoadState, Render, Apply, Save, Report, Fail, Falter, LoadFails, RenderFails,
     ApplyFails, SaveFails, ReportLost, Goto, Return, Publish

\* Nor does what comes from outside.
LEMMA ArriveKeeps ==
  ASSUME BaseInv, NEW v \in Workers, pc[v] # "idle", Arrive
  PROVE  pc'[v] = pc[v] /\ job'[v] = job[v]
<1>1. ASSUME NEW w \in Workers, NEW kind, NEW m, Spawn(w, kind, m)
      PROVE  pc'[v] = pc[v] /\ job'[v] = job[v]
  BY <1>1 DEF Spawn, BaseInv, TypeOK
<1> QED
  BY <1>1 DEF Arrive, Submit, Lose, Stabilize, Deliver, Reconnect, Restart

\* The call in Save stays in it until the store is done with it.
LEMMA SaverKept == DiskInv /\ [OnDiskNext]_diskAll => SaverInv'
<1> SUFFICES ASSUME DiskInv, [OnDiskNext]_diskAll PROVE SaverInv'
  OBVIOUS
<1>0. BaseInv /\ SaverInv /\ pc \in [Workers -> Places]
  BY DEF DiskInv, BaseInv, TypeOK
<1>1. CASE UNCHANGED <<place, saving>> /\
           \A v \in Workers :
             pc[v] = "save" \/ (pc[v] = "report" /\ place = "syncdir") =>
               pc'[v] = pc[v] /\ job'[v] = job[v]
  BY <1>0, <1>1 DEF SaverInv, Checkpoint
<1>2. CASE Arrive /\ UNCHANGED store
  BY <1>0, <1>1, <1>2, ArriveKeeps DEF store
<1>3. ASSUME NEW w \in Workers, Elsewhere(w) PROVE SaverInv'
  <2>1. ASSUME NEW v \in Workers, pc[v] = "save" \/ (pc[v] = "report" /\ place = "syncdir")
        PROVE  v # w
    BY <1>0, <1>3, <2>1, OneSaver DEF Elsewhere, InSave
  <2> QED
    BY <1>0, <1>1, <1>3, <2>1, OthersKept DEF Elsewhere, store
<1>4. ASSUME NEW w \in Workers, Enter(w) PROVE SaverInv'
  BY <1>4 DEF Enter, Store!Save, SaverInv, Checkpoint, vars
<1>5. CASE Prepare
  <2>1. place \notin {"idle", "syncdir"} /\ place' \notin {"idle", "syncdir"}
        /\ UNCHANGED saving
    BY <1>5 DEF Prepare, Store!Create, Store!Write, Store!Sync, Store!Settle, Store!Goto
  <2>2. UNCHANGED <<pc, job>>
    BY <1>5 DEF Prepare, vars
  <2> QED
    BY <1>0, <2>1, <2>2 DEF SaverInv, Checkpoint
<1>6. ASSUME NEW w \in Workers, Rename(w) PROVE SaverInv'
  BY <1>0, <1>6 DEF Rename, Store!Rename, Goto, SaverInv
<1>7. CASE Leave \/ Killed \/ PowerLost \/ \E w \in Workers : Refused(w)
  <2>1. place' = "idle"
    BY <1>7 DEF Leave, Store!SyncDir, Killed, Store!Kill, PowerLost, Store!PowerFailure,
                Store!Die, Refused, Store!Fail
  <2> QED
    BY <2>1 DEF SaverInv
<1>8. CASE Removed \/ UNCHANGED diskAll
  BY <1>0, <1>8 DEF Removed, Store!Remove, diskAll, store, vars, SaverInv, Checkpoint
<1> QED
  BY <1>2, <1>3, <1>4, <1>5, <1>6, <1>7, <1>8 DEF OnDiskNext

\* The service sees what Load would make of the data, whoever changes it.
LEMMA MirrorKept ==
  DiskInv /\ [OnDiskNext]_diskAll =>
    file' = Store!Loaded(data') /\ stored' = {Store!Loaded(d) : d \in durable'}
<1> SUFFICES ASSUME DiskInv, [OnDiskNext]_diskAll PROVE Mirrored
  BY DEF Mirrored
<1>1. CASE UNCHANGED <<file, stored, data, durable>>
  BY <1>1 DEF DiskInv, Mirrored
<1>2. CASE Arrive /\ UNCHANGED store
  BY <1>1, <1>2 DEF Arrive, Submit, Lose, Stabilize, Deliver, Reconnect, Restart, disk, store
<1>3. ASSUME NEW w \in Workers, Elsewhere(w) PROVE Mirrored
  <2>1. UNCHANGED <<file, stored>>
    BY <1>3 DEF Elsewhere, InSave, Acquire, Proceed, HandleLoadsDesired,
       ReconcileLoadsDesired, ReconcileReturns, LoadState, Render, Apply, Save, Report, Fail,
       Falter, LoadFails, RenderFails, ApplyFails, SaveFails, ReportLost, disk
  <2> QED
    BY <1>1, <1>3, <2>1 DEF Elsewhere, store
<1>4. ASSUME NEW w \in Workers, Enter(w) PROVE Mirrored
  BY <1>1, <1>4 DEF Enter, Store!Save, vars, disk
<1>5. CASE Prepare
  BY <1>1, <1>5 DEF Prepare, Store!Create, Store!Write, Store!Sync, Store!Settle, Store!Goto,
                    vars, disk
<1>6. CASE Killed
  BY <1>1, <1>6 DEF Killed, Store!Kill, Crash, disk
<1>7. CASE UNCHANGED diskAll
  BY <1>1, <1>7 DEF diskAll, store, vars, disk
<1> QED
  BY <1>2, <1>3, <1>4, <1>5, <1>6, <1>7 DEF OnDiskNext, Leave, PowerLost, Removed, Rename, Refused

\* The store mirrors the service's checkpoint, and the call that saves is the
\* one that holds the mutex, from one system call to the next.
THEOREM DiskInvariant == OnDiskSpec => []DiskInv
<1>1. OnDiskInit => DiskInv
  <2> SUFFICES ASSUME OnDiskInit PROVE DiskInv
    OBVIOUS
  <2>1. BaseInv /\ Store!IInv
    BY BaseInit, StoreInit DEF OnDiskInit
  <2>2. Store!Loaded(Empty) = Empty
    BY DEF Store!Loaded
  <2>3. file = Store!Loaded(data) /\ stored = {Store!Loaded(d) : d \in durable}
    BY <2>2 DEF OnDiskInit, Init, Store!Init
  <2> QED
    BY <2>1, <2>3 DEF OnDiskInit, Store!Init, DiskInv, SaverInv
<1>2. DiskInv /\ [OnDiskNext]_diskAll => DiskInv'
  <2> SUFFICES ASSUME DiskInv, [OnDiskNext]_diskAll PROVE DiskInv'
    OBVIOUS
  <2>1. BaseInv'
    BY ServiceStep, BaseStep DEF DiskInv
  <2>2. Store!IInv'
    BY StoreStep, StoreKeepsInv DEF DiskInv
  <2> QED
    BY <2>1, <2>2, SaverKept, MirrorKept DEF DiskInv
<1> QED
  BY <1>1, <1>2, PTL DEF OnDiskSpec

\* The service on this store is the service of ConfigureService.
THEOREM SavesInOnePiece == OnDiskSpec => OnePieceSaves
<1>1. OnDiskInit => Init
  BY DEF OnDiskInit
<1> QED
  BY <1>1, DiskInvariant, ServiceStep, PTL DEF OnDiskSpec, OnePieceSaves, Spec

\* Neither a Save that fails nor a crash, at any system call, leaves a state
\* file that Load would take for no checkpoint.
THEOREM CheckpointIntact == OnDiskSpec => []Intact
<1>1. DiskInv => Intact
  BY DEF DiskInv, Store!IInv, Intact
<1> QED
  BY <1>1, DiskInvariant, PTL

\* Save and Load, as the service calls them, are the atomic checkpoint of
\* AtomicCheckpoint.
THEOREM SavesAreAtomic == OnDiskSpec => AtomicSaves
<1>1. OnDiskInit => Store!Checkpoint!Init
  BY InitImplements DEF OnDiskInit
<1>2. DiskInv /\ [OnDiskNext]_diskAll => [Store!Checkpoint!Next]_(Store!Checkpoint!vars)
  BY StoreStep, StoreImplements DEF DiskInv
<1> QED
  BY <1>1, <1>2, DiskInvariant, PTL
  DEF OnDiskSpec, AtomicSaves, Store!Atomic, Store!Checkpoint!Spec

\* What is promised of the service holds on the real store: results are true,
\* the checkpoint is honest, the router never goes back and it synchronises.
THEOREM PromisesKeptOnDisk ==
  ASSUME Disciplined
  PROVE  OnDiskSpec => /\ []SuccessIsTrue /\ []CheckpointNotAhead
                       /\ NeverRegress /\ Synchronises
BY SavesInOnePiece, SuccessResultsAreTrue, CheckpointHonest, NoRegression,
   ImplementsDesiredSync, PTL DEF OnePieceSaves
=============================================================================
