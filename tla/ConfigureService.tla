-------------------------- MODULE ConfigureService --------------------------
(***************************************************************************)
(* The configure path of the agent: internal/configure/service.go with the *)
(* parts of the world it reads and changes.                                *)
(*                                                                         *)
(* A controller writes one desired record per router into a NATS KV bucket *)
(* and sends a notification that may be lost, duplicated, delayed or       *)
(* overtaken.  Service.Handle answers a notification; Service.Reconcile    *)
(* runs at process start and after every reconnection.  Each call is a     *)
(* goroutine here, a member of Workers, and all of them take one mutex     *)
(* (Service.mu).  A call reads the record and the checkpoint file, renders *)
(* and applies the record on the router, saves the checkpoint and reports. *)
(* The process may crash and the router may reboot between any two steps.  *)
(*                                                                         *)
(* A UUID is the position of the submission that first used it, so that    *)
(* `older' and `newer' mean what they mean to the controller; 0 is the     *)
(* blank UUID.  Running and failure statuses are telemetry: the code logs  *)
(* a failed status and goes on, and no property reads one.                 *)
(***************************************************************************)
EXTENDS Naturals

CONSTANTS
  Workers,             \* goroutines that may run Handle or Reconcile at once
  Self, Other, Blank,  \* this agent's target, another router's, the empty one
  MaxSubmissions,      \* bound on the submissions of the controller
  BlankRecords,        \* may a record with a blank target or UUID be written?
  ForeignRecords,      \* may a record naming another router be written?
  ReuseUuids,          \* may an earlier configuration be submitted again?
  SaveAfterCommit,     \* agent.apply.save_after_commit
  StateFileSurvives    \* is agent.state_file on storage a reboot preserves?

ASSUME TargetsAssumption == Self # Other /\ Self # Blank /\ Other # Blank

ASSUME FlagsAssumption ==
  /\ MaxSubmissions \in Nat
  /\ BlankRecords \in BOOLEAN /\ ForeignRecords \in BOOLEAN
  /\ ReuseUuids \in BOOLEAN
  /\ SaveAfterCommit \in BOOLEAN /\ StateFileSurvives \in BOOLEAN

VARIABLES
  submissions, \* how many records the controller has written
  kv,          \* the record at desired.<Self>; meaningful once submissions > 0
  notices,     \* configure notifications in flight
  stable,      \* the environment has stopped misbehaving for good
  up,          \* the agent process is running
  holder,      \* {w} while w holds Service.mu, {} while it is free
  pc,          \* where each worker is in its call
  job,         \* the locals of that call
  file,        \* the checkpoint in agent.state_file (state.State)
  stored,      \* the checkpoints a power failure may leave in that file
  device,      \* the configuration the router runs
  boot,        \* the configuration the router boots with
  result       \* the final result published by the last step, or NoResult

env  == <<submissions, kv, notices, stable>>
disk == <<file, stored, device, boot>>
vars == <<env, disk, up, holder, pc, job, result>>

Targets == {Self, Other, Blank}
Uuids   == 0..MaxSubmissions
Record  == [target : Targets, uuid : Uuids]

\* Go's zero value of state.State and of a record: no checkpoint, no record.
Empty == [target |-> Blank, uuid |-> 0]

\* whole is FALSE when a commit was cut short and only part of it took effect.
Config(r, w) == [target |-> r.target, uuid |-> r.uuid, whole |-> w]
Configs == [target : Targets, uuid : Uuids, whole : BOOLEAN]
Factory == Config(Empty, TRUE)

Kinds == {"none", "handle", "reconcile"}
Jobs  == [kind : Kinds, msg : Record, desired : Record, saved : Record]
NewJob(kind, msg) ==
  [kind |-> kind, msg |-> msg, desired |-> Empty, saved |-> Empty]
NoJob == NewJob("none", Empty)

NoResult == [verdict |-> "none", uuid |-> 0]
Results  == [verdict : {"none", "success", "failure"}, uuid : Uuids]

Places == {"idle", "wait", "desired", "state", "render", "apply", "save",
           "report", "fail"}
\* The places at which a call holds the mutex.
Locked == Places \ {"idle", "wait"}

Init ==
  /\ submissions = 0 /\ kv = Empty /\ notices = {} /\ stable = FALSE
  /\ up = FALSE /\ holder = {}
  /\ pc = [w \in Workers |-> "idle"]
  /\ job = [w \in Workers |-> NoJob]
  /\ file = Empty /\ stored = {Empty}
  /\ device = Factory /\ boot = Factory
  /\ result = NoResult
-----------------------------------------------------------------------------
(***************************************************************************)
(* The controller and the messaging system.                                *)
(***************************************************************************)

SubmittableTargets ==
  {Self} \cup {t \in {Blank} : BlankRecords} \cup {t \in {Other} : ForeignRecords}

SubmittableUuids ==
  {submissions + 1} \cup {u \in {0} : BlankRecords}
                    \cup {u \in 1..submissions : ReuseUuids}

\* The notification is addressed to Self by its subject; the envelope repeats
\* the record's UUID, and its target unless that names another router.
Notice(r) ==
  [target |-> IF r.target = Blank THEN Blank ELSE Self, uuid |-> r.uuid]

\* SubmitConfigure: the record is written first; the notification may never
\* be sent (notify is FALSE).
Submit(r, notify) ==
  /\ ~stable
  /\ submissions < MaxSubmissions
  /\ r.target \in SubmittableTargets /\ r.uuid \in SubmittableUuids
  /\ submissions' = submissions + 1
  /\ kv' = r
  /\ notices' = IF notify THEN notices \cup {Notice(r)} ELSE notices
  /\ result' = NoResult
  /\ UNCHANGED <<stable, disk, up, holder, pc, job>>

Lose(n) ==
  /\ ~stable
  /\ notices' = notices \ {n}
  /\ result' = NoResult
  /\ UNCHANGED <<submissions, kv, stable, disk, up, holder, pc, job>>

\* From here on nothing fails, nothing is submitted and nothing is lost.
Stabilize ==
  /\ ~stable
  /\ stable' = TRUE
  /\ result' = NoResult
  /\ UNCHANGED <<submissions, kv, notices, disk, up, holder, pc, job>>

\* Start a call in a goroutine of its own.  It first waits for the mutex.
Spawn(w, kind, msg) ==
  /\ pc[w] = "idle"
  /\ pc' = [pc EXCEPT ![w] = "wait"]
  /\ job' = [job EXCEPT ![w] = NewJob(kind, msg)]
  /\ result' = NoResult

\* agentcore hands a notification to Handle; again is a duplicate to come.
Deliver(w, n, again) ==
  /\ up
  /\ again => ~stable
  /\ Spawn(w, "handle", n)
  /\ notices' = IF again THEN notices ELSE notices \ {n}
  /\ UNCHANGED <<submissions, kv, stable, disk, up, holder>>

\* The reconnect handler starts a reconcile pass.
Reconnect(w) ==
  /\ up /\ ~stable
  /\ Spawn(w, "reconcile", Empty)
  /\ UNCHANGED <<env, disk, up, holder>>

\* Runtime.Start: handlers are live as soon as the client is started, so the
\* startup reconcile pass competes with them for the mutex.
Restart(w) ==
  /\ ~up
  /\ up' = TRUE
  /\ Spawn(w, "reconcile", Empty)
  /\ UNCHANGED <<env, disk, holder>>
-----------------------------------------------------------------------------
(***************************************************************************)
(* The calls.  Goto and Publish are the two ways a step ends: at the next   *)
(* place, or with the deferred unlock.                                     *)
(***************************************************************************)

Goto(w, place) ==
  /\ pc' = [pc EXCEPT ![w] = place]
  /\ result' = NoResult
  /\ UNCHANGED <<env, up, holder>>

\* The call returns, publishing out as its final result.
Publish(w, out) ==
  /\ pc' = [pc EXCEPT ![w] = "idle"]
  /\ job' = [job EXCEPT ![w] = NoJob]
  /\ holder' = {}
  /\ result' = out
  /\ UNCHANGED <<env, up>>

Return(w) == Publish(w, NoResult)

Success(w) == [verdict |-> "success", uuid |-> job[w].msg.uuid]
Failure(w) == [verdict |-> "failure", uuid |-> job[w].msg.uuid]

\* Handle's checks of the notification come before its first read.
NoticeValid(m) == m.target # Blank /\ m.uuid # 0

FirstPlace(j) ==
  IF j.kind = "reconcile" THEN "state"
  ELSE IF NoticeValid(j.msg) THEN "desired" ELSE "fail"

\* Mutant: the call goes ahead without waiting for the mutex.
AcquireWithoutWaiting(w) ==
  /\ pc[w] = "wait"
  /\ holder' = {w}
  /\ pc' = [pc EXCEPT ![w] = FirstPlace(job[w])]
  /\ result' = NoResult
  /\ UNCHANGED <<env, up, disk, job>>

Acquire(w) ==
  /\ pc[w] = "wait" /\ holder = {}
  /\ holder' = {w}
  /\ pc' = [pc EXCEPT ![w] = FirstPlace(job[w])]
  /\ result' = NoResult
  /\ UNCHANGED <<env, up, disk, job>>

\* Mutant: the UUID of the record is not compared with the notification's.
TargetMatches(r, m) == r.target # Blank /\ r.uuid # 0 /\ r.target = m.target

\* Handle accepts the record only if it is complete and is the one announced.
RecordMatches(r, m) ==
  /\ r.target # Blank /\ r.uuid # 0
  /\ r.target = m.target /\ r.uuid = m.uuid

InSync(saved, m, r) == saved.target = m.target /\ saved.uuid = r.uuid

\* Handle: the record is loaded before the checkpoint.
HandleLoadsDesired(w) ==
  /\ pc[w] = "desired" /\ job[w].kind = "handle" /\ submissions > 0
  /\ job' = [job EXCEPT ![w].desired = kv]
  /\ Goto(w, IF RecordMatches(kv, job[w].msg) THEN "state" ELSE "fail")
  /\ UNCHANGED disk

\* Reconcile: the checkpoint was loaded before the record, and the message
\* reported on is made from the record.
\* Mutant: any checkpoint of this target counts as in sync.
CheckpointExists(w) == job[w].saved.target = Self

ReconcileInSync(w) == InSync(job[w].saved, [target |-> Self], kv)

ReconcileLoadsDesired(w) ==
  /\ pc[w] = "desired" /\ job[w].kind = "reconcile" /\ submissions > 0
  /\ ~ReconcileInSync(w)
  /\ job' = [job EXCEPT ![w].desired = kv, ![w].msg = kv]
  /\ Goto(w, "render")
  /\ UNCHANGED disk

\* In sync or no record yet: the pass ends, and publishes nothing.
ReconcileReturns(w) ==
  /\ pc[w] = "desired" /\ job[w].kind = "reconcile"
  /\ submissions = 0 \/ ReconcileInSync(w)
  /\ Return(w)
  /\ UNCHANGED disk

\* A load fails: Handle reports it; Reconcile ends with a status of its own.
LoadFails(w) ==
  /\ ~stable
  /\ pc[w] \in {"desired", "state"}
  /\ \/ job[w].kind = "handle" /\ Goto(w, "fail") /\ UNCHANGED job
     \/ job[w].kind = "reconcile" /\ Return(w)
  /\ UNCHANGED disk

\* Mutant: Handle does not look whether the checkpoint is in sync.
LoadStateUnseen(w) ==
  /\ pc[w] = "state"
  /\ job' = [job EXCEPT ![w].saved = file]
  /\ Goto(w, IF job[w].kind = "reconcile" THEN "desired" ELSE "render")
  /\ UNCHANGED disk

LoadState(w) ==
  /\ pc[w] = "state"
  /\ job' = [job EXCEPT ![w].saved = file]
  /\ Goto(w, IF job[w].kind = "reconcile" THEN "desired"
             ELSE IF InSync(file, job[w].msg, job[w].desired) THEN "report"
             ELSE "render")
  /\ UNCHANGED disk

\* The placeholder refuses a record with a blank target or UUID.  The adapter
\* leaves that to its backend, which is taken to do the same.
Renderable(r) == r.target # Blank /\ r.uuid # 0

Render(w) ==
  /\ pc[w] = "render"
  /\ Goto(w, IF Renderable(job[w].desired) THEN "apply" ELSE "fail")
  /\ UNCHANGED <<disk, job>>

RenderFails(w) ==
  /\ pc[w] = "render" /\ ~stable
  /\ Goto(w, "fail")
  /\ UNCHANGED <<disk, job>>

\* Mutant: the boot configuration is not saved although it is asked for.
ApplyWithoutSaving(w) ==
  /\ pc[w] = "apply"
  /\ device' = Config(job[w].desired, TRUE)
  /\ Goto(w, "save")
  /\ UNCHANGED <<file, stored, boot, job>>

\* The commit succeeds and, if so configured, the router's boot file is saved.
Apply(w) ==
  /\ pc[w] = "apply"
  /\ device' = Config(job[w].desired, TRUE)
  /\ boot' = IF SaveAfterCommit THEN device' ELSE boot
  /\ Goto(w, "save")
  /\ UNCHANGED <<file, stored, job>>

\* Mutant: the error of Apply is ignored.
ApplyFailsUnseen(w) ==
  /\ pc[w] = "apply" /\ ~stable
  /\ device' \in {device, Config(job[w].desired, FALSE), Config(job[w].desired, TRUE)}
  /\ Goto(w, "save")
  /\ UNCHANGED <<file, stored, boot, job>>

\* Apply returns an error: the commit was refused, it took effect in part, or
\* it took effect and a later stage failed.
ApplyFails(w) ==
  /\ pc[w] = "apply" /\ ~stable
  /\ device' \in {device, Config(job[w].desired, FALSE), Config(job[w].desired, TRUE)}
  /\ Goto(w, "fail")
  /\ UNCHANGED <<file, stored, boot, job>>

\* Mutant: the record is read again for the checkpoint.
SaveLatest(w) ==
  /\ pc[w] = "save"
  /\ file' = kv
  /\ stored' = stored \cup {file'}
  /\ Goto(w, "report")
  /\ UNCHANGED <<device, boot, job>>

Checkpoint(w) == [target |-> job[w].msg.target, uuid |-> job[w].desired.uuid]

\* FileStore.Save as AtomicCheckpoint promises it: at one instant, and until the
\* directory is written back an earlier checkpoint may come back.
Save(w) ==
  /\ pc[w] = "save"
  /\ file' = Checkpoint(w)
  /\ stored' = stored \cup {file'}
  /\ Goto(w, "report")
  /\ UNCHANGED <<device, boot, job>>

\* A failed save ends the call without any final result.
SaveFails(w) ==
  /\ pc[w] = "save" /\ ~stable
  /\ Return(w)
  /\ UNCHANGED disk

Report(w) ==
  /\ pc[w] = "report"
  /\ Publish(w, Success(w))
  /\ UNCHANGED disk

\* Mutant: only the failure status is published.
FailSilently(w) ==
  /\ pc[w] = "fail"
  /\ Return(w)
  /\ UNCHANGED disk

\* fail(): the failure status, then the failure result.
Fail(w) ==
  /\ pc[w] = "fail"
  /\ Publish(w, Failure(w))
  /\ UNCHANGED disk

\* The final result cannot be published; the call only returns the error.
ReportLost(w) ==
  /\ pc[w] \in {"report", "fail"} /\ ~stable
  /\ Return(w)
  /\ UNCHANGED disk
-----------------------------------------------------------------------------
(***************************************************************************)
(* Crashes, reboots, and what becomes of the checkpoint.                   *)
(***************************************************************************)

Die ==
  /\ ~stable
  /\ up' = FALSE /\ holder' = {}
  /\ pc' = [w \in Workers |-> "idle"]
  /\ job' = [w \in Workers |-> NoJob]
  /\ result' = NoResult
  /\ UNCHANGED env

Crash == up /\ Die /\ UNCHANGED disk

\* The router reboots, for want of power or in good order: it runs its boot
\* configuration, an older checkpoint may be back, and one under /tmp is gone.
Reboot ==
  /\ Die
  /\ device' = boot
  /\ file' \in (IF StateFileSurvives THEN stored ELSE {Empty})
  /\ stored' = {file'}
  /\ UNCHANGED boot

\* The directory is written back, by the sync in Save or in the kernel's own
\* time: no earlier checkpoint comes back.
WriteBack ==
  /\ stored' = {file}
  /\ UNCHANGED <<env, file, device, boot, up, holder, pc, job, result>>

\* The file is removed or damaged: Load then returns the empty state.
LoseFile ==
  /\ ~stable
  /\ file' = Empty
  /\ stored' = stored \cup {Empty}
  /\ result' = NoResult
  /\ UNCHANGED <<env, device, boot, up, holder, pc, job>>
-----------------------------------------------------------------------------
Proceed(w) ==
  \/ HandleLoadsDesired(w) \/ ReconcileLoadsDesired(w) \/ ReconcileReturns(w)
  \/ LoadState(w) \/ Render(w) \/ Apply(w) \/ Save(w)
  \/ Report(w) \/ Fail(w)

Falter(w) ==
  \/ LoadFails(w) \/ RenderFails(w) \/ ApplyFails(w) \/ SaveFails(w)
  \/ ReportLost(w)

\* What comes from outside: records, notifications, reasons for a call.
Arrive ==
  \/ \E r \in Record, notify \in BOOLEAN : Submit(r, notify)
  \/ \E n \in notices : Lose(n)
  \/ Stabilize
  \/ \E w \in Workers, n \in notices, again \in BOOLEAN : Deliver(w, n, again)
  \/ \E w \in Workers : Reconnect(w) \/ Restart(w)

Next ==
  \/ Arrive
  \/ \E w \in Workers : Acquire(w) \/ Proceed(w) \/ Falter(w)
  \/ Crash \/ Reboot \/ WriteBack \/ LoseFile

Spec == Init /\ [][Next]_vars

(***************************************************************************)
(* A goroutine that can run is run, and the supervisor restarts the agent. *)
(* A goroutine blocked in Lock is served eventually although others keep   *)
(* locking: sync.Mutex hands over to the longest waiter after 1ms.         *)
(***************************************************************************)
Fairness ==
  /\ \A w \in Workers : WF_vars(Proceed(w)) /\ SF_vars(Acquire(w))
  /\ WF_vars(\E w \in Workers : Restart(w))

FairSpec == Spec /\ Fairness
-----------------------------------------------------------------------------
(***************************************************************************)
(* Properties.                                                             *)
(***************************************************************************)

\* Every variable has the shape of the data it stands for.
TypeOK ==
  /\ submissions \in Uuids /\ kv \in Record /\ notices \in SUBSET Record
  /\ stable \in BOOLEAN /\ up \in BOOLEAN
  /\ holder \in SUBSET Workers
  /\ pc \in [Workers -> Places]
  /\ job \in [Workers -> Jobs]
  /\ file \in Record /\ stored \in SUBSET Record
  /\ device \in Configs /\ boot \in Configs
  /\ result \in Results

\* A success result is true when it is published: the router runs the whole
\* configuration with the UUID the result names.  Both the result that follows
\* an apply and the `already in sync' one, which only looks at the checkpoint.
SuccessIsTrue ==
  result.verdict = "success" =>
    device = [target |-> Self, uuid |-> result.uuid, whole |-> TRUE]

\* The checkpoint names the configuration the router runs, or an older one
\* after a failed save: never one it does not run.
CheckpointNotAhead ==
  file # Empty =>
    \/ file.uuid < device.uuid
    \/ device = Config(file, TRUE)

\* While the process lives, no call, however late its notification, puts an
\* older configuration over a newer one.
NeverRegress == [][up' => device'.uuid >= device.uuid]_vars

\* A configuration the checkpoint records as applied is not applied again,
\* whatever notifications and reconcile passes compete to apply it.
NoRedundantApply ==
  \A w \in Workers :
    pc[w] = "apply" => ~InSync(file, job[w].msg, job[w].desired)

\* A live agent writes no checkpoint but for a configuration that the router
\* runs as a whole at that moment.
RecordedAsRun ==
  [][file' # file => file' = Empty \/ ~up' \/ device' = Config(file', TRUE)]_vars

\* The router only runs configurations addressed to it, as README.md says:
\* `verifies target/UUID', in reconcile passes too.
ForeignNeverRuns == device.target # Other

\* The service implements the abstract synchronisation of DesiredSync.
Sync == INSTANCE DesiredSync WITH
  latest   <- submissions,
  running  <- [uuid |-> device.uuid, whole |-> device.whole],
  recorded <- file.uuid,
  answer   <- result

\* What the controller is promised, as a specification of its own.
Synchronises == Sync!Spec

Waiting(w, kind) == pc[w] = "wait" /\ job[w].kind = kind

\* Once nothing fails any more, a reconcile pass that is due (at the next start
\* of the process, or waiting for the mutex) brings the router and the
\* checkpoint to the latest record, with or without a notification, unless that
\* record cannot be rendered.
Converges ==
  (/\ stable /\ submissions > 0 /\ Renderable(kv)
   /\ ~up \/ \E w \in Workers : Waiting(w, "reconcile"))
    ~> (device = Config(kv, TRUE) /\ file = kv)

\* Once nothing fails any more, every notification a Handle call has taken is
\* answered with a final result, stale and malformed ones included.
EveryRequestAnswered ==
  \A w \in Workers, u \in Uuids :
    (stable /\ Waiting(w, "handle") /\ job[w].msg.uuid = u)
      ~> (result.verdict # "none" /\ result.uuid = u)
-----------------------------------------------------------------------------
(***************************************************************************)
(* What holds in any deployment, whatever the records name.                *)
(***************************************************************************)

\* Exactly the worker inside its critical section holds the mutex.
LockInv ==
  /\ \A w \in Workers : pc[w] \in Locked <=> holder = {w}
  /\ holder # {} => \E w \in Workers : holder = {w}

\* What a call has established when it reaches each place.
CallInv(w) ==
  LET j == job[w] IN
  /\ pc[w] # "idle" => j.kind \in {"handle", "reconcile"}
  /\ pc[w] = "desired" /\ j.kind = "reconcile" => file \in {j.saved, Empty}
  /\ pc[w] = "state" /\ j.kind = "handle" => RecordMatches(j.desired, j.msg)
  /\ pc[w] \in {"render", "apply", "save", "report"} =>
       j.msg.uuid = j.desired.uuid /\ j.msg.target = j.desired.target
  /\ pc[w] \in {"apply", "save"} => Renderable(j.desired)
  /\ (pc[w] = "render" /\ Renderable(j.desired)) \/ pc[w] = "apply" =>
       ForeignRecords \/ ~InSync(file, j.msg, j.desired)
  /\ pc[w] = "save" => device = Config(j.desired, TRUE)

BaseInv ==
  /\ TypeOK
  /\ LockInv
  /\ kv.target = Other => ForeignRecords
  /\ \A w \in Workers : CallInv(w)
-----------------------------------------------------------------------------
(***************************************************************************)
(* The inductive invariant behind the safety properties, by parts.  It     *)
(* holds when every record is meant for this router, when a UUID is never  *)
(* submitted twice, and when a checkpoint that survives a reboot goes with *)
(* a boot configuration that is saved.                                     *)
(***************************************************************************)
Disciplined ==
  /\ ~ForeignRecords /\ ~ReuseUuids
  /\ StateFileSurvives => SaveAfterCommit

\* A configuration other than the factory one is addressed to this router.
Addressed(c) == c.target = (IF c.uuid = 0 THEN Blank ELSE Self)

\* latest record >= running configuration >= boot configuration, checkpoint;
\* and a checkpoint that a power failure may bring back goes with what boots.
OrderInv ==
  /\ kv.uuid \in {0, submissions}
  /\ Addressed(file) /\ Addressed(device) /\ Addressed(boot)
  /\ boot.whole
  /\ device.uuid <= submissions
  /\ boot.uuid <= device.uuid
  /\ file.uuid <= (IF StateFileSurvives THEN boot.uuid ELSE device.uuid)
  /\ file.uuid = device.uuid => device.whole
  /\ file \in stored
  /\ \A r \in stored :
       Addressed(r) /\ (StateFileSurvives => r.uuid <= boot.uuid)

\* r may be applied: it is complete, ours, submitted, and not older than what
\* the router runs.
Current(r) ==
  /\ r.target = Self /\ r.uuid # 0
  /\ device.uuid <= r.uuid /\ r.uuid <= submissions

\* A call never goes back: what it is about to apply is newer than what is
\* recorded and not older than what runs.
ForwardInv(w) ==
  LET d == job[w].desired IN
  /\ pc[w] = "state" /\ job[w].kind = "handle" => Current(d)
  /\ (pc[w] = "render" /\ Renderable(d)) \/ pc[w] = "apply" =>
       Current(d) /\ file.uuid < d.uuid
  /\ pc[w] \in {"save", "report"} => device = Config(d, TRUE) /\ d.uuid # 0
  /\ pc[w] = "save" /\ SaveAfterCommit => boot = device

IInv ==
  /\ BaseInv
  /\ OrderInv
  /\ \A w \in Workers : ForwardInv(w)
  /\ SuccessIsTrue
=============================================================================
