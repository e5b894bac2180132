----------------------- MODULE ConfigureServiceProofs -----------------------
(***************************************************************************)
(* Proofs about the configure path, for any number of workers and of       *)
(* submissions.                                                            *)
(***************************************************************************)
EXTENDS ConfigureConvergence, TLAPS

\* The shapes of the constants and of the records the actions build.
LEMMA Shapes ==
  /\ Empty \in Record /\ NoJob \in Jobs /\ NoResult \in Results /\ Factory \in Configs
  /\ \A t \in Targets, u \in Uuids : [target |-> t, uuid |-> u] \in Record
  /\ \A r \in Record : r.target \in Targets /\ r.uuid \in Uuids
  /\ \A r \in Record, b \in BOOLEAN : Config(r, b) \in Configs
  /\ \A r \in Record : Notice(r) \in Record
  /\ \A k \in Kinds, m \in Record : NewJob(k, m) \in Jobs
  /\ \A j \in Jobs : j.msg \in Record /\ j.desired \in Record /\ j.saved \in Record
  /\ \A j \in Jobs, r \in Record :
       /\ [j EXCEPT !.desired = r] \in Jobs
       /\ [j EXCEPT !.saved = r] \in Jobs
       /\ [j EXCEPT !.desired = r, !.msg = r] \in Jobs
  /\ \A v \in {"success", "failure"}, r \in Record :
       [verdict |-> v, uuid |-> r.uuid] \in Results
<1> USE TargetsAssumption, FlagsAssumption
        DEF Uuids, Record, Targets, Configs, Kinds, Jobs, Results,
            Empty, Factory, NewJob, NoJob, NoResult, Config, Notice
<1>1. Empty \in Record /\ NoJob \in Jobs /\ NoResult \in Results /\ Factory \in Configs
  OBVIOUS
<1>2. \A t \in Targets, u \in Uuids : [target |-> t, uuid |-> u] \in Record
  OBVIOUS
<1>3. \A r \in Record : r.target \in Targets /\ r.uuid \in Uuids
  OBVIOUS
<1>4. \A r \in Record, b \in BOOLEAN : Config(r, b) \in Configs
  OBVIOUS
<1>5. ASSUME NEW r \in Record PROVE Notice(r) \in Record
  <2>1. (IF r.target = Blank THEN Blank ELSE Self) \in Targets
    OBVIOUS
  <2> QED
    BY <1>2, <1>3, <2>1
<1>6. \A k \in Kinds, m \in Record : NewJob(k, m) \in Jobs
  OBVIOUS
<1>7. \A j \in Jobs : j.msg \in Record /\ j.desired \in Record /\ j.saved \in Record
  OBVIOUS
<1>8. \A j \in Jobs, r \in Record :
       /\ [j EXCEPT !.desired = r] \in Jobs
       /\ [j EXCEPT !.saved = r] \in Jobs
       /\ [j EXCEPT !.desired = r, !.msg = r] \in Jobs
  OBVIOUS
<1>9. \A v \in {"success", "failure"}, r \in Record :
       [verdict |-> v, uuid |-> r.uuid] \in Results
  OBVIOUS
<1> QED
  BY <1>1, <1>2, <1>3, <1>4, <1>5, <1>6, <1>7, <1>8, <1>9

LEMMA InitType == Init => TypeOK
<1>1. 0 \in Uuids
  BY FlagsAssumption DEF Uuids
<1> QED
  BY <1>1, Shapes DEF Init, TypeOK, Places

\* Every step leads to variables of the right shape again.
LEMMA TypeStep == TypeOK /\ [Next]_vars => TypeOK'
<1> SUFFICES ASSUME TypeOK, [Next]_vars PROVE TypeOK'
  OBVIOUS
<1> USE Shapes, FlagsAssumption DEF TypeOK, Places
<1>1. ASSUME NEW r \in Record, NEW n \in BOOLEAN, Submit(r, n) PROVE TypeOK'
  <2>1. submissions' \in Uuids
    <3>1. submissions \in 0..MaxSubmissions /\ submissions < MaxSubmissions
          /\ submissions' = submissions + 1 /\ MaxSubmissions \in Nat
      BY <1>1 DEF Submit, Uuids
    <3> QED
      BY ONLY <3>1 DEF Uuids
  <2>2. Notice(r) \in Record
    OBVIOUS
  <2> QED
    BY <1>1, <2>1, <2>2 DEF Submit, disk
<1>2. ASSUME NEW n \in notices, Lose(n) PROVE TypeOK'
  BY <1>2 DEF Lose, disk
<1>3. CASE Stabilize
  BY <1>3 DEF Stabilize, disk
<1>4. ASSUME NEW w \in Workers, NEW kind \in Kinds, NEW m \in Record, Spawn(w, kind, m)
      PROVE  pc' \in [Workers -> Places] /\ job' \in [Workers -> Jobs] /\ result' \in Results
  BY <1>4 DEF Spawn
<1>5. ASSUME NEW w \in Workers, NEW n \in notices, NEW again \in BOOLEAN,
             Deliver(w, n, again)
      PROVE  TypeOK'
  BY <1>4, <1>5 DEF Deliver, disk, Kinds
<1>6. ASSUME NEW w \in Workers, Reconnect(w) \/ Restart(w) PROVE TypeOK'
  BY <1>4, <1>6 DEF Reconnect, Restart, env, disk, Kinds
<1>7. ASSUME NEW w \in Workers, Acquire(w) PROVE TypeOK'
  BY <1>7 DEF Acquire, FirstPlace, env, disk
<1>8. ASSUME NEW w \in Workers, Proceed(w) PROVE TypeOK'
  <2>1. job[w] \in Jobs /\ job[w].msg \in Record /\ job[w].desired \in Record
    OBVIOUS
  <2>2. CASE HandleLoadsDesired(w)
    <3>1. job' = [job EXCEPT ![w] = [job[w] EXCEPT !.desired = kv]]
      BY <2>2 DEF HandleLoadsDesired
    <3>2. job' \in [Workers -> Jobs]
      BY <2>1, <3>1
    <3> QED
      BY <2>2, <3>2 DEF HandleLoadsDesired, Goto, env, disk
  <2>3. CASE ReconcileLoadsDesired(w)
    <3>1. job' = [job EXCEPT ![w] = [job[w] EXCEPT !.desired = kv, !.msg = kv]]
      BY <2>3 DEF ReconcileLoadsDesired
    <3>2. job' \in [Workers -> Jobs]
      BY <2>1, <3>1
    <3> QED
      BY <2>3, <3>2 DEF ReconcileLoadsDesired, Goto, env, disk
  <2>4. CASE ReconcileReturns(w)
    BY <2>4 DEF ReconcileReturns, Return, Publish, env, disk
  <2>5. CASE LoadState(w)
    <3>1. job' = [job EXCEPT ![w] = [job[w] EXCEPT !.saved = file]]
      BY <2>5 DEF LoadState
    <3>2. job' \in [Workers -> Jobs]
      BY <2>1, <3>1
    <3> QED
      BY <2>5, <3>2 DEF LoadState, Goto, env, disk
  <2>6. CASE Render(w)
    BY <2>6 DEF Render, Goto, env, disk
  <2>7. CASE Apply(w)
    <3>1. Config(job[w].desired, TRUE) \in Configs
      BY <2>1
    <3> QED
      BY <2>7, <3>1 DEF Apply, Goto, env
  <2>8. CASE Save(w)
    <3>1. file' \in Record
      BY <2>1, <2>8 DEF Save, Checkpoint
    <3> QED
      BY <2>8, <3>1 DEF Save, Goto, env
  <2>9. CASE Report(w) \/ Fail(w)
    <3>1. Success(w) \in Results /\ Failure(w) \in Results
      BY <2>1 DEF Success, Failure
    <3> QED
      BY <2>9, <3>1 DEF Report, Fail, Publish, env, disk
  <2> QED
    BY <1>8, <2>2, <2>3, <2>4, <2>5, <2>6, <2>7, <2>8, <2>9 DEF Proceed
<1>9. ASSUME NEW w \in Workers, Falter(w) PROVE TypeOK'
  <2>1. CASE LoadFails(w) \/ SaveFails(w) \/ ReportLost(w)
    BY <2>1 DEF LoadFails, SaveFails, ReportLost, Goto, Return, Publish, env, disk
  <2>2. CASE RenderFails(w)
    BY <2>2 DEF RenderFails, Goto, env, disk
  <2>3. CASE ApplyFails(w)
    <3>1. \A b \in BOOLEAN : Config(job[w].desired, b) \in Configs
      OBVIOUS
    <3> QED
      BY <2>3, <3>1 DEF ApplyFails, Goto, env
  <2> QED
    BY <1>9, <2>1, <2>2, <2>3 DEF Falter
<1>10. CASE Crash \/ Reboot \/ WriteBack \/ LoseFile
  BY <1>10 DEF Crash, Reboot, WriteBack, LoseFile, Die, env, disk
<1>11. CASE UNCHANGED vars
  BY <1>11 DEF vars, env, disk
<1> QED
  BY <1>1, <1>2, <1>3, <1>5, <1>6, <1>7, <1>8, <1>9, <1>10, <1>11 DEF Next, Arrive

\* Type correctness, for every value of the constants.
THEOREM TypeCorrect == Spec => []TypeOK
  BY InitType, TypeStep, PTL DEF Spec
-----------------------------------------------------------------------------
(***************************************************************************)
(* Any deployment: mutual exclusion, and what a call has established.      *)
(***************************************************************************)

\* A call that does not hold the mutex has nothing to establish but its kind.
LEMMA UnlockedCall ==
  ASSUME NEW w \in Workers, pc'[w] \notin Locked,
         pc'[w] # "idle" => job'[w].kind \in {"handle", "reconcile"}
  PROVE  CallInv(w)'
BY DEF CallInv, Locked, Places

\* The two ways a step of a call ends keep the mutex in order.
LEMMA LockSteps ==
  ASSUME TypeOK, LockInv, NEW w \in Workers, pc[w] \in Locked,
         \/ \E place \in Locked : Goto(w, place)
         \/ \E out \in Results : Publish(w, out)
  PROVE  LockInv'
<1>1. holder = {w} /\ \A v \in Workers : v # w => pc[v] \notin Locked
  BY DEF LockInv
<1>2. ASSUME NEW place \in Locked, Goto(w, place) PROVE LockInv'
  BY <1>1, <1>2 DEF LockInv, Goto, TypeOK
<1>3. ASSUME NEW out \in Results, Publish(w, out) PROVE LockInv'
  BY <1>1, <1>3 DEF LockInv, Publish, TypeOK, Locked, Places
<1> QED
  BY <1>2, <1>3

\* A step of the call that holds the mutex, given what it does to its own part:
\* the other calls and the mutex are as they were.
LEMMA BaseCallStep ==
  ASSUME BaseInv, TypeOK', NEW w \in Workers, pc[w] \in Locked,
         \/ \E place \in Locked : Goto(w, place)
         \/ \E out \in Results : Publish(w, out),
         \A v \in Workers : v # w => job'[v] = job[v],
         CallInv(w)'
  PROVE  BaseInv'
<1>1. LockInv'
  BY LockSteps DEF BaseInv
<1>2. ASSUME NEW v \in Workers, v # w PROVE CallInv(v)'
  <2>1. pc'[v] = pc[v] /\ job'[v] = job[v] /\ pc[v] \notin Locked
    BY <1>2 DEF Goto, Publish, BaseInv, TypeOK, LockInv
  <2> QED
    BY <2>1, UnlockedCall DEF BaseInv, CallInv
<1>3. kv' = kv
  BY DEF Goto, Publish, env
<1> QED
  BY <1>1, <1>2, <1>3 DEF BaseInv

\* A step that leaves the router and the calls alone, and at most loses the
\* checkpoint, keeps what the calls have established.
LEMMA CallKept ==
  ASSUME BaseInv, NEW v \in Workers, pc'[v] = pc[v], job'[v] = job[v],
         device' = device, file' \in {file, Empty}
  PROVE  CallInv(v)'
<1>1. pc[v] \in {"render", "apply"} /\ Renderable(job[v].desired) =>
        ~InSync(Empty, job[v].msg, job[v].desired)
  BY DEF InSync, Renderable, Empty
<1>2. CallInv(v)
  BY DEF BaseInv
<1> QED
  BY <1>1, <1>2 DEF CallInv

\* Steps of the controller, the messaging system and the clock, calls that
\* start, crashes, reboots and the loss of the checkpoint.
LEMMA BaseOtherSteps ==
  ASSUME BaseInv, TypeOK',
         \/ \E r \in Record, notify \in BOOLEAN : Submit(r, notify)
         \/ \E n \in notices : Lose(n)
         \/ Stabilize
         \/ \E w \in Workers, n \in notices, again \in BOOLEAN : Deliver(w, n, again)
         \/ \E w \in Workers : Reconnect(w) \/ Restart(w)
         \/ Crash \/ Reboot \/ WriteBack \/ LoseFile
         \/ UNCHANGED vars
  PROVE  BaseInv'
<1>1. kv'.target = Other => ForeignRecords
  <2>1. kv' = kv \/ kv'.target \in SubmittableTargets
    BY DEF Submit, Lose, Stabilize, Deliver, Reconnect, Restart, Crash, Reboot, Die,
           WriteBack, LoseFile, vars, env
  <2> QED
    BY <2>1, TargetsAssumption DEF SubmittableTargets, BaseInv
<1>2. CASE Crash \/ Reboot
  <2>1. LockInv'
    BY <1>2 DEF Crash, Reboot, Die, LockInv, Locked, Places
  <2>2. ASSUME NEW v \in Workers PROVE CallInv(v)'
    BY <1>2, UnlockedCall DEF Crash, Reboot, Die, Locked
  <2> QED
    BY <1>1, <2>1, <2>2 DEF BaseInv
<1>3. CASE ~Crash /\ ~Reboot
  <2>1. UNCHANGED <<device, holder>> /\ file' \in {file, Empty}
    BY <1>3 DEF Submit, Lose, Stabilize, Deliver, Reconnect, Restart, WriteBack, LoseFile, vars,
                disk, env
  <2>2. \/ UNCHANGED <<pc, job>>
        \/ \E w \in Workers, kind \in {"handle", "reconcile"}, m \in Record :
             Spawn(w, kind, m)
    BY <1>3, Shapes DEF Submit, Lose, Stabilize, Deliver, Reconnect, Restart, WriteBack,
                        LoseFile, vars, BaseInv, TypeOK
  <2>3. LockInv'
    BY <2>1, <2>2 DEF BaseInv, TypeOK, LockInv, Spawn, Locked, Places
  <2>4. ASSUME NEW v \in Workers PROVE CallInv(v)'
    <3>1. CASE UNCHANGED <<pc, job>>
      BY <2>1, <3>1, CallKept
    <3>2. ASSUME NEW w \in Workers, NEW kind \in {"handle", "reconcile"},
                 NEW m \in Record, Spawn(w, kind, m)
          PROVE  CallInv(v)'
      <4>1. CASE v = w
        BY <3>2, <4>1, UnlockedCall DEF Spawn, BaseInv, TypeOK, NewJob, Locked
      <4>2. CASE v # w
        <5>1. pc'[v] = pc[v] /\ job'[v] = job[v]
          BY <3>2, <4>2 DEF Spawn, BaseInv, TypeOK
        <5> QED
          BY <2>1, <5>1, CallKept
      <4> QED
        BY <4>1, <4>2
    <3> QED
      BY <2>2, <3>1, <3>2
  <2> QED
    BY <1>1, <2>3, <2>4 DEF BaseInv
<1> QED
  BY <1>2, <1>3

\* Taking the mutex: the kind of the call and its message decide where it goes.
LEMMA Acquired ==
  ASSUME TypeOK, LockInv, NEW w \in Workers, Acquire(w)
  PROVE  /\ \A v \in Workers : pc[v] \notin Locked
         /\ UNCHANGED <<env, disk, job>> /\ holder' = {w} /\ result' = NoResult
         /\ \A v \in Workers : v # w => pc'[v] = pc[v]
         /\ pc[w] = "wait" /\ pc'[w] = FirstPlace(job[w])
         /\ pc'[w] \in {"state", "desired", "fail"}
         /\ pc'[w] = "state" => job[w].kind = "reconcile"
         /\ pc'[w] = "desired" => job[w].kind # "reconcile"
<1>1. pc \in [Workers -> Places]
  BY DEF TypeOK
<1> QED
  BY <1>1 DEF Acquire, FirstPlace, LockInv

LEMMA BaseAcquire ==
  ASSUME BaseInv, TypeOK', NEW w \in Workers, Acquire(w)
  PROVE  BaseInv'
<1>1. TypeOK /\ LockInv
  BY DEF BaseInv
<1>2. LockInv'
  BY <1>1, Acquired DEF LockInv, Locked, Places
<1>3. ASSUME NEW v \in Workers PROVE CallInv(v)'
  <2>1. CASE v = w
    BY <1>1, <2>1, Acquired DEF BaseInv, CallInv
  <2>2. CASE v # w
    BY <1>1, <2>2, Acquired, CallKept DEF disk
  <2> QED
    BY <2>1, <2>2
<1>4. kv' = kv
  BY DEF Acquire, env
<1> QED
  BY <1>2, <1>3, <1>4 DEF BaseInv

\* What the call that holds the mutex has established at its next place.
LEMMA BaseProceed ==
  ASSUME BaseInv, TypeOK', NEW w \in Workers, Proceed(w) \/ Falter(w)
  PROVE  BaseInv'
<1> USE DEF Locked, Places
<1>1. pc \in [Workers -> Places] /\ job \in [Workers -> Jobs] /\ CallInv(w)
  BY DEF BaseInv, TypeOK
<1>2. ASSUME pc[w] \in Locked, NEW out \in Results, Publish(w, out) PROVE BaseInv'
  <2>1. CallInv(w)'
    BY <1>1, <1>2, UnlockedCall DEF Publish
  <2> QED
    BY <1>1, <1>2, <2>1, BaseCallStep DEF Publish
<1>3. ASSUME pc[w] \in Locked, Return(w) PROVE BaseInv'
  BY <1>2, <1>3, Shapes DEF Return
<1>4. ASSUME pc[w] \in Locked, NEW place \in Locked, Goto(w, place),
             \A v \in Workers : v # w => job'[v] = job[v],
             pc'[w] = place => CallInv(w)'
      PROVE  BaseInv'
  BY <1>1, <1>4, BaseCallStep DEF Goto
<1>5. CASE HandleLoadsDesired(w)
  <2>1. job' = [job EXCEPT ![w] = [job[w] EXCEPT !.desired = kv]]
    BY <1>5 DEF HandleLoadsDesired
  <2>2. /\ job'[w].desired = kv /\ job'[w].msg = job[w].msg
        /\ job'[w].kind = "handle"
        /\ \A v \in Workers : v # w => job'[v] = job[v]
    BY <1>1, <1>5, <2>1 DEF HandleLoadsDesired, Jobs
  <2>3. CASE RecordMatches(kv, job[w].msg)
    BY <1>4, <1>5, <2>2, <2>3 DEF HandleLoadsDesired, CallInv
  <2>4. CASE ~RecordMatches(kv, job[w].msg)
    BY <1>4, <1>5, <2>2, <2>4 DEF HandleLoadsDesired, CallInv
  <2> QED
    BY <2>3, <2>4
<1>6. CASE ReconcileLoadsDesired(w)
  <2>1. job' = [job EXCEPT ![w] = [job[w] EXCEPT !.desired = kv, !.msg = kv]]
    BY <1>6 DEF ReconcileLoadsDesired
  <2>2. /\ job'[w].desired = kv /\ job'[w].msg = kv /\ job'[w].kind = "reconcile"
        /\ \A v \in Workers : v # w => job'[v] = job[v]
    BY <1>1, <1>6, <2>1 DEF ReconcileLoadsDesired, Jobs
  <2>3. Renderable(kv) /\ ~ForeignRecords => ~InSync(file, kv, kv)
    <3>1. Renderable(kv) /\ ~ForeignRecords => kv.target = Self
      BY Shapes DEF Renderable, BaseInv, TypeOK, Targets
    <3>2. file \in {job[w].saved, Empty}
      BY <1>1, <1>6 DEF ReconcileLoadsDesired, CallInv
    <3> QED
      BY <1>6, <3>1, <3>2, TargetsAssumption
      DEF ReconcileLoadsDesired, ReconcileInSync, InSync, Empty
  <2>4. UNCHANGED disk
    BY <1>6 DEF ReconcileLoadsDesired
  <2>5. pc'[w] = "render" => CallInv(w)'
    BY <2>2, <2>3, <2>4 DEF CallInv, disk
  <2> QED
    BY <1>4, <1>6, <2>2, <2>5 DEF ReconcileLoadsDesired
<1>7. CASE LoadState(w)
  <2>1. job' = [job EXCEPT ![w] = [job[w] EXCEPT !.saved = file]]
    BY <1>7 DEF LoadState
  <2>2. /\ job'[w].desired = job[w].desired /\ job'[w].msg = job[w].msg
        /\ job'[w].kind = job[w].kind /\ job'[w].saved = file
        /\ \A v \in Workers : v # w => job'[v] = job[v]
    BY <1>1, <2>1 DEF Jobs
  <2>3. UNCHANGED disk /\ pc[w] = "state" /\ job[w].kind \in {"handle", "reconcile"}
    BY <1>1, <1>7 DEF LoadState, CallInv
  <2>4. CASE job[w].kind = "reconcile"
    <3>1. pc'[w] = "desired" => CallInv(w)'
      BY <2>2, <2>3, <2>4 DEF CallInv, disk
    <3> QED
      BY <1>4, <1>7, <2>2, <2>3, <2>4, <3>1 DEF LoadState
  <2>5. CASE job[w].kind = "handle"
    <3>1. RecordMatches(job[w].desired, job[w].msg)
      BY <1>1, <2>3, <2>5 DEF CallInv
    <3>2. CASE InSync(file, job[w].msg, job[w].desired)
      <4>1. pc'[w] = "report" => CallInv(w)'
        BY <2>2, <2>3, <2>5, <3>1 DEF CallInv, RecordMatches
      <4> QED
        BY <1>4, <1>7, <2>2, <2>3, <2>5, <3>2, <4>1 DEF LoadState
    <3>3. CASE ~InSync(file, job[w].msg, job[w].desired)
      <4>1. pc'[w] = "render" => CallInv(w)'
        BY <2>2, <2>3, <2>5, <3>1, <3>3 DEF CallInv, RecordMatches, disk
      <4> QED
        BY <1>4, <1>7, <2>2, <2>3, <2>5, <3>3, <4>1 DEF LoadState
    <3> QED
      BY <3>2, <3>3
  <2> QED
    BY <2>3, <2>4, <2>5
<1>8. CASE Render(w)
  <2>1. UNCHANGED <<disk, job>> /\ pc[w] = "render"
    BY <1>8 DEF Render
  <2>2. CASE Renderable(job[w].desired)
    <3>1. pc'[w] = "apply" => CallInv(w)'
      BY <1>1, <2>1, <2>2 DEF CallInv, disk
    <3> QED
      BY <1>4, <1>8, <2>1, <2>2, <3>1 DEF Render
  <2>3. CASE ~Renderable(job[w].desired)
    <3>1. pc'[w] = "fail" => CallInv(w)'
      BY <1>1, <2>1 DEF CallInv
    <3> QED
      BY <1>4, <1>8, <2>1, <2>3, <3>1 DEF Render
  <2> QED
    BY <2>2, <2>3
<1>9. CASE Apply(w)
  <2>1. pc'[w] = "save" => CallInv(w)'
    BY <1>1, <1>9 DEF Apply, CallInv
  <2> QED
    BY <1>4, <1>9, <2>1 DEF Apply
<1>10. CASE Save(w)
  <2>1. pc'[w] = "report" => CallInv(w)'
    BY <1>1, <1>10 DEF Save, CallInv
  <2> QED
    BY <1>4, <1>10, <2>1 DEF Save
<1>11. CASE ReconcileReturns(w) \/ SaveFails(w) \/ ReportLost(w)
  BY <1>3, <1>11 DEF ReconcileReturns, SaveFails, ReportLost
<1>12. CASE Report(w) \/ Fail(w)
  <2>1. Success(w) \in Results /\ Failure(w) \in Results
    BY <1>1, Shapes DEF Success, Failure
  <2> QED
    BY <1>2, <1>12, <2>1 DEF Report, Fail
<1>13. ASSUME pc[w] \in Locked, Goto(w, "fail"), UNCHANGED job PROVE BaseInv'
  <2>1. pc'[w] = "fail" => CallInv(w)'
    BY <1>1, <1>13 DEF CallInv
  <2> QED
    BY <1>4, <1>13, <2>1
<1>14. CASE LoadFails(w) \/ RenderFails(w) \/ ApplyFails(w)
  BY <1>3, <1>13, <1>14 DEF LoadFails, RenderFails, ApplyFails
<1> QED
  BY <1>5, <1>6, <1>7, <1>8, <1>9, <1>10, <1>11, <1>12, <1>14 DEF Proceed, Falter

LEMMA BaseStep == BaseInv /\ [Next]_vars => BaseInv'
<1> SUFFICES ASSUME BaseInv, [Next]_vars PROVE BaseInv'
  OBVIOUS
<1>1. TypeOK'
  BY TypeStep DEF BaseInv
<1> QED
  BY <1>1, BaseOtherSteps, BaseAcquire, BaseProceed DEF Next, Arrive

LEMMA BaseInit == Init => BaseInv
<1> SUFFICES ASSUME Init PROVE BaseInv
  OBVIOUS
<1>1. TypeOK
  BY InitType
<1>2. LockInv /\ kv.target # Other
  BY TargetsAssumption DEF Init, LockInv, Locked, Empty
<1>3. \A w \in Workers : CallInv(w)
  BY DEF Init, CallInv
<1> QED
  BY <1>1, <1>2, <1>3 DEF BaseInv

\* In any deployment: exactly the call inside its critical section holds the
\* mutex, and has established what its place asks for.
THEOREM BaseInvariant == Spec => []BaseInv
  BY BaseInit, BaseStep, PTL DEF Spec

\* What the checkpoint records as applied is not applied again, in any
\* deployment whose records are meant for this router.
THEOREM AppliedOnce == ASSUME ~ForeignRecords PROVE Spec => []NoRedundantApply
<1>1. BaseInv => NoRedundantApply
  BY DEF BaseInv, CallInv, NoRedundantApply
<1> QED
  BY <1>1, BaseInvariant, PTL

\* A live agent records only what the router runs as a whole, in any deployment.
THEOREM RecordsAsRun == Spec => RecordedAsRun
<1>1. BaseInv /\ [Next]_vars =>
        [file' # file => file' = Empty \/ ~up' \/ device' = Config(file', TRUE)]_vars
  <2> SUFFICES ASSUME BaseInv, Next, file' # file, up', file' # Empty
               PROVE  device' = Config(file', TRUE)
    BY DEF vars, disk
  <2>1. PICK w \in Workers : Save(w)
    <3>1. ~Reboot /\ ~LoseFile
      BY DEF Reboot, Die, LoseFile
    <3> QED
      BY <3>1 DEF Next, Arrive, Proceed, Falter, Submit, Lose, Stabilize, Deliver, Reconnect,
         Restart, Acquire, Crash, WriteBack, HandleLoadsDesired, ReconcileLoadsDesired,
         ReconcileReturns, LoadState, Render, Apply, Report, Fail, LoadFails,
         RenderFails, ApplyFails, SaveFails, ReportLost, disk
  <2>2. device = Config(job[w].desired, TRUE) /\ job[w].msg.target = job[w].desired.target
    BY <2>1 DEF BaseInv, CallInv, Save
  <2> QED
    BY <2>1, <2>2 DEF Save, Checkpoint, Config
<1> QED
  BY <1>1, BaseInvariant, PTL DEF Spec, RecordedAsRun
-----------------------------------------------------------------------------
(***************************************************************************)
(* A disciplined deployment: the inductive invariant.                      *)
(***************************************************************************)

\* UUIDs are compared as natural numbers.
LEMMA Numbers ==
  ASSUME TypeOK
  PROVE  /\ submissions \in Nat /\ kv.uuid \in Nat
         /\ file.uuid \in Nat /\ device.uuid \in Nat /\ boot.uuid \in Nat
         /\ \A r \in stored : r.uuid \in Nat
         /\ \A w \in Workers : job[w].desired.uuid \in Nat /\ job[w].saved.uuid \in Nat
<1>1. \A u \in Uuids : u \in Nat
  BY FlagsAssumption DEF Uuids
<1>2. \A r \in Record : r.uuid \in Uuids
  BY Shapes
<1>3. \A c \in Configs : c.uuid \in Uuids
  BY DEF Configs
<1>4. \A w \in Workers : job[w].desired \in Record /\ job[w].saved \in Record
  BY Shapes DEF TypeOK
<1> QED
  BY <1>1, <1>2, <1>3, <1>4 DEF TypeOK

\* A call that does not hold the mutex has nothing to establish.
LEMMA UnlockedForward ==
  ASSUME NEW w \in Workers, pc'[w] \notin Locked
  PROVE  ForwardInv(w)'
BY DEF ForwardInv, Locked, Places

\* Steps of the controller, the messaging system and the clock: the disk does
\* not change, and a call at most starts.
LEMMA EnvironmentSteps ==
  ASSUME Disciplined, IInv, BaseInv',
         \/ \E r \in Record, notify \in BOOLEAN : Submit(r, notify)
         \/ \E n \in notices : Lose(n)
         \/ Stabilize
         \/ \E w \in Workers, n \in notices, again \in BOOLEAN : Deliver(w, n, again)
         \/ \E w \in Workers : Reconnect(w) \/ Restart(w)
         \/ UNCHANGED vars
  PROVE  IInv'
<1>1. UNCHANGED disk
  BY DEF Submit, Lose, Stabilize, Deliver, Reconnect, Restart, vars, disk, env
<1>2. \/ UNCHANGED <<pc, job>>
      \/ \E w \in Workers, kind \in {"handle", "reconcile"}, m \in Record : Spawn(w, kind, m)
  BY Shapes DEF Submit, Lose, Stabilize, Deliver, Reconnect, Restart, vars, IInv, BaseInv, TypeOK
<1>3. submissions' \in {submissions, submissions + 1}
  BY DEF Submit, Lose, Stabilize, Deliver, Reconnect, Restart, vars, env
<1>4. OrderInv'
  <2>1. \/ UNCHANGED <<submissions, kv>>
        \/ submissions' = submissions + 1 /\ kv'.uuid \in {0, submissions'}
    BY FlagsAssumption
    DEF Submit, Lose, Stabilize, Deliver, Reconnect, Restart, vars, env,
        SubmittableUuids, Disciplined
  <2> QED
    BY <1>1, <2>1, Numbers DEF IInv, BaseInv, OrderInv, disk, Addressed
<1>5. ASSUME NEW v \in Workers PROVE ForwardInv(v)'
  <2> DEFINE d == job[v].desired
  <2>0. d.uuid <= submissions => d.uuid <= submissions'
    BY <1>3, Numbers DEF IInv, BaseInv
  <2>1. CASE pc'[v] = pc[v] /\ job'[v] = job[v]
    BY <1>1, <2>0, <2>1 DEF IInv, ForwardInv, Current, disk
  <2>2. CASE pc'[v] = "wait"
    BY <2>2, UnlockedForward DEF Locked
  <2>3. (pc'[v] = pc[v] /\ job'[v] = job[v]) \/ pc'[v] = "wait"
    BY <1>2 DEF Spawn, IInv, BaseInv, TypeOK
  <2> QED
    BY <2>1, <2>2, <2>3
<1>6. SuccessIsTrue'
  BY <1>1 DEF Submit, Lose, Stabilize, Deliver, Reconnect, Restart, Spawn, vars,
              NoResult, IInv, SuccessIsTrue, disk
<1> QED
  BY <1>4, <1>5, <1>6 DEF IInv

\* Crashes, reboots, and what becomes of the checkpoint.
LEMMA FailureSteps ==
  ASSUME Disciplined, IInv, BaseInv', Crash \/ Reboot \/ WriteBack \/ LoseFile
  PROVE  IInv'
<1>1. CASE Crash \/ Reboot
  <2>1. OrderInv'
    BY <1>1, Numbers, TargetsAssumption
    DEF Crash, Reboot, Die, IInv, BaseInv, OrderInv, Addressed, Empty, disk, env, Disciplined
  <2>2. ASSUME NEW v \in Workers PROVE ForwardInv(v)'
    BY <1>1, UnlockedForward DEF Crash, Reboot, Die, Locked
  <2>3. SuccessIsTrue'
    BY <1>1 DEF Crash, Reboot, Die, SuccessIsTrue, NoResult
  <2> QED
    BY <2>1, <2>2, <2>3 DEF IInv
<1>2. CASE LoseFile
  <2>1. OrderInv'
    BY <1>2, Numbers DEF LoseFile, IInv, BaseInv, OrderInv, Addressed, Empty, env
  <2>2. ASSUME NEW v \in Workers PROVE ForwardInv(v)'
    <3>1. UNCHANGED <<submissions, device, boot, pc, job>>
          /\ file' = Empty /\ file'.uuid = 0
      BY <1>2 DEF LoseFile, Empty, env
    <3>2. job[v].desired.uuid \in Nat
      BY Numbers DEF IInv, BaseInv
    <3>3. job[v].desired.uuid # 0 => 0 < job[v].desired.uuid
      BY <3>2
    <3> QED
      BY <3>1, <3>3 DEF IInv, ForwardInv, Current
  <2>3. SuccessIsTrue'
    BY <1>2 DEF LoseFile, SuccessIsTrue, NoResult
  <2> QED
    BY <2>1, <2>2, <2>3 DEF IInv
<1>3. CASE WriteBack
  <2>1. UNCHANGED <<submissions, kv, file, device, boot, pc, job, result>> /\ stored' = {file}
    BY <1>3 DEF WriteBack, env
  <2>2. OrderInv'
    BY <2>1 DEF IInv, OrderInv, Addressed
  <2> QED
    BY <2>1, <2>2 DEF IInv, ForwardInv, Current, SuccessIsTrue
<1> QED
  BY <1>1, <1>2, <1>3

\* Taking the mutex.
LEMMA AcquireStep ==
  ASSUME IInv, BaseInv', NEW w \in Workers, Acquire(w)
  PROVE  IInv'
<1>1. TypeOK /\ LockInv
  BY DEF IInv, BaseInv
<1>2. UNCHANGED <<env, disk, job>> /\ result' = NoResult
  BY <1>1, Acquired
<1>3. OrderInv' /\ SuccessIsTrue'
  BY <1>2 DEF IInv, OrderInv, SuccessIsTrue, NoResult, Addressed, env, disk
<1>4. ASSUME NEW v \in Workers PROVE ForwardInv(v)'
  <2>1. CASE v = w
    BY <1>1, <1>2, <2>1, Acquired DEF ForwardInv
  <2>2. CASE v # w
    BY <1>1, <2>2, Acquired, UnlockedForward
  <2> QED
    BY <2>1, <2>2
<1> QED
  BY <1>3, <1>4 DEF IInv

\* A step of the call that holds the mutex, given what it does to the disk and
\* to its own place: the other calls are as they were.
LEMMA CallStep ==
  ASSUME IInv, BaseInv', NEW w \in Workers, pc[w] \in Locked,
         \/ \E place \in Locked : Goto(w, place)
         \/ \E out \in Results : Publish(w, out),
         OrderInv', ForwardInv(w)', SuccessIsTrue'
  PROVE  IInv'
<1>1. ASSUME NEW v \in Workers, v # w PROVE ForwardInv(v)'
  <2>1. pc'[v] = pc[v] /\ pc[v] \notin Locked
    BY <1>1 DEF Goto, Publish, IInv, BaseInv, TypeOK, LockInv
  <2> QED
    BY <2>1, UnlockedForward
<1> QED
  BY <1>1 DEF IInv

\* Returning with a result that says nothing of success keeps the invariant.
LEMMA ReturnStep ==
  ASSUME IInv, BaseInv', NEW w \in Workers, pc[w] \in Locked,
         NEW out \in Results, out.verdict # "success",
         Publish(w, out), UNCHANGED disk
  PROVE  IInv'
<1>1. OrderInv'
  BY DEF IInv, OrderInv, Addressed, Publish, env, disk
<1>2. ForwardInv(w)'
  <2>1. pc'[w] = "idle"
    BY DEF Publish, IInv, BaseInv, TypeOK
  <2> QED
    BY <2>1, UnlockedForward DEF Locked
<1>3. SuccessIsTrue'
  BY DEF Publish, SuccessIsTrue
<1> QED
  BY <1>1, <1>2, <1>3, CallStep

\* Going on without touching the disk keeps the invariant if the call keeps its
\* own part of it.
LEMMA GotoStep ==
  ASSUME IInv, BaseInv', NEW w \in Workers, pc[w] \in Locked,
         NEW place \in Locked, Goto(w, place), UNCHANGED disk,
         pc'[w] = place => ForwardInv(w)'
  PROVE  IInv'
<1>1. OrderInv'
  BY DEF IInv, OrderInv, Addressed, Goto, env, disk
<1>2. SuccessIsTrue'
  BY DEF Goto, SuccessIsTrue, NoResult
<1>3. pc'[w] = place
  BY DEF Goto, IInv, BaseInv, TypeOK
<1> QED
  BY <1>1, <1>2, <1>3, CallStep

\* The steps of a call in which nothing goes wrong.
LEMMA ProceedSteps ==
  ASSUME Disciplined, IInv, BaseInv', NEW w \in Workers, Proceed(w)
  PROVE  IInv'
<1> USE DEF Locked, Places
<1>0. OrderInv /\ TypeOK
  BY DEF IInv, BaseInv
<1>1. /\ pc \in [Workers -> Places] /\ job \in [Workers -> Jobs]
      /\ CallInv(w) /\ ForwardInv(w) /\ OrderInv /\ TypeOK
  BY <1>0 DEF IInv, BaseInv, TypeOK
<1>2. kv.target # Other
  BY DEF IInv, BaseInv, Disciplined
<1>3. CASE HandleLoadsDesired(w)
  <2>1. job'[w].desired = kv
    <3>1. job' = [job EXCEPT ![w] = [job[w] EXCEPT !.desired = kv]]
      BY <1>3 DEF HandleLoadsDesired
    <3> QED
      BY <1>1, <3>1 DEF Jobs
  <2>2. RecordMatches(kv, job[w].msg) => Current(kv)
    <3>1. RecordMatches(kv, job[w].msg) => kv.target = Self /\ kv.uuid # 0
      BY <1>1, <1>2, Shapes DEF RecordMatches, TypeOK, Targets
    <3>2. kv.uuid # 0 => device.uuid <= kv.uuid /\ kv.uuid <= submissions
      BY <1>1, Numbers DEF OrderInv
    <3> QED
      BY <3>1, <3>2 DEF Current
  <2>3. UNCHANGED <<submissions, disk>>
    BY <1>3 DEF HandleLoadsDesired, Goto, env
  <2>4. CASE RecordMatches(kv, job[w].msg)
    <3>1. pc'[w] = "state" => ForwardInv(w)'
      BY <2>1, <2>2, <2>3, <2>4 DEF ForwardInv, Current, disk
    <3> QED
      BY <1>3, <2>4, <3>1, GotoStep DEF HandleLoadsDesired
  <2>5. CASE ~RecordMatches(kv, job[w].msg)
    <3>1. pc'[w] = "fail" => ForwardInv(w)'
      BY DEF ForwardInv
    <3> QED
      BY <1>3, <2>5, <3>1, GotoStep DEF HandleLoadsDesired
  <2> QED
    BY <2>4, <2>5
<1>4. CASE ReconcileLoadsDesired(w)
  <2>1. job'[w].desired = kv
    <3>1. job' = [job EXCEPT ![w] = [job[w] EXCEPT !.desired = kv, !.msg = kv]]
      BY <1>4 DEF ReconcileLoadsDesired
    <3> QED
      BY <1>1, <3>1 DEF Jobs
  <2>2. Renderable(kv) => Current(kv) /\ file.uuid < kv.uuid
    <3> SUFFICES ASSUME Renderable(kv) PROVE Current(kv) /\ file.uuid < kv.uuid
      OBVIOUS
    <3>1. kv.target = Self /\ kv.uuid # 0
      BY <1>1, <1>2, Shapes DEF Renderable, TypeOK, Targets
    <3>2. device.uuid <= kv.uuid /\ file.uuid <= kv.uuid /\ kv.uuid <= submissions
      BY <1>1, <3>1, Numbers DEF OrderInv
    <3>3. file.uuid # kv.uuid
      <4>1. file \in {job[w].saved, Empty}
        BY <1>1, <1>4 DEF CallInv, ReconcileLoadsDesired
      <4>2. file # Empty => file.uuid # kv.uuid \/ file.target # Self
        BY <1>4, <4>1 DEF ReconcileLoadsDesired, ReconcileInSync, InSync
      <4> QED
        BY <1>1, <3>1, <4>2 DEF OrderInv, Addressed, Empty
    <3> QED
      BY <1>0, <3>1, <3>2, <3>3, Numbers DEF Current
  <2>3. UNCHANGED <<submissions, disk>>
    BY <1>4 DEF ReconcileLoadsDesired, Goto, env
  <2>4. pc'[w] = "render" => ForwardInv(w)'
    BY <2>1, <2>2, <2>3 DEF ForwardInv, Current, disk
  <2> QED
    BY <1>4, <2>4, GotoStep DEF ReconcileLoadsDesired
<1>5. CASE ReconcileReturns(w)
  BY <1>5, ReturnStep, Shapes DEF ReconcileReturns, Return, NoResult
<1>6. CASE LoadState(w)
  <2>1. job'[w].desired = job[w].desired
    <3>1. job' = [job EXCEPT ![w] = [job[w] EXCEPT !.saved = file]]
      BY <1>6 DEF LoadState
    <3> QED
      BY <1>1, <3>1 DEF Jobs
  <2>2. UNCHANGED <<submissions, disk>> /\ pc[w] = "state"
    BY <1>6 DEF LoadState, Goto, env
  <2>3. CASE job[w].kind = "reconcile"
    <3>1. pc'[w] = "desired" => ForwardInv(w)'
      BY DEF ForwardInv
    <3> QED
      BY <1>6, <2>2, <2>3, <3>1, GotoStep DEF LoadState
  <2>4. CASE job[w].kind = "handle"
    <3>1. Current(job[w].desired) /\ job[w].msg.target = Self
      BY <1>1, <2>2, <2>4 DEF CallInv, ForwardInv, RecordMatches, Current
    <3>2. CASE InSync(file, job[w].msg, job[w].desired)
      <4>1. device.uuid = job[w].desired.uuid /\ file.uuid = device.uuid
        BY <1>0, <3>1, <3>2, Numbers DEF OrderInv, InSync, Current
      <4>2. device = Config(job[w].desired, TRUE) /\ job[w].desired.uuid # 0
        BY <1>1, <3>1, <4>1 DEF OrderInv, Addressed, Current, TypeOK, Configs, Config
      <4>3. pc'[w] = "report" => ForwardInv(w)'
        BY <2>1, <2>2, <4>2 DEF ForwardInv, disk
      <4> QED
        BY <1>6, <2>2, <2>4, <3>2, <4>3, GotoStep DEF LoadState
    <3>3. CASE ~InSync(file, job[w].msg, job[w].desired)
      <4>1. file.uuid < job[w].desired.uuid
        BY <1>0, <3>1, <3>3, Numbers DEF OrderInv, InSync, Current, Addressed
      <4>2. pc'[w] = "render" => ForwardInv(w)'
        BY <2>1, <2>2, <3>1, <4>1 DEF ForwardInv, Current, disk
      <4> QED
        BY <1>6, <2>2, <2>4, <3>3, <4>2, GotoStep DEF LoadState
    <3> QED
      BY <3>2, <3>3
  <2> QED
    BY <1>1, <2>2, <2>3, <2>4 DEF CallInv
<1>7. CASE Render(w)
  <2>1. UNCHANGED <<submissions, disk, job>> /\ pc[w] = "render"
    BY <1>7 DEF Render, Goto, env
  <2>2. CASE Renderable(job[w].desired)
    <3>1. pc'[w] = "apply" => ForwardInv(w)'
      BY <1>1, <2>1, <2>2 DEF ForwardInv, Current, disk
    <3> QED
      BY <1>7, <2>1, <2>2, <3>1, GotoStep DEF Render
  <2>3. CASE ~Renderable(job[w].desired)
    <3>1. pc'[w] = "fail" => ForwardInv(w)'
      BY DEF ForwardInv
    <3> QED
      BY <1>7, <2>1, <2>3, <3>1, GotoStep DEF Render
  <2> QED
    BY <2>2, <2>3
<1>8. CASE Apply(w)
  <2> DEFINE d == job[w].desired
  <2>1. /\ pc[w] = "apply" /\ device' = Config(d, TRUE)
        /\ UNCHANGED <<file, stored, job>>
        /\ boot' = IF SaveAfterCommit THEN device' ELSE boot
    BY <1>8 DEF Apply
  <2>2. Goto(w, "save") /\ pc'[w] = "save"
    BY <1>1, <1>8 DEF Apply, Goto
  <2>3. Current(d) /\ file.uuid < d.uuid
    BY <1>1, <2>1 DEF ForwardInv
  <2>4. d \in Record /\ d.uuid <= submissions
    BY <1>1, <2>3, Shapes DEF Current
  <2>5. OrderInv'
    <3>1. device'.uuid = d.uuid /\ device'.target = Self /\ device'.whole = TRUE
      BY <2>1, <2>3 DEF Config, Current
    <3>2. UNCHANGED <<submissions, kv>>
      BY <2>2 DEF Goto, env
    <3>3. /\ boot' = device' \/ boot' = boot
          /\ StateFileSurvives => boot' = device'
      BY <2>1 DEF Disciplined
    <3>4. d.uuid \in Nat /\ d.uuid # 0 /\ device.uuid <= d.uuid
      BY <1>0, <2>3, Numbers DEF Current
    <3>5. Addressed(device)' /\ Addressed(boot)' /\ Addressed(file)' /\ boot'.whole
      BY <1>1, <2>1, <3>1, <3>3, <3>4 DEF OrderInv, Addressed
    <3>6. /\ boot.uuid \in Nat /\ device.uuid \in Nat /\ file.uuid \in Nat
          /\ boot.uuid <= device.uuid /\ file' = file /\ file.uuid < d.uuid
      BY <1>1, <2>1, <2>3, Numbers DEF OrderInv
    <3>7. boot'.uuid <= device'.uuid
      <4>1. CASE boot' = device'
        BY <3>1, <3>4, <4>1
      <4>2. CASE boot' = boot
        BY <3>1, <3>4, <3>6, <4>2
      <4> QED
        BY <3>3, <4>1, <4>2
    <3>8. file'.uuid <= device'.uuid /\ file'.uuid # device'.uuid
      BY <3>1, <3>4, <3>6
    <3>9. file' \in stored'
      BY <1>1, <2>1 DEF OrderInv
    <3>10. ASSUME NEW r \in stored'
           PROVE  Addressed(r) /\ (StateFileSurvives => r.uuid <= boot'.uuid)
      <4>1. r \in stored /\ r.uuid \in Nat
        BY <1>1, <2>1, Numbers
      <4>2. Addressed(r) /\ (StateFileSurvives => r.uuid <= boot.uuid)
        BY <1>1, <4>1 DEF OrderInv
      <4> QED
        BY <3>1, <3>3, <3>4, <3>6, <4>1, <4>2
    <3> QED
      BY <1>1, <2>4, <3>1, <3>2, <3>3, <3>5, <3>7, <3>8, <3>9, <3>10
      DEF OrderInv, Addressed
  <2>6. ForwardInv(w)'
    BY <2>1, <2>2, <2>3 DEF ForwardInv, Current
  <2>7. SuccessIsTrue'
    BY <2>2 DEF Goto, SuccessIsTrue, NoResult
  <2> QED
    BY <2>1, <2>2, <2>5, <2>6, <2>7, CallStep
<1>9. CASE Save(w)
  <2> DEFINE d == job[w].desired
  <2>1. /\ pc[w] = "save" /\ UNCHANGED <<device, boot, job>>
        /\ file' = [target |-> job[w].msg.target, uuid |-> d.uuid]
        /\ stored' = stored \cup {file'}
    BY <1>9 DEF Save, Checkpoint
  <2>2. Goto(w, "report") /\ pc'[w] = "report"
    BY <1>1, <1>9 DEF Save, Goto
  <2>3. /\ device = Config(d, TRUE) /\ d.uuid # 0
        /\ SaveAfterCommit => boot = device
        /\ job[w].msg.target = d.target
    BY <1>1, <2>1 DEF CallInv, ForwardInv
  <2>4. OrderInv'
    <3>1. /\ file'.uuid = device.uuid /\ file'.target = device.target
          /\ device.whole = TRUE
      BY <2>1, <2>3 DEF Config
    <3>2. UNCHANGED <<submissions, kv>>
      BY <2>2 DEF Goto, env
    <3>3. StateFileSurvives => boot = device
      BY <2>3 DEF Disciplined
    <3>4. Addressed(device)' /\ Addressed(boot)' /\ Addressed(file)'
      BY <1>1, <2>1, <3>1 DEF OrderInv, Addressed
    <3>5. file'.uuid \in Nat /\ file'.uuid <= device'.uuid
          /\ (StateFileSurvives => file'.uuid <= boot'.uuid)
      BY <1>1, <2>1, <3>1, <3>3, Numbers
    <3>6. ASSUME NEW r \in stored'
          PROVE  Addressed(r) /\ (StateFileSurvives => r.uuid <= boot'.uuid)
      <4>1. CASE r = file'
        BY <3>4, <3>5, <4>1 DEF Addressed
      <4>2. CASE r \in stored
        BY <1>1, <2>1, <4>2 DEF OrderInv
      <4> QED
        BY <2>1, <4>1, <4>2
    <3>7. file' \in stored'
      BY <2>1
    <3> QED
      BY <1>1, <2>1, <3>1, <3>2, <3>4, <3>5, <3>6, <3>7 DEF OrderInv, Addressed
  <2>5. ForwardInv(w)'
    BY <2>1, <2>2, <2>3 DEF ForwardInv
  <2>6. SuccessIsTrue'
    BY <2>2 DEF Goto, SuccessIsTrue, NoResult
  <2> QED
    BY <2>1, <2>2, <2>4, <2>5, <2>6, CallStep
<1>10. CASE Report(w)
  <2>1. pc[w] = "report" /\ Publish(w, Success(w)) /\ UNCHANGED disk
    BY <1>10 DEF Report
  <2>2. Success(w) \in Results
    BY <1>1, Shapes DEF Success
  <2>3. OrderInv'
    BY <1>1, <2>1 DEF OrderInv, Addressed, Publish, env, disk
  <2>4. ForwardInv(w)'
    BY <1>1, <2>1, UnlockedForward DEF Publish
  <2>5. SuccessIsTrue'
    <3>1. device = Config(job[w].desired, TRUE) /\ job[w].desired.uuid # 0
          /\ job[w].msg.uuid = job[w].desired.uuid
      BY <1>1, <2>1 DEF CallInv, ForwardInv
    <3>2. device.target = Self
      BY <1>1, <3>1 DEF OrderInv, Addressed, Config
    <3> QED
      BY <2>1, <3>1, <3>2 DEF Publish, Success, SuccessIsTrue, Config, disk
  <2> QED
    BY <2>1, <2>2, <2>3, <2>4, <2>5, CallStep
<1>11. CASE Fail(w)
  <2>1. Failure(w) \in Results /\ Failure(w).verdict # "success"
    BY <1>1, Shapes DEF Failure
  <2> QED
    BY <1>11, <2>1, ReturnStep DEF Fail
<1> QED
  BY <1>3, <1>4, <1>5, <1>6, <1>7, <1>8, <1>9, <1>10, <1>11 DEF Proceed

\* The steps of a call in which something goes wrong.
LEMMA FalterSteps ==
  ASSUME Disciplined, IInv, BaseInv', NEW w \in Workers, Falter(w)
  PROVE  IInv'
<1> USE DEF Locked, Places
<1>1. /\ pc \in [Workers -> Places] /\ job \in [Workers -> Jobs]
      /\ ForwardInv(w) /\ OrderInv /\ TypeOK
  BY DEF IInv, BaseInv, TypeOK
<1>2. ASSUME pc[w] \in Locked, Return(w), UNCHANGED disk PROVE IInv'
  BY <1>2, ReturnStep, Shapes DEF Return, NoResult
<1>3. ASSUME pc[w] \in Locked, Goto(w, "fail"), UNCHANGED disk PROVE IInv'
  <2>1. pc'[w] = "fail" => ForwardInv(w)'
    BY DEF ForwardInv
  <2> QED
    BY <1>3, <2>1, GotoStep
<1>4. CASE LoadFails(w)
  BY <1>2, <1>3, <1>4 DEF LoadFails
<1>5. CASE RenderFails(w)
  BY <1>3, <1>5 DEF RenderFails
<1>6. CASE ApplyFails(w)
  <2> DEFINE d == job[w].desired
  <2>1. /\ pc[w] = "apply" /\ UNCHANGED <<file, stored, boot, job>>
        /\ device' \in {device, Config(d, FALSE), Config(d, TRUE)}
    BY <1>6 DEF ApplyFails
  <2>2. Goto(w, "fail") /\ pc'[w] = "fail"
    BY <1>1, <1>6 DEF ApplyFails, Goto
  <2>3. Current(d) /\ file.uuid < d.uuid
    BY <1>1, <2>1 DEF ForwardInv
  <2>4. d.uuid \in Nat /\ d.uuid <= submissions
    BY <1>1, <2>3, Numbers DEF Current
  <2>5. OrderInv'
    <3>1. \/ device' = device
          \/ device'.uuid = d.uuid /\ device'.target = Self
      BY <2>1, <2>3 DEF Config, Current
    <3>2. UNCHANGED <<submissions, kv>>
      BY <2>2 DEF Goto, env
    <3> QED
      BY <1>1, <2>1, <2>3, <2>4, <3>1, <3>2, Numbers
      DEF OrderInv, Addressed, Current, Disciplined
  <2>6. ForwardInv(w)'
    BY <2>2 DEF ForwardInv
  <2>7. SuccessIsTrue'
    BY <2>2 DEF Goto, SuccessIsTrue, NoResult
  <2> QED
    BY <2>1, <2>2, <2>5, <2>6, <2>7, CallStep
<1>7. CASE SaveFails(w)
  BY <1>2, <1>7 DEF SaveFails
<1>8. CASE ReportLost(w)
  BY <1>2, <1>8 DEF ReportLost
<1> QED
  BY <1>4, <1>5, <1>6, <1>7, <1>8 DEF Falter

LEMMA InvStep == Disciplined /\ IInv /\ [Next]_vars => IInv'
<1> SUFFICES ASSUME Disciplined, IInv, [Next]_vars PROVE IInv'
  OBVIOUS
<1>1. BaseInv'
  BY BaseStep DEF IInv
<1> QED
  BY <1>1, EnvironmentSteps, FailureSteps, AcquireStep, ProceedSteps, FalterSteps
  DEF Next, Arrive

\* The invariant holds of every behaviour of a disciplined deployment.
THEOREM Invariant == ASSUME Disciplined PROVE Spec => []IInv
<1>1. Init => IInv
  <2> SUFFICES ASSUME Init PROVE IInv
    OBVIOUS
  <2>1. BaseInv
    BY BaseInit
  <2>2. OrderInv
    BY FlagsAssumption DEF Init, OrderInv, Addressed, Empty, Factory, Config
  <2>3. SuccessIsTrue /\ \A w \in Workers : ForwardInv(w)
    BY DEF Init, ForwardInv, SuccessIsTrue, NoResult
  <2> QED
    BY <2>1, <2>2, <2>3 DEF IInv
<1> QED
  BY <1>1, InvStep, PTL DEF Spec
-----------------------------------------------------------------------------
(***************************************************************************)
(* The properties.                                                         *)
(***************************************************************************)

\* A success result names the configuration the router runs at that moment.
THEOREM SuccessResultsAreTrue == ASSUME Disciplined PROVE Spec => []SuccessIsTrue
<1>1. IInv => SuccessIsTrue
  BY DEF IInv
<1> QED
  BY <1>1, Invariant, PTL

\* The checkpoint never names a configuration the router does not run, unless
\* the router already runs a newer one.
THEOREM CheckpointHonest == ASSUME Disciplined PROVE Spec => []CheckpointNotAhead
<1>1. IInv => CheckpointNotAhead
  <2> SUFFICES ASSUME IInv, ~(file.uuid < device.uuid)
               PROVE  device = Config(file, TRUE)
    BY DEF CheckpointNotAhead
  <2>1. file.uuid = device.uuid /\ device.whole
    BY Numbers DEF IInv, BaseInv, OrderInv
  <2>2. file.target = device.target
    BY <2>1 DEF IInv, OrderInv, Addressed
  <2> QED
    BY <2>1, <2>2 DEF IInv, BaseInv, TypeOK, Configs, Config
<1> QED
  BY <1>1, Invariant, PTL

\* A live agent never puts an older configuration over a newer one.
THEOREM NoRegression == ASSUME Disciplined PROVE Spec => NeverRegress
<1>1. IInv /\ [Next]_vars => [up' => device'.uuid >= device.uuid]_vars
  <2> SUFFICES ASSUME IInv, [Next]_vars, up' PROVE device'.uuid >= device.uuid
    OBVIOUS
  <2>1. CASE UNCHANGED device
    BY <2>1, Numbers DEF IInv, BaseInv
  <2>2. ASSUME NEW w \in Workers, Apply(w) \/ ApplyFails(w)
        PROVE  device'.uuid >= device.uuid
    <3>1. device'.uuid \in {device.uuid, job[w].desired.uuid}
      BY <2>2 DEF Apply, ApplyFails, Config
    <3>2. device.uuid <= job[w].desired.uuid
      BY <2>2 DEF Apply, ApplyFails, IInv, BaseInv, CallInv, ForwardInv, Current
    <3> QED
      BY <3>1, <3>2, Numbers DEF IInv, BaseInv
  <2>3. \/ UNCHANGED device
        \/ \E w \in Workers : Apply(w) \/ ApplyFails(w)
    <3>1. ~Reboot
      BY DEF Reboot, Die
    <3>2. CASE \E w \in Workers : Proceed(w) \/ Falter(w)
      BY <3>2 DEF Proceed, Falter, HandleLoadsDesired, ReconcileLoadsDesired,
                  ReconcileReturns, LoadState, Render, Save, Report, Fail,
                  LoadFails, RenderFails, SaveFails, ReportLost, disk
    <3>3. CASE UNCHANGED vars
      BY <3>3 DEF vars, disk
    <3>4. CASE Next /\ ~\E w \in Workers : Proceed(w) \/ Falter(w)
      BY <3>1, <3>4 DEF Next, Arrive, Submit, Lose, Stabilize, Deliver, Reconnect, Restart,
                        Acquire, Crash, WriteBack, LoseFile, disk
    <3> QED
      BY <3>2, <3>3, <3>4
  <2> QED
    BY <2>1, <2>2, <2>3
<1> QED
  BY <1>1, Invariant, PTL DEF Spec, NeverRegress
-----------------------------------------------------------------------------
(***************************************************************************)
(* Refinement of DesiredSync.                                              *)
(***************************************************************************)

\* Steps that leave the abstract state alone, but for the answer.
LEMMA QuietSteps ==
  ASSUME UNCHANGED <<submissions, device, file>>, result' = NoResult
  PROVE  Sync!BeQuiet
BY DEF Sync!BeQuiet, Sync!NoAnswer, NoResult

\* Every step of the service is a step of the abstract specification.
LEMMA SyncStep ==
  ASSUME Disciplined, IInv, IInv', [Next]_vars
  PROVE  [Sync!Next]_Sync!vars
<1>1. ASSUME NEW r \in Record, NEW notify \in BOOLEAN, Submit(r, notify) PROVE Sync!Submit
  BY <1>1 DEF Submit, Sync!Submit, Sync!NoAnswer, NoResult, disk
<1>2. CASE \/ \E n \in notices : Lose(n)
           \/ Stabilize
           \/ \E w \in Workers, n \in notices, again \in BOOLEAN : Deliver(w, n, again)
           \/ \E w \in Workers : Reconnect(w) \/ Restart(w) \/ Acquire(w)
           \/ Crash
  BY <1>2, QuietSteps
  DEF Sync!Next, Lose, Stabilize, Deliver, Reconnect, Restart, Acquire, Crash, Die, Spawn, env, disk
<1>3. CASE LoseFile
  BY <1>3 DEF LoseFile, Sync!Next, Sync!Forget, Sync!NoAnswer, NoResult, Empty, env
<1>4. CASE Reboot
  <2>1. boot.uuid \in 0..device.uuid /\ boot.whole
    BY Numbers DEF IInv, BaseInv, OrderInv
  <2>2. device' = boot /\ submissions' = submissions /\ result' = NoResult
    BY <1>4 DEF Reboot, Die, env
  <2>3. file'.uuid \in 0..device'.uuid
    <3>1. CASE StateFileSurvives
      <4>1. file' \in stored
        BY <1>4, <3>1 DEF Reboot
      <4>2. file'.uuid <= boot.uuid
        BY <3>1, <4>1 DEF IInv, OrderInv
      <4> QED
        BY <2>2, <4>1, <4>2, Numbers DEF IInv, BaseInv
    <3>2. CASE ~StateFileSurvives
      BY <1>4, <2>2, <3>2, Numbers DEF Reboot, Empty, IInv, BaseInv
    <3> QED
      BY <3>1, <3>2
  <2>4. boot.whole = TRUE
    BY <2>1 DEF IInv, TypeOK, Configs
  <2> QED
    BY <2>1, <2>2, <2>3, <2>4 DEF Sync!Next, Sync!Reboot, Sync!NoAnswer, NoResult
<1>5. ASSUME NEW w \in Workers, Proceed(w) PROVE Sync!Next
  <2>1. CASE \/ HandleLoadsDesired(w) \/ ReconcileLoadsDesired(w)
             \/ ReconcileReturns(w) \/ LoadState(w) \/ Render(w)
    <3>1. Sync!BeQuiet
      BY <2>1, QuietSteps DEF HandleLoadsDesired, ReconcileLoadsDesired, ReconcileReturns,
                              LoadState, Render, Goto, Return, Publish, env, disk
    <3> QED
      BY <3>1 DEF Sync!Next
  <2>2. CASE Apply(w)
    <3> DEFINE d == job[w].desired
    <3>1. Current(d) /\ file.uuid < d.uuid /\ d.uuid \in Nat
      BY <2>2, Numbers DEF Apply, IInv, BaseInv, CallInv, ForwardInv
    <3>2. /\ device'.uuid = d.uuid /\ device'.whole = TRUE
          /\ UNCHANGED <<file, submissions>> /\ result' = NoResult
      BY <2>2 DEF Apply, Config, Goto, env
    <3>3. d.uuid \in device.uuid..submissions
      BY <3>1, Numbers DEF IInv, Current
    <3>4. Sync!Move
      BY <3>1, <3>2, <3>3 DEF Sync!Move, Sync!NoAnswer, NoResult
    <3> QED
      BY <3>4 DEF Sync!Next
  <2>3. CASE Save(w)
    <3>1. /\ device = Config(job[w].desired, TRUE)
          /\ file'.uuid = job[w].desired.uuid
          /\ UNCHANGED <<device, submissions>> /\ result' = NoResult
      BY <2>3 DEF Save, Checkpoint, Goto, env, IInv, BaseInv, CallInv, ForwardInv
    <3>2. Sync!Note
      BY <3>1 DEF Sync!Note, Sync!NoAnswer, NoResult, Config
    <3> QED
      BY <3>2 DEF Sync!Next
  <2>4. CASE Report(w)
    <3>1. result' = Success(w) /\ UNCHANGED <<submissions, device, file>>
      BY <2>4 DEF Report, Publish, env, disk
    <3>2. SuccessIsTrue'
      BY DEF IInv
    <3>3. device.uuid = job[w].msg.uuid /\ device.whole
      BY <3>1, <3>2 DEF SuccessIsTrue, Success
    <3>4. Sync!Confirm
      BY <3>1, <3>3 DEF Sync!Confirm, Success
    <3> QED
      BY <3>4 DEF Sync!Next
  <2>5. CASE Fail(w)
    BY <2>5 DEF Fail, Publish, Failure, Sync!Refuse, Sync!Next, env, disk
  <2> QED
    BY <1>5, <2>1, <2>2, <2>3, <2>4, <2>5 DEF Proceed
<1>6. ASSUME NEW w \in Workers, Falter(w) PROVE Sync!Next
  <2>1. CASE LoadFails(w) \/ RenderFails(w) \/ SaveFails(w) \/ ReportLost(w)
    <3>1. Sync!BeQuiet
      BY <2>1, QuietSteps DEF LoadFails, RenderFails, SaveFails, ReportLost,
                              Goto, Return, Publish, env, disk
    <3> QED
      BY <3>1 DEF Sync!Next
  <2>2. CASE ApplyFails(w)
    <3> DEFINE d == job[w].desired
    <3>1. Current(d) /\ file.uuid < d.uuid /\ d.uuid \in Nat
      BY <2>2, Numbers DEF ApplyFails, IInv, BaseInv, CallInv, ForwardInv
    <3>2. UNCHANGED <<file, submissions>> /\ result' = NoResult
      BY <2>2 DEF ApplyFails, Goto, env
    <3>3. d.uuid \in device.uuid..submissions
      BY <3>1, Numbers DEF IInv, Current
    <3>4. ASSUME NEW b \in BOOLEAN, device' = Config(d, b) PROVE Sync!Move
      BY <3>1, <3>2, <3>3, <3>4 DEF Sync!Move, Sync!NoAnswer, NoResult, Config
    <3>5. device' = device \/ \E b \in BOOLEAN : device' = Config(d, b)
      BY <2>2 DEF ApplyFails
    <3> QED
      BY <3>2, <3>4, <3>5, QuietSteps DEF Sync!Next
  <2> QED
    BY <1>6, <2>1, <2>2 DEF Falter
<1>7. CASE UNCHANGED vars \/ WriteBack
  BY <1>7 DEF vars, WriteBack, env, disk, Sync!vars
<1> QED
  BY <1>1, <1>2, <1>3, <1>4, <1>5, <1>6, <1>7 DEF Next, Arrive, Sync!Next

\* A disciplined deployment keeps the promises of DesiredSync.
THEOREM ImplementsDesiredSync == ASSUME Disciplined PROVE Spec => Synchronises
<1>1. Init => Sync!Init
  BY DEF Init, Sync!Init, Sync!NoAnswer, NoResult, Factory, Config, Empty
<1>2. IInv /\ IInv' /\ [Next]_vars => [Sync!Next]_Sync!vars
  BY SyncStep
<1> QED
  BY <1>1, <1>2, Invariant, PTL DEF Spec, Synchronises, Sync!Spec

\* What DesiredSync comes to, for whatever implements it: what is recorded is not
\* ahead of what runs, nor that of what was submitted, and a success answer names
\* the configuration that runs as a whole.
PromiseInv ==
  /\ submissions \in Nat /\ device.uuid \in Nat /\ file.uuid \in Nat
  /\ file.uuid <= device.uuid /\ device.uuid <= submissions
  /\ result.verdict = "success" => device.whole /\ device.uuid = result.uuid

\* DesiredSync is no empty promise: PromiseInv follows from it alone.
THEOREM PromiseMeans == Synchronises => []PromiseInv
<1>1. Sync!Init => PromiseInv
  BY DEF Sync!Init, Sync!NoAnswer, PromiseInv
<1>2. PromiseInv /\ [Sync!Next]_(Sync!vars) => PromiseInv'
  <2> SUFFICES ASSUME PromiseInv, [Sync!Next]_(Sync!vars) PROVE PromiseInv'
    OBVIOUS
  <2> USE DEF PromiseInv, Sync!NoAnswer
  <2>1. CASE Sync!Submit
    BY <2>1 DEF Sync!Submit
  <2>2. CASE Sync!Move
    <3>1. PICK u \in device.uuid..submissions, b \in BOOLEAN :
            /\ file.uuid < u
            /\ [uuid |-> device'.uuid, whole |-> device'.whole] = [uuid |-> u, whole |-> b]
      BY <2>2 DEF Sync!Move
    <3>2. device'.uuid = u
      BY <3>1
    <3> QED
      BY <2>2, <3>1, <3>2 DEF Sync!Move
  <2>3. CASE Sync!Note \/ Sync!Forget \/ Sync!BeQuiet \/ Sync!Refuse
    BY <2>3 DEF Sync!Note, Sync!Forget, Sync!BeQuiet, Sync!Refuse
  <2>4. CASE Sync!Reboot
    <3>1. PICK u \in 0..device.uuid :
            [uuid |-> device'.uuid, whole |-> device'.whole] = [uuid |-> u, whole |-> TRUE]
      BY <2>4 DEF Sync!Reboot
    <3>2. device'.uuid = u
      BY <3>1
    <3> QED
      BY <2>4, <3>1, <3>2 DEF Sync!Reboot
  <2>5. CASE Sync!Confirm
    BY <2>5 DEF Sync!Confirm
  <2>6. CASE UNCHANGED Sync!vars
    BY <2>6 DEF Sync!vars
  <2> QED
    BY <2>1, <2>2, <2>3, <2>4, <2>5, <2>6 DEF Sync!Next
<1> QED
  BY <1>1, <1>2, PTL DEF Synchronises, Sync!Spec
-----------------------------------------------------------------------------
(***************************************************************************)
(* Calls in a calm environment: ConfigureConvergence.                      *)
(***************************************************************************)

\* The history changes nothing.
LEMMA WithoutHistory == ConvergenceSpec => Spec
<1>1. ConvergenceInit => Init
  BY DEF ConvergenceInit
<1>2. [ConvergenceNext]_all => [Next]_vars
  BY DEF ConvergenceNext, all
<1> QED
  BY <1>1, <1>2, PTL DEF ConvergenceSpec, Spec

\* A step of a settled call, but for its last, finds the record as it was.
LEMMA SettledProceed ==
  ASSUME BaseInv, NEW w \in Workers, SettledCall(w), Proceed(w),
         pc'[w] # "idle"
  PROVE  SettledCall(w)'
<1> USE DEF SettledCall, SettledHandle, SettledPass
<1>1. /\ pc \in [Workers -> Places] /\ job \in [Workers -> Jobs]
      /\ CallInv(w) /\ kv \in Record
  BY DEF BaseInv, TypeOK
<1>2. ~(ReconcileReturns(w) \/ Report(w) \/ Fail(w))
  BY <1>1 DEF ReconcileReturns, Report, Fail, Return, Publish
<1>3. CASE HandleLoadsDesired(w)
  <2>1. job' = [job EXCEPT ![w] = [job[w] EXCEPT !.desired = kv]]
    BY <1>3 DEF HandleLoadsDesired
  <2>2. job'[w].desired = kv /\ job'[w].msg = job[w].msg /\ job'[w].kind = "handle"
    BY <1>1, <1>3, <2>1 DEF HandleLoadsDesired, Jobs
  <2>3. /\ UNCHANGED <<kv, stable, disk>>
        /\ pc'[w] = IF RecordMatches(kv, job[w].msg) THEN "state" ELSE "fail"
    BY <1>1, <1>3 DEF HandleLoadsDesired, Goto, env
  <2> QED
    BY <2>2, <2>3
<1>4. CASE ReconcileLoadsDesired(w)
  <2>1. job' = [job EXCEPT ![w] = [job[w] EXCEPT !.desired = kv, !.msg = kv]]
    BY <1>4 DEF ReconcileLoadsDesired
  <2>2. job'[w].desired = kv /\ job'[w].msg = kv /\ job'[w].kind = "reconcile"
    BY <1>1, <1>4, <2>1 DEF ReconcileLoadsDesired, Jobs
  <2>3. UNCHANGED <<kv, stable, disk>> /\ pc'[w] = "render"
    BY <1>1, <1>4 DEF ReconcileLoadsDesired, Goto, env
  <2> QED
    BY <2>2, <2>3
<1>5. CASE LoadState(w)
  <2>1. job' = [job EXCEPT ![w] = [job[w] EXCEPT !.saved = file]]
    BY <1>5 DEF LoadState
  <2>2. /\ job'[w].desired = job[w].desired /\ job'[w].msg = job[w].msg
        /\ job'[w].kind = job[w].kind /\ job'[w].saved = file
    BY <1>1, <2>1 DEF Jobs
  <2>3. UNCHANGED <<kv, stable, file, device>> /\ pc[w] = "state"
    BY <1>5 DEF LoadState, Goto, env, disk
  <2>4. CASE job[w].kind = "reconcile"
    <3>1. pc'[w] = "desired"
      BY <1>1, <1>5, <2>4 DEF LoadState, Goto
    <3> QED
      BY <2>2, <2>3, <2>4, <3>1
  <2>5. CASE job[w].kind = "handle"
    <3>1. pc'[w] \in {"report", "render"}
      BY <1>1, <1>5, <2>5 DEF LoadState, Goto
    <3> QED
      BY <2>2, <2>3, <2>5, <3>1
  <2> QED
    BY <1>1, <2>3, <2>4, <2>5 DEF CallInv
<1>6. CASE Render(w)
  <2>1. /\ UNCHANGED <<kv, stable, file, device, job>> /\ pc[w] = "render"
        /\ pc'[w] = IF Renderable(job[w].desired) THEN "apply" ELSE "fail"
    BY <1>1, <1>6 DEF Render, Goto, env, disk
  <2>2. job[w].kind = "handle" => Renderable(job[w].desired)
    BY <2>1 DEF RecordMatches, Renderable
  <2>3. pc'[w] = "fail" => ~Renderable(job[w].desired)
    BY <2>1
  <2> QED
    BY <2>1, <2>2, <2>3
<1>7. CASE Apply(w)
  <2>1. UNCHANGED <<kv, stable, file, job>> /\ pc[w] = "apply" /\ pc'[w] = "save"
    BY <1>1, <1>7 DEF Apply, Goto, env
  <2> QED
    BY <2>1
<1>8. CASE Save(w)
  <2>1. UNCHANGED <<kv, stable, device, job>> /\ pc[w] = "save" /\ pc'[w] = "report"
    BY <1>1, <1>8 DEF Save, Goto, env
  <2>2. file' = [target |-> job[w].msg.target, uuid |-> job[w].desired.uuid]
    BY <1>8 DEF Save, Checkpoint
  <2>3. device = Config(job[w].desired, TRUE)
    BY <1>1, <2>1 DEF CallInv
  <2>4. job[w].desired = kv /\ job[w].msg = kv => file' = kv
    BY <1>1, <2>2 DEF Record
  <2> QED
    BY <2>1, <2>3, <2>4 DEF Config
<1> QED
  BY <1>2, <1>3, <1>4, <1>5, <1>6, <1>7, <1>8 DEF Proceed

\* In a stable environment nothing falters, and what a settled call does not do
\* itself leaves it alone.
LEMMA CalmSteps ==
  ASSUME BaseInv, Next, NEW w \in Workers, SettledCall(w)
  PROVE  \/ Acquire(w) \/ Proceed(w)
         \/ /\ pc'[w] = pc[w] /\ job'[w] = job[w]
            /\ UNCHANGED stable
            /\ pc[w] # "wait" => UNCHANGED <<kv, file, device>>
<1>1. stable /\ pc[w] # "idle" /\ pc \in [Workers -> Places] /\ job \in [Workers -> Jobs]
  BY DEF SettledCall, BaseInv, TypeOK
<1>2. ASSUME NEW v \in Workers, NEW kind, NEW m, Spawn(v, kind, m)
      PROVE  pc'[w] = pc[w] /\ job'[w] = job[w]
  BY <1>1, <1>2 DEF Spawn
<1>3. ASSUME NEW v \in Workers, v # w, Proceed(v)
      PROVE  pc'[w] = pc[w] /\ job'[w] = job[w] /\ pc[w] = "wait" /\ UNCHANGED stable
  <2>1. pc[v] \in Locked
    BY <1>3 DEF Proceed, HandleLoadsDesired, ReconcileLoadsDesired, ReconcileReturns,
                LoadState, Render, Apply, Save, Report, Fail, Locked, Places
  <2>2. pc[w] = "wait"
    BY <1>1, <1>3, <2>1 DEF BaseInv, LockInv, Locked
  <2>3. pc'[w] = pc[w] /\ job'[w] = job[w] /\ UNCHANGED stable
    BY <1>1, <1>3 DEF Proceed, HandleLoadsDesired, ReconcileLoadsDesired, ReconcileReturns,
       LoadState, Render, Apply, Save, Report, Fail, Goto, Return, Publish, env
  <2> QED
    BY <2>2, <2>3
<1>4. ASSUME NEW v \in Workers, v # w, Acquire(v)
      PROVE  pc'[w] = pc[w] /\ job'[w] = job[w] /\ UNCHANGED <<kv, stable, file, device>>
  BY <1>1, <1>4 DEF Acquire, env, disk
<1>5. ASSUME NEW v \in Workers, Falter(v) PROVE FALSE
  BY <1>1, <1>5 DEF Falter, LoadFails, RenderFails, ApplyFails, SaveFails, ReportLost
<1>6. CASE \/ \E v \in Workers, n \in notices, again \in BOOLEAN : Deliver(v, n, again)
           \/ \E v \in Workers : Reconnect(v) \/ Restart(v)
  <2>1. UNCHANGED <<kv, stable, file, device>>
    BY <1>6 DEF Deliver, Reconnect, Restart, env, disk
  <2> QED
    BY <1>2, <1>6, <2>1 DEF Deliver, Reconnect, Restart
<1>7. ~Crash /\ ~Reboot /\ ~LoseFile /\ ~Stabilize
  BY <1>1 DEF Crash, Reboot, Die, LoseFile, Stabilize
<1>8. ~\E n \in notices : Lose(n)
  BY <1>1 DEF Lose
<1>9. ~\E r \in Record, notify \in BOOLEAN : Submit(r, notify)
  BY <1>1 DEF Submit
<1>10. WriteBack => UNCHANGED <<kv, stable, file, device, pc, job>>
  BY DEF WriteBack, env
<1> QED
  BY <1>3, <1>4, <1>5, <1>6, <1>7, <1>8, <1>9, <1>10 DEF Next, Arrive

\* Once stable, the environment stays so.
LEMMA StaysStable == ASSUME stable, BaseInv, Next PROVE stable'
BY DEF Next, Arrive, Submit, Lose, Stabilize, Deliver, Reconnect, Restart, Acquire, Proceed,
   HandleLoadsDesired, ReconcileLoadsDesired, ReconcileReturns, LoadState, Render, Apply,
   Save, Report, Fail, Falter, LoadFails, RenderFails, ApplyFails, SaveFails, ReportLost,
   Goto, Return, Publish, Crash, Reboot, Die, WriteBack, LoseFile, env

LEMMA SettledStep ==
  ASSUME BaseInv, BaseInv', SettledInv, [ConvergenceNext]_all
  PROVE  SettledInv'
<1>1. CASE UNCHANGED all
  BY <1>1 DEF all, vars, env, disk, SettledInv, SettledCall, SettledHandle, SettledPass
<1>2. CASE ConvergenceNext
  <2>1. settled' \subseteq Workers
    BY <1>2 DEF ConvergenceNext
  <2>2. ASSUME NEW w \in settled' PROVE SettledCall(w)'
    <3>1. /\ Next /\ w \in Workers /\ pc'[w] # "idle"
          /\ w \in settled \/ (stable' /\ pc'[w] = "wait")
      BY <1>2, <2>2 DEF ConvergenceNext
    <3>2. stable'
      BY <3>1, StaysStable DEF SettledInv, SettledCall
    <3>3. CASE pc'[w] = "wait"
      BY <3>2, <3>3 DEF SettledCall, SettledHandle, SettledPass
    <3>4. CASE pc'[w] # "wait"
      <4>1. SettledCall(w)
        BY <3>1, <3>4 DEF SettledInv
      <4>2. CASE Acquire(w)
        <5>1. TypeOK /\ LockInv
          BY DEF BaseInv
        <5>2. /\ UNCHANGED <<kv, disk, job>>
              /\ pc'[w] = FirstPlace(job[w]) /\ pc'[w] \in {"state", "desired", "fail"}
              /\ pc'[w] = "state" => job[w].kind = "reconcile"
              /\ pc'[w] = "desired" => job[w].kind # "reconcile"
          BY <3>1, <4>2, <5>1, Acquired DEF env
        <5>3. pc'[w] = "fail" => job[w].kind # "reconcile" /\ ~NoticeValid(job[w].msg)
          BY <5>2 DEF FirstPlace
        <5>4. ~NoticeValid(job[w].msg) => ~RecordMatches(kv, job[w].msg)
          BY DEF NoticeValid, RecordMatches
        <5> QED
          BY <3>1, <3>2, <5>2, <5>3, <5>4 DEF SettledCall, SettledHandle, SettledPass
      <4>3. CASE Proceed(w)
        BY <3>1, <4>1, <4>3, SettledProceed
      <4>4. CASE /\ pc'[w] = pc[w] /\ job'[w] = job[w]
                 /\ UNCHANGED stable
                 /\ pc[w] # "wait" => UNCHANGED <<kv, file, device>>
        BY <3>4, <4>1, <4>4 DEF SettledCall, SettledHandle, SettledPass, disk
      <4> QED
        BY <3>1, <4>1, <4>2, <4>3, <4>4, CalmSteps
    <3> QED
      BY <3>3, <3>4
  <2> QED
    BY <2>1, <2>2 DEF SettledInv
<1> QED
  BY <1>1, <1>2

\* A settled call works on the record and the checkpoint as they are.
THEOREM SettledInvariant == ConvergenceSpec => []SettledInv
<1>1. ConvergenceInit => SettledInv
  BY DEF ConvergenceInit, SettledInv
<1>2. ConvergenceSpec => []BaseInv
  BY WithoutHistory, BaseInvariant, PTL
<1>3. BaseInv /\ BaseInv' /\ SettledInv /\ [ConvergenceNext]_all => SettledInv'
  BY SettledStep
<1> QED
  BY <1>1, <1>2, <1>3, PTL DEF ConvergenceSpec

\* The three ways in which a settled call ends.
LEMMA LastStep ==
  ASSUME BaseInv, SettledInv, Next, NEW w \in settled, Ends(w)
  PROVE  /\ w \in Workers /\ SettledCall(w) /\ CallInv(w)
         /\ ReconcileReturns(w) \/ Report(w) \/ Fail(w)
<1>1. w \in Workers /\ SettledCall(w) /\ CallInv(w) /\ pc \in [Workers -> Places]
  BY DEF SettledInv, BaseInv, TypeOK
<1>2. pc[w] # "idle" /\ pc'[w] = "idle"
  BY <1>1 DEF SettledCall, Ends
<1>3. ~Acquire(w)
  BY <1>1, <1>2 DEF Acquire, FirstPlace
<1>4. Proceed(w)
  BY <1>1, <1>2, <1>3, CalmSteps
<1> QED
  BY <1>1, <1>2, <1>4 DEF Proceed, HandleLoadsDesired, ReconcileLoadsDesired, LoadState,
     Render, Apply, Save, Goto

\* Whoever is notified in calm gets the right answer, in any deployment.
THEOREM RequestsDecided == ConvergenceSpec => SettledRequests
<1>1. BaseInv /\ SettledInv /\ [ConvergenceNext]_all =>
        [\A w \in settled :
           Ends(w) /\ job[w].kind = "handle" =>
             result' = [verdict |-> IF RecordMatches(kv, job[w].msg) THEN "success" ELSE "failure",
                        uuid    |-> job[w].msg.uuid]]_all
  <2> SUFFICES ASSUME BaseInv, SettledInv, ConvergenceNext, NEW w \in settled,
                      Ends(w), job[w].kind = "handle"
               PROVE  result' = [verdict |-> IF RecordMatches(kv, job[w].msg)
                                             THEN "success" ELSE "failure",
                                 uuid |-> job[w].msg.uuid]
    OBVIOUS
  <2>1. /\ SettledCall(w)
        /\ ReconcileReturns(w) \/ Report(w) \/ Fail(w)
    BY LastStep DEF ConvergenceNext
  <2>2. CASE Report(w)
    BY <2>1, <2>2 DEF SettledCall, SettledHandle, Report, Publish, Success
  <2>3. CASE Fail(w)
    BY <2>1, <2>3 DEF SettledCall, SettledHandle, Fail, Publish, Failure
  <2> QED
    BY <2>1, <2>2, <2>3 DEF ReconcileReturns
<1>2. ConvergenceSpec => []BaseInv
  BY WithoutHistory, BaseInvariant, PTL
<1> QED
  BY <1>1, <1>2, SettledInvariant, PTL DEF ConvergenceSpec, SettledRequests

\* In a disciplined deployment a pass in calm leaves the router and the
\* checkpoint at the latest record, besides.
THEOREM CalmCallsDeliver ==
  ASSUME Disciplined
  PROVE  ConvergenceSpec => SettledCalls
<1>1. IInv /\ SettledInv /\ [ConvergenceNext]_all =>
        [\A w \in settled :
           Ends(w) /\ job[w].kind = "reconcile" /\ submissions > 0 /\ Renderable(kv) =>
             device' = Config(kv, TRUE) /\ file' = kv]_all
  <2> SUFFICES ASSUME IInv, SettledInv, ConvergenceNext, NEW w \in settled,
                      Ends(w), job[w].kind = "reconcile", Renderable(kv), submissions > 0
               PROVE  device' = Config(kv, TRUE) /\ file' = kv
    OBVIOUS
  <2>1. /\ w \in Workers /\ SettledCall(w) /\ CallInv(w)
        /\ ReconcileReturns(w) \/ Report(w) \/ Fail(w)
    BY LastStep DEF ConvergenceNext, IInv
  <2>2. UNCHANGED <<device, file>>
    BY <2>1 DEF ReconcileReturns, Report, Fail, disk
  <2>3. CASE Report(w)
    BY <2>1, <2>2, <2>3 DEF SettledCall, SettledPass, Report
  <2>4. ~Fail(w)
    BY <2>1 DEF SettledCall, SettledPass, Fail
  <2>5. CASE ReconcileReturns(w)
    <3>1. OrderInv /\ TypeOK
      BY DEF IInv, BaseInv
    <3>2. file.target = Self /\ file.uuid = kv.uuid
      <4>1. job[w].saved = file /\ ReconcileInSync(w)
        BY <2>1, <2>5 DEF SettledCall, SettledPass, ReconcileReturns
      <4> QED
        BY <4>1 DEF ReconcileInSync, InSync
    <3>3. kv.target = Self /\ kv.uuid # 0
      BY <3>1, Shapes DEF IInv, BaseInv, Disciplined, Renderable, TypeOK, Targets
    <3>4. file.uuid = device.uuid
      BY <3>1, <3>2, <3>3, Numbers DEF OrderInv
    <3>5. device.target = Self /\ device.whole = TRUE
      BY <3>1, <3>2, <3>3, <3>4 DEF OrderInv, Addressed, TypeOK, Configs
    <3>6. device = Config(kv, TRUE)
      BY <3>1, <3>2, <3>3, <3>4, <3>5 DEF TypeOK, Configs, Config
    <3>7. file = kv
      BY <3>1, <3>2, <3>3 DEF TypeOK, Record
    <3> QED
      BY <2>2, <3>6, <3>7
  <2> QED
    BY <2>1, <2>3, <2>4, <2>5
<1>2. ConvergenceSpec => []IInv
  BY WithoutHistory, Invariant, PTL
<1>3. ConvergenceSpec => SettledPasses
  BY <1>1, <1>2, SettledInvariant, PTL DEF ConvergenceSpec, SettledPasses
<1> QED
  BY <1>3, RequestsDecided, PTL DEF SettledCalls
=============================================================================
