-------------------------- MODULE RttySessionProofs --------------------------
(***************************************************************************)
(* No live terminal session is forgotten, for any number of sessions and   *)
(* whether or not the agent restarts, while no process gets a PID that the *)
(* waiter of an earlier one still goes by; and who is told of success has  *)
(* the one session that will stay.                                         *)
(***************************************************************************)
EXTENDS RttyAction, TLAPS

USE ConstantsAssumption DEF Sessions, None

LEMMA InitInv == Init => IInv
  BY DEF Init, IInv, TypeOK, Places, Waiters, Live, Holds, Owned, Preemptable

\* The steps of an Execute that launch no process.
LEMMA ExecuteSteps ==
  ASSUME ~EarlyReuse, IInv,
         \/ Execute \/ Refuse \/ Take \/ Terminated \/ GraceEnds \/ GiveUp
         \/ CancelledInGrace \/ LaunchFails \/ ExitedAtOnce \/ WatchEnds
  PROVE  IInv'
<1> USE DEF IInv, TypeOK, Places, Waiters, Live, Holds, Owned, Preemptable, Return
<1>1. CASE Execute
  BY <1>1 DEF Execute
<1>2. CASE Refuse
  BY <1>2 DEF Refuse
<1>3. CASE Take
  BY <1>3 DEF Take
<1>4. CASE Terminated
  BY <1>4 DEF Terminated, Confirmed
<1>5. CASE GraceEnds
  BY <1>5 DEF GraceEnds
<1>6. CASE GiveUp
  BY <1>6 DEF GiveUp
<1>7. CASE CancelledInGrace
  BY <1>7 DEF CancelledInGrace
<1>8. CASE LaunchFails
  BY <1>8 DEF LaunchFails
<1>9. CASE ExitedAtOnce
  BY <1>9 DEF ExitedAtOnce
<1>10. CASE WatchEnds
  BY <1>10 DEF WatchEnds
<1> QED
  BY <1>1, <1>2, <1>3, <1>4, <1>5, <1>6, <1>7, <1>8, <1>9, <1>10

\* A new process gets a PID that nobody goes by.
LEMMA LaunchStep ==
  ASSUME ~EarlyReuse, IInv, NEW s \in Sessions, NEW p \in Pids, Launch(s, p)
  PROVE  IInv'
<1> USE DEF IInv, TypeOK, Places, Waiters, Live, Holds, Owned, Preemptable
<1>1. \A t \in Sessions : Holds(t) => pid[t] # p
  BY DEF Launch, TakenPids
<1>2. TypeOK'
  BY DEF Launch
<1>3. \A t, u \in Sessions : t # u /\ Holds(t)' /\ Holds(u)' => pid'[t] # pid'[u]
  BY <1>1 DEF Launch
<1> QED
  BY <1>2, <1>3 DEF Launch

\* A waiter ends the tracking of its own session only, by then an exited one.
LEMMA ProcessSteps ==
  ASSUME ~EarlyReuse, IInv, NEW s \in Sessions, Exit(s) \/ Waiter(s)
  PROVE  IInv'
<1> USE DEF IInv, TypeOK, Places, Waiters, Live, Holds, Owned, Preemptable, MoveWaiter
<1>1. CASE Exit(s)
  BY <1>1 DEF Exit
<1>2. CASE Reap(s)
  BY <1>2 DEF Reap
<1>3. CASE Close(s)
  BY <1>3 DEF Close
<1>4. CASE Clear(s)
  <2>1. waiter[s] = "closed" /\ proc[s] # "none" /\ ~Live(s)
    BY <1>4 DEF Clear
  <2>2. active # None /\ pid[active] = pid[s] => active = s
    BY <2>1
  <2>3. active' = active \/ (active = s /\ active' = None)
    BY <1>4, <2>2 DEF Clear
  <2> QED
    BY <1>4, <2>1, <2>3 DEF Clear, Unlocked
<1> QED
  BY <1>1, <1>2, <1>3, <1>4 DEF Waiter

\* What a restart leaves alive is an orphan.
LEMMA RestartStep ==
  ASSUME IInv, Restart
  PROVE  IInv'
  BY DEF Restart, IInv, TypeOK, Places, Waiters, Live, Holds, Owned, Preemptable

\* Tracking, waiters and PIDs fit together as IInv says.
THEOREM Invariant ==
  ASSUME ~EarlyReuse
  PROVE  Spec => []IInv
<1>1. Init => IInv
  BY InitInv
<1>2. IInv /\ [Next]_vars => IInv'
  <2> SUFFICES ASSUME IInv, [Next]_vars PROVE IInv'
    OBVIOUS
  <2>1. CASE Next
    <3>1. CASE Restart
      BY <3>1, RestartStep
    <3>2. CASE ~Restart
      BY <2>1, <3>2, ExecuteSteps, LaunchStep, ProcessSteps DEF Next, ExecuteStep
    <3> QED
      BY <3>1, <3>2
  <2>2. CASE UNCHANGED vars
    BY <2>2 DEF vars, IInv, TypeOK, Live, Holds, Owned, Preemptable
  <2> QED
    BY <2>1, <2>2
<1> QED
  BY <1>1, <1>2, PTL DEF Spec

\* A session can be preempted for as long as it lives.
THEOREM NoneForgotten ==
  ASSUME ~EarlyReuse
  PROVE  Spec => []Preemptable
<1>1. IInv => Preemptable
  BY DEF IInv
<1>2. Spec => []IInv
  BY Invariant
<1> QED
  BY <1>1, <1>2, PTL

\* Of two live sessions one at least was sent SIGKILL.
THEOREM NoTwoSessions ==
  ASSUME ~EarlyReuse
  PROVE  Spec => []OneSession
<1>1. IInv => OneSession
  BY DEF IInv, OneSession, Preemptable, TypeOK, Owned, Places
<1>2. Spec => []IInv
  BY Invariant
<1> QED
  BY <1>1, <1>2, PTL
-----------------------------------------------------------------------------
(***************************************************************************)
(* With the commands: RttyAction.                                          *)
(***************************************************************************)

\* Seen without the service, the commands are calls of Execute.
THEOREM Composition == RttySpec => Spec
<1>1. RttyInit => Init
  BY DEF RttyInit
<1>2. [RttyNext]_both => [Next]_vars
  BY DEF RttyNext, Serve, StartRtty, Session, RttyReturned, NextCommand,
         RestartAgent, both, Next
<1> QED
  BY <1>1, <1>2, PTL DEF RttySpec, Spec

\* A command that is yet to be sent.
LEMMA ForgetFresh == Forget => Action!IInv' /\ ~Action!Succeeded'
<1>1. Action!Init => Action!IInv /\ ~Action!Succeeded
  BY Action!InitInv
<1>2. Action!Init' => Action!IInv' /\ ~Action!Succeeded'
  BY <1>1, PTL
<1> QED
  BY <1>2 DEF Forget, Action!Init

\* The service leaves the session alone, and answers with success only once
\* Execute has returned it.
LEMMA ServeStep ==
  ASSUME JointInv, Serve
  PROVE  JointInv'
<1>1. UNCHANGED <<vars, called, opened>> /\ Action!IInv
        /\ (Action!Receive \/ Action!Publish)
  BY DEF JointInv, Serve
<1>2. IInv'
  BY <1>1 DEF vars, JointInv, IInv, TypeOK, Live, Holds, Owned, Preemptable
<1>3. Action!IInv'
  BY <1>1, Action!ServeSteps
<1>4. /\ place # "execute"
      /\ place' \in {"idle", "received", "executing", "execute"} =>
           place \in {"idle", "received", "executing"}
      /\ place' \in {"completed", "result"} => place \in {"completed", "result"}
      /\ Action!Succeeded' => Action!Succeeded \/ place = "result"
  BY <1>1, Action!ServeMoves
<1> QED
  BY <1>1, <1>2, <1>3, <1>4 DEF vars, JointInv

\* Execute and the processes: the command has a session from Launch on.
LEMMA SessionStep ==
  ASSUME ~EarlyReuse, JointInv, StartRtty \/ Session
  PROVE  JointInv'
<1> USE DEF JointInv, IInv, TypeOK
<1>1. UNCHANGED service /\ Action!IInv' /\ (Action!Succeeded' <=> Action!Succeeded)
  <2>1. UNCHANGED service
    BY DEF StartRtty, Session
  <2>2. UNCHANGED Action!vars
    BY <2>1 DEF service, Action!vars
  <2> QED
    BY <2>1, <2>2, Action!IdleSteps
<1>2. CASE StartRtty
  <2>1. IInv'
    BY <1>2, ExecuteSteps DEF StartRtty
  <2> QED
    BY <1>1, <1>2, <2>1 DEF StartRtty, Execute, service
<1>3. CASE Session /\ (ExecuteStep \/ CancelledInGrace)
  <2>1. IInv'
    BY <1>3, ExecuteSteps, LaunchStep DEF ExecuteStep
  <2>2. called /\ called' = called
    BY <1>3 DEF Session, ExecuteStep, CancelledInGrace, Refuse, Take, Terminated,
       GraceEnds, GiveUp, LaunchFails, Launch, ExitedAtOnce, WatchEnds
  <2>3. CASE \E s \in Sessions, p \in Pids : Launch(s, p)
    <3> PICK s \in Sessions, p \in Pids : Launch(s, p)
      BY <2>3
    <3>1. /\ opened' = s /\ active' = s /\ s # None /\ s \notin killed
          /\ killed' = killed /\ outcome' = outcome /\ pc' = "watch"
      BY <1>3 DEF Session, Launch
    <3>2. \A t \in killed : proc'[t] # "none"
      BY DEF Launch
    <3>3. place = "execute" /\ place' = "execute" /\ ~Action!Succeeded
      BY <1>1, <2>2 DEF service, Action!IInv, Action!Succeeded, Launch
    <3> HIDE DEF IInv, TypeOK
    <3> QED
      BY <1>1, <2>1, <2>2, <3>1, <3>2, <3>3
  <2>4. CASE CancelledInGrace \/ Refuse \/ Take \/ Terminated \/ GraceEnds
                \/ GiveUp \/ LaunchFails \/ ExitedAtOnce \/ WatchEnds
    <3>1. opened' = opened
      BY <1>3, <2>4 DEF Session, CancelledInGrace, Refuse, Take, Terminated,
         GraceEnds, GiveUp, LaunchFails, ExitedAtOnce, WatchEnds
    <3> QED
      BY <1>1, <2>1, <2>2, <2>4, <3>1 DEF service, CancelledInGrace, Refuse, Take,
         Terminated, GraceEnds, GiveUp, LaunchFails, ExitedAtOnce, WatchEnds, Return
  <2> QED
    BY <1>3, <2>3, <2>4 DEF ExecuteStep
<1>4. ASSUME NEW s \in Sessions, Session, Exit(s) \/ Waiter(s) PROVE JointInv'
  <2>1. IInv'
    BY <1>4, ProcessSteps
  <2>2. /\ UNCHANGED <<pc, killed, outcome>> /\ active' \in {active, None}
        /\ \A t \in Sessions : proc[t] # "none" => proc'[t] # "none"
    BY <1>4 DEF Exit, Waiter, Reap, Close, Clear, MoveWaiter
  <2>3. opened' = opened /\ called' = called
    BY <1>4, <2>2 DEF Session
  <2> QED
    BY <1>1, <2>1, <2>2, <2>3 DEF service
<1> QED
  BY <1>2, <1>3, <1>4 DEF Session

\* What Execute returns goes to the service; the next command starts afresh.
LEMMA CommandSteps ==
  ASSUME JointInv, RttyReturned \/ NextCommand \/ RestartAgent
  PROVE  JointInv'
<1>1. CASE RttyReturned
  <2>1. Action!IInv /\ Action!Executed(outcome)
    BY <1>1 DEF JointInv, RttyReturned
  <2>2. /\ Action!IInv' /\ place' \in {"completed", "failed"}
        /\ place' = "completed" => outcome = "ok"
        /\ Action!Succeeded' <=> Action!Succeeded
    BY <2>1, Action!ExecutedSteps
  <2>3. IInv' /\ UNCHANGED <<pc, killed, outcome, active, proc>>
    BY <1>1 DEF RttyReturned, vars, JointInv, IInv, TypeOK, Live, Holds, Owned, Preemptable
  <2> QED
    BY <1>1, <2>2, <2>3 DEF JointInv, RttyReturned
<1>2. CASE NextCommand
  <2>1. IInv' /\ UNCHANGED <<pc, killed, outcome, active, proc>>
    BY <1>2 DEF NextCommand, vars, JointInv, IInv, TypeOK, Live, Holds, Owned, Preemptable
  <2> QED
    BY <1>2, <2>1, ForgetFresh DEF JointInv, NextCommand, Forget, IInv, TypeOK
<1>3. CASE RestartAgent
  <2>1. IInv'
    BY <1>3, RestartStep DEF JointInv, RestartAgent
  <2> QED
    BY <1>3, <2>1, ForgetFresh DEF JointInv, RestartAgent, Restart, Forget, IInv, TypeOK
<1> QED
  BY <1>1, <1>2, <1>3

\* The two invariants, and what ties a command to the session it opened.
THEOREM JointInvariant ==
  ASSUME ~EarlyReuse
  PROVE  RttySpec => []JointInv
<1>1. RttyInit => JointInv
  <2> SUFFICES ASSUME RttyInit PROVE JointInv
    OBVIOUS
  <2>1. IInv
    BY InitInv DEF RttyInit
  <2>2. Action!IInv /\ ~Action!Succeeded
    BY Action!InitInv DEF RttyInit
  <2> QED
    BY <2>1, <2>2 DEF RttyInit, Init, Action!Init, JointInv
<1>2. JointInv /\ [RttyNext]_both => JointInv'
  <2> SUFFICES ASSUME JointInv, [RttyNext]_both PROVE JointInv'
    OBVIOUS
  <2>1. CASE RttyNext
    BY <2>1, ServeStep, SessionStep, CommandSteps DEF RttyNext
  <2>2. CASE UNCHANGED both
    <3>1. UNCHANGED vars /\ UNCHANGED Action!vars /\ UNCHANGED <<place, called, opened>>
      BY <2>2 DEF both, service, Action!vars
    <3>2. IInv' /\ UNCHANGED <<pc, killed, outcome, active, proc>>
      BY <3>1 DEF vars, JointInv, IInv, TypeOK, Live, Holds, Owned, Preemptable
    <3> QED
      BY <3>1, <3>2, Action!IdleSteps DEF JointInv
  <2> QED
    BY <2>1, <2>2
<1> QED
  BY <1>1, <1>2, PTL DEF RttySpec

\* Who is told of success has a session, and no other session will stay.
THEOREM ToldOfTheOne ==
  ASSUME ~EarlyReuse
  PROVE  RttySpec => []SessionTold
<1>1. JointInv => SessionTold
  BY DEF JointInv, SessionTold, IInv, TypeOK, Places, Preemptable, Owned
<1>2. RttySpec => []JointInv
  BY JointInvariant
<1> QED
  BY <1>1, <1>2, PTL

\* Each of the commands whose results could be published gets exactly one.
THEOREM AnsweredOnce ==
  ASSUME ~EarlyReuse
  PROVE  RttySpec => []Action!Answered
<1>1. JointInv => Action!Answered
  BY DEF JointInv, Action!IInv
<1>2. RttySpec => []JointInv
  BY JointInvariant
<1> QED
  BY <1>1, <1>2, PTL
=============================================================================
