----------------------- MODULE RuntimeLifecycleProofs -----------------------
(***************************************************************************)
(* Close misses no reconcile pass and the exit code is honest, for any     *)
(* number of goroutines.                                                   *)
(***************************************************************************)
EXTENDS RuntimeLifecycle, TLAPS

LEMMA InitInv == Init => RuntimeInv
  BY MainAssumption DEF Init, RuntimeInv, TypeOK, Early, Places, Passes, Counting,
                        StartsWhenAsked, CleanExit

LEMMA CommandLineStep ==
  ASSUME RuntimeInv, CommandLine \/ Killed
  PROVE  RuntimeInv'
<1> USE MainAssumption DEF RuntimeInv, TypeOK, Early, Places, Passes, Counting,
        StartsWhenAsked, CleanExit, Goto, Exit, main, given
<1>1. CASE ParseArgs
  BY <1>1 DEF ParseArgs
<1>2. CASE LoadConfig
  BY <1>2 DEF LoadConfig
<1>3. CASE PrintConfig
  BY <1>3 DEF PrintConfig
<1>4. CASE Decide
  BY <1>4 DEF Decide
<1>5. CASE Create
  BY <1>5 DEF Create
<1>6. CASE Killed
  BY <1>6 DEF Killed
<1> QED
  BY <1>1, <1>2, <1>3, <1>4, <1>5, <1>6 DEF CommandLine

LEMMA StartStep ==
  ASSUME RuntimeInv, StartSteps
  PROVE  RuntimeInv'
<1> USE MainAssumption DEF RuntimeInv, TypeOK, Early, Places, Passes, Counting,
        StartsWhenAsked, CleanExit, Goto, Exit, main, given
<1>1. CASE Register
  BY <1>1 DEF Register
<1>2. CASE Connect
  BY <1>2 DEF Connect
<1>3. CASE ConnectFails
  BY <1>3 DEF ConnectFails
<1>4. CASE PublishStatus
  BY <1>4 DEF PublishStatus
<1>5. CASE StatusFails
  BY <1>5 DEF StatusFails
<1>6. CASE LockForStartup
  BY <1>6 DEF LockForStartup
<1>7. CASE StartupReconciled
  BY <1>7 DEF StartupReconciled
<1> QED
  BY <1>1, <1>2, <1>3, <1>4, <1>5, <1>6, <1>7 DEF StartSteps

LEMMA CloseStep ==
  ASSUME RuntimeInv, CloseSteps \/ Signal
  PROVE  RuntimeInv'
<1> USE MainAssumption DEF RuntimeInv, TypeOK, Early, Places, Passes, Counting,
        StartsWhenAsked, CleanExit, Goto, Exit, main, given
<1>1. CASE Shutdown
  BY <1>1 DEF Shutdown
<1>2. CASE MarkClosed
  BY <1>2 DEF MarkClosed
<1>3. CASE Cancel
  BY <1>3 DEF Cancel
<1>4. CASE PassesDone
  BY <1>4 DEF PassesDone
<1>5. CASE TimeOut
  BY <1>5 DEF TimeOut
<1>6. CASE CloseClient
  BY <1>6 DEF CloseClient
<1>7. CASE CloseClientFails
  BY <1>7 DEF CloseClientFails
<1>8. CASE Signal
  BY <1>8 DEF Signal
<1> QED
  BY <1>1, <1>2, <1>3, <1>4, <1>5, <1>6, <1>7, <1>8 DEF CloseSteps

LEMMA WorkerStep ==
  ASSUME RuntimeInv, NEW w \in Workers,
         Handle(w) \/ Reconnect(w) \/ StartPass(w) \/ Acquire(w) \/ Finish(w)
  PROVE  RuntimeInv'
<1> USE MainAssumption DEF RuntimeInv, TypeOK, Early, Places, Passes, Counting,
        StartsWhenAsked, CleanExit, local, given
<1>1. CASE Handle(w)
  BY <1>1 DEF Handle
<1>2. CASE Reconnect(w)
  BY <1>2 DEF Reconnect
<1>3. CASE StartPass(w)
  BY <1>3 DEF StartPass
<1>4. CASE Acquire(w)
  BY <1>4 DEF Acquire
<1>5. CASE Finish(w)
  BY <1>5 DEF Finish
<1> QED
  BY <1>1, <1>2, <1>3, <1>4, <1>5

LEMMA InvStep ==
  ASSUME RuntimeInv, [Next]_vars
  PROVE  RuntimeInv'
<1>1. CASE Next
  BY <1>1, CommandLineStep, StartStep, CloseStep, WorkerStep DEF Next
<1>2. CASE UNCHANGED vars
  BY <1>2 DEF vars, main, given, RuntimeInv, TypeOK, Passes, Counting, StartsWhenAsked, CleanExit
<1> QED
  BY <1>1, <1>2

\* Run, Close, the reconnect handler and the passes fit together as RuntimeInv says.
THEOREM Invariant == Spec => []RuntimeInv
<1>1. RuntimeInv /\ [Next]_vars => RuntimeInv'
  BY InvStep
<1> QED
  BY <1>1, InitInv, PTL DEF Spec

\* No reconcile pass runs when the client is closed, nor starts afterwards.
THEOREM PassesEndFirst == Spec => []ClientClosedLast
<1>1. RuntimeInv => ClientClosedLast
  BY DEF RuntimeInv, ClientClosedLast, Passes, Counting
<1> QED
  BY <1>1, Invariant, PTL

\* Only a process that was asked to run, with a valid configuration, starts its
\* client.
THEOREM LookingStartsNothing == Spec => []StartsWhenAsked
<1>1. RuntimeInv => StartsWhenAsked
  BY DEF RuntimeInv
<1> QED
  BY <1>1, Invariant, PTL

\* Exit code 0 is only returned if what was asked for was done.
THEOREM ExitCodeHonest == Spec => []CleanExit
<1>1. RuntimeInv => CleanExit
  BY DEF RuntimeInv
<1> QED
  BY <1>1, Invariant, PTL

\* The WaitGroup's Add never overtakes its Wait.
THEOREM WaitMissesNoPass == Spec => NoAddAfterWait
<1>1. RuntimeInv /\ [Next]_vars =>
        [(pc \in {"wait", "closeclient"}) => Passes' \subseteq Passes]_vars
  <2> SUFFICES ASSUME RuntimeInv, [Next]_vars, pc \in {"wait", "closeclient"},
                      ~(Passes' \subseteq Passes)
               PROVE  UNCHANGED vars
    OBVIOUS
  <2>1. \A w \in Workers : kind[w] # "counting"
    BY DEF RuntimeInv, Counting
  <2>2. CASE \E w \in Workers : StartPass(w)
    BY <2>1, <2>2 DEF StartPass
  <2>3. CASE \E w \in Workers : Handle(w) \/ Reconnect(w) \/ Acquire(w) \/ Finish(w)
    BY <2>3 DEF Handle, Reconnect, Acquire, Finish, local, Passes, RuntimeInv, TypeOK
  <2>4. CASE CommandLine \/ Killed \/ StartSteps \/ Signal \/ CloseSteps
    <3>1. kind' = kind
      BY <2>4 DEF CommandLine, Killed, ParseArgs, LoadConfig, PrintConfig, Decide,
           Create, StartSteps, Signal, CloseSteps, Register, Connect, ConnectFails,
           PublishStatus, StatusFails, LockForStartup, StartupReconciled, Shutdown,
           MarkClosed, Cancel, PassesDone, TimeOut, CloseClient, CloseClientFails,
           Goto, Exit, main
    <3> QED
      BY <3>1 DEF Passes
  <2>5. CASE UNCHANGED vars
    BY <2>5
  <2> QED
    BY <2>2, <2>3, <2>4, <2>5 DEF Next
<1> QED
  BY <1>1, Invariant, PTL DEF Spec, NoAddAfterWait
=============================================================================
