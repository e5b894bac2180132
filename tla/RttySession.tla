---------------------------- MODULE RttySession ----------------------------
(***************************************************************************)
(* Remote terminal sessions: the rtty action of internal/actions/          *)
(* vyos_rtty.go.  Execute replaces the running rtty process by a new one:  *)
(* KillExisting takes the tracked process and terminates it, Start         *)
(* launches the next and watches it for 50ms.  Each process has a waiter   *)
(* goroutine that reaps it and ends the tracking.                          *)
(*                                                                         *)
(* Executor calls exclude one another by VyOSRTTYExecutor.mu, so there is  *)
(* one at a time.  RealRTTYProcessRunner.mu (the lock below) is held by    *)
(* Start until the watch ends; the other critical sections are one step.   *)
(* A process may exit by itself at any time, may ignore SIGTERM, and takes *)
(* its time to die of SIGKILL.                                             *)
(***************************************************************************)
EXTENDS Naturals

CONSTANTS
  MaxSessions,   \* bound on the processes launched
  Pids,          \* process identifiers of the system
  EarlyReuse,    \* may a new process get the PID of a reaped one while the
                 \* waiter of that one has still to end the tracking?
  AgentRestarts  \* may the agent restart while a session lives?

ASSUME ConstantsAssumption ==
  /\ MaxSessions \in Nat
  /\ Pids \subseteq Nat \ {0}
  /\ EarlyReuse \in BOOLEAN /\ AgentRestarts \in BOOLEAN

Sessions == 1..MaxSessions
None == 0

VARIABLES
  pc,       \* where the running Execute is; "idle" between calls
  victim,   \* the session KillExisting is terminating, or None
  active,   \* the session in activeCmd, activePID and activeDone, or None
  proc,     \* its process: "none" before Start, "running", "exited"
  pid,      \* its PID
  killed,   \* sessions sent SIGKILL
  waiter,   \* "none", "wait" (not reaped), "reaped" (the error is sent),
            \* "closed" (activeDone is closed), "done" (tracking was cleared)
  outcome   \* of the last Execute; "none" while one runs

vars == <<pc, victim, active, proc, pid, killed, waiter, outcome>>

Places  == {"idle", "take", "grace", "confirm", "launch", "watch"}
Waiters == {"none", "wait", "reaped", "closed", "done"}

Init ==
  /\ pc = "idle" /\ victim = None /\ active = None
  /\ proc = [s \in Sessions |-> "none"]
  /\ pid = [s \in Sessions |-> 0]
  /\ killed = {}
  /\ waiter = [s \in Sessions |-> "none"]
  /\ outcome = "none"

Live(s) == proc[s] = "running"

\* activeDone of s is closed.
Confirmed(s) == waiter[s] \in {"closed", "done"}

\* The lock is free for the waiters: no Start is watching.
Unlocked == pc # "watch"
-----------------------------------------------------------------------------
(***************************************************************************)
(* Execute.                                                                *)
(***************************************************************************)

Execute ==
  /\ pc = "idle"
  /\ pc' = "take" /\ outcome' = "none"
  /\ UNCHANGED <<victim, active, proc, pid, killed, waiter>>

Return(out) ==
  /\ pc' = "idle" /\ outcome' = out
  /\ victim' = None

\* A cancelled context, a payload that is not valid, no binary or no
\* certificate: the running session is left alone.
Refuse ==
  /\ pc = "take"
  /\ Return("error")
  /\ UNCHANGED <<active, proc, pid, killed, waiter>>

\* Mutant: the process to terminate is not taken out of the tracking.
TakeWithoutClearing ==
  /\ pc = "take"
  /\ victim' = active
  /\ pc' = IF active = None THEN "launch" ELSE "grace"
  /\ UNCHANGED <<active, proc, pid, killed, waiter, outcome>>

\* KillExisting takes the tracked process and sends it SIGTERM.
Take ==
  /\ pc = "take"
  /\ victim' = active /\ active' = None
  /\ pc' = IF active = None THEN "launch" ELSE "grace"
  /\ UNCHANGED <<proc, pid, killed, waiter, outcome>>

\* The exit is confirmed, in the grace period or after SIGKILL.
Terminated ==
  /\ pc \in {"grace", "confirm"} /\ Confirmed(victim)
  /\ pc' = "launch" /\ victim' = None
  /\ UNCHANGED <<active, proc, pid, killed, waiter, outcome>>

\* Mutant: the grace period ends without SIGKILL.
GraceEndsUnkilled ==
  /\ pc = "grace"
  /\ pc' = "confirm"
  /\ UNCHANGED <<victim, active, proc, pid, killed, waiter, outcome>>

\* Mutant: KillExisting waits for a graceful exit without a timer.
WaitForExit ==
  /\ pc = "grace" /\ Confirmed(victim)
  /\ pc' = "launch" /\ victim' = None
  /\ UNCHANGED <<active, proc, pid, killed, waiter, outcome>>

\* 200ms have passed without confirmation.  Kill fails only for a process that is
\* gone already, and then the code goes on as if it had succeeded.
GraceEnds ==
  /\ pc = "grace"
  /\ killed' = killed \cup {victim}
  /\ pc' = "confirm"
  /\ UNCHANGED <<victim, active, proc, pid, waiter, outcome>>

\* 500ms more have passed, or the context has ended.
GiveUp ==
  /\ pc = "confirm"
  /\ Return("error")
  /\ UNCHANGED <<active, proc, pid, killed, waiter>>

\* The context ends in the grace period.  It need not end at all.
CancelledInGrace ==
  /\ pc = "grace"
  /\ killed' = killed \cup {victim}
  /\ Return("error")
  /\ UNCHANGED <<active, proc, pid, waiter>>

\* A process, or the waiter that goes by its PID, is there.
Holds(s) == Live(s) \/ waiter[s] \in {"wait", "reaped", "closed"}

\* PIDs the kernel has not given back yet, and, unless they are reused early,
\* those that a waiter still goes by.
TakenPids ==
  {pid[t] : t \in {u \in Sessions :
                     \/ Live(u) \/ waiter[u] = "wait"
                     \/ ~EarlyReuse /\ Holds(u)}}

LaunchFails ==
  /\ pc = "launch"
  /\ Return("error")
  /\ UNCHANGED <<active, proc, pid, killed, waiter>>

Launch(s, p) ==
  /\ pc = "launch"
  /\ proc[s] = "none" /\ \A t \in 1..s-1 : proc[t] # "none"
  /\ p \notin TakenPids
  /\ pc' = "watch"
  /\ active' = s
  /\ proc' = [proc EXCEPT ![s] = "running"]
  /\ pid' = [pid EXCEPT ![s] = p]
  /\ waiter' = [waiter EXCEPT ![s] = "wait"]
  /\ UNCHANGED <<victim, killed, outcome>>

\* The process exited during the watch.
ExitedAtOnce ==
  /\ pc = "watch" /\ waiter[active] # "wait"
  /\ Return("error")
  /\ UNCHANGED <<active, proc, pid, killed, waiter>>

WatchEnds ==
  /\ pc = "watch"
  /\ Return("ok")
  /\ UNCHANGED <<active, proc, pid, killed, waiter>>
-----------------------------------------------------------------------------
(***************************************************************************)
(* The processes, their waiters, and the agent process.                    *)
(***************************************************************************)

Exit(s) ==
  /\ Live(s)
  /\ proc' = [proc EXCEPT ![s] = "exited"]
  /\ UNCHANGED <<pc, victim, active, pid, killed, waiter, outcome>>

MoveWaiter(s, from, to) ==
  /\ waiter[s] = from
  /\ waiter' = [waiter EXCEPT ![s] = to]
  /\ UNCHANGED <<pc, victim, proc, pid, killed, outcome>>

\* Wait returns: the PID is free again.  The error is offered to the watch.
Reap(s) ==
  /\ proc[s] = "exited"
  /\ MoveWaiter(s, "wait", "reaped")
  /\ UNCHANGED active

Close(s) == MoveWaiter(s, "reaped", "closed") /\ UNCHANGED active

\* Mutant: a waiter ends the tracking of whatever is tracked.
ClearAny(s) ==
  /\ Unlocked
  /\ active' = None
  /\ MoveWaiter(s, "closed", "done")

\* Mutant: no waiter ends the tracking.
ClearNothing(s) ==
  /\ Unlocked
  /\ MoveWaiter(s, "closed", "done")
  /\ UNCHANGED active

\* The tracking of s ends.  It is recognised by its PID.
Clear(s) ==
  /\ Unlocked
  /\ active' = IF active # None /\ pid[active] = pid[s] THEN None ELSE active
  /\ MoveWaiter(s, "closed", "done")

\* The agent dies and is started again.  A session is in a process group of its
\* own (Setsid) and lives on; init reaps it.
Restart ==
  /\ AgentRestarts
  /\ pc' = "idle" /\ victim' = None /\ active' = None /\ outcome' = "none"
  /\ waiter' = [s \in Sessions |-> IF proc[s] = "none" THEN "none" ELSE "done"]
  /\ UNCHANGED <<proc, pid, killed>>

ExecuteStep ==
  \/ Refuse \/ Take \/ Terminated \/ GraceEnds \/ GiveUp \/ LaunchFails
  \/ \E s \in Sessions, p \in Pids : Launch(s, p)
  \/ ExitedAtOnce \/ WatchEnds

Waiter(s) == Reap(s) \/ Close(s) \/ Clear(s)

Next ==
  \/ Execute \/ ExecuteStep \/ CancelledInGrace
  \/ \E s \in Sessions : Exit(s) \/ Waiter(s)
  \/ Restart

Spec == Init /\ [][Next]_vars

(***************************************************************************)
(* A call and a waiter that can go on do, which includes the timers of the *)
(* selects; a process that was sent SIGKILL exits in the end.              *)
(***************************************************************************)
Fairness ==
  /\ WF_vars(ExecuteStep)
  /\ \A s \in Sessions : SF_vars(Waiter(s)) /\ WF_vars(s \in killed /\ Exit(s))
-----------------------------------------------------------------------------
(***************************************************************************)
(* Properties.                                                             *)
(***************************************************************************)

TypeOK ==
  /\ pc \in Places
  /\ victim \in Sessions \cup {None} /\ active \in Sessions \cup {None}
  /\ proc \in [Sessions -> {"none", "running", "exited"}]
  /\ pid \in [Sessions -> Nat]
  /\ killed \in SUBSET Sessions
  /\ waiter \in [Sessions -> Waiters]
  /\ outcome \in {"none", "ok", "error"}

\* A live session that the agent has started since it was last started itself.
Owned(s) == Live(s) /\ waiter[s] = "wait"

\* A live session is within the reach of the next KillExisting, is being
\* terminated by the one that runs, or was sent SIGKILL: none is forgotten, so
\* that a session can be preempted for as long as it and the agent live.
Preemptable ==
  \A s \in Sessions :
    Owned(s) => s = active \/ s = victim \/ s \in killed

\* When Start launches a session, every earlier one that still lives was sent
\* SIGKILL: two sessions are never left running side by side.
OneSession ==
  \A s, t \in Sessions :
    Owned(s) /\ Owned(t) /\ s # t => s \in killed \/ t \in killed

\* An exited session does not stay tracked, whichever way it ended and whatever
\* Execute was doing.
TrackingEnds == \A s \in Sessions : proc[s] = "exited" ~> active # s

\* What holds the safety properties up, if no PID is reused early.  The waiter
\* of an orphan, a live session from before a restart of the agent, is "done".
IInv ==
  /\ TypeOK
  /\ \A s \in Sessions : proc[s] = "none" => waiter[s] = "none" /\ s # active /\ s # victim
  /\ \A s \in Sessions : Live(s) => waiter[s] \in {"wait", "done"}
  /\ \A s, t \in Sessions :
       s # t /\ Holds(s) /\ Holds(t) => pid[s] # pid[t]
  /\ active # None => waiter[active] \in {"wait", "reaped", "closed"}
  /\ pc \in {"grace", "confirm"} <=> victim # None
  /\ pc = "confirm" => victim \in killed
  /\ pc = "watch" => active # None
  /\ pc \in {"grace", "confirm", "launch"} => active = None
  /\ Preemptable
=============================================================================
