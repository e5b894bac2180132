----------------------------- MODULE RttyAction -----------------------------
(***************************************************************************)
(* The rtty action from end to end: commands come one after another, each  *)
(* is served by ActionService, and RttySession is the executor of them     *)
(* all.  What a command leaves behind, a live session and its waiter, goes *)
(* on beside the next command.  A restart of the agent ends the command.   *)
(***************************************************************************)
EXTENDS RttySession, Sequences

VARIABLES
  place, results, missed, reply,  \* of the command, as ActionService
  called,  \* its Execute was called and has not been looked at yet
  opened   \* the session its Execute launched, or None

Action  == INSTANCE ActionService
service == <<place, results, missed, reply>>
both    == <<vars, service, called, opened>>

RttyInit == Init /\ Action!Init /\ called = FALSE /\ opened = None

Serve ==
  /\ Action!Receive \/ Action!Publish
  /\ UNCHANGED <<vars, called, opened>>

StartRtty ==
  /\ place = "execute" /\ ~called
  /\ Execute
  /\ called' = TRUE
  /\ UNCHANGED <<service, opened>>

\* Execute, the processes and the waiters go on.
Session ==
  /\ ExecuteStep \/ CancelledInGrace \/ \E s \in Sessions : Exit(s) \/ Waiter(s)
  /\ opened' = IF pc = "launch" THEN active' ELSE opened
  /\ UNCHANGED <<service, called>>

RttyReturned ==
  /\ called /\ pc = "idle"
  /\ Action!Executed(outcome)
  /\ called' = FALSE
  /\ UNCHANGED <<vars, opened>>

\* The state of a command that nobody has sent yet.
Forget ==
  /\ place' = "idle" /\ reply' = "none"
  /\ results' = << >> /\ missed' = FALSE
  /\ called' = FALSE /\ opened' = None

NextCommand == place = "returned" /\ Forget /\ UNCHANGED vars

RestartAgent == Restart /\ Forget

RttyNext ==
  Serve \/ StartRtty \/ Session \/ RttyReturned \/ NextCommand \/ RestartAgent

RttySpec ==
  /\ RttyInit /\ [][RttyNext]_both
  /\ WF_both(Serve) /\ WF_both(StartRtty) /\ WF_both(RttyReturned)
  /\ Fairness
-----------------------------------------------------------------------------
\* A success result tells of a session that this very command has launched, and
\* every other session of the agent that still lives was sent SIGKILL by then:
\* the operator who is told `Success' finds one terminal, and it is his.
SessionTold ==
  Action!Succeeded =>
    /\ opened # None /\ opened \notin killed
    /\ \A s \in Sessions \ {opened} : Owned(s) => s \in killed

\* Every command is answered in the end, or the agent is restarted, though an
\* earlier session may ignore SIGTERM and be slow to die of SIGKILL.
CommandReturns == place = "received" ~> place \in {"returned", "idle"}

\* The inductive invariant of the two together.
JointInv ==
  /\ IInv
  /\ Action!IInv
  /\ called => place = "execute"
  /\ pc # "idle" => called
  /\ ~called /\ place \in {"idle", "received", "executing", "execute"} => opened = None
  /\ pc \in {"take", "grace", "confirm", "launch"} => opened = None
  /\ pc = "watch" => opened # None
  /\ called /\ pc = "idle" /\ outcome = "ok" => opened # None
  /\ place \in {"completed", "result"} => opened # None
  /\ Action!Succeeded => opened # None
  /\ opened \in Sessions \cup {None} /\ opened \notin killed
  /\ opened # None => active \in {opened, None}
  /\ \A s \in killed : proc[s] # "none"
=============================================================================
