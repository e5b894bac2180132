---------------------------- MODULE TraceAction ----------------------------
(***************************************************************************)
(* The trace action from end to end: ActionService runs TraceCapture as    *)
(* the executor of its command.  Handle waits for Execute; the goroutine   *)
(* and the timers of the capture go on beside it.                          *)
(***************************************************************************)
EXTENDS TraceCapture, Sequences

VARIABLES place, results, missed, reply

Action  == INSTANCE ActionService
service == <<place, results, missed, reply>>
both    == <<vars, service>>

TraceInit == Init /\ Action!Init

\* Handle and the contexts need not wait for one another.
Serve == (Action!Receive \/ Action!Publish) /\ UNCHANGED vars

StartTrace == place = "execute" /\ (Call \/ CallTooLate) /\ UNCHANGED service

Trace == (ExecuteStep \/ Background) /\ UNCHANGED service

TraceReturned ==
  /\ pc = "returned"
  /\ Action!Executed(outcome)
  /\ UNCHANGED vars

TraceNext == Serve \/ StartTrace \/ Trace \/ TraceReturned

TraceSpec ==
  /\ TraceInit /\ [][TraceNext]_both
  /\ WF_both(Serve) /\ WF_both(StartTrace) /\ WF_both(TraceReturned)
  /\ Fairness
-----------------------------------------------------------------------------
\* A success result reaches the controller only after the server has the whole
\* of a capture that ended as it should.
TruthfulSuccess ==
  Action!Succeeded =>
    /\ request = "whole" /\ copied = written
    /\ tcpdump = "done" \/ capErr = "deadline"

\* A command is answered once, with the result that Handle's reply stands for,
\* unless the publication of a result itself failed: a lost status does not
\* silence it.
Answered == Action!Answered

\* Handle returns though tcpdump may see no packet and the server may stop
\* reading or answering.
HandleReturns == place = "received" ~> place = "returned"

\* The inductive invariant of the two together.
JointInv ==
  /\ IInv
  /\ Action!IInv
  /\ place \in {"idle", "received", "executing"} => pc = "idle"
  /\ place \in {"completed", "result"} => outcome = "ok"
  /\ Action!Succeeded => outcome = "ok"
=============================================================================
