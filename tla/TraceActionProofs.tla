------------------------- MODULE TraceActionProofs -------------------------
(***************************************************************************)
(* A success result of the trace action is true, and nothing is left       *)
(* behind by any outcome, for captures of any size.                        *)
(***************************************************************************)
EXTENDS TraceAction, TLAPS

\* The data of the proofs: what the types and the small operators stand for.
USE DEF Places, Errors, contexts, dump, pipe, vars

LEMMA CaptureInit == Init => IInv
<1> SUFFICES ASSUME Init PROVE IInv
  OBVIOUS
<1>1. TypeOK
  BY DEF Init, TypeOK
<1>2. NothingLeft
  BY DEF Init, NothingLeft
<1>3. ~reader /\ ~exists
  BY DEF Init
<1> QED
  BY <1>1, <1>2, <1>3 DEF Init, IInv

\* Execute returns an error after the capture.
LEMMA FailedStep ==
  ASSUME IInv, pc \in {"upload", "body"},
         pc' = "returned", outcome' = "error", exists' = FALSE,
         UNCHANGED <<contexts, dump, pipe>>
  PROVE  IInv'
<1>1. TypeOK'
  BY DEF IInv, TypeOK
<1>2. NothingLeft' /\ tcpdump # "running"
  BY DEF IInv, NothingLeft
<1>3. /\ reader' => request' = "partial"
      /\ producer' = "closed" => copied' = written'
      /\ request' = "whole" => producer' = "closed"
  BY DEF IInv
<1> QED
  BY <1>1, <1>2, <1>3 DEF IInv

\* The pipe is closed at its reading end, and the request ends with it.
LEMMA ClosedStep ==
  ASSUME IInv, reader, reader' = FALSE, request' \in {"whole", "cut"},
         request' = "whole" => producer = "closed",
         UNCHANGED <<pc, contexts, dump, exists, producer, copied, outcome>>
  PROVE  IInv'
<1>1. TypeOK'
  <2>1. TypeOK /\ request' \in {"partial", "whole", "cut"} /\ reader' \in BOOLEAN
    BY DEF IInv
  <2> QED
    BY <2>1 DEF TypeOK
<1>2. pc \notin {"idle", "check", "run"} /\ outcome # "ok"
  BY DEF IInv
<1>3. NothingLeft' /\ (Captured' <=> Captured)
  BY DEF IInv, NothingLeft, Captured
<1>4. /\ producer' = "closed" => copied' = written'
      /\ request' = "whole" => producer' = "closed"
      /\ tcpdump' # "running"
      /\ pc' = "returned" <=> outcome' # "none"
  BY <1>2 DEF IInv
<1>5. pc' \in {"upload", "body"} => Captured' /\ tcpdump' # "none"
  BY <1>3 DEF IInv
<1> QED
  BY <1>1, <1>2, <1>3, <1>4, <1>5 DEF IInv

\* What Execute itself does.
LEMMA ExecuteSteps ==
  ASSUME IInv, Call \/ CallTooLate \/ ExecuteStep
  PROVE  IInv'
<1> USE DEF IInv, TypeOK, NothingLeft, Captured, Return
<1>1. CASE Call
  BY <1>1 DEF Call
<1>2. CASE CallTooLate
  BY <1>2 DEF CallTooLate
<1>3. CASE Refuse
  BY <1>3 DEF Refuse
<1>4. CASE Capture
  BY <1>4 DEF Capture
<1>5. CASE Upload
  BY <1>5 DEF Upload
<1>6. CASE CaptureFails
  BY <1>6 DEF CaptureFails
<1>7. CASE Accepted
  BY <1>7 DEF Accepted
<1>8. CASE SendFails \/ ConnectionFails
  <2>1. /\ pc = "upload" /\ pc' = "returned" /\ outcome' = "error"
        /\ exists' = FALSE /\ UNCHANGED <<contexts, dump, pipe>>
    BY <1>8 DEF SendFails, ConnectionFails
  <2> QED
    BY <2>1, FailedStep
<1>10. CASE Rejected
  BY <1>10 DEF Rejected
<1>11. CASE RejectionRead
  <2>1. /\ pc = "body" /\ pc' = "returned" /\ outcome' = "error"
        /\ exists' = FALSE /\ UNCHANGED <<contexts, dump, pipe>>
    BY <1>11 DEF RejectionRead
  <2> QED
    BY <2>1, FailedStep
<1> QED
  BY <1>1, <1>2, <1>3, <1>4, <1>5, <1>6, <1>7, <1>8, <1>10, <1>11
     DEF ExecuteStep

\* What goes on beside it.
LEMMA BackgroundSteps ==
  ASSUME IInv, Background
  PROVE  IInv'
<1> USE DEF IInv, TypeOK, NothingLeft, Captured, Produce
<1>1. CASE \E e \in Errors : EndContext(e)
  BY <1>1 DEF EndContext, Derived
<1>2. CASE CaptureTimeout
  BY <1>2 DEF CaptureTimeout
<1>3. CASE UploadTimeout
  BY <1>3 DEF UploadTimeout
<1>4. CASE Packet
  BY <1>4 DEF Packet
<1>5. CASE Exit("done")
  BY <1>5 DEF Exit
<1>6. CASE Exit("failed")
  BY <1>6 DEF Exit
<1>7. CASE Open
  BY <1>7 DEF Open
<1>8. CASE Copy
  BY <1>8 DEF Copy
<1>9. CASE Complete
  BY <1>9 DEF Complete
<1>10. CASE Stops
  BY <1>10 DEF Stops
<1>11. CASE EndOfPipe
  <2>1. /\ reader /\ reader' = FALSE /\ request' \in {"whole", "cut"}
        /\ request' = "whole" => producer = "closed"
        /\ UNCHANGED <<pc, contexts, dump, exists, producer, copied, outcome>>
    BY <1>11 DEF EndOfPipe
  <2> QED
    BY <2>1, ClosedStep
<1>12. CASE CloseBody
  <2>1. /\ reader /\ reader' = FALSE /\ request' = "cut"
        /\ UNCHANGED <<pc, contexts, dump, exists, producer, copied, outcome>>
    BY <1>12 DEF CloseBody
  <2> QED
    BY <2>1, ClosedStep
<1> QED
  BY <1>1, <1>2, <1>3, <1>4, <1>5, <1>6, <1>7, <1>8, <1>9, <1>10, <1>11, <1>12
     DEF Background

\* The invariant of the capture by itself.
THEOREM CaptureInvariant == Spec => []IInv
<1>1. IInv /\ [Next]_vars => IInv'
  <2> SUFFICES ASSUME IInv, [Next]_vars PROVE IInv'
    OBVIOUS
  <2>1. CASE Next
    BY <2>1, ExecuteSteps, BackgroundSteps DEF Next
  <2>2. CASE UNCHANGED vars
    BY <2>2 DEF IInv, TypeOK, NothingLeft, Captured
  <2> QED
    BY <2>1, <2>2
<1> QED
  BY <1>1, CaptureInit, PTL DEF Spec

\* A request that is whole to the server carries the whole capture.
THEOREM WholeRequests == Spec => []WholeCapture
<1>1. IInv => WholeCapture
  BY DEF IInv, WholeCapture
<1> QED
  BY <1>1, CaptureInvariant, PTL
-----------------------------------------------------------------------------
\* The trace action is a behaviour of each of its parts.
THEOREM Composition == TraceSpec => Spec /\ Action!Spec
<1>1. TraceInit => Init /\ Action!Init
  BY DEF TraceInit
<1>2. [TraceNext]_both => [Next]_vars
  BY DEF both, TraceNext, Serve, StartTrace, Trace, TraceReturned, Next
<1>3. [TraceNext]_both => [Action!Next]_Action!vars
  <2> USE DEF both, service, Action!vars
  <2>1. ASSUME TraceReturned PROVE Action!Next \/ UNCHANGED service
    <3>1. CASE outcome = "ok"
      BY <2>1, <3>1 DEF TraceReturned, Action!Next
    <3>2. CASE outcome # "ok"
      <4>1. Action!Executed("error")
        BY <2>1, <3>2 DEF TraceReturned, Action!Executed
      <4> QED
        BY <4>1 DEF Action!Next
    <3> QED
      BY <3>1, <3>2
  <2> QED
    BY <2>1 DEF TraceNext, Serve, StartTrace, Trace, Action!Next
<1> QED
  BY <1>1, <1>2, <1>3, PTL DEF TraceSpec, Spec, Action!Spec
-----------------------------------------------------------------------------
\* Announcing the command and reporting its result leave the capture alone.
LEMMA ServeStep ==
  ASSUME JointInv, Serve
  PROVE  JointInv'
<1>1. IInv' /\ UNCHANGED <<pc, outcome>>
  BY DEF Serve, vars, JointInv, IInv, TypeOK, NothingLeft, Captured
<1>2. Action!IInv /\ (Action!Receive \/ Action!Publish)
  BY DEF JointInv, Serve
<1>3. Action!IInv'
  BY <1>2, Action!ServeSteps
<1>4. /\ place' \in {"idle", "received", "executing"} =>
           place \in {"idle", "received", "executing"}
      /\ place' \in {"completed", "result"} => place \in {"completed", "result"}
      /\ Action!Succeeded' => Action!Succeeded \/ place = "result"
  BY <1>2, Action!ServeMoves
<1> QED
  BY <1>1, <1>3, <1>4 DEF JointInv

\* The capture leaves the service alone, and the outcome once there is one.
LEMMA TraceStep ==
  ASSUME JointInv, StartTrace \/ Trace
  PROVE  JointInv'
<1>1. IInv'
  BY ExecuteSteps, BackgroundSteps DEF JointInv, StartTrace, Trace
<1>2. UNCHANGED service /\ Action!IInv' /\ (Action!Succeeded' <=> Action!Succeeded)
  <2>1. UNCHANGED service
    BY DEF StartTrace, Trace
  <2>2. UNCHANGED Action!vars
    BY <2>1 DEF service, Action!vars
  <2> QED
    BY <2>1, <2>2, Action!IdleSteps DEF JointInv
<1>3. pc = "idle" /\ place # "execute" => pc' = "idle"
  BY DEF StartTrace, Trace, Call, CallTooLate, ExecuteStep, Background, Return,
         Refuse, Capture, Upload, CaptureFails, Accepted, SendFails,
         ConnectionFails, Rejected, RejectionRead, EndContext, CaptureTimeout,
         UploadTimeout, Packet, Exit, Produce, Open, Copy, Complete, Stops,
         EndOfPipe, CloseBody
<1>4. outcome = "ok" => outcome' = "ok"
  BY DEF JointInv, IInv, StartTrace, Trace, Call, CallTooLate, ExecuteStep,
         Background, Return, Refuse, Capture, Upload, CaptureFails, Accepted,
         SendFails, ConnectionFails, Rejected, RejectionRead, EndContext,
         CaptureTimeout, UploadTimeout, Packet, Exit, Produce, Open, Copy,
         Complete, Stops, EndOfPipe, CloseBody
<1> QED
  BY <1>1, <1>2, <1>3, <1>4 DEF JointInv, service

\* Handle takes over the outcome of Execute.
LEMMA ReturnedStep ==
  ASSUME JointInv, TraceReturned
  PROVE  JointInv'
<1>1. IInv' /\ UNCHANGED <<pc, outcome>>
  BY DEF JointInv, TraceReturned, vars, IInv, TypeOK, NothingLeft, Captured
<1>2. Action!IInv /\ Action!Executed(outcome)
  BY DEF JointInv, TraceReturned
<1>3. /\ Action!IInv'
      /\ place' = IF outcome = "ok" THEN "completed" ELSE "failed"
      /\ Action!Succeeded' <=> Action!Succeeded
  BY <1>2, Action!ExecutedSteps
<1> QED
  BY <1>1, <1>3 DEF JointInv

\* The two invariants, and what ties the service to the capture.
THEOREM Invariant == TraceSpec => []JointInv
<1>1. TraceInit => JointInv
  <2> SUFFICES ASSUME TraceInit PROVE JointInv
    OBVIOUS
  <2>1. Action!IInv /\ ~Action!Succeeded
    BY Action!InitInv DEF TraceInit
  <2>2. IInv /\ pc = "idle" /\ place = "idle"
    BY CaptureInit DEF TraceInit, Action!Init, Init
  <2> QED
    BY <2>1, <2>2 DEF JointInv
<1>2. JointInv /\ [TraceNext]_both => JointInv'
  <2> SUFFICES ASSUME JointInv, [TraceNext]_both PROVE JointInv'
    OBVIOUS
  <2>1. CASE TraceNext
    BY <2>1, ServeStep, TraceStep, ReturnedStep DEF TraceNext
  <2>2. CASE UNCHANGED both
    <3>1. UNCHANGED vars /\ UNCHANGED Action!vars /\ UNCHANGED place
      BY <2>2 DEF both, service, Action!vars
    <3>2. IInv' /\ UNCHANGED <<pc, outcome>>
      BY <3>1 DEF vars, JointInv, IInv, TypeOK, NothingLeft, Captured
    <3> QED
      BY <3>1, <3>2, Action!IdleSteps DEF JointInv
  <2> QED
    BY <2>1, <2>2
<1> QED
  BY <1>1, <1>2, PTL DEF TraceSpec

\* The controller is told of success only once the server has all of a capture.
THEOREM SuccessIsTrue == TraceSpec => []TruthfulSuccess
<1>1. JointInv => TruthfulSuccess
  BY DEF JointInv, IInv, Captured, TruthfulSuccess
<1> QED
  BY <1>1, Invariant, PTL

\* However Execute ends, the file is gone and tcpdump no longer runs.
THEOREM CleanedUp == TraceSpec => []NothingLeft
<1>1. JointInv => NothingLeft
  BY DEF JointInv, IInv
<1> QED
  BY <1>1, Invariant, PTL

\* A command whose results could be published gets exactly one.
THEOREM AnsweredOnce == TraceSpec => []Answered
<1>1. JointInv => Answered
  BY DEF JointInv, Answered, Action!IInv
<1> QED
  BY <1>1, Invariant, PTL
=============================================================================
