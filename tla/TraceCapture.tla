---------------------------- MODULE TraceCapture ----------------------------
(***************************************************************************)
(* One packet capture: VyOSTraceExecutor.Execute of internal/actions/      *)
(* vyos_trace.go.  tcpdump writes a temporary file until it has enough     *)
(* packets or its time is up; then a goroutine copies the file into a pipe *)
(* while the HTTP client sends what it reads from the pipe to the server.  *)
(*                                                                         *)
(* Calls share nothing, so there is one.  Its context may end at any       *)
(* moment, and the contexts derived from it with it: capErr and upErr are  *)
(* the Err() of captureCtx and uploadCtx.  The file is a number of packets.*)
(* The server answers 2xx only to a whole request, but may reject it, stop *)
(* reading or drop the connection when it likes.                           *)
(***************************************************************************)
EXTENDS Naturals

CONSTANT MaxPackets  \* bound on the packets captured

ASSUME MaxPacketsAssumption == MaxPackets \in Nat

VARIABLES
  pc,        \* where Execute is
  ctx,       \* the error of its context: "none", "canceled" or "deadline"
  capErr,    \* the same of captureCtx
  upErr,     \* the same of uploadCtx
  tcpdump,   \* "none", "running", "done" (exit code 0) or "failed"
  exists,    \* the temporary file has its name
  written,   \* packets in the file
  producer,  \* the goroutine: "none", "open", "copy", "closed", "failed"
  reader,    \* the reading end of the pipe is open
  copied,    \* packets that went through the pipe to the server
  request,   \* what the server got: "partial", "whole" or "cut"
  outcome    \* what Execute returned: "none", "ok" or "error"

contexts == <<ctx, capErr, upErr>>
dump     == <<tcpdump, written>>
pipe     == <<producer, reader, copied, request>>
vars     == <<pc, contexts, dump, exists, pipe, outcome>>

Errors == {"none", "canceled", "deadline"}
Places == {"idle", "check", "run", "upload", "body", "returned"}

Init ==
  /\ pc = "idle" /\ outcome = "none"
  /\ ctx = "none" /\ capErr = "none" /\ upErr = "none"
  /\ tcpdump = "none" /\ exists = FALSE /\ written = 0
  /\ producer = "none" /\ reader = FALSE /\ copied = 0 /\ request = "partial"
-----------------------------------------------------------------------------
(***************************************************************************)
(* Contexts.  A derived context ends with its parent, unless it has ended. *)
(***************************************************************************)

Derived(err, e) == IF err = "none" THEN e ELSE err

EndContext(e) ==
  /\ ctx = "none" /\ e # "none"
  /\ ctx' = e /\ capErr' = Derived(capErr, e) /\ upErr' = Derived(upErr, e)
  /\ UNCHANGED <<pc, dump, exists, pipe, outcome>>

\* Mutant: the capture has no deadline.
CaptureUnbounded == FALSE /\ UNCHANGED vars

\* The duration of the capture is over: 60 seconds unless the payload says.
CaptureTimeout ==
  /\ pc = "run" /\ capErr = "none"
  /\ capErr' = "deadline"
  /\ UNCHANGED <<pc, ctx, upErr, dump, exists, pipe, outcome>>

\* Mutant: the upload has no deadline.
UploadUnbounded == FALSE /\ UNCHANGED vars

\* 30 seconds are over.
UploadTimeout ==
  /\ pc \in {"upload", "body"} /\ upErr = "none"
  /\ upErr' = "deadline"
  /\ UNCHANGED <<pc, ctx, capErr, dump, exists, pipe, outcome>>
-----------------------------------------------------------------------------
(***************************************************************************)
(* Execute.                                                                *)
(***************************************************************************)

Call ==
  /\ pc = "idle" /\ pc' = "check"
  /\ ctx = "none"
  /\ UNCHANGED <<contexts, dump, exists, pipe, outcome>>

\* Mutant: the file is only removed after an upload.
ReturnFromUpload(from, out) ==
  /\ pc = from /\ pc' = "returned" /\ outcome' = out
  /\ exists' = (exists /\ from = "run")
  /\ UNCHANGED <<contexts, dump, pipe>>

\* Whatever the reason, the deferred functions end the contexts and remove the
\* file.
Return(from, out) ==
  /\ pc = from /\ pc' = "returned" /\ outcome' = out
  /\ exists' = FALSE
  /\ UNCHANGED <<contexts, dump, pipe>>

\* The context has ended already.
CallTooLate == ctx # "none" /\ Return("idle", "error")

\* A payload that is not valid, no interface for it, or no temporary file.
Refuse == Return("check", "error")

\* The file is created and tcpdump is started, or cannot be.
Capture ==
  /\ pc = "check" /\ pc' = "run"
  /\ exists' = TRUE /\ tcpdump' \in {"running", "failed"}
  /\ UNCHANGED <<contexts, written, pipe, outcome>>

\* Mutant: the error of the run is ignored.
CapturedAnyhow == TRUE

\* A run that failed counts as a capture if the time was up by then.
Captured == tcpdump = "done" \/ capErr = "deadline"

\* The goroutine is started.  If the context has ended, the HTTP client sends
\* nothing and closes the pipe.
Upload ==
  /\ pc = "run" /\ tcpdump # "running" /\ Captured
  /\ pc' = "upload"
  /\ upErr' = ctx /\ producer' = "open" /\ reader' = (ctx = "none")
  /\ UNCHANGED <<ctx, capErr, dump, exists, copied, request, outcome>>

\* Aborted by the caller, or a capture that failed.
CaptureFails ==
  /\ tcpdump # "running" /\ ~Captured
  /\ Return("run", "error")

\* The code takes any final 2xx.  That none is sent before the request is there
\* as a whole, nor by another server after a redirect, is a promise of the server.
Accepted == request = "whole" /\ Return("upload", "ok")

SendFails ==
  /\ upErr # "none" \/ request = "cut"
  /\ Return("upload", "error")

\* There is no connection, or it is lost before the answer.
ConnectionFails == Return("upload", "error")

\* An answer other than 2xx, at any time.
Rejected ==
  /\ pc = "upload" /\ upErr = "none" /\ request # "cut"
  /\ pc' = "body"
  /\ UNCHANGED <<contexts, dump, exists, pipe, outcome>>

\* The text of the answer has been read, as far as the context allows.
RejectionRead == Return("body", "error")
-----------------------------------------------------------------------------
(***************************************************************************)
(* tcpdump, the goroutine that copies, and the HTTP client.                *)
(***************************************************************************)

Packet ==
  /\ tcpdump = "running" /\ written < MaxPackets
  /\ written' = written + 1
  /\ UNCHANGED <<pc, contexts, tcpdump, exists, pipe, outcome>>

\* By itself, or killed when captureCtx ends.
Exit(how) ==
  /\ tcpdump = "running" /\ tcpdump' = how
  /\ UNCHANGED <<pc, contexts, written, exists, pipe, outcome>>

Produce(from, to) ==
  /\ producer = from /\ producer' = to
  /\ UNCHANGED <<pc, contexts, dump, exists, outcome>>

Open ==
  /\ exists
  /\ Produce("open", "copy")
  /\ UNCHANGED <<reader, copied, request>>

\* Each write waits for the HTTP client to read.
Copy ==
  /\ reader /\ copied < written
  /\ Produce("copy", "copy") /\ copied' = copied + 1
  /\ UNCHANGED <<reader, request>>

\* Everything is copied; the writer of the form is closed, then the pipe.
Complete ==
  /\ reader /\ copied = written
  /\ Produce("copy", "closed")
  /\ UNCHANGED <<reader, copied, request>>

\* Mutant: an error is not passed on to the reader of the pipe.
StopsCleanly ==
  /\ Produce("open", "failed") \/ Produce("copy", "closed")
  /\ UNCHANGED <<reader, copied, request>>

\* The file cannot be opened or read, or nobody reads the pipe any more.
Stops ==
  /\ Produce("open", "failed") \/ Produce("copy", "failed")
  /\ UNCHANGED <<reader, copied, request>>

\* The end of the pipe ends the request; an error on it cuts the request short.
EndOfPipe ==
  /\ reader /\ producer \in {"closed", "failed"}
  /\ reader' = FALSE
  /\ request' = IF producer = "closed" THEN "whole" ELSE "cut"
  /\ UNCHANGED <<pc, contexts, dump, exists, producer, copied, outcome>>

\* The HTTP client closes the pipe when the request's context has ended, as it
\* does at the latest when uploadFile returns.
CloseBody ==
  /\ reader /\ (upErr # "none" \/ pc = "returned")
  /\ reader' = FALSE
  /\ request' = "cut"
  /\ UNCHANGED <<pc, contexts, dump, exists, producer, copied, outcome>>

ExecuteStep ==
  \/ Refuse \/ Capture \/ Upload \/ CaptureFails \/ Accepted \/ SendFails
  \/ ConnectionFails \/ Rejected \/ RejectionRead

Background ==
  \/ \E e \in Errors : EndContext(e)
  \/ CaptureTimeout \/ UploadTimeout
  \/ Packet \/ Exit("done") \/ Exit("failed")
  \/ Open \/ Copy \/ Complete \/ Stops \/ EndOfPipe \/ CloseBody

Next == Call \/ CallTooLate \/ ExecuteStep \/ Background

Spec == Init /\ [][Next]_vars

(***************************************************************************)
(* Execute goes on where nothing outside holds it up: the timers end, a    *)
(* killed tcpdump exits, a closed pipe stops the goroutine.  tcpdump may   *)
(* never see enough packets, and the server may never read or answer.      *)
(***************************************************************************)
Goes ==
  \/ Refuse \/ Capture \/ Upload \/ CaptureFails \/ Accepted \/ SendFails
  \/ upErr # "none" /\ RejectionRead

Stopped == producer = "open" \/ (producer = "copy" /\ ~reader)

Fairness ==
  /\ WF_vars(Goes)
  /\ WF_vars(CaptureTimeout) /\ WF_vars(UploadTimeout)
  /\ WF_vars(capErr # "none" /\ Exit("failed"))
  /\ WF_vars(Stopped /\ (Open \/ Stops))
  /\ WF_vars(EndOfPipe) /\ WF_vars(CloseBody)
-----------------------------------------------------------------------------
(***************************************************************************)
(* Properties.                                                             *)
(***************************************************************************)

TypeOK ==
  /\ pc \in Places
  /\ ctx \in Errors /\ capErr \in Errors /\ upErr \in Errors
  /\ tcpdump \in {"none", "running", "done", "failed"}
  /\ exists \in BOOLEAN /\ written \in Nat
  /\ producer \in {"none", "open", "copy", "closed", "failed"}
  /\ reader \in BOOLEAN /\ copied \in Nat
  /\ request \in {"partial", "whole", "cut"}
  /\ outcome \in {"none", "ok", "error"}

\* A request that is whole to the server carries the whole capture, although a
\* failure of the copying goroutine also ends the stream of bytes it reads.
WholeCapture == request = "whole" => copied = written

\* Nothing outlives the call on the disk, whichever way it returned; no tcpdump
\* writes on.
NothingLeft == pc = "returned" => ~exists /\ tcpdump # "running"

\* The copying goroutine ends, too.
ProducerEnds == producer # "none" ~> producer \in {"closed", "failed"}

\* What holds the safety properties up: what is written does not change once
\* tcpdump has exited, and only the whole of it ends the pipe without an error.
IInv ==
  /\ TypeOK
  /\ pc \in {"idle", "check"} => tcpdump = "none" /\ ~exists
  /\ pc \in {"idle", "check", "run"} =>
       producer = "none" /\ ~reader /\ copied = 0 /\ request = "partial"
  /\ tcpdump = "running" => pc = "run"
  /\ pc \in {"upload", "body"} => Captured
  /\ pc \in {"run", "upload", "body"} => tcpdump # "none"
  /\ reader => request = "partial"
  /\ producer = "closed" => copied = written
  /\ request = "whole" => producer = "closed"
  /\ pc = "returned" <=> outcome # "none"
  /\ outcome = "ok" => request = "whole" /\ Captured /\ tcpdump # "none"
  /\ NothingLeft
=============================================================================
