--------------------------- MODULE ActionService ---------------------------
(***************************************************************************)
(* One action command: Service.Handle of internal/actions/service.go.  It  *)
(* announces the command, runs the executor registered for the action and  *)
(* reports the result.  Each of its publications may fail, and one that    *)
(* fails may have reached the controller all the same.  Commands share     *)
(* nothing in the service, so there is one.  What a status says is of no   *)
(* consequence, only whether its publication fails.                        *)
(***************************************************************************)
EXTENDS Naturals, Sequences

VARIABLES
  place,     \* where Handle is
  results,   \* the results the controller got
  missed,    \* a publication of a result failed
  reply      \* what Handle returned: "none", "nil" or "error"

vars == <<place, results, missed, reply>>

Places == {"idle", "received", "executing", "execute", "completed", "result",
           "failed", "failure", "returned"}

Init ==
  /\ place = "idle" /\ reply = "none"
  /\ results = << >> /\ missed = FALSE
-----------------------------------------------------------------------------
Goto(from, to) == place = from /\ place' = to /\ UNCHANGED reply

Return(from, out) == place = from /\ place' = "returned" /\ reply' = out

\* PublishResult: ok is FALSE when it returns an error.
Answer(result, ok) ==
  /\ \/ results' = Append(results, result)
     \/ ~ok /\ UNCHANGED results
  /\ missed' = (missed \/ ~ok)

Receive == Goto("idle", "received") /\ UNCHANGED <<results, missed>>

\* ok is FALSE when PublishStatus returns an error.  The action may not be
\* enabled, too, or have no executor.
TellReceived(ok) ==
  /\ \/ ok /\ Goto("received", "executing")
     \/ Goto("received", "failed")
  /\ UNCHANGED <<results, missed>>

TellExecuting(ok) ==
  /\ Goto("executing", IF ok THEN "execute" ELSE "failed")
  /\ UNCHANGED <<results, missed>>

\* Mutant: the error of the executor is not looked at.
ExecutedUnchecked(out) ==
  /\ out \in {"ok", "error"} /\ Goto("execute", "completed")
  /\ UNCHANGED <<results, missed>>

\* The executor has returned.
Executed(out) ==
  /\ Goto("execute", IF out = "ok" THEN "completed" ELSE "failed")
  /\ UNCHANGED <<results, missed>>

TellCompleted(ok) ==
  /\ Goto("completed", IF ok THEN "result" ELSE "failed")
  /\ UNCHANGED <<results, missed>>

AnswerSuccess(ok) ==
  /\ IF ok THEN Return("result", "nil") ELSE Goto("result", "failed")
  /\ Answer("success", ok)

\* Mutant: a failure that cannot be told is not answered either.
GiveUpUntold ==
  /\ Goto("failed", "failure") \/ Return("failed", "error")
  /\ UNCHANGED <<results, missed>>

\* fail(): the result follows the status even if that could not be published.
TellFailed ==
  /\ Goto("failed", "failure")
  /\ UNCHANGED <<results, missed>>

AnswerFailure(ok) ==
  /\ Return("failure", "error")
  /\ Answer("failure", ok)

Publish ==
  \/ TellFailed
  \/ \E ok \in BOOLEAN : \/ TellReceived(ok) \/ TellExecuting(ok) \/ TellCompleted(ok)
                       \/ AnswerSuccess(ok) \/ AnswerFailure(ok)

Next == Receive \/ Publish \/ \E out \in {"ok", "error"} : Executed(out)

Spec == Init /\ [][Next]_vars
-----------------------------------------------------------------------------
TypeOK ==
  /\ place \in Places /\ reply \in {"none", "nil", "error"}
  /\ results \in Seq({"success", "failure"})
  /\ missed \in BOOLEAN

\* The controller got a success result.
Succeeded == \E i \in DOMAIN results : results[i] = "success"

\* A command is answered once, with the result that Handle's reply stands for,
\* unless the publication of a result itself failed: lost statuses do not
\* silence it.
Answered ==
  reply # "none" /\ ~missed =>
    results = IF reply = "nil" THEN <<"success">> ELSE <<"failure">>

\* What holds it up: before the last publication nothing was answered, unless
\* that publication failed.
IInv ==
  /\ TypeOK
  /\ place = "returned" <=> reply # "none"
  /\ place \in {"idle", "received", "executing", "execute", "completed", "result"} =>
       ~missed
  /\ place # "returned" /\ ~missed => results = << >>
  /\ results \in {<< >>, <<"success">>, <<"failure">>, <<"success", "failure">>}
  /\ place \in {"failed", "failure"} => results \in {<< >>, <<"success">>}
  /\ Answered
-----------------------------------------------------------------------------
(***************************************************************************)
(* Lemmas for the modules that compose the service with an executor.       *)
(***************************************************************************)

\* The few sequences of results there are.
LEMMA ResultSequences ==
  /\ \A x \in {"success", "failure"} : Append(<< >>, x) = <<x>>
  /\ Append(<<"success">>, "failure") = <<"success", "failure">>
  /\ {<< >>, <<"success">>, <<"failure">>, <<"success", "failure">>}
       \subseteq Seq({"success", "failure"})
<1>1. \A x \in {"success", "failure"} : Append(<< >>, x) = <<x>>
  OBVIOUS
<1>2. Append(<<"success">>, "failure") = <<"success", "failure">>
  <2> DEFINE pair == [i \in 1..2 |-> IF i = 1 THEN "success" ELSE "failure"]
  <2>1. /\ <<"success">> \in Seq({"success", "failure"})
        /\ Len(<<"success">>) = 1 /\ <<"success">>[1] = "success"
    OBVIOUS
  <2>2. Append(<<"success">>, "failure") = pair
    BY <2>1
  <2>3. <<"success", "failure">> = pair
    OBVIOUS
  <2> QED
    BY <2>2, <2>3
<1>3. << >> \in Seq({"success", "failure"})
  OBVIOUS
<1>4. \A x \in {"success", "failure"} : <<x>> \in Seq({"success", "failure"})
  OBVIOUS
<1>5. \A x, y \in {"success", "failure"} : <<x, y>> \in Seq({"success", "failure"})
  OBVIOUS
<1> QED
  BY <1>1, <1>2, <1>3, <1>4, <1>5

\* No command is answered before it is sent.
LEMMA InitInv == Init => IInv /\ ~Succeeded
<1> HAVE Init
<1>1. results = << >> /\ missed = FALSE /\ place = "idle" /\ reply = "none"
  BY DEF Init
<1>2. results \in Seq({"success", "failure"}) /\ ~Succeeded
  BY <1>1, ResultSequences DEF Succeeded
<1>3. missed \in BOOLEAN /\ ~missed
  BY <1>1
<1> QED
  BY <1>1, <1>2, <1>3 DEF IInv, TypeOK, Places, Answered

\* Nothing is answered by the executor itself.
LEMMA ExecutedSteps ==
  ASSUME NEW out
  PROVE  IInv /\ Executed(out) =>
           /\ IInv' /\ place = "execute"
           /\ place' = IF out = "ok" THEN "completed" ELSE "failed"
           /\ Succeeded' <=> Succeeded
  BY DEF Executed, Goto, IInv, TypeOK, Places, Answered, Succeeded

\* Its state depends on no other.
LEMMA IdleSteps == UNCHANGED vars => (IInv' <=> IInv) /\ (Succeeded' <=> Succeeded)
  BY DEF vars, IInv, TypeOK, Answered, Succeeded

\* The service keeps its invariant while it waits for no executor.
LEMMA ServeSteps == IInv /\ (Receive \/ Publish) => IInv'
<1> SUFFICES ASSUME IInv, Receive \/ Publish PROVE IInv'
  OBVIOUS
<1> USE DEF IInv, TypeOK, Places, Answered, Goto, Return
<1>1. CASE Receive
  BY <1>1 DEF Receive
<1>2. CASE TellFailed
  BY <1>2 DEF TellFailed
<1>3. ASSUME NEW ok \in BOOLEAN,
             TellReceived(ok) \/ TellExecuting(ok) \/ TellCompleted(ok)
      PROVE  IInv'
  BY <1>3 DEF TellReceived, TellExecuting, TellCompleted
<1>4. ASSUME NEW ok \in BOOLEAN, AnswerSuccess(ok) PROVE IInv'
  <2>1. place = "result" /\ ~missed /\ results = << >> /\ reply = "none"
    BY <1>4 DEF AnswerSuccess
  <2>2. results' = <<"success">> \/ (~ok /\ results' = << >>)
    BY <1>4, <2>1, ResultSequences DEF AnswerSuccess, Answer
  <2>3. missed' = (missed \/ ~ok)
    BY <1>4 DEF AnswerSuccess, Answer
  <2>4. results' \in Seq({"success", "failure"})
    BY <2>2, ResultSequences
  <2>5. IF ok THEN place' = "returned" /\ reply' = "nil"
              ELSE place' = "failed" /\ reply' = "none"
    BY <1>4, <2>1 DEF AnswerSuccess
  <2> QED
    BY <2>1, <2>2, <2>3, <2>4, <2>5
<1>5. ASSUME NEW ok \in BOOLEAN, AnswerFailure(ok) PROVE IInv'
  <2>1. place = "failure" /\ reply = "none" /\ results \in {<< >>, <<"success">>}
    BY <1>5 DEF AnswerFailure
  <2>2. place' = "returned" /\ reply' = "error"
    BY <1>5 DEF AnswerFailure
  <2>3. results' = Append(results, "failure") \/ (~ok /\ results' = results)
    BY <1>5 DEF AnswerFailure, Answer
  <2>4. missed' = (missed \/ ~ok)
    BY <1>5 DEF AnswerFailure, Answer
  <2>5. results' \in {<< >>, <<"success">>, <<"failure">>, <<"success", "failure">>}
    BY <2>1, <2>3, ResultSequences
  <2>6. ~missed' => results' = <<"failure">>
    BY <2>1, <2>3, <2>4, ResultSequences
  <2>7. results' \in Seq({"success", "failure"}) /\ missed' \in BOOLEAN
    BY <2>4, <2>5, ResultSequences
  <2> QED
    BY <2>1, <2>2, <2>4, <2>5, <2>6, <2>7
<1> QED
  BY <1>1, <1>2, <1>3, <1>4, <1>5 DEF Publish

\* Where the service goes while it waits for no executor, and that only what it
\* was told to be a success it answers as one.
LEMMA ServeMoves ==
  IInv /\ (Receive \/ Publish) =>
    /\ place # "execute" /\ reply = "none"
    /\ place' \in {"idle", "received", "executing", "execute"} =>
         place \in {"idle", "received", "executing"}
    /\ place' \in {"completed", "result"} => place \in {"completed", "result"}
    /\ Succeeded' => Succeeded \/ place = "result"
<1> HAVE IInv /\ (Receive \/ Publish)
<1> USE DEF Goto, Return
<1>1. CASE Receive \/ TellFailed
  BY <1>1 DEF Receive, TellFailed, IInv, Succeeded
<1>2. ASSUME NEW ok \in BOOLEAN,
             TellReceived(ok) \/ TellExecuting(ok) \/ TellCompleted(ok)
      PROVE  /\ place \in {"received", "executing", "completed"}
             /\ place' = "execute" => place = "executing"
             /\ place' \in {"idle", "received", "executing", "execute"} =>
                  place \in {"received", "executing"}
             /\ place' \in {"completed", "result"} => place = "completed"
             /\ results' = results
  BY <1>2 DEF TellReceived, TellExecuting, TellCompleted
<1>3. ASSUME NEW ok \in BOOLEAN, AnswerSuccess(ok)
      PROVE  place = "result" /\ place' \in {"returned", "failed"}
  BY <1>3 DEF AnswerSuccess
<1>4. ASSUME NEW ok \in BOOLEAN, AnswerFailure(ok)
      PROVE  /\ place = "failure" /\ place' = "returned"
             /\ Succeeded' => Succeeded
  <2>1. place = "failure" /\ place' = "returned"
    BY <1>4 DEF AnswerFailure
  <2>2. results' = Append(results, "failure") \/ results' = results
    BY <1>4 DEF AnswerFailure, Answer
  <2>3. ASSUME NEW i \in DOMAIN results', results'[i] = "success" PROVE Succeeded
    <3>1. results' # << >> /\ results' # <<"failure">>
      BY <2>3
    <3>2. results \in {<< >>, <<"success">>}
      BY <2>1 DEF IInv
    <3>3. results = <<"success">>
      BY <2>2, <3>1, <3>2, ResultSequences
    <3>4. 1 \in DOMAIN results /\ results[1] = "success"
      BY <3>3
    <3> QED
      BY <3>4 DEF Succeeded
  <2> QED
    BY <2>1, <2>3 DEF Succeeded
<1>5. place # "execute" /\ reply = "none"
  <2>1. place \in {"idle", "received", "executing", "completed", "result",
                   "failed", "failure"}
    BY <1>1, <1>2, <1>3, <1>4 DEF Publish, Receive, TellFailed
  <2> QED
    BY <2>1 DEF IInv
<1> QED
  BY <1>1, <1>2, <1>3, <1>4, <1>5 DEF Publish, Succeeded
=============================================================================
