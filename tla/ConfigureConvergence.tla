------------------------ MODULE ConfigureConvergence ------------------------
(***************************************************************************)
(* ConfigureService with a history variable: the calls that have started,  *)
(* or still waited for the mutex, when the environment stopped             *)
(* misbehaving.  Such a call reads everything it acts on in calm, and what *)
(* it must have achieved when it ends is the safety half of Converges and  *)
(* EveryRequestAnswered.                                                   *)
(***************************************************************************)
EXTENDS ConfigureService

VARIABLE settled

all == <<vars, settled>>

ConvergenceInit == Init /\ settled = {}

ConvergenceNext ==
  /\ Next
  /\ settled' = {w \in Workers :
                   /\ pc'[w] # "idle"
                   /\ w \in settled \/ (stable' /\ pc'[w] = "wait")}

ConvergenceSpec == ConvergenceInit /\ [][ConvergenceNext]_all /\ Fairness

Ends(w) == pc'[w] = "idle"
-----------------------------------------------------------------------------
\* A settled Handle call that ends has answered, with success if the record is
\* complete and the one it was notified of, and with failure if not: a stale
\* notification is refused and a good one is never refused.
SettledRequests ==
  [][\A w \in settled :
       Ends(w) /\ job[w].kind = "handle" =>
         result' = [verdict |-> IF RecordMatches(kv, job[w].msg) THEN "success" ELSE "failure",
                    uuid    |-> job[w].msg.uuid]]_all

\* A settled reconcile pass that ends leaves the router and the checkpoint at
\* the latest record, if there is one that can be rendered, whatever was lost,
\* half done or applied but not recorded before.
SettledPasses ==
  [][\A w \in settled :
       Ends(w) /\ job[w].kind = "reconcile" /\ submissions > 0 /\ Renderable(kv) =>
         device' = Config(kv, TRUE) /\ file' = kv]_all

\* What a calm environment is promised of the calls that end in it.
SettledCalls == SettledRequests /\ SettledPasses

(***************************************************************************)
(* The inductive invariant, on top of BaseInv: a settled call works on the *)
(* record and the checkpoint as they are.                                  *)
(***************************************************************************)

SettledHandle(w) ==
  LET j == job[w] IN
  /\ pc[w] \in {"state", "render", "apply", "save", "report"} =>
       j.desired = kv /\ RecordMatches(kv, j.msg)
  /\ pc[w] = "fail" => ~RecordMatches(kv, j.msg)

SettledPass(w) ==
  LET j == job[w] IN
  /\ pc[w] = "desired" => j.saved = file
  /\ pc[w] \in {"render", "apply", "save", "report", "fail"} => j.desired = kv /\ j.msg = kv
  /\ pc[w] = "report" => device = Config(kv, TRUE) /\ file = kv
  /\ pc[w] = "fail" => ~Renderable(kv)

SettledCall(w) ==
  /\ stable /\ pc[w] # "idle"
  /\ job[w].kind = "handle" => SettledHandle(w)
  /\ job[w].kind = "reconcile" => SettledPass(w)

SettledInv ==
  /\ settled \subseteq Workers
  /\ \A w \in settled : SettledCall(w)
=============================================================================
