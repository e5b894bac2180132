---------------------------- MODULE DesiredSync ----------------------------
(***************************************************************************)
(* What the configure path promises its controller, without a process, a   *)
(* mutex, a message or a file in sight: the router follows the submitted   *)
(* configurations forward, what is recorded as applied is what runs or     *)
(* older, and a success answer is true.  Configurations are numbered in    *)
(* the order of their submission; 0 is the factory configuration.          *)
(***************************************************************************)
EXTENDS Naturals

VARIABLES
  latest,    \* the number of configurations submitted
  running,   \* the configuration the router runs, and whether all of it
  recorded,  \* the configuration recorded as applied; 0 for none
  answer     \* the answer given by the last step, if any

vars == <<latest, running, recorded, answer>>

NoAnswer == [verdict |-> "none", uuid |-> 0]

Init ==
  /\ latest = 0
  /\ running = [uuid |-> 0, whole |-> TRUE]
  /\ recorded = 0
  /\ answer = NoAnswer

Submit ==
  /\ latest' = latest + 1
  /\ answer' = NoAnswer
  /\ UNCHANGED <<running, recorded>>

\* The router moves to a submitted configuration that is at least as new as
\* the one it runs and newer than the one recorded, or to a part of it.
Move ==
  /\ \E u \in running.uuid..latest, b \in BOOLEAN :
       recorded < u /\ running' = [uuid |-> u, whole |-> b]
  /\ answer' = NoAnswer
  /\ UNCHANGED <<latest, recorded>>

\* Only a configuration that runs as a whole is recorded.
Note ==
  /\ running.whole
  /\ recorded' = running.uuid
  /\ answer' = NoAnswer
  /\ UNCHANGED <<latest, running>>

Forget ==
  /\ recorded' = 0
  /\ answer' = NoAnswer
  /\ UNCHANGED <<latest, running>>

\* A reboot goes back to an earlier configuration, and to some record, never
\* one that is ahead of that configuration.
Reboot ==
  /\ \E u \in 0..running.uuid : running' = [uuid |-> u, whole |-> TRUE]
  /\ recorded' \in 0..running'.uuid
  /\ answer' = NoAnswer
  /\ UNCHANGED latest

Confirm ==
  /\ running.whole
  /\ answer' = [verdict |-> "success", uuid |-> running.uuid]
  /\ UNCHANGED <<latest, running, recorded>>

\* Which requests fail is the service's business.
Refuse ==
  /\ answer'.verdict = "failure"
  /\ UNCHANGED <<latest, running, recorded>>

BeQuiet ==
  /\ answer' = NoAnswer
  /\ UNCHANGED <<latest, running, recorded>>

Next ==
  Submit \/ Move \/ Note \/ Forget \/ Reboot \/ Confirm \/ Refuse \/ BeQuiet

Spec == Init /\ [][Next]_vars
=============================================================================
