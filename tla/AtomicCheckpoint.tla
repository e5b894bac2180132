-------------------------- MODULE AtomicCheckpoint --------------------------
(***************************************************************************)
(* What a checkpoint store promises its user: a save takes effect at one   *)
(* instant or not at all, it is acknowledged only after that instant and   *)
(* refused only when there was none, and a crash brings back nothing but a *)
(* checkpoint that was in effect and not yet superseded for good.          *)
(***************************************************************************)
CONSTANTS States, NoState

VARIABLES
  value,   \* what Load returns
  past,    \* what a power failure may turn it into
  phase,   \* "idle", "pending" before the instant, "committed" after it
  next,    \* the checkpoint being saved
  outcome  \* of the last save: "none", "ok" or "error"

vars == <<value, past, phase, next, outcome>>

Init ==
  /\ value = NoState /\ past = {NoState}
  /\ phase = "idle" /\ next = NoState /\ outcome = "none"

Begin(st) ==
  /\ phase = "idle"
  /\ phase' = "pending" /\ next' = st /\ outcome' = "none"
  /\ UNCHANGED <<value, past>>

Commit ==
  /\ phase = "pending"
  /\ phase' = "committed" /\ value' = next /\ past' = past \cup {next}
  /\ UNCHANGED <<next, outcome>>

Acknowledge ==
  /\ phase = "committed"
  /\ phase' = "idle" /\ outcome' = "ok"
  /\ past' \in {past, {value}}
  /\ UNCHANGED <<value, next>>

Refuse ==
  /\ phase = "pending"
  /\ phase' = "idle" /\ outcome' = "error"
  /\ UNCHANGED <<value, past, next>>

\* The process dies; the machine dies with it or not.
Kill ==
  /\ phase' = "idle" /\ outcome' = "none"
  /\ UNCHANGED <<value, past, next>>

PowerFailure ==
  /\ phase' = "idle" /\ outcome' = "none"
  /\ value' \in past /\ past' = {value'}
  /\ UNCHANGED next

\* The checkpoint is removed by another hand.
Remove ==
  /\ value' = NoState /\ past' = past \cup {NoState}
  /\ UNCHANGED <<phase, next, outcome>>

Next ==
  \/ \E st \in States : Begin(st)
  \/ Commit \/ Acknowledge \/ Refuse \/ Kill \/ PowerFailure \/ Remove

Spec == Init /\ [][Next]_vars
=============================================================================
