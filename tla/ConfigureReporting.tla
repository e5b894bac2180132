------------------------- MODULE ConfigureReporting -------------------------
(***************************************************************************)
(* ConfigureService with a history variable: the UUIDs that were applied   *)
(* and checkpointed by a call whose success result could not be published. *)
(***************************************************************************)
EXTENDS ConfigureService

VARIABLE unreported

Unreported(w) == pc[w] = "report" /\ ReportLost(w)

ReportingInit == Init /\ unreported = {}

ReportingNext ==
  /\ Next
  /\ unreported' = unreported \cup {job[w].msg.uuid : w \in {v \in Workers : Unreported(v)}}

ReportingSpec == ReportingInit /\ [][ReportingNext]_<<vars, unreported>>

\* Once a configuration is applied and checkpointed and its success could not
\* be reported, no failure result is published for its UUID, by that call or by
\* a later one (SPEC.md, `Apply success with reporting failure').
NoContradictoryFailure ==
  result.verdict = "failure" => result.uuid \notin unreported

\* Once a configuration is applied and checkpointed and its success could not be
\* reported, a reconcile pass that then finds it in sync reports it: README.md
\* says that reconcile passes, too, publish an `already_in_sync' success.
PassesReport ==
  [][\A w \in Workers :
       ReconcileReturns(w) /\ submissions > 0 /\ kv.uuid \in unreported =>
         result' = [verdict |-> "success", uuid |-> kv.uuid]]_<<vars, unreported>>
=============================================================================
