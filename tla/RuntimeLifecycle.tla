-------------------------- MODULE RuntimeLifecycle --------------------------
(***************************************************************************)
(* The life of the agent process: cmd/vyos-nats-agent/main.go,             *)
(* internal/agent/lifecycle.go and the reconnect handler of                *)
(* internal/agent/agent.go.                                                *)
(*                                                                         *)
(* The process reads its command line and its configuration; unless it was *)
(* only asked to look at them it creates the runtime and calls Run, which  *)
(* starts the runtime, waits for a signal and closes it.  Meanwhile        *)
(* agentcore runs configure handlers and calls the reconnect handler,      *)
(* which starts a reconcile pass in a goroutine counted by a WaitGroup.    *)
(* Runtime.mu guards closed and the counting; Service.mu makes startup     *)
(* reconcile, passes and handlers take turns.  Close cancels the context   *)
(* of the passes, not that of the handlers, and waits for the passes until *)
(* its timeout.  What a pass or a handler does is left to ConfigureService.*)
(***************************************************************************)
CONSTANT
  Workers  \* goroutines that may run a pass or a handler at once

VARIABLES
  asked,      \* what the command line asks for: "help", "validate" or "run";
              \* "nonsense" if it cannot be parsed
  sound,      \* is there a configuration file that can be read and is valid?
  prompt,     \* do goroutines, in this behaviour, end within Close's timeout?
  pc,         \* where the main goroutine is; "exit" when the process has ended
  why,        \* why Close was called: "none", "startup" or "shutdown"
  client,     \* the agentcore client: "off", "on" or "closed"
  signalled,  \* SIGINT or SIGTERM was received
  closed,     \* Runtime.closed
  cancelled,  \* Runtime.ctx was cancelled
  kind,       \* what each worker runs: "none", "pass" or "handle"; "counting"
              \* while the reconnect handler holds Runtime.mu to count it
  holder,     \* who holds Service.mu: {w}, {Main} or {}
  code        \* the exit code: "none" until then, "killed" after a signal
              \* that nothing handles

given == <<asked, sound, prompt>>
main == <<given, why, client, signalled, closed, cancelled, kind, holder>>
local == <<given, pc, why, client, signalled, closed, cancelled, code>>
vars == <<main, pc, code>>

Main == "main"
ASSUME MainAssumption == Main \notin Workers

\* The places before NotifyContext: a signal ends the process there.
Early == {"parse", "load", "print", "decide", "create"}

Places == Early \cup {"begin", "connect", "status", "lock", "reconcile", "running",
           "mark", "cancel", "wait", "closeclient", "exit"}

Init ==
  /\ asked \in {"help", "nonsense", "validate", "run"}
  /\ sound \in BOOLEAN /\ prompt \in BOOLEAN
  /\ pc = "parse" /\ why = "none" /\ client = "off"
  /\ signalled = FALSE /\ closed = FALSE /\ cancelled = FALSE
  /\ kind = [w \in Workers |-> "none"]
  /\ holder = {} /\ code = "none"

\* The WaitGroup counts these.
Passes == {w \in Workers : kind[w] = "pass"}

\* The reconnect handler holds Runtime.mu.
Counting == \E w \in Workers : kind[w] = "counting"
-----------------------------------------------------------------------------
(***************************************************************************)
(* The command line.                                                       *)
(***************************************************************************)

Goto(from, to) == pc = from /\ pc' = to /\ UNCHANGED code

Exit(from, c) == pc = from /\ pc' = "exit" /\ code' = c

ParseArgs ==
  /\ \/ asked = "help" /\ Exit("parse", "0")
     \/ asked = "nonsense" /\ Exit("parse", "2")
     \/ asked \in {"validate", "run"} /\ Goto("parse", "load")
  /\ UNCHANGED main

\* What is valid is also converted without an error: ToAgentCoreConfig parses
\* only durations that Validate has parsed.
LoadConfig ==
  /\ \/ sound /\ Goto("load", "print")
     \/ ~sound /\ Exit("load", "1")
  /\ UNCHANGED main

\* The effective configuration is printed if that is asked for, too.
PrintConfig ==
  (Goto("print", "decide") \/ Exit("print", "1")) /\ UNCHANGED main

\* Mutant: --validate-config goes on after its message.
DecideToRun == Goto("decide", "create") /\ UNCHANGED main

Decide ==
  /\ \/ asked = "validate" /\ Exit("decide", "0")
     \/ asked = "run" /\ Goto("decide", "create")
  /\ UNCHANGED main

\* The logger, the runtime and all it is made of.
Create == (Goto("create", "begin") \/ Exit("create", "1")) /\ UNCHANGED main

Killed == pc \in Early /\ Exit(pc, "killed") /\ UNCHANGED main
-----------------------------------------------------------------------------
(***************************************************************************)
(* Start.                                                                  *)
(***************************************************************************)

\* The handlers are registered.
Register == (Goto("begin", "connect") \/ Exit("begin", "1")) /\ UNCHANGED main

\* From here on handlers may run.
Connect ==
  /\ Goto("connect", "status")
  /\ client' = "on"
  /\ UNCHANGED <<given, why, signalled, closed, cancelled, kind, holder>>

ConnectFails == Exit("connect", "1") /\ UNCHANGED main

PublishStatus == Goto("status", "lock") /\ UNCHANGED main

\* Start closes the runtime itself, with a timeout of its own.
StatusFails ==
  /\ Goto("status", "mark")
  /\ why' = "startup"
  /\ UNCHANGED <<given, client, signalled, closed, cancelled, kind, holder>>

LockForStartup ==
  /\ Goto("lock", "reconcile")
  /\ holder = {} /\ holder' = {Main}
  /\ UNCHANGED <<given, why, client, signalled, closed, cancelled, kind>>

\* Whether it succeeded or not.
StartupReconciled ==
  /\ Goto("reconcile", "running")
  /\ holder' = {}
  /\ UNCHANGED <<given, why, client, signalled, closed, cancelled, kind>>
-----------------------------------------------------------------------------
(***************************************************************************)
(* Run and Close.                                                          *)
(***************************************************************************)

Signal ==
  /\ ~signalled /\ pc \notin Early \cup {"exit"}
  /\ signalled' = TRUE
  /\ UNCHANGED <<given, pc, why, client, closed, cancelled, kind, holder,
                 code>>

Shutdown ==
  /\ Goto("running", "mark")
  /\ signalled /\ why' = "shutdown"
  /\ UNCHANGED <<given, client, signalled, closed, cancelled, kind, holder>>

\* Mutant: closed is set without Runtime.mu.
MarkClosedUnlocked ==
  /\ Goto("mark", "cancel")
  /\ closed' = TRUE
  /\ UNCHANGED <<given, why, client, signalled, cancelled, kind, holder>>

MarkClosed ==
  /\ Goto("mark", "cancel")
  /\ ~Counting /\ closed' = TRUE
  /\ UNCHANGED <<given, why, client, signalled, cancelled, kind, holder>>

\* Mutant: the context of the passes is not cancelled.
SkipCancel == Goto("cancel", "wait") /\ UNCHANGED main

Cancel ==
  /\ Goto("cancel", "wait")
  /\ cancelled' = TRUE
  /\ UNCHANGED <<given, why, client, signalled, closed, kind, holder>>

\* Mutant: the client is closed without waiting for the passes.
SkipWait == Goto("wait", "closeclient") /\ UNCHANGED main

PassesDone == Goto("wait", "closeclient") /\ Passes = {} /\ UNCHANGED main

\* Mutant: Close waits for the passes without a timeout.
TimeOutNever == FALSE /\ UNCHANGED vars

\* The client is left open; the process is about to exit.
TimeOut == Exit("wait", "1") /\ ~prompt /\ UNCHANGED main

CloseClient ==
  /\ Exit("closeclient", IF why = "startup" THEN "1" ELSE "0")
  /\ client' = "closed"
  /\ UNCHANGED <<given, why, signalled, closed, cancelled, kind, holder>>

\* Mutant: the error of closing the client is only logged.
CloseErrorIgnored == Exit("closeclient", "0") /\ UNCHANGED main

CloseClientFails == Exit("closeclient", "1") /\ UNCHANGED main
-----------------------------------------------------------------------------
(***************************************************************************)
(* The goroutines of agentcore, until the process exits.                   *)
(***************************************************************************)

\* A notification arrives: its handler waits for Service.mu.
Handle(w) ==
  /\ pc # "exit" /\ client = "on" /\ kind[w] = "none"
  /\ kind' = [kind EXCEPT ![w] = "handle"]
  /\ UNCHANGED <<local, holder>>

\* Mutant: the reconnect handler does not look whether the runtime is closed.
ReconnectUnchecked(w) ==
  /\ pc # "exit" /\ client = "on" /\ kind[w] = "none"
  /\ ~Counting
  /\ kind' = [kind EXCEPT ![w] = "counting"]
  /\ UNCHANGED <<local, holder>>

\* The reconnect handler locks Runtime.mu; it goes on if closed is not set.
Reconnect(w) ==
  /\ pc # "exit" /\ client = "on" /\ kind[w] = "none"
  /\ ~Counting /\ ~closed
  /\ kind' = [kind EXCEPT ![w] = "counting"]
  /\ UNCHANGED <<local, holder>>

\* It counts the pass, unlocks Runtime.mu and starts the goroutine.
StartPass(w) ==
  /\ pc # "exit" /\ kind[w] = "counting"
  /\ kind' = [kind EXCEPT ![w] = "pass"]
  /\ UNCHANGED <<local, holder>>

Acquire(w) ==
  /\ pc # "exit" /\ kind[w] \in {"pass", "handle"} /\ holder = {}
  /\ holder' = {w}
  /\ UNCHANGED <<local, kind>>

\* The call ends: Service.mu is unlocked and the pass is no longer counted.
Finish(w) ==
  /\ pc # "exit" /\ holder = {w}
  /\ holder' = {}
  /\ kind' = [kind EXCEPT ![w] = "none"]
  /\ UNCHANGED local

CommandLine ==
  ParseArgs \/ LoadConfig \/ PrintConfig \/ Decide \/ Create

StartSteps ==
  \/ Register \/ Connect \/ ConnectFails \/ PublishStatus \/ StatusFails
  \/ LockForStartup \/ StartupReconciled

CloseSteps ==
  \/ Shutdown \/ MarkClosed \/ Cancel \/ PassesDone \/ TimeOut
  \/ CloseClient \/ CloseClientFails

Next ==
  \/ CommandLine \/ Killed \/ StartSteps \/ Signal \/ CloseSteps
  \/ \E w \in Workers : Handle(w) \/ Reconnect(w) \/ StartPass(w) \/ Acquire(w) \/ Finish(w)

Spec == Init /\ [][Next]_vars

(***************************************************************************)
(* Only main and the reconnect handler are known to go on: a pass or a      *)
(* handler may be stuck in a call that does not obey its context.          *)
(* sync.Mutex serves MarkClosed although reconnect handlers keep locking.  *)
(***************************************************************************)
Fairness ==
  /\ WF_vars(CommandLine) /\ WF_vars(StartSteps) /\ WF_vars(CloseSteps) /\ SF_vars(MarkClosed)
  /\ WF_vars(\E w \in Workers : StartPass(w))

FairSpec == Spec /\ Fairness
-----------------------------------------------------------------------------
(***************************************************************************)
(* Properties.                                                             *)
(***************************************************************************)

TypeOK ==
  /\ asked \in {"help", "nonsense", "validate", "run"}
  /\ sound \in BOOLEAN /\ prompt \in BOOLEAN
  /\ pc \in Places /\ why \in {"none", "startup", "shutdown"}
  /\ client \in {"off", "on", "closed"}
  /\ signalled \in BOOLEAN /\ closed \in BOOLEAN /\ cancelled \in BOOLEAN
  /\ kind \in [Workers -> {"none", "counting", "pass", "handle"}]
  /\ holder \in SUBSET (Workers \cup {Main})
  /\ code \in {"none", "0", "1", "2", "killed"}

\* Once Close waits for the passes no pass is counted any more: a WaitGroup
\* whose Add overtakes its Wait would let Close miss the pass.
NoAddAfterWait ==
  [][(pc \in {"wait", "closeclient"}) => Passes' \subseteq Passes]_vars

\* The client is closed under no reconcile pass, and none starts afterwards:
\* a pass would lose its final result, or apply a configuration unreported.
ClientClosedLast == client = "closed" => Passes = {} /\ ~Counting

\* Exit code 0 means that what was asked for was done: for a run, that a signal
\* was received, every pass has ended and the client is closed; for a look at
\* the configuration, that it is valid.
CleanExit ==
  code = "0" =>
    CASE asked = "run" -> sound /\ signalled /\ client = "closed" /\ Passes = {}
      [] asked = "validate" -> sound
      [] OTHER -> asked = "help"

\* The client is started, so that anything can reach the router, only by a
\* process that was asked to run and has a valid configuration;
\* `--validate-config still exits without creating or starting the client'.
StartsWhenAsked == client # "off" => asked = "run" /\ sound

\* Once the runtime runs, a signal ends Run although passes and handlers may be
\* stuck for ever: the timeout of Close sees to that.
ShutdownReturns == (pc = "running" /\ signalled /\ ~prompt) ~> pc = "exit"

\* Goroutines obey their contexts within the timeout of Close: handlers finish,
\* passes at least when their context is cancelled, and Service.mu is served to
\* whoever waits.
Cooperation ==
  /\ []prompt
  /\ \A w \in Workers :
       /\ SF_vars(Acquire(w))
       /\ WF_vars((kind[w] = "handle" \/ cancelled) /\ Finish(w))

\* If goroutines cooperate, a signal makes the passes end, those that would have
\* blocked too, and Run closes the client.
ClosesGracefully ==
  Cooperation => ((pc = "running" /\ signalled) ~> pc = "closeclient")

\* What holds the safety properties up.
RuntimeInv ==
  /\ TypeOK
  /\ pc \in {"load", "print", "decide"} => asked \in {"validate", "run"}
  /\ pc \in {"print", "decide"} => sound
  /\ pc \notin Early \cup {"exit"} => asked = "run" /\ sound
  /\ pc = "create" => asked = "run" /\ sound
  /\ StartsWhenAsked /\ CleanExit
  /\ client = "off" => \A w \in Workers : kind[w] = "none"
  /\ closed <=> pc \in {"cancel", "wait", "closeclient"} \/ (pc = "exit" /\ why # "none")
  /\ closed => ~Counting
  /\ why = "shutdown" => signalled
  /\ why # "none" <=> closed \/ pc = "mark"
  /\ pc = "closeclient" => Passes = {}
  /\ client = "closed" => pc = "exit" /\ Passes = {}
  /\ code # "none" <=> pc = "exit"
  /\ client = "off" <=> pc \in Early \cup {"begin", "connect"} \/ (pc = "exit" /\ why = "none")
  /\ pc = "reconcile" <=> Main \in holder
  /\ \A w \in Workers : w \in holder => kind[w] \in {"pass", "handle"}
=============================================================================
