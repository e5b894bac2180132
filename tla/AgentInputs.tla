---------------------------- MODULE AgentInputs ----------------------------
(***************************************************************************)
(* Three readers of what the agent is given: the patterns of its           *)
(* configuration, the schema of a desired payload, and the network         *)
(* interface of a trace.  They share nothing, so a behaviour is one of     *)
(* them and the other two rest.                                            *)
(***************************************************************************)
EXTENDS SubjectPattern

CONSTANTS Names, Loopback, Values, Default, Blank

ASSUME LoopbackAssumption == Loopback \in Names

\* What stands for no string is none of the strings.
ASSUME ValuesAssumption == Values \cap {"nothing", "other"} = {}

VARIABLES
  there, named, slave, wanted, choicePc, left, current, declares, candidates,
  chosen, calm, wasNamed, wasFree, lasting,       \* of InterfaceChoice
  object, config, stated, inputPc, field, payload \* of RenderInput

Choice == INSTANCE InterfaceChoice WITH pc <- choicePc
Input  == INSTANCE RenderInput WITH pc <- inputPc

choiceVars ==
  <<there, named, slave, wanted, choicePc, left, current, declares, candidates,
    chosen, calm, wasNamed, wasFree, lasting>>
inputVars == <<object, config, stated, inputPc, field, payload>>

PatternRests ==
  /\ pattern = << >> /\ rule \in {r \in Rules : r.key} /\ pc = "refused" /\ i = 1
  /\ count = 0 /\ accepted = FALSE /\ used = 0 /\ garbled = FALSE

ChoiceRests ==
  /\ there = {Loopback} /\ named = {} /\ slave = {} /\ wanted = {}
  /\ choicePc = "refused" /\ left = {} /\ current = {} /\ declares = FALSE
  /\ candidates = {} /\ chosen = {}
  /\ calm = TRUE /\ wasNamed = {} /\ wasFree = Names /\ lasting = {}

InputRests ==
  /\ object = FALSE /\ config = "none" /\ stated = [p \in Input!Places |-> "nothing"]
  /\ inputPc = "refused" /\ field = Default /\ payload = "root"

InputsInit ==
  \/ Init /\ ChoiceRests /\ InputRests
  \/ PatternRests /\ Choice!Init /\ InputRests
  \/ PatternRests /\ ChoiceRests /\ Input!Init

InputsNext ==
  \/ Next /\ UNCHANGED <<choiceVars, inputVars>>
  \/ Choice!Next /\ UNCHANGED <<vars, inputVars>>
  \/ Input!Next /\ UNCHANGED <<vars, choiceVars>>

InputsSpec == InputsInit /\ [][InputsNext]_<<vars, choiceVars, inputVars>>
-----------------------------------------------------------------------------
\* However the network changes under the scan, the interface captured on had the
\* alias and was no member of a bridge.
Witnessed == Choice!Witnessed

\* An ambiguity of aliases that lasts for the scan is not overlooked.
NoRival == Choice!NoRival

\* In a calm network the one eligible interface is found.
FoundIfCalm == Choice!FoundIfCalm

\* The innermost statement of the schema goes to the renderer.
Innermost == Input!Innermost
=============================================================================
