--------------------------- MODULE InterfaceChoice ---------------------------
(***************************************************************************)
(* The interface a trace command captures on: resolveNetwork and the test  *)
(* for existence in Execute of internal/actions/vyos_trace.go.  A command  *)
(* that names no interface gets the one whose alias is wan, or lan.  The   *)
(* agent lists the interfaces, then reads two files of each in sysfs; the  *)
(* kernel and a commit of the configuration path change them meanwhile,    *)
(* one at a time.  That the name is well-formed is left out.               *)
(***************************************************************************)
EXTENDS TLAPS

CONSTANTS
  Names,    \* of interfaces, present or not
  Loopback  \* the one called lo

VARIABLES
  there,       \* the interfaces in /sys/class/net
  named,       \* those that declare the alias looked for
  slave,       \* those that have a master
  wanted,      \* the interface the command names, or {}
  pc,          \* "begin", "alias", "master", "check", "accepted", "refused"
  left,        \* listed and not read yet
  current,     \* the interface being read, or {}
  declares,    \* its alias, as read, is the one looked for
  candidates,
  chosen,      \* the interface resolved, or {}
  calm,        \* since the call began the network has not changed and could
               \* be listed
  wasNamed, wasFree,  \* those that at some moment of the call declared the
                      \* alias, and those that were no slave (or not there)
  lasting      \* those that were eligible at every moment of the call

network == <<there, named, slave>>
history == <<calm, wasNamed, wasFree, lasting>>
scan    == <<left, current, declares, candidates>>
vars    == <<network, wanted, pc, scan, chosen, history>>

AtMostOne == {{}} \cup {{n} : n \in Names}

\* Loopback and the members of a bridge do not count.
Eligible == (named \ slave) \ {Loopback}

Init ==
  /\ there \in {S \in SUBSET Names : Loopback \in S}
  /\ named \in SUBSET there /\ slave \in SUBSET (there \ {Loopback})
  /\ wanted \in AtMostOne
  /\ pc = "begin" /\ left = {} /\ current = {} /\ declares = FALSE
  /\ candidates = {} /\ chosen = {}
  /\ calm = TRUE /\ wasNamed = named /\ wasFree = Names \ slave /\ lasting = Eligible
-----------------------------------------------------------------------------
Goto(from, to) == pc = from /\ pc' = to /\ UNCHANGED <<network, history, wanted>>

UseNamed ==
  /\ Goto("begin", "check")
  /\ wanted # {} /\ chosen' = wanted
  /\ UNCHANGED scan

\* Mutant: loopback is listed, too.
ListAll ==
  /\ Goto("begin", "alias")
  /\ wanted = {} /\ left' = there
  /\ UNCHANGED <<current, declares, candidates, chosen>>

List ==
  /\ Goto("begin", "alias")
  /\ wanted = {} /\ left' = there \ {Loopback}
  /\ UNCHANGED <<current, declares, candidates, chosen>>

ListFails ==
  /\ wanted = {} /\ pc = "begin" /\ pc' = "refused"
  /\ calm' = FALSE
  /\ UNCHANGED <<network, wanted, scan, chosen, wasNamed, wasFree, lasting>>

\* What is not there any more has no alias, nor a master.
ReadAlias(n) ==
  /\ Goto("alias", "master")
  /\ n \in left /\ current' = {n}
  /\ declares' = (n \in named)
  /\ UNCHANGED <<left, candidates, chosen>>

\* Mutant: it is not looked at whether the interface has a master.
ReadNoMaster ==
  /\ Goto("master", "alias")
  /\ candidates' = IF declares THEN candidates \cup current ELSE candidates
  /\ left' = left \ current
  /\ UNCHANGED <<current, declares, chosen>>

\* Mutant: a later candidate takes the place of an earlier one.
ReadMasterLastOnly ==
  /\ Goto("master", "alias")
  /\ candidates' = IF declares /\ current \ slave # {} THEN current ELSE candidates
  /\ left' = left \ current
  /\ UNCHANGED <<current, declares, chosen>>

ReadMaster ==
  /\ Goto("master", "alias")
  /\ candidates' = IF declares THEN candidates \cup (current \ slave)
                                ELSE candidates
  /\ left' = left \ current
  /\ UNCHANGED <<current, declares, chosen>>

\* There must be exactly one candidate.
Decide ==
  /\ pc = "alias" /\ left = {}
  /\ \/ \E n \in Names : candidates = {n} /\ chosen' = {n} /\ Goto("alias", "check")
     \/ candidates \notin AtMostOne \ {{}} /\ Goto("alias", "refused") /\ UNCHANGED chosen
  /\ UNCHANGED scan

CheckExists ==
  /\ Goto("check", IF chosen \subseteq there THEN "accepted" ELSE "refused")
  /\ UNCHANGED <<scan, chosen>>

\* An interface comes, goes, gets or loses the alias or a master.
Change(n) ==
  /\ pc \notin {"accepted", "refused"} /\ n # Loopback
  /\ there' \in {there \cup {n}, there \ {n}}
  /\ named' \in {named \cup {n}, named \ {n}} /\ named' \subseteq there'
  /\ slave' \in {slave \cup {n}, slave \ {n}} /\ slave' \subseteq there'
  /\ network' # network /\ calm' = FALSE
  /\ wasNamed' = wasNamed \cup named' /\ wasFree' = wasFree \cup (Names \ slave')
  /\ lasting' = lasting \cap Eligible'
  /\ UNCHANGED <<wanted, pc, scan, chosen>>

Resolve ==
  \/ UseNamed \/ List \/ ListFails \/ \E n \in Names : ReadAlias(n)
  \/ ReadMaster \/ Decide \/ CheckExists

Next == Resolve \/ \E n \in Names : Change(n)

Spec == Init /\ [][Next]_vars
-----------------------------------------------------------------------------
(***************************************************************************)
(* Properties of a command that names no interface.                        *)
(***************************************************************************)

\* Though the network changes under the scan, the interface captured on is not
\* loopback, declared the alias at a moment of the call and was no member of a
\* bridge at a moment of it, if not the same: none is taken for another.
Witnessed ==
  pc = "accepted" /\ wanted = {} =>
    Loopback \notin chosen /\ chosen \subseteq wasNamed \cap wasFree

\* No second interface was eligible all the time: an ambiguity that lasts for
\* the scan is never overlooked, whichever interface it reads first.
NoRival == pc = "accepted" /\ wanted = {} => lasting \subseteq chosen

\* If the network is calm the command is refused only if none or several
\* interfaces are eligible.
FoundIfCalm ==
  pc = "refused" /\ wanted = {} /\ calm => \A n \in Names : Eligible # {n}

TypeOK ==
  /\ there \in SUBSET Names /\ named \in SUBSET there /\ slave \in SUBSET there
  /\ wanted \in AtMostOne /\ current \in AtMostOne /\ chosen \in AtMostOne
  /\ pc \in {"begin", "alias", "master", "check", "accepted", "refused"}
  /\ left \in SUBSET Names /\ candidates \in SUBSET Names
  /\ declares \in BOOLEAN /\ calm \in BOOLEAN
  /\ wasNamed \in SUBSET Names /\ wasFree \in SUBSET Names /\ lasting \in SUBSET Names

\* What the scan knows of the interfaces it has read.
ScanInv ==
  /\ Loopback \notin left /\ Loopback \notin candidates
  /\ candidates \subseteq wasNamed \cap wasFree
  /\ pc = "begin" => candidates = {}
  /\ pc = "master" => current \subseteq left /\ (declares => current \subseteq wasNamed)
  /\ pc \in {"alias", "master"} => lasting \subseteq left \cup candidates
  /\ pc = "master" /\ current \cap lasting # {} => declares
  /\ pc \in {"check", "accepted"} => lasting \subseteq chosen /\ chosen = candidates
  /\ calm /\ pc \in {"alias", "master", "check"} => candidates \subseteq Eligible
  /\ calm /\ pc = "master" /\ declares => current \subseteq named

\* What holds the properties up: the network of the moment is part of what was,
\* and what lasts is part of it.
IInv ==
  /\ TypeOK
  /\ named \subseteq wasNamed /\ Names \ slave \subseteq wasFree
  /\ lasting \subseteq Eligible /\ (calm => lasting = Eligible)
  /\ pc \in {"alias", "master"} => wanted = {}
  /\ wanted = {} => ScanInv
  /\ FoundIfCalm
-----------------------------------------------------------------------------
(***************************************************************************)
(* The invariant holds for any number of interfaces, however the network   *)
(* changes while they are read.                                            *)
(***************************************************************************)

LEMMA InitInv == Init => IInv
  BY DEF Init, IInv, TypeOK, AtMostOne, ScanInv, FoundIfCalm, Eligible

\* The steps that leave the scan before or behind them.
LEMMA CallSteps ==
  ASSUME IInv, UseNamed \/ List \/ ListFails \/ CheckExists
  PROVE  IInv'
<1> USE DEF IInv, TypeOK, AtMostOne, ScanInv, FoundIfCalm, Eligible, Goto, network, history, scan
<1>1. CASE UseNamed
  BY <1>1 DEF UseNamed
<1>2. CASE List
  <2>1. /\ pc' = "alias" /\ left' = there \ {Loopback} /\ wanted = {}
        /\ UNCHANGED <<network, history, wanted, current, declares, candidates, chosen>>
    BY <1>2 DEF List
  <2>2. TypeOK'
    BY <2>1
  <2>3. lasting \subseteq there \ {Loopback}
    OBVIOUS
  <2>4. pc = "begin" /\ candidates = {}
    BY <1>2 DEF List
  <2> QED
    BY <2>1, <2>2, <2>3, <2>4
<1>3. CASE ListFails
  BY <1>3 DEF ListFails
<1>4. CASE CheckExists
  BY <1>4 DEF CheckExists
<1> QED
  BY <1>1, <1>2, <1>3, <1>4

\* An interface that is read is left out only if it was not eligible.
LEMMA ReadSteps ==
  ASSUME IInv, ReadMaster \/ \E n \in Names : ReadAlias(n)
  PROVE  IInv'
<1> USE DEF IInv, TypeOK, AtMostOne, ScanInv, FoundIfCalm, Eligible, Goto, network, history
<1>1. CASE ReadMaster
  <2>1. /\ pc = "master" /\ pc' = "alias" /\ left' = left \ current
        /\ UNCHANGED <<network, history, wanted, current, declares, chosen>>
    BY <1>1 DEF ReadMaster
  <2>2. CASE declares
    <3>1. candidates' = candidates \cup (current \ slave)
      BY <1>1, <2>2 DEF ReadMaster
    <3>2. TypeOK'
      BY <2>1, <2>2, <3>1
    <3>3. wanted = {} => ScanInv'
      BY <2>1, <2>2, <3>1
    <3> QED
      BY <2>1, <3>2, <3>3
  <2>3. CASE ~declares
    <3>1. candidates' = candidates
      BY <1>1, <2>3 DEF ReadMaster
    <3> QED
      BY <2>1, <2>3, <3>1
  <2> QED
    BY <2>2, <2>3
<1>2. ASSUME NEW n \in Names, ReadAlias(n) PROVE IInv'
  <2>1. /\ pc = "alias" /\ pc' = "master" /\ n \in left /\ current' = {n}
        /\ declares' = (n \in named)
        /\ UNCHANGED <<network, history, wanted, left, candidates, chosen>>
    BY <1>2 DEF ReadAlias
  <2>2. declares' <=> n \in named
    BY <2>1
  <2>3. declares' \in BOOLEAN
    BY <2>1
  <2>4. TypeOK'
    BY <2>1, <2>3
  <2>5. ScanInv => ScanInv'
    BY <2>1, <2>2
  <2>6. FoundIfCalm'
    BY <2>1
  <2> QED
    BY <2>1, <2>4, <2>5, <2>6
<1> QED
  BY <1>1, <1>2

\* What lasts is a candidate by then, so there is at most one such.
LEMMA DecideStep ==
  ASSUME IInv, Decide
  PROVE  IInv'
<1> USE DEF IInv, TypeOK, AtMostOne, ScanInv, FoundIfCalm, Eligible, Goto, network, history, scan
<1>1. pc = "alias" /\ left = {} /\ UNCHANGED <<network, history, wanted, scan>>
  BY DEF Decide
<1>2. CASE \E n \in Names : candidates = {n} /\ chosen' = {n} /\ pc' = "check"
  BY <1>1, <1>2
<1>3. CASE candidates \notin AtMostOne \ {{}} /\ pc' = "refused" /\ UNCHANGED chosen
  BY <1>1, <1>3
<1> QED
  BY <1>2, <1>3 DEF Decide

\* A change of the network takes nothing back that was seen.
LEMMA ChangeStep ==
  ASSUME IInv, NEW n \in Names, Change(n)
  PROVE  IInv'
<1>1. /\ pc \notin {"accepted", "refused"} /\ calm' = FALSE
      /\ UNCHANGED <<wanted, pc, left, current, declares, candidates, chosen>>
      /\ wasNamed \subseteq wasNamed' /\ wasFree \subseteq wasFree'
      /\ lasting' \subseteq lasting
  BY DEF Change, scan
<1>2. TypeOK'
  BY DEF Change, scan, IInv, TypeOK
<1>3. /\ named' \subseteq wasNamed' /\ Names \ slave' \subseteq wasFree'
      /\ lasting' \subseteq Eligible'
  BY DEF Change
<1>4. wanted' = {} => ScanInv'
  BY <1>1 DEF IInv, ScanInv, TypeOK
<1> QED
  BY <1>1, <1>2, <1>3, <1>4 DEF IInv, FoundIfCalm

\* Every step of the call and of the network.
LEMMA StepInv == IInv /\ [Next]_vars => IInv'
<1> SUFFICES ASSUME IInv, [Next]_vars PROVE IInv'
  OBVIOUS
<1>1. CASE Resolve
  BY <1>1, CallSteps, ReadSteps, DecideStep DEF Resolve
<1>2. CASE \E n \in Names : Change(n)
  BY <1>2, ChangeStep
<1>3. CASE UNCHANGED vars
  BY <1>3 DEF vars, network, history, scan, IInv, TypeOK, ScanInv, FoundIfCalm, Eligible
<1> QED
  BY <1>1, <1>2, <1>3 DEF Next

\* A call at rest, as in the composition with other readers.
LEMMA RestInv ==
  /\ Loopback \in Names
  /\ there = {Loopback} /\ named = {} /\ slave = {} /\ wanted = {} /\ pc = "refused"
  /\ left = {} /\ current = {} /\ declares = FALSE /\ candidates = {} /\ chosen = {}
  /\ calm = TRUE /\ wasNamed = {} /\ wasFree = Names /\ lasting = {}
  => IInv
<1> SUFFICES ASSUME
      Loopback \in Names,
      there = {Loopback} /\ named = {} /\ slave = {} /\ wanted = {} /\ pc = "refused",
      left = {} /\ current = {} /\ declares = FALSE /\ candidates = {} /\ chosen = {},
      calm = TRUE /\ wasNamed = {} /\ wasFree = Names /\ lasting = {}
    PROVE IInv
  OBVIOUS
<1>1. TypeOK
  BY DEF TypeOK, AtMostOne
<1> QED
  BY <1>1 DEF IInv, ScanInv, FoundIfCalm, Eligible

\* The invariant is all that the properties need.
LEMMA InvSuffices == IInv => Witnessed /\ NoRival /\ FoundIfCalm
BY DEF IInv, ScanInv, Witnessed, NoRival
=============================================================================
