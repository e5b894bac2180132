--------------------------- MODULE SubjectPattern ---------------------------
(***************************************************************************)
(* The subject and key patterns of the configuration: how internal/config/ *)
(* validate.go checks one at start, and what fmt.Sprintf, called by        *)
(* agentcore for each subject or key it needs, makes of it.  Sprintf is    *)
(* run here on patterns that the count of placeholders or a directive was  *)
(* refused for, too, to tell whether the refusal was called for.           *)
(*                                                                         *)
(* A character stands for those that neither tells apart: "%", the verb    *)
(* "s", "v" for the other verbs that fit a string, "-" for the flags and   *)
(* digits that may precede a verb, "*" for a NATS wildcard, " " for white  *)
(* space, "a" for anything else.  Explicit argument indexes, such as       *)
(* %[1]s, are left out.                                                    *)
(***************************************************************************)
EXTENDS Naturals, Sequences, FiniteSets

CONSTANT MaxLength  \* bound on the length of a pattern

ASSUME MaxLengthAssumption == MaxLength \in Nat

VARIABLES
  pattern,  \* the characters of the configured value
  rule,     \* a key (TRUE) or a subject, and how many placeholders it needs
  pc,       \* validation: "shape", "scan", "refused"; then Sprintf: "format",
            \* "verb" (behind a % and its flags), "done"
  i,        \* the next character to look at, from 1
  count,    \* the placeholders that validation has counted
  accepted, \* the verdict of validation
  used,     \* the arguments Sprintf has put in
  garbled   \* it has put in an error such as %!d(MISSING)

fixed   == <<pattern, rule>>
scanned == <<count, accepted>>
vars    == <<fixed, pc, i, scanned, used, garbled>>

Chars    == {"%", "s", "v", "-", "*", " ", "a"}
Patterns == UNION {[1..n -> Chars] : n \in 0..MaxLength}

\* A key and four of the subjects name one thing, an action's subject two.
Rules == {[key |-> TRUE, placeholders |-> 1], [key |-> FALSE, placeholders |-> 1],
          [key |-> FALSE, placeholders |-> 2]}

Init ==
  /\ pattern \in Patterns /\ rule \in Rules
  /\ pc = "shape" /\ i = 1
  /\ count = 0 /\ accepted = FALSE
  /\ used = 0 /\ garbled = FALSE

Has(c) == \E k \in DOMAIN pattern : pattern[k] = c
-----------------------------------------------------------------------------
(***************************************************************************)
(* Validation.                                                             *)
(***************************************************************************)

\* Not empty, no white space and, in a subject, no wildcard.
ShapeValid == pattern # << >> /\ ~Has(" ") /\ (~rule.key => ~Has("*"))

CheckShape ==
  /\ pc = "shape"
  /\ pc' = IF ShapeValid THEN "scan" ELSE "refused"
  /\ UNCHANGED <<fixed, i, scanned, used, garbled>>

\* Mutant: the test for the end of the pattern is off by one.
SupportedInside == i + 1 < Len(pattern) /\ pattern[i + 1] = "s"

\* Mutant: an escaped % passes for a placeholder.
SupportedEscape == i < Len(pattern) /\ pattern[i + 1] \in {"s", "%"}

\* A % at the end, or before anything but an s, is not supported.
Supported == i < Len(pattern) /\ pattern[i + 1] = "s"

At(place, cs) == pc = place /\ i <= Len(pattern) /\ pattern[i] \in cs

ScanLiteral ==
  /\ At("scan", Chars \ {"%"})
  /\ i' = i + 1
  /\ UNCHANGED <<fixed, pc, scanned, used, garbled>>

ScanPlaceholder ==
  /\ At("scan", {"%"}) /\ Supported
  /\ i' = i + 2 /\ count' = count + 1
  /\ UNCHANGED <<fixed, pc, accepted, used, garbled>>

RefuseDirective ==
  /\ At("scan", {"%"}) /\ ~Supported
  /\ pc' = "format" /\ i' = 1
  /\ UNCHANGED <<fixed, scanned, used, garbled>>

\* Mutant: too many placeholders are let pass.
AcceptsMore ==
  /\ pc = "scan" /\ i > Len(pattern)
  /\ accepted' = (count >= rule.placeholders)
  /\ pc' = "format" /\ i' = 1
  /\ UNCHANGED <<fixed, count, used, garbled>>

\* The count decides.
ScanEnds ==
  /\ pc = "scan" /\ i > Len(pattern)
  /\ accepted' = (count = rule.placeholders)
  /\ pc' = "format" /\ i' = 1
  /\ UNCHANGED <<fixed, count, used, garbled>>
-----------------------------------------------------------------------------
(***************************************************************************)
(* fmt.Sprintf with as many string arguments as the rule has placeholders. *)
(***************************************************************************)

CopyLiteral ==
  /\ pc = "format" /\ i <= Len(pattern)
  /\ i' = i + 1 /\ pc' = IF pattern[i] = "%" THEN "verb" ELSE "format"
  /\ UNCHANGED <<fixed, scanned, used, garbled>>

ReadFlag ==
  /\ At("verb", {"-"})
  /\ i' = i + 1
  /\ UNCHANGED <<fixed, pc, scanned, used, garbled>>

PutArgument ==
  /\ At("verb", {"s", "v"})
  /\ i' = i + 1 /\ pc' = "format"
  /\ IF used < rule.placeholders
       THEN used' = used + 1 /\ UNCHANGED garbled
       ELSE garbled' = TRUE /\ UNCHANGED used
  /\ UNCHANGED <<fixed, scanned>>

PutPercent ==
  /\ At("verb", {"%"})
  /\ i' = i + 1 /\ pc' = "format"
  /\ UNCHANGED <<fixed, scanned, used, garbled>>

\* A verb that does not fit a string, or none.
PutError ==
  /\ At("verb", {"*", " ", "a"})
  /\ i' = i + 1 /\ pc' = "format" /\ garbled' = TRUE
  /\ UNCHANGED <<fixed, scanned, used>>

\* A directive may be cut short, or an argument be left over.
FormatEnds ==
  /\ pc \in {"format", "verb"} /\ i > Len(pattern)
  /\ pc' = "done"
  /\ garbled' = (garbled \/ pc = "verb" \/ used < rule.placeholders)
  /\ UNCHANGED <<fixed, i, scanned, used>>

Validate ==
  CheckShape \/ ScanLiteral \/ ScanPlaceholder \/ RefuseDirective \/ ScanEnds

Sprintf ==
  CopyLiteral \/ ReadFlag \/ PutArgument \/ PutPercent \/ PutError \/ FormatEnds

Next == Validate \/ Sprintf

Spec == Init /\ [][Next]_vars
-----------------------------------------------------------------------------
(***************************************************************************)
(* Properties.                                                             *)
(***************************************************************************)

\* Every argument finds its place in an accepted pattern, and Sprintf never
\* puts an error into a subject or key the agent listens on, reads or sends to.
AcceptedFormats == pc = "done" /\ accepted => ~garbled

\* A % with flags or another verb, or an escaped one: fine with Sprintf, but not
\* supported.
Fancy ==
  \E k \in 1..Len(pattern)-1 : pattern[k] = "%" /\ pattern[k + 1] \in {"-", "v", "%"}

\* A pattern with plain directives is refused only if Sprintf would garble it:
\* no usable configuration keeps the agent from starting.
RefusedForReason == pc = "done" /\ ~accepted => garbled \/ Fancy

Percents(n) == {k \in 1..n : pattern[k] = "%"}

\* Each % up to the n-th character begins a placeholder.
PlainTo(n) == \A k \in Percents(n) : k < Len(pattern) /\ pattern[k + 1] = "s"

\* What validation decides, without its scan.
Plain ==
  /\ PlainTo(Len(pattern))
  /\ Cardinality(Percents(Len(pattern))) = rule.placeholders

TypeOK ==
  /\ pattern \in Seq(Chars) /\ rule \in Rules
  /\ pc \in {"shape", "scan", "refused", "format", "verb", "done"}
  /\ i \in 1..Len(pattern)+1
  /\ count \in Nat /\ accepted \in BOOLEAN
  /\ used \in Nat /\ garbled \in BOOLEAN

\* What Sprintf has done up to the n-th character.
FormatInv(n) ==
  /\ accepted <=> Plain
  /\ Plain => ~garbled
  /\ ~Fancy /\ ~garbled =>
       PlainTo(n) /\ used = Cardinality(Percents(n)) /\ used <= rule.placeholders

\* The inductive invariant: scan and Sprintf agree on every prefix.
PatternInv ==
  /\ TypeOK
  /\ pc \in {"shape", "scan"} => ~accepted /\ used = 0 /\ ~garbled
  /\ pc = "shape" => i = 1 /\ count = 0
  /\ pc = "scan" => PlainTo(i - 1) /\ count = Cardinality(Percents(i - 1))
  /\ pc = "format" => FormatInv(i - 1)
  /\ pc = "verb" => i > 1 /\ FormatInv(i - 2) /\ (Fancy \/ pattern[i - 1] = "%")
  /\ AcceptedFormats
  /\ RefusedForReason
=============================================================================
