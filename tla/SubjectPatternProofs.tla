------------------------ MODULE SubjectPatternProofs ------------------------
(***************************************************************************)
(* Proofs about the readers of AgentInputs: SubjectPattern, for patterns   *)
(* of every length, InterfaceChoice, for any number of interfaces, and     *)
(* RenderInput, for any values.  Of the first two lemmas count the % of a  *)
(* prefix; the rest is one step per action.                                *)
(***************************************************************************)
EXTENDS AgentInputs, FiniteSetTheorems, SequenceTheorems, TLAPS

LEMMA PatternsAreSequences == Patterns \subseteq Seq(Chars)
<1>1. 0..MaxLength \subseteq Nat
  BY MaxLengthAssumption, SMT
<1>2. Seq(Chars) = UNION {[1..n -> Chars] : n \in Nat}
  BY SeqDef
<1> QED
  BY <1>1, <1>2 DEF Patterns

\* What one more character adds to the placeholders of a prefix.
LEMMA NextPercent ==
  ASSUME NEW n \in Nat
  PROVE  /\ Percents(0) = {} /\ Cardinality(Percents(0)) = 0
         /\ IsFiniteSet(Percents(n)) /\ Cardinality(Percents(n)) \in Nat
         /\ pattern[n + 1] # "%" => Percents(n + 1) = Percents(n)
         /\ pattern[n + 1] = "%" =>
              Cardinality(Percents(n + 1)) = Cardinality(Percents(n)) + 1
<1>1. \A m \in Nat : IsFiniteSet(Percents(m))
  <2> SUFFICES ASSUME NEW m \in Nat PROVE IsFiniteSet(Percents(m))
    OBVIOUS
  <2>1. IsFiniteSet(1..m)
    BY FS_Interval
  <2>2. Percents(m) \in SUBSET (1..m)
    BY DEF Percents
  <2> QED
    BY <2>1, <2>2, FS_Subset
<1>2. Percents(0) = {}
  BY DEF Percents
<1>3. Cardinality(Percents(0)) = 0
  BY <1>2, FS_EmptySet
<1>4. Cardinality(Percents(n)) \in Nat
  BY <1>1, FS_CardinalityType
<1>5. ASSUME pattern[n + 1] # "%" PROVE Percents(n + 1) = Percents(n)
  BY <1>5 DEF Percents
<1>6. ASSUME pattern[n + 1] = "%"
      PROVE  Cardinality(Percents(n + 1)) = Cardinality(Percents(n)) + 1
  <2>1. Percents(n + 1) = Percents(n) \cup {n + 1}
    BY <1>6 DEF Percents
  <2>2. n + 1 \notin Percents(n)
    BY DEF Percents
  <2> QED
    BY <1>1, <2>1, <2>2, FS_AddElement
<1> QED
  BY <1>1, <1>2, <1>3, <1>4, <1>5, <1>6

\* A prefix holds no more placeholders than the pattern.
LEMMA FewerPercents ==
  ASSUME NEW n \in Nat, Len(pattern) \in Nat, n <= Len(pattern)
  PROVE  Cardinality(Percents(n)) <= Cardinality(Percents(Len(pattern)))
<1>1. Percents(n) \in SUBSET Percents(Len(pattern))
  BY DEF Percents
<1>2. IsFiniteSet(Percents(Len(pattern)))
  BY NextPercent
<1> QED
  BY <1>1, <1>2, FS_Subset

\* A prefix grows by a character that is no %, or by a whole placeholder.
LEMMA PlainGrows ==
  ASSUME NEW n \in Nat, PlainTo(n), Len(pattern) \in Nat,
         pattern[n + 1] = "%" => n + 1 < Len(pattern) /\ pattern[n + 2] = "s"
  PROVE  PlainTo(n + 1)
BY DEF PlainTo, Percents

LEMMA InitInv == Init => PatternInv
<1> SUFFICES ASSUME Init PROVE PatternInv
  OBVIOUS
<1>1. pattern \in Seq(Chars)
  BY PatternsAreSequences DEF Init
<1>2. Len(pattern) \in Nat
  BY <1>1
<1>3. i \in 1..Len(pattern)+1
  BY <1>2 DEF Init
<1>4. TypeOK
  BY <1>1, <1>3 DEF Init, TypeOK
<1> QED
  BY <1>4 DEF Init, PatternInv, AcceptedFormats, RefusedForReason

LEMMA ValidateSteps ==
  ASSUME PatternInv, Validate
  PROVE  PatternInv'
<1> USE DEF fixed, scanned
<1>1. pattern' = pattern /\ rule' = rule /\ pattern \in Seq(Chars) /\ Len(pattern) \in Nat
  BY DEF PatternInv, TypeOK, Validate, CheckShape, ScanLiteral, ScanPlaceholder, RefuseDirective,
         ScanEnds
<1>2. i \in Nat /\ i >= 1 /\ i <= Len(pattern) + 1 /\ count \in Nat
  BY <1>1 DEF PatternInv, TypeOK
<1>3. ASSUME CheckShape PROVE PatternInv'
  <2>1. TypeOK'
    BY <1>1, <1>3 DEF PatternInv, TypeOK, CheckShape
  <2>2. Percents(0) = {} /\ Cardinality(Percents(0)) = 0
    BY NextPercent
  <2>3. PlainTo(0)
    BY <2>2 DEF PlainTo
  <2>4. i - 1 = 0 /\ count = 0 /\ i' = i /\ count' = count
    BY <1>3 DEF PatternInv, CheckShape
  <2>5. PlainTo(i - 1)' /\ (count = Cardinality(Percents(i - 1)))'
    BY <1>1, <2>2, <2>3, <2>4 DEF PlainTo, Percents
  <2> QED
    BY <1>3, <2>1, <2>4, <2>5 DEF PatternInv, CheckShape, AcceptedFormats, RefusedForReason
<1>4. ASSUME ScanLiteral PROVE PatternInv'
  <2>1. pattern[i] # "%" /\ i <= Len(pattern) /\ i' = i + 1 /\ pc = "scan"
    BY <1>4 DEF ScanLiteral, At
  <2>2. TypeOK'
    BY <1>1, <1>2, <1>4, <2>1 DEF PatternInv, TypeOK, ScanLiteral
  <2>3. i - 1 \in Nat /\ (i - 1) + 1 = i /\ i' - 1 = i
    BY <1>2, <2>1
  <2>4. PlainTo(i - 1) /\ count = Cardinality(Percents(i - 1))
    BY <2>1 DEF PatternInv
  <2>5. PlainTo(i) /\ count = Cardinality(Percents(i))
    BY <1>1, <2>1, <2>3, <2>4, NextPercent, PlainGrows
  <2>6. PlainTo(i - 1)' /\ (count = Cardinality(Percents(i - 1)))'
    BY <1>1, <1>4, <2>3, <2>5 DEF PlainTo, Percents, ScanLiteral
  <2>7. pc' = "scan" /\ ~accepted' /\ used' = 0 /\ ~garbled'
    BY <1>4, <2>1 DEF PatternInv, ScanLiteral
  <2> QED
    BY <2>2, <2>6, <2>7 DEF PatternInv, AcceptedFormats, RefusedForReason
<1>5. ASSUME ScanPlaceholder PROVE PatternInv'
  <2>1. /\ pattern[i] = "%" /\ i < Len(pattern) /\ pattern[i + 1] = "s"
        /\ i' = i + 2 /\ count' = count + 1 /\ pc = "scan"
    BY <1>1, <1>2, <1>5 DEF ScanPlaceholder, At, Supported
  <2>2. TypeOK'
    BY <1>1, <1>2, <1>5, <2>1 DEF PatternInv, TypeOK, ScanPlaceholder
  <2>3. i - 1 \in Nat /\ (i - 1) + 1 = i /\ (i - 1) + 2 = i + 1 /\ i' - 1 = i + 1
    BY <1>2, <2>1
  <2>4. PlainTo(i - 1) /\ count = Cardinality(Percents(i - 1))
    BY <2>1 DEF PatternInv
  <2>5. PlainTo(i) /\ count + 1 = Cardinality(Percents(i))
    BY <1>1, <2>1, <2>3, <2>4, NextPercent, PlainGrows
  <2>6. PlainTo(i + 1) /\ count + 1 = Cardinality(Percents(i + 1))
    BY <1>1, <1>2, <2>1, <2>5, NextPercent, PlainGrows
  <2>7. PlainTo(i - 1)' /\ (count = Cardinality(Percents(i - 1)))'
    BY <1>1, <2>1, <2>3, <2>6 DEF PlainTo, Percents
  <2>8. pc' = "scan" /\ ~accepted' /\ used' = 0 /\ ~garbled'
    BY <1>5, <2>1 DEF PatternInv, ScanPlaceholder
  <2> QED
    BY <2>2, <2>7, <2>8 DEF PatternInv, AcceptedFormats, RefusedForReason
<1>6. ASSUME pc' = "format", i' = 1, ~garbled', used' = 0, TypeOK', accepted' <=> Plain
      PROVE  PatternInv'
  <2>1. Percents(0) = {} /\ Cardinality(Percents(0)) = 0
    BY NextPercent
  <2>2. i' - 1 = 0 /\ 0 <= rule.placeholders
    BY <1>1, <1>6 DEF PatternInv, TypeOK, Rules
  <2>3. Percents(i - 1)' = {} /\ PlainTo(i - 1)'
    BY <1>1, <2>1, <2>2 DEF PlainTo, Percents
  <2>4. Plain' <=> Plain
    BY <1>1 DEF Plain, PlainTo, Percents
  <2>5. (used = Cardinality(Percents(i - 1)) /\ used <= rule.placeholders)'
    BY <1>1, <1>6, <2>1, <2>2, <2>3
  <2>6. FormatInv(i - 1)'
    BY <1>6, <2>3, <2>4, <2>5 DEF FormatInv
  <2> QED
    BY <1>6, <2>6 DEF PatternInv, AcceptedFormats, RefusedForReason
<1>7. ASSUME RefuseDirective PROVE PatternInv'
  <2>1. /\ pattern[i] = "%" /\ ~(i < Len(pattern) /\ pattern[i + 1] = "s")
        /\ i <= Len(pattern) /\ pc = "scan"
    BY <1>7 DEF RefuseDirective, At, Supported
  <2>2. i \in Percents(Len(pattern))
    BY <1>1, <1>2, <2>1 DEF Percents
  <2>3. ~Plain
    BY <2>1, <2>2 DEF Plain, PlainTo
  <2>4. ~accepted' /\ used' = 0 /\ ~garbled' /\ pc' = "format" /\ i' = 1
    BY <1>7, <2>1 DEF RefuseDirective, PatternInv
  <2>5. TypeOK'
    BY <1>1, <1>7 DEF RefuseDirective, PatternInv, TypeOK
  <2> QED
    BY <1>6, <2>3, <2>4, <2>5
<1>8. ASSUME ScanEnds PROVE PatternInv'
  <2>1. i = Len(pattern) + 1 /\ pc = "scan"
    BY <1>1, <1>2, <1>8 DEF ScanEnds
  <2>2. PlainTo(i - 1) /\ count = Cardinality(Percents(i - 1)) /\ i - 1 = Len(pattern)
    BY <1>1, <2>1 DEF PatternInv
  <2>3. accepted' <=> Plain
    BY <1>8, <2>2 DEF Plain, ScanEnds
  <2>4. used' = 0 /\ ~garbled' /\ pc' = "format" /\ i' = 1
    BY <1>8, <2>1 DEF ScanEnds, PatternInv
  <2>5. TypeOK'
    BY <1>1, <1>8 DEF ScanEnds, PatternInv, TypeOK
  <2> QED
    BY <1>6, <2>3, <2>4, <2>5
<1> QED
  BY <1>3, <1>4, <1>5, <1>7, <1>8 DEF Validate

\* A plain pattern has no directive of another kind.
LEMMA PlainNotFancy == Len(pattern) \in Nat /\ Plain => ~Fancy
BY DEF Plain, PlainTo, Percents, Fancy

LEMMA SprintfSteps ==
  ASSUME PatternInv, Sprintf
  PROVE  PatternInv'
<1> USE DEF fixed, scanned
<1> DEFINE n == IF pc = "format" THEN i - 1 ELSE i - 2
           c == rule.placeholders
<1>1. /\ pattern' = pattern /\ rule' = rule /\ accepted' = accepted
      /\ pattern \in Seq(Chars) /\ Len(pattern) \in Nat /\ c \in Nat
  <2>1. pattern' = pattern /\ rule' = rule /\ accepted' = accepted
    BY DEF Sprintf, CopyLiteral, ReadFlag, PutArgument, PutPercent, PutError, FormatEnds
  <2>2. pattern \in Seq(Chars) /\ rule \in Rules
    BY DEF PatternInv, TypeOK
  <2>3. c \in Nat
    BY <2>2 DEF Rules
  <2> QED
    BY <2>1, <2>2, <2>3
<1>2. i \in Nat /\ i >= 1 /\ i <= Len(pattern) + 1 /\ used \in Nat
  BY <1>1 DEF PatternInv, TypeOK
<1>3. pc \in {"format", "verb"}
  BY DEF Sprintf, CopyLiteral, ReadFlag, PutArgument, PutPercent, PutError, FormatEnds, At
<1>4. n \in Nat /\ FormatInv(n) /\ (pc = "verb" => i > 1 /\ (Fancy \/ pattern[i - 1] = "%"))
  BY <1>2, <1>3 DEF PatternInv
<1>5. /\ accepted <=> Plain
      /\ Plain => ~garbled /\ ~Fancy
      /\ ~Fancy /\ ~garbled => PlainTo(n) /\ used = Cardinality(Percents(n)) /\ used <= c
  BY <1>1, <1>4, PlainNotFancy DEF FormatInv
<1>6. (Fancy' <=> Fancy) /\ (Plain' <=> Plain)
  BY <1>1 DEF Fancy, Plain, PlainTo, Percents
<1>7. ASSUME NEW m \in Nat, TypeOK',
             \/ pc' = "format" /\ i' = m + 1
             \/ pc' = "verb" /\ i' = m + 2 /\ (Fancy \/ pattern[m + 1] = "%"),
             Plain => ~garbled',
             ~Fancy /\ ~garbled' => PlainTo(m) /\ used' = Cardinality(Percents(m)) /\ used' <= c
      PROVE  PatternInv'
  <2>1. (PlainTo(m) <=> PlainTo(m)') /\ Percents(m)' = Percents(m)
    BY <1>1 DEF PlainTo, Percents
  <2>2. FormatInv(m)'
    BY <1>1, <1>5, <1>6, <1>7, <2>1 DEF FormatInv
  <2>3. CASE pc' = "format" /\ i' = m + 1
    <3>1. i' - 1 = m
      BY <2>3
    <3> QED
      BY <1>7, <2>2, <2>3, <3>1 DEF PatternInv, AcceptedFormats, RefusedForReason
  <2>4. CASE pc' = "verb" /\ i' = m + 2 /\ (Fancy \/ pattern[m + 1] = "%")
    <3>1. i' - 2 = m /\ i' - 1 = m + 1 /\ i' > 1
      BY <2>4
    <3>2. (Fancy \/ pattern[i - 1] = "%")'
      BY <1>1, <1>6, <2>4, <3>1
    <3> QED
      BY <1>7, <2>2, <2>4, <3>1, <3>2 DEF PatternInv, AcceptedFormats, RefusedForReason
  <2> QED
    BY <1>7, <2>3, <2>4
<1>8. ASSUME CopyLiteral PROVE PatternInv'
  <2>1. pc = "format" /\ n = i - 1 /\ i = n + 1 /\ i' = i + 1 /\ used' = used /\ i <= Len(pattern)
        /\ (garbled' <=> garbled)
    BY <1>2, <1>8 DEF CopyLiteral
  <2>2. TypeOK'
    BY <1>1, <1>2, <1>8 DEF CopyLiteral, PatternInv, TypeOK
  <2>3. CASE pattern[i] = "%"
    <3>1. pc' = "verb" /\ i' = n + 2
      BY <1>2, <1>8, <2>1, <2>3 DEF CopyLiteral
    <3> QED
      BY <1>4, <1>5, <1>7, <2>1, <2>2, <2>3, <3>1
  <2>4. CASE pattern[i] # "%"
    <3>1. pc' = "format" /\ i' = i + 1
      BY <1>8, <2>1, <2>4 DEF CopyLiteral
    <3>2. Percents(i) = Percents(n)
      BY <1>4, <2>1, <2>4, NextPercent
    <3>3. PlainTo(n) => PlainTo(i)
      BY <3>2 DEF PlainTo
    <3> QED
      BY <1>2, <1>5, <1>7, <2>1, <2>2, <3>1, <3>2, <3>3
  <2> QED
    BY <2>3, <2>4
<1>9. ASSUME At("verb", {"-", "v", "%"}) PROVE Fancy
  <2>1. i > 1 /\ i <= Len(pattern) /\ pattern[i] \in {"-", "v", "%"} /\ (Fancy \/ pattern[i - 1] = "%")
    BY <1>4, <1>9 DEF At
  <2>2. i - 1 \in 1..Len(pattern)-1 /\ (i - 1) + 1 = i
    BY <1>1, <1>2, <2>1
  <2> QED
    BY <2>1, <2>2 DEF Fancy
<1>10. ASSUME Fancy, pc' \in {"format", "verb"}, i' = i + 1, TypeOK', i > 1 PROVE PatternInv'
  <2>1. ~Plain
    BY <1>5, <1>10
  <2>2. CASE pc' = "format"
    BY <1>2, <1>7, <1>10, <2>1, <2>2
  <2>3. CASE pc' = "verb"
    <3>1. i - 1 \in Nat /\ i' = (i - 1) + 2
      BY <1>2, <1>10
    <3> QED
      BY <1>7, <1>10, <2>1, <2>3, <3>1
  <2> QED
    BY <1>10, <2>2, <2>3
<1>11. ASSUME ReadFlag \/ PutPercent PROVE PatternInv'
  <2>1. At("verb", {"-", "v", "%"}) /\ pc' \in {"format", "verb"} /\ i' = i + 1 /\ i > 1
    BY <1>4, <1>11 DEF ReadFlag, PutPercent, At
  <2>2. TypeOK'
    BY <1>1, <1>2, <1>11 DEF ReadFlag, PutPercent, At, PatternInv, TypeOK
  <2> QED
    BY <1>9, <1>10, <2>1, <2>2
<1>12. ASSUME PutArgument PROVE PatternInv'
  <2>1. /\ pc = "verb" /\ i > 1 /\ i <= Len(pattern) /\ pattern[i] \in {"s", "v"}
        /\ pc' = "format" /\ i' = i + 1 /\ n = i - 2 /\ (Fancy \/ pattern[i - 1] = "%")
    BY <1>3, <1>4, <1>12 DEF PutArgument, At
  <2>2. TypeOK'
    <3>1. garbled \in BOOLEAN
      BY DEF PatternInv, TypeOK
    <3>2. garbled' \in BOOLEAN /\ (used' = used + 1 \/ used' = used)
      BY <1>12, <3>1, Zenon DEF PutArgument
    <3>3. used' \in Nat
      BY <1>2, <3>2
    <3>4. i' \in 1..Len(pattern')+1 /\ count' = count
      BY <1>1, <1>2, <1>12, <2>1 DEF PutArgument
    <3> QED
      BY <1>1, <2>1, <3>2, <3>4, <3>3 DEF PatternInv, TypeOK
  <2>3. CASE Fancy
    BY <1>10, <2>1, <2>2, <2>3
  <2>4. CASE ~Fancy
    <3>1. pattern[i] # "v"
      BY <1>9, <1>12, <2>1, <2>4 DEF At
    <3>2. /\ pattern[n + 1] = "%" /\ pattern[n + 2] = "s" /\ n + 1 = i - 1 /\ n + 2 = i
          /\ n + 1 < Len(pattern)
      BY <1>1, <1>2, <2>1, <2>4, <3>1
    <3>3. PlainTo(n) => PlainTo(n + 1)
      BY <1>1, <1>4, <3>2, PlainGrows
    <3>4. Cardinality(Percents(n + 1)) = Cardinality(Percents(n)) + 1
      BY <1>4, <3>2, NextPercent
    <3>5. n + 1 \in Nat /\ (n + 1) + 1 = i
      BY <1>4, <3>2
    <3>6. Percents(i) = Percents(n + 1)
      BY <2>1, <3>1, <3>5, NextPercent
    <3>7. PlainTo(n + 1) => PlainTo(i)
      BY <3>6 DEF PlainTo
    <3>8. Cardinality(Percents(i)) = Cardinality(Percents(n)) + 1
      BY <3>4, <3>6
    <3>9. CASE used < c
      <4>1. used' = used + 1 /\ garbled' = garbled /\ used' <= c
        BY <1>1, <1>2, <1>12, <3>9 DEF PutArgument
      <4> QED
        BY <1>2, <1>5, <1>7, <2>1, <2>2, <2>4, <3>3, <3>7, <3>8, <4>1
    <3>10. CASE ~(used < c)
      <4>1. garbled'
        BY <1>12, <3>10 DEF PutArgument
      <4>2. ~Plain
        <5> SUFFICES ASSUME Plain PROVE FALSE
          OBVIOUS
        <5>1. used = Cardinality(Percents(n)) /\ Cardinality(Percents(Len(pattern))) = c
          BY <1>5 DEF Plain
        <5>2. Cardinality(Percents(i)) <= Cardinality(Percents(Len(pattern)))
          BY <1>1, <1>2, <2>1, FewerPercents
        <5> QED
          BY <1>1, <1>2, <3>8, <3>10, <5>1, <5>2
      <4> QED
        BY <1>2, <1>7, <2>1, <2>2, <4>1, <4>2
    <3> QED
      BY <3>9, <3>10
  <2> QED
    BY <2>3, <2>4
<1>13. ASSUME PutError PROVE PatternInv'
  <2>1. pc = "verb" /\ i > 1 /\ i <= Len(pattern) /\ pc' = "format" /\ i' = i + 1
    BY <1>4, <1>13 DEF PutError, At
  <2>2. pattern[i] # "s"
    BY <1>13 DEF PutError, At
  <2>3. garbled' /\ (Fancy \/ pattern[i - 1] = "%")
    BY <1>4, <1>13, <2>1 DEF PutError
  <2>4. TypeOK'
    <3>1. garbled' \in BOOLEAN /\ used' = used /\ count' = count
      BY <1>13 DEF PutError
    <3>2. i' \in 1..Len(pattern')+1
      BY <1>1, <1>2, <2>1
    <3> QED
      BY <1>1, <2>1, <3>1, <3>2 DEF PatternInv, TypeOK
  <2>5. ~Plain
    <3> SUFFICES ASSUME Plain PROVE FALSE
      OBVIOUS
    <3>1. i - 1 \in Percents(Len(pattern)) /\ (i - 1) + 1 = i
      <4>1. pattern[i - 1] = "%"
        BY <1>5, <2>3
      <4>2. i - 1 \in 1..Len(pattern) /\ (i - 1) + 1 = i
        BY <1>1, <1>2, <2>1
      <4> QED
        BY <4>1, <4>2 DEF Percents
    <3> QED
      BY <2>2, <3>1 DEF Plain, PlainTo
  <2> QED
    BY <1>2, <1>7, <2>1, <2>3, <2>4, <2>5
<1>14. ASSUME FormatEnds PROVE PatternInv'
  <2>1. i = Len(pattern) + 1 /\ pc' = "done"
    BY <1>1, <1>2, <1>14 DEF FormatEnds
  <2>2. TypeOK'
    BY <1>1, <1>2, <1>14 DEF FormatEnds, PatternInv, TypeOK
  <2>3. garbled' <=> garbled \/ pc = "verb" \/ used < c
    BY <1>14 DEF FormatEnds
  <2>4. CASE pc = "verb"
    <3>1. garbled'
      BY <2>3, <2>4
    <3>2. ~Plain
      <4> SUFFICES ASSUME Plain PROVE FALSE
        OBVIOUS
      <4>1. Len(pattern) \in Percents(Len(pattern))
        BY <1>1, <1>4, <1>5, <2>1, <2>4 DEF Percents
      <4> QED
        BY <1>1, <4>1 DEF Plain, PlainTo
    <3> QED
      BY <1>1, <1>5, <2>1, <2>2, <3>1, <3>2 DEF PatternInv, AcceptedFormats, RefusedForReason
  <2>5. CASE pc = "format"
    <3>1. n = Len(pattern)
      BY <1>1, <2>1, <2>5
    <3>2. Plain => ~garbled'
      BY <1>1, <1>2, <1>5, <2>3, <2>5, <3>1 DEF Plain
    <3>3. ~Fancy /\ ~garbled' => Plain
      <4> SUFFICES ASSUME ~Fancy, ~garbled' PROVE Plain
        OBVIOUS
      <4>1. PlainTo(n) /\ used = Cardinality(Percents(n)) /\ used <= c /\ ~(used < c)
        BY <1>5, <2>3
      <4> QED
        BY <1>1, <1>2, <3>1, <4>1 DEF Plain
    <3> QED
      BY <1>1, <1>5, <1>6, <2>1, <2>2, <3>2, <3>3 DEF PatternInv, AcceptedFormats, RefusedForReason
  <2> QED
    BY <1>3, <2>4, <2>5
<1> QED
  BY <1>8, <1>11, <1>12, <1>13, <1>14 DEF Sprintf

LEMMA StepInv == PatternInv /\ [Next]_vars => PatternInv'
<1> SUFFICES ASSUME PatternInv, [Next]_vars PROVE PatternInv'
  OBVIOUS
<1>1. CASE Validate
  BY <1>1, ValidateSteps
<1>2. CASE Sprintf
  BY <1>2, SprintfSteps
<1>3. CASE UNCHANGED vars
  BY <1>3 DEF vars, fixed, scanned, PatternInv, TypeOK, FormatInv, PlainTo, Percents, Plain,
              Fancy, AcceptedFormats, RefusedForReason
<1> QED
  BY <1>1, <1>2, <1>3 DEF Next

\* What holds at each character of the scan and of Sprintf, for patterns of any
\* length.
THEOREM Invariant == Spec => []PatternInv
  BY InitInv, StepInv, PTL DEF Spec

\* The same beside the other readers, whose steps are stutters of this one.
THEOREM PatternInvariant == InputsSpec => []PatternInv
<1>1. InputsInit => PatternInv
  <2>1. PatternRests => PatternInv
    <3> SUFFICES ASSUME PatternRests PROVE PatternInv
      OBVIOUS
    <3>1. Len(pattern) = 0 /\ pattern \in Seq(Chars)
      BY DEF PatternRests
    <3>2. TypeOK
      <4>1. i \in 1..Len(pattern)+1 /\ count \in Nat /\ used \in Nat
        BY <3>1 DEF PatternRests
      <4>2. rule \in Rules
        BY DEF PatternRests
      <4> QED
        BY <3>1, <4>1, <4>2 DEF PatternRests, TypeOK
    <3> QED
      BY <3>2 DEF PatternRests, PatternInv, AcceptedFormats, RefusedForReason
  <2> QED
    BY <2>1, InitInv DEF InputsInit, ChoiceRests, InputRests
<1>2. PatternInv /\ [InputsNext]_<<vars, choiceVars, inputVars>> => PatternInv'
  <2>1. [InputsNext]_<<vars, choiceVars, inputVars>> => [Next]_vars
    BY DEF InputsNext
  <2> QED
    BY <2>1, StepInv
<1> QED
  BY <1>1, <1>2, PTL DEF InputsSpec

\* Sprintf never garbles a subject or key that was made from an accepted pattern.
THEOREM AcceptedIsUsable == InputsSpec => []AcceptedFormats
<1>1. PatternInv => AcceptedFormats
  BY DEF PatternInv
<1> QED
  BY <1>1, PatternInvariant, PTL

\* A pattern with plain directives is refused only if Sprintf would garble it.
THEOREM RefusedIsUseless == InputsSpec => []RefusedForReason
<1>1. PatternInv => RefusedForReason
  BY DEF PatternInv
<1> QED
  BY <1>1, PatternInvariant, PTL

(***************************************************************************)
(* The choice of an interface beside the other readers: a step of theirs   *)
(* is a stutter of it.                                                     *)
(***************************************************************************)

\* What the scan has read was so at some moment of the call.
THEOREM ChoiceInvariant == InputsSpec => []Choice!IInv
<1>1. InputsInit => Choice!IInv
  <2>1. ChoiceRests => Choice!IInv
    BY Choice!RestInv, LoopbackAssumption DEF ChoiceRests
  <2> QED
    BY <2>1, Choice!InitInv DEF InputsInit
<1>2. Choice!IInv /\ [InputsNext]_<<vars, choiceVars, inputVars>> => Choice!IInv'
  <2> SUFFICES ASSUME Choice!IInv, [InputsNext]_<<vars, choiceVars, inputVars>>
               PROVE  Choice!IInv'
    OBVIOUS
  <2>1. [Choice!Next]_(Choice!vars)
    BY DEF InputsNext, choiceVars, Choice!vars, Choice!network, Choice!scan, Choice!history
  <2> QED
    BY <2>1, Choice!StepInv
<1> QED
  BY <1>1, <1>2, PTL DEF InputsSpec

\* A stranger is never traced, however the network changes.
THEOREM NoStranger == InputsSpec => []Witnessed
<1>1. Choice!IInv => Witnessed
  BY Choice!InvSuffices DEF Witnessed
<1> QED
  BY <1>1, ChoiceInvariant, PTL

\* A lasting ambiguity is never overlooked.
THEOREM AmbiguityNoticed == InputsSpec => []NoRival
<1>1. Choice!IInv => NoRival
  BY Choice!InvSuffices DEF NoRival
<1> QED
  BY <1>1, ChoiceInvariant, PTL

\* In a calm network the one eligible interface is found.
THEOREM CalmSuffices == InputsSpec => []FoundIfCalm
<1>1. Choice!IInv => FoundIfCalm
  BY Choice!InvSuffices DEF FoundIfCalm
<1> QED
  BY <1>1, ChoiceInvariant, PTL

(***************************************************************************)
(* The schema of a payload beside the other readers.                       *)
(***************************************************************************)

\* What places state is read as RenderInput says, if its marks are no strings.
LEMMA Marks == ~Input!IsString("nothing") /\ ~Input!IsString("other")
BY ValuesAssumption DEF Input!IsString

\* Merging two more places keeps the innermost of all of them decisive.
LEMMA MergeDecides ==
  ASSUME NEW n \in {0, 2}, Input!Decides(n), UNCHANGED stated,
         field' = Input!Merged(n + 1, field)
  PROVE  Input!Decides(n + 2)'
<1> USE DEF Input!Merged, Input!IsString, Input!Decoded
<1>1. CASE Input!IsString(stated[n + 2])
  <2>1. field' = Input!Decoded(stated[n + 2])
    BY <1>1
  <2>2. n + 2 \in 1..n+2 /\ (n + 2) + 1..n + 2 = {}
    OBVIOUS
  <2> QED
    BY <1>1, <2>1, <2>2 DEF Input!Decides
<1>2. CASE ~Input!IsString(stated[n + 2]) /\ Input!IsString(stated[n + 1])
  <2>1. field' = Input!Decoded(stated[n + 1])
    BY <1>2
  <2>2. n + 1 \in 1..n+2 /\ (n + 1) + 1..n + 2 = {n + 2}
    OBVIOUS
  <2> QED
    BY <1>2, <2>1, <2>2 DEF Input!Decides
<1>3. CASE ~Input!IsString(stated[n + 2]) /\ ~Input!IsString(stated[n + 1])
  <2>1. field' = field
    BY <1>3
  <2>2. 1..n+2 = (1..n) \cup {n + 1, n + 2}
    OBVIOUS
  <2>3. \A p \in 1..n : p+1..n+2 = (p+1..n) \cup {n + 1, n + 2}
    OBVIOUS
  <2> QED
    BY <1>3, <2>1, <2>2, <2>3 DEF Input!Decides
<1> QED
  BY <1>1, <1>2, <1>3

LEMMA InputSteps == Input!IInv /\ [Input!Next]_(Input!vars) => Input!IInv'
<1> SUFFICES ASSUME Input!IInv, [Input!Next]_(Input!vars) PROVE Input!IInv'
  OBVIOUS
<1> USE DEF Input!IInv, Input!Innermost, Input!document
<1>1. CASE Input!Refuse
  BY <1>1 DEF Input!Refuse
<1>2. CASE Input!MergeRoot
  <2>1. Input!Decides(0)
    BY <1>2 DEF Input!MergeRoot, Input!Decides
  <2>2. Input!Decides(2)'
    BY <1>2, <2>1, MergeDecides DEF Input!MergeRoot
  <2> QED
    BY <1>2, <2>2 DEF Input!MergeRoot
<1>3. CASE Input!MergeConfig
  <2>1. Input!Decides(2)
    BY <1>3 DEF Input!MergeConfig
  <2>2. CASE config = "object"
    <3>1. Input!Decides(4)'
      BY <1>3, <2>1, <2>2, MergeDecides DEF Input!MergeConfig
    <3> QED
      BY <1>3, <3>1 DEF Input!MergeConfig
  <2>3. CASE config # "object"
    <3>1. field' = field /\ UNCHANGED stated
      BY <1>3, <2>3 DEF Input!MergeConfig
    <3>2. ~Input!IsString(stated[3]) /\ ~Input!IsString(stated[4])
      BY <2>3, Marks
    <3>3. 1..4 = (1..2) \cup {3, 4} /\ \A p \in 1..2 : p+1..4 = (p+1..2) \cup {3, 4}
      OBVIOUS
    <3>4. Input!Decides(4)'
      BY <2>1, <3>1, <3>2, <3>3 DEF Input!Decides, Input!IsString, Input!Decoded
    <3> QED
      BY <1>3, <3>4 DEF Input!MergeConfig
  <2> QED
    BY <2>2, <2>3
<1>4. CASE UNCHANGED Input!vars
  BY <1>4 DEF Input!vars, Input!Decides, Input!IsString, Input!Decoded
<1> QED
  BY <1>1, <1>2, <1>3, <1>4 DEF Input!Next

\* The innermost statement of the schema goes to the renderer, whatever the
\* strings are.
THEOREM InnermostDecides == InputsSpec => []Innermost
<1>1. InputsInit => Input!IInv
  BY DEF InputsInit, InputRests, Input!Init, Input!IInv, Input!Innermost, Input!Cells, Input!Places
<1>2. Input!IInv /\ [InputsNext]_<<vars, choiceVars, inputVars>> => Input!IInv'
  <2> SUFFICES ASSUME Input!IInv, [InputsNext]_<<vars, choiceVars, inputVars>>
               PROVE  Input!IInv'
    OBVIOUS
  <2>1. [Input!Next]_(Input!vars)
    BY DEF InputsNext, inputVars, Input!vars, Input!document
  <2> QED
    BY <2>1, InputSteps
<1>3. Input!IInv => Innermost
  BY DEF Input!IInv, Innermost
<1> QED
  BY <1>1, <1>2, <1>3, PTL DEF InputsSpec
=============================================================================
