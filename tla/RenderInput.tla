---------------------------- MODULE RenderInput ----------------------------
(***************************************************************************)
(* What the renderer is given of a desired payload: payloadAndMetadata of  *)
(* internal/renderervyos/adapter.go.  The name and the version of the      *)
(* schema may be stated in four places each, which this module looks at    *)
(* for one of the two: in the root object, in its member schema, in its    *)
(* member config, and in the member schema of that.  A member config also  *)
(* takes the place of the payload.                                         *)
(***************************************************************************)
EXTENDS Naturals

CONSTANTS
  Values,   \* strings
  Default,  \* the first that the renderer supports
  Blank     \* the empty string

VARIABLES
  object,   \* is the payload a JSON object?
  config,   \* its member config: "none", "object" or "other", such as an array
  stated,   \* what each place states; "nothing" where there is no such place
  pc,       \* "root", "config", "done" or "refused"
  field,    \* the name or version so far
  payload   \* "root" or "config": which is to be rendered

document == <<object, config, stated>>
vars     == <<document, pc, field, payload>>

\* "other" is a number, an array or an object.
Cells  == Values \cup {"nothing", "null", "other"}
Places == 1..4

Init ==
  /\ object \in BOOLEAN /\ config \in {"none", "object", "other"}
  /\ stated \in {f \in [Places -> Cells] :
                   config # "object" => f[3] = "nothing" /\ f[4] = "nothing"}
  /\ pc = "root" /\ field = Default /\ payload = "root"

\* stringField: null is decoded like the empty string, without an error.
IsString(c) == c \in Values \cup {"null"}
Decoded(c)  == IF c = "null" THEN Blank ELSE c

\* Mutant: the object itself comes after its member schema.
MergedOutwards(p, old) ==
  IF IsString(stated[p]) THEN Decoded(stated[p])
  ELSE IF IsString(stated[p + 1]) THEN Decoded(stated[p + 1]) ELSE old

\* mergeMetadata: the object, then its member schema.
Merged(p, old) ==
  IF IsString(stated[p + 1]) THEN Decoded(stated[p + 1])
  ELSE IF IsString(stated[p]) THEN Decoded(stated[p]) ELSE old

Refuse ==
  /\ pc = "root" /\ ~object
  /\ pc' = "refused"
  /\ UNCHANGED <<document, field, payload>>

MergeRoot ==
  /\ pc = "root" /\ object
  /\ pc' = "config" /\ field' = Merged(1, field)
  /\ UNCHANGED <<document, payload>>

\* A config that is no object is rendered, too, and states nothing.
MergeConfig ==
  /\ pc = "config"
  /\ pc' = "done"
  /\ payload' = IF config = "none" THEN "root" ELSE "config"
  /\ field' = IF config = "object" THEN Merged(3, field) ELSE field
  /\ UNCHANGED document

Next == Refuse \/ MergeRoot \/ MergeConfig

Spec == Init /\ [][Next]_vars
-----------------------------------------------------------------------------
\* The innermost of the first n places that states a string has decided.
Decides(n) ==
  \/ \E p \in 1..n :
       /\ IsString(stated[p]) /\ field = Decoded(stated[p])
       /\ \A q \in p+1..n : ~IsString(stated[q])
  \/ field = Default /\ \A p \in 1..n : ~IsString(stated[p])

\* The innermost place that states a string, or null, decides: what the wrapper
\* says of the schema does not go to the renderer with an inner configuration
\* that says otherwise, and only null can leave it blank.
Innermost == pc = "done" => Decides(4)

\* What the merges have established; a config that is no object states nothing.
IInv ==
  /\ pc \in {"root", "config", "done", "refused"}
  /\ config # "object" => stated[3] = "nothing" /\ stated[4] = "nothing"
  /\ pc = "root" => field = Default
  /\ pc = "config" => Decides(2)
  /\ Innermost
=============================================================================
