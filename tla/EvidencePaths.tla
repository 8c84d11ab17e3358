---------------------------- MODULE EvidencePaths ----------------------------
(***************************************************************************)
(* The paths that declare where evidence is, and the values they have in a *)
(* document (apps/backend/policy/evidence_paths.py).                       *)
(*                                                                         *)
(* A value of a document is Text(t), Flag(b), List(values), Object(fields) *)
(* or Null.  A path is a sequence of steps [key, each]: an "each" step     *)
(* goes on with every item of a list.                                      *)
(***************************************************************************)
EXTENDS Integers, FiniteSets, SequencesExt

Null == [kind |-> "NULL"]
Text(t) == [kind |-> "TEXT", text |-> t]
Flag(b) == [kind |-> "BOOLEAN", text |-> IF b THEN "true" ELSE "false"]
List(values) == [kind |-> "LIST", items |-> values]
Object(fields) == [kind |-> "OBJECT", fields |-> fields]

Step(key) == [key |-> key, each |-> FALSE]
Each(key) == [key |-> key, each |-> TRUE]

-----------------------------------------------------------------------------
\* The values at a path.

Child(value, key) ==
    IF value.kind = "OBJECT" /\ key \in DOMAIN value.fields
    THEN {value.fields[key]} \ {Null} ELSE {}

Onward(value, step) ==
    LET children == Child(value, step.key)
    IN  IF ~step.each THEN children
        ELSE UNION {ToSet(c.items) : c \in {d \in children : d.kind = "LIST"}}

\* The values reached, and whether none of the values on the way led nowhere.
Walk(document, path) ==
    FoldLeft(LAMBDA walk, step :
                 [values |-> UNION {Onward(v, step) : v \in walk.values},
                  whole  |-> walk.whole /\ \A v \in walk.values : Onward(v, step) # {}],
             [values |-> {document}, whole |-> TRUE], path)

PathValues(document, path) == Walk(document, path).values

IsPresent(document, path) ==
    Walk(document, path).whole /\ Null \notin PathValues(document, path)
=============================================================================
