-------------------------- MODULE MCRemediationWork --------------------------
(* A small instance of RemediationWork: one module of two files, and the     *)
(* answers a model gives: two good patches, one that changes both files, one *)
(* that drops a resource block, and one of a file that is not there.         *)
EXTENDS RemediationWork, TLC

File(text, blocks) == [text |-> text, blocks |-> blocks]

MCDocument ==
    ("main" :> File("old", {"bucket", "role"})) @@ ("logs" :> File("old", {"trail"}))

FixMain == "main" :> File("fixed", {"bucket", "role"})
FixBoth == FixMain @@ ("logs" :> File("fixed", {"trail"}))
DropsRole == "main" :> File("fixed", {"bucket"})
NewFile == "extra" :> File("fixed", {})

MCProposals == {FixMain, FixBoth, DropsRole, NewFile}

=============================================================================
