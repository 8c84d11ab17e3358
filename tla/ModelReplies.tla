----------------------------- MODULE ModelReplies -----------------------------
(***************************************************************************)
(* One question to the model about a coordinate, and what becomes of its   *)
(* replies (apps/backend/assessment/bedrock.py): a reply that breaks the   *)
(* contract of the output is a failure of form, and the question is asked  *)
(* once more; the first reply that keeps it is the judgement.              *)
(*                                                                         *)
(* A reply is [form, status, score, cites]: whether its text is, perhaps   *)
(* inside a fence, one object of exactly the four fields; its fields; and  *)
(* its citations as [shape, base, anchor], where the model may wrap a      *)
(* locator in an object, leave the "terraform:" out, or name a place inside*)
(* a file.  Escaped letters are the letters they stand for.                *)
(***************************************************************************)
EXTENDS Integers, Sequences

CONSTANT Attempts     \* how often a question is asked

ASSUME IsAskedAtLeastOnce == Attempts \in Nat \ {0}

Statuses == {"PASS", "FAIL", "MANUAL_REVIEW", "INSUFFICIENT_EVIDENCE",
             "OUT_OF_SCOPE", "EXECUTION_ERROR"}

\* Who settled the status.
DecisionSources == {"MODEL", "CODE"}

Verdict(status, by) == [status |-> status, by |-> by]

Verdicts == [status : Statuses, by : DecisionSources]

NoVerdict == Verdict("NONE", "NONE")

\* The score restates the status; any other status has none.
ScoreOf(status) == IF status = "PASS" THEN 100 ELSE 0

-----------------------------------------------------------------------------
\* A locator is [kind, name]: a Terraform file, an AWS read, or a place in a
\* version of a policy document.

\* What may be cited: what was read, and what the Rule rests on.
AllowedEvidence(read, rule) == read \cup rule.sources

\* A string, or an object that names a locator, or a file and perhaps a line;
\* a file alone is the Terraform file of that name.
Entry(cite) ==
    IF cite.shape = "FILE"
    THEN [cite EXCEPT !.base = [kind |-> "terraform", name |-> cite.base.name]]
    ELSE cite

\* An approved locator, or a place inside an approved file or resource.
IsAllowed(entry, allowed) ==
    /\ entry.base \in allowed
    /\ entry.anchor => entry.base.kind \in {"terraform", "aws", "s3"}

\* One citation of another shape, or of something else, spoils the reply.
KeepsToEvidence(reply, allowed) ==
    \A cite \in reply.cites :
        cite.shape \in {"LOCATOR", "FILE"} /\ IsAllowed(Entry(cite), allowed)

IsContractual(reply, allowed) ==
    /\ reply.form
    /\ reply.status \in Statuses \ {"EXECUTION_ERROR"}
    /\ reply.score \in 0..100
    /\ KeepsToEvidence(reply, allowed)

\* The replies to one question, in order; the runner records a coordinate that
\* no attempt answered as not executed.
Judged(replies, allowed) ==
    LET kept == {i \in 1..Len(replies) :
                    i <= Attempts /\ IsContractual(replies[i], allowed)}
    IN  IF kept = {} THEN Verdict("EXECUTION_ERROR", "CODE")
        ELSE LET first == CHOOSE i \in kept : \A j \in kept : i <= j
             IN  Verdict(replies[first].status, "MODEL")
=============================================================================
