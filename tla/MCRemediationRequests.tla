------------------------ MODULE MCRemediationRequests ------------------------
(* A small instance of RemediationRequests. *)
EXTENDS RemediationRequests

MCOutcomes ==
    [status : {"FAIL"}, iac : {"PASS", "FAIL", NoVerdict}] \cup
    [status : {"INSUFFICIENT_EVIDENCE"}, iac : {"INSUFFICIENT_EVIDENCE"}] \cup
    [status : {"MANUAL_REVIEW"}, iac : {"MANUAL_REVIEW"}]

=============================================================================
