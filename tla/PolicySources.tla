---------------------------- MODULE PolicySources ----------------------------
(***************************************************************************)
(* Policy documents: upload, normalisation, review and deletion            *)
(* (apps/backend/api/policy_sources.py,                                    *)
(* apps/backend/repositories/policy_ingestion.py,                          *)
(* apps/backend/policy/ingestion/pipeline.py) and the authoring worker     *)
(* that extracts the candidates of a READY document                        *)
(* (apps/backend/api/policy_candidates.py,                                 *)
(* apps/backend/policy/authoring/runtime.py,                               *)
(* apps/backend/repositories/policy_approval.py record_authoring_result).  *)
(*                                                                         *)
(* A client runs one request at a time and may stop after any of its steps *)
(* (a failed call, a crash).  SQS delivers an authoring task more than     *)
(* once.  Approval, publication and deletion are in PolicyProfiles.        *)
(***************************************************************************)
EXTENDS PolicyAuthoring

CONSTANTS
    Documents,      \* source versions
    Clients,        \* API requests in flight
    Workers,        \* invocations of the authoring worker
    MaxReceives,    \* receives of an authoring task
    NoItem          \* an item that is not stored

ASSUME ReceivesAreLimited == MaxReceives \in Nat

VARIABLES
    source,     \* the POLICY_INGESTION items, until they are deleted
    queued,     \* documents with a task in the authoring queue
    receives,   \* how often their tasks were received
    manifest,   \* the AUTHORING items: status, and of a READY one the results
    children,   \* the stored outcomes of each document
    published,  \* documents with a POLICY_SOURCE item
    client,     \* what each request is doing
    worker      \* what each invocation is doing

authoring == <<queued, receives, manifest, children, published>>

Idle == [pc |-> "idle"]
At(c, pc) == client[c].pc = pc
Go(c, state) == client' = [client EXCEPT ![c] = state]
Done(c) == Go(c, Idle)

(* A document is known from its upload session on: its ids are fresh. *)
UploadSession == [status |-> "UPLOAD_PENDING", reviewer |-> NoItem]

SourcesInit ==
    /\ source = [d \in Documents |-> UploadSession]
    /\ queued = {}
    /\ receives = [d \in Documents |-> 0]
    /\ manifest = [d \in Documents |-> NoItem]
    /\ children = [d \in Documents |-> {}]
    /\ published = {}
    /\ client = [c \in Clients |-> Idle]
    /\ worker = [w \in Workers |-> Idle]

StatusIs(d, status) == source[d] # NoItem /\ source[d].status = status
SetStatus(d, status) == source' = [source EXCEPT ![d].status = status]

----------------------------------------------------------------------------
(* Upload, normalisation and review *)

(* finalize_upload reads a pending record and the uploaded bytes, then moves *)
(* the record on if it still is pending; the loser of a race gives up.       *)
BeginFinalize(c, d) ==
    /\ At(c, "idle") /\ StatusIs(d, "UPLOAD_PENDING")
    /\ Go(c, [pc |-> "finalize", of |-> d])
    /\ UNCHANGED <<source, authoring, worker>>

(* Mutant: the write of finalize_upload has lost its condition. *)
FinalizeAnyway(c) ==
    /\ At(c, "finalize")
    /\ IF source[client[c].of] # NoItem
       THEN SetStatus(client[c].of, "UPLOADED") /\ Go(c, [client[c] EXCEPT !.pc = "normalize"])
       ELSE Done(c) /\ UNCHANGED source
    /\ UNCHANGED <<authoring, worker>>

Finalize(c) ==
    /\ At(c, "finalize")
    /\ IF StatusIs(client[c].of, "UPLOAD_PENDING")
       THEN SetStatus(client[c].of, "UPLOADED") /\ Go(c, [client[c] EXCEPT !.pc = "normalize"])
       ELSE Done(c) /\ UNCHANGED source
    /\ UNCHANGED <<authoring, worker>>

(* A parse yields units without or with warnings a person must judge, or fails. *)
NormalizedStatus(parse) ==
    CASE parse = "clean" -> "READY"
      [] parse = "warned" -> "REVIEW_REQUIRED"
      [] parse = "failed" -> "FAILED"

RecordNormalization(c) ==
    /\ At(c, "normalize")
    /\ IF StatusIs(client[c].of, "UPLOADED")
       THEN \E parse \in {"clean", "warned", "failed"} :
                SetStatus(client[c].of, NormalizedStatus(parse))
       ELSE UNCHANGED source
    /\ Done(c)
    /\ UNCHANGED <<authoring, worker>>

(* confirm_review reads the document, then writes on its condition. *)
BeginConfirm(c, d) ==
    /\ At(c, "idle") /\ StatusIs(d, "REVIEW_REQUIRED")
    /\ Go(c, [pc |-> "confirm", of |-> d])
    /\ UNCHANGED <<source, authoring, worker>>

AwaitsReview(d) == StatusIs(d, "REVIEW_REQUIRED")

(* The warnings stay; who decided to go on in spite of them is added. *)
Confirmed(c) == [status |-> "READY", reviewer |-> c]

Confirm(c) ==
    /\ At(c, "confirm")
    /\ LET d == client[c].of IN
       IF AwaitsReview(d)
       THEN source' = [source EXCEPT ![d] = Confirmed(c)]
       ELSE UNCHANGED source
    /\ Done(c)
    /\ UNCHANGED <<authoring, worker>>

(* A client's request ends without its next step: refused, failed or crashed. *)
ClientStops(c) ==
    /\ client[c].pc # "idle"
    /\ Done(c)
    /\ UNCHANGED <<source, authoring, worker>>

----------------------------------------------------------------------------
(* The request is stored once, then queued; asking again queues it again, also *)
(* after a call that failed to.  Nothing checks that the document is there.    *)

RequestExtraction(d) ==
    /\ d \notin queued
    /\ queued' = queued \cup {d}
    /\ UNCHANGED <<source, receives, manifest, children, published, client, worker>>

(* run_requests: a deleted document or one that awaits review is skipped and *)
(* the task consumed; another that is not READY fails and is retried.        *)
SkipTask(d) ==
    /\ d \in queued
    /\ source[d] = NoItem \/ AwaitsReview(d)
    /\ queued' = queued \ {d}
    /\ UNCHANGED <<source, receives, manifest, children, published, client, worker>>

(* The model is asked with no look at what is stored of an earlier delivery. *)
Extract(w, d) ==
    /\ worker[w].pc = "idle" /\ d \in queued /\ receives[d] < MaxReceives
    /\ StatusIs(d, "READY")
    /\ receives' = [receives EXCEPT ![d] = @ + 1]
    /\ \E result \in Results :
           worker' = [worker EXCEPT ![w] = [pc |-> "begin", of |-> d, result |-> result]]
    /\ UNCHANGED <<source, queued, manifest, children, published, client>>

WorkerGo(w, pc) == worker' = [worker EXCEPT ![w].pc = pc]
WorkerStops(w) ==
    /\ worker[w].pc # "idle"
    /\ worker' = [worker EXCEPT ![w] = Idle]
    /\ UNCHANGED <<source, authoring, client>>

Processing == [status |-> "PROCESSING"]
Ready(result) == [status |-> "READY", results |-> result]
IsReviewable(d) == manifest[d] # NoItem /\ manifest[d].status = "READY"

(* A READY manifest is not taken back to PROCESSING. *)
BeginRun(w) ==
    /\ worker[w].pc = "begin"
    /\ LET d == worker[w].of IN
       manifest' = [manifest EXCEPT ![d] = IF @ = NoItem THEN Processing ELSE @]
    /\ WorkerGo(w, "children")
    /\ UNCHANGED <<source, queued, receives, children, published, client>>

(* No time and no number is part of a child's key, so that a retry finds it. *)
Key(outcome) == <<outcome.kind, Digest(outcome.of)>>

(* The same child is absorbed, a reworded one fails the run. *)
Clashes(d, outcome) == \E o \in children[d] : Key(o) = Key(outcome) /\ o # outcome

StoreChild(w) ==
    /\ worker[w].pc = "children"
    /\ LET d == worker[w].of IN
       \E o \in worker[w].result \ children[d] :
           /\ ~Clashes(d, o)
           /\ children' = [children EXCEPT ![d] = @ \cup {o}]
    /\ UNCHANGED <<source, queued, receives, manifest, published, client, worker>>

(* The stored outcomes must be exactly those of this run. *)
AreOwn(d, result) == children[d] = result

CheckChildren(w) ==
    /\ worker[w].pc = "children"
    /\ worker[w].result \subseteq children[worker[w].of]
    /\ AreOwn(worker[w].of, worker[w].result)
    /\ WorkerGo(w, "ready")
    /\ UNCHANGED <<source, authoring, client>>

CompleteRun(w) ==
    /\ worker[w].pc = "ready"
    /\ manifest' = [manifest EXCEPT ![worker[w].of] = Ready(worker[w].result)]
    /\ WorkerGo(w, "source")
    /\ UNCHANGED <<source, queued, receives, children, published, client>>

StoreSourceItem(w) ==
    /\ worker[w].pc = "source"
    /\ published' = published \cup {worker[w].of}
    /\ queued' = queued \ {worker[w].of}
    /\ worker' = [worker EXCEPT ![w] = Idle]
    /\ UNCHANGED <<source, receives, manifest, children, client>>

SourcesNext ==
    \/ \E d \in Documents : RequestExtraction(d) \/ SkipTask(d)
    \/ \E c \in Clients :
        \/ \E d \in Documents :
               BeginFinalize(c, d) \/ BeginConfirm(c, d)
        \/ Finalize(c) \/ RecordNormalization(c) \/ Confirm(c) \/ ClientStops(c)
    \/ \E w \in Workers :
        \/ \E d \in Documents : Extract(w, d)
        \/ BeginRun(w) \/ StoreChild(w) \/ CheckChildren(w)
        \/ CompleteRun(w) \/ StoreSourceItem(w) \/ WorkerStops(w)

=============================================================================
