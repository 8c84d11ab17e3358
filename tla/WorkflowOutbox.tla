--------------------------- MODULE WorkflowOutbox ---------------------------
(***************************************************************************)
(* The transactional outbox of one Job and the SQS queue behind it         *)
(* (apps/backend/jobs/outbox.py, sqs.py, repositories/dynamodb.py, the     *)
(* sweeper of api/runtime.py and the queues of m0-foundation.yaml).        *)
(*                                                                         *)
(* A workflow stage commits the Job's next revision and one outbox entry   *)
(* in a single DynamoDB transaction.  There is one entry per Job           *)
(* (SK = OUTBOX#JOB#{job_id}): a later stage overwrites it.  The committing *)
(* process then sends the task itself, and a sweeper that runs every       *)
(* minute sends every entry it finds PENDING in the GSI2 index.  Processes *)
(* stop anywhere; index reads lag; SQS delivers at least once, and moves a *)
(* message to the dead letter queue once it was received MaxReceive times. *)
(*                                                                         *)
(* A task is identified by the revision its stage committed: the command   *)
(* is a function of the stage, and the worker only compares the revision.  *)
(***************************************************************************)
EXTENDS Integers

CONSTANTS
    Dispatchers,    \* request-time and sweeper invocations that run dispatch_entry
    Messages,       \* SQS messages that can exist at the same time
    MaxRevision,    \* bound: the last revision a stage commits (0: single-stage Jobs)
    MaxReceive      \* maxReceiveCount of the queue's redrive policy

ASSUME BoundsAssumption == /\ MaxRevision \in Nat
                           /\ MaxReceive \in Nat \ {0}

VARIABLES
    revision,   \* revision of the stored Job, Uncreated before the first transaction
    open,       \* the Job is not terminal
    outbox,     \* the entry: task, status, and whether it carries the GSI2 keys
    index,      \* the task GSI2 lists as pending, as a query sees it
    jobView,    \* the Job revision GSI1 shows; it lags and, assumed of the index, never goes back
    dispatcher, \* per process: idle, about to send / mark / record a failure, and its entry
    message,    \* per SQS message: unused, visible, received or worked on; task, receive count
    sent,       \* tasks that reached the queue at least once
    started,    \* tasks a worker accepted: it read the Job at the task's revision
    handled,    \* tasks whose handler returned normally
    dead        \* tasks of messages in the dead letter queue

vars == <<revision, open, outbox, index, jobView, dispatcher, message, sent, started, handled, dead>>

Uncreated == -1
NoTask    == -1
Tasks     == 0 .. MaxRevision
Revisions == 0 .. MaxRevision + 1    \* the last one closes the Job
TaskOrNone == Tasks \cup {NoTask}

IdleDispatcher == [pc |-> "idle", task |-> NoTask]
UnusedMessage  == [state |-> "unused", task |-> NoTask, receives |-> 0]
FreshEntry(task) == [task |-> task, status |-> "PENDING", indexed |-> TRUE]

Init ==
    /\ revision = Uncreated
    /\ open = TRUE
    /\ outbox = [task |-> NoTask, status |-> "NONE", indexed |-> FALSE]
    /\ index = NoTask
    /\ jobView = Uncreated
    /\ dispatcher = [d \in Dispatchers |-> IdleDispatcher]
    /\ message = [m \in Messages |-> UnusedMessage]
    /\ sent = {}
    /\ started = {}
    /\ handled = {}
    /\ dead = {}

-----------------------------------------------------------------------------
(* The stages that own the Job. *)

(* One workflow transaction: the Job's next revision and its entry, written over the    *)
(* entry of the stage before.  The process that committed goes on to dispatch_entry.     *)
CommitStage(d) ==
    /\ open
    /\ revision < MaxRevision
    /\ dispatcher[d].pc = "idle"
    /\ revision' = revision + 1
    /\ outbox' = FreshEntry(revision')
    /\ dispatcher' = [dispatcher EXCEPT ![d] = [pc |-> "send", task |-> revision']]
    /\ UNCHANGED <<open, index, jobView, message, sent, started, handled, dead>>

(* A terminal transition (reject, remediation failure) moves the Job to its next revision *)
(* and writes no entry: the entry it leaves behind asks for a revision that has passed.   *)
CloseJob ==
    /\ open
    /\ revision # Uncreated
    /\ revision' = revision + 1
    /\ open' = FALSE
    /\ UNCHANGED <<outbox, index, jobView, dispatcher, message, sent, started, handled, dead>>

-----------------------------------------------------------------------------
(* OutboxDispatcher, run by the committing request and by the sweeper. *)

(* list_pending_outbox: an entry of this Job, if the index shows one. *)
Sweep(d) ==
    /\ dispatcher[d].pc = "idle"
    /\ index # NoTask
    /\ dispatcher' = [dispatcher EXCEPT ![d] = [pc |-> "send", task |-> index]]
    /\ UNCHANGED <<revision, open, outbox, index, jobView, message, sent, started, handled, dead>>

Enqueue(m, task) ==
    /\ message[m].state = "unused"
    /\ message' = [message EXCEPT ![m] = [state |-> "visible", task |-> task, receives |-> 0]]
    /\ sent' = sent \cup {task}

GoTo(d, pc) == dispatcher' = [dispatcher EXCEPT ![d].pc = pc]

Send(d) ==
    /\ dispatcher[d].pc = "send"
    /\ \E m \in Messages : Enqueue(m, dispatcher[d].task)
    /\ GoTo(d, "mark")
    /\ UNCHANGED <<revision, open, outbox, index, jobView, started, handled, dead>>

(* Mutated form of SendRaises: the failure is not told from a success. *)
SendRaisesAndMarks(d) ==
    /\ dispatcher[d].pc = "send"
    /\ \/ UNCHANGED <<message, sent>>
       \/ \E m \in Messages : Enqueue(m, dispatcher[d].task)
    /\ GoTo(d, "mark")
    /\ UNCHANGED <<revision, open, outbox, index, jobView, started, handled, dead>>

(* The send raises; SQS may have stored the message all the same. *)
SendRaises(d) ==
    /\ dispatcher[d].pc = "send"
    /\ \/ UNCHANGED <<message, sent>>
       \/ \E m \in Messages : Enqueue(m, dispatcher[d].task)
    /\ GoTo(d, "fail")
    /\ UNCHANGED <<revision, open, outbox, index, jobView, started, handled, dead>>

(* Mutated form of UpdateAllowed: a condition on the GSI2 partition value. *)
UpdateOnPartitionValue == outbox.status = "OUTBOX#PENDING"

(* Condition of _update_outbox.  It names neither the task nor its revision. *)
UpdateAllowed == outbox.status = "PENDING"

MarkedDispatched == [outbox EXCEPT !.status = "DISPATCHED", !.indexed = FALSE]

(* mark_outbox_dispatched; a failed condition or write raises. *)
MarkDispatched(d) ==
    /\ dispatcher[d].pc = "mark"
    /\ \/ /\ UpdateAllowed
          /\ outbox' = MarkedDispatched
          /\ dispatcher' = [dispatcher EXCEPT ![d] = IdleDispatcher]
       \/ /\ UNCHANGED outbox
          /\ GoTo(d, "fail")
    /\ UNCHANGED <<revision, open, index, jobView, message, sent, started, handled, dead>>

(* record_outbox_dispatch_failure; an exception here is swallowed.  The attempt counter  *)
(* it adds to is read nowhere and is left out.                                           *)
RecordFailure(d) ==
    /\ dispatcher[d].pc = "fail"
    /\ \/ UpdateAllowed /\ outbox' = [outbox EXCEPT !.status = "PENDING"]
       \/ UNCHANGED outbox
    /\ dispatcher' = [dispatcher EXCEPT ![d] = IdleDispatcher]
    /\ UNCHANGED <<revision, open, index, jobView, message, sent, started, handled, dead>>

(* The invocation stops (timeout, crash) wherever it is. *)
DispatcherStops(d) ==
    /\ dispatcher[d].pc # "idle"
    /\ dispatcher' = [dispatcher EXCEPT ![d] = IdleDispatcher]
    /\ UNCHANGED <<revision, open, outbox, index, jobView, message, sent, started, handled, dead>>

-----------------------------------------------------------------------------
(* The global indexes follow the table later. *)

IndexCatchesUp ==
    /\ index' = IF outbox.indexed THEN outbox.task ELSE NoTask
    /\ index' # index
    /\ UNCHANGED <<revision, open, outbox, jobView, dispatcher, message, sent, started, handled, dead>>

JobViewCatchesUp ==
    /\ jobView # revision
    /\ jobView' = revision
    /\ UNCHANGED <<revision, open, outbox, index, dispatcher, message, sent, started, handled, dead>>

-----------------------------------------------------------------------------
(* SQS and the workers behind it. *)

(* Mutated form of Receive: no redrive policy stops the deliveries. *)
ReceiveForEver(m) ==
    /\ message[m].state = "visible"
    /\ message' = [message EXCEPT ![m].state = "inflight", ![m].receives = @ + 1]
    /\ UNCHANGED <<revision, open, outbox, index, jobView, dispatcher, sent, started, handled, dead>>

Receive(m) ==
    /\ message[m].state = "visible"
    /\ message[m].receives < MaxReceive
    /\ message' = [message EXCEPT ![m].state = "inflight", ![m].receives = @ + 1]
    /\ UNCHANGED <<revision, open, outbox, index, jobView, dispatcher, sent, started, handled, dead>>

Release(m) == message' = [message EXCEPT ![m].state = "visible"]

(* Mutated form of Accept: a task that was begun is resumed without comparing revisions. *)
AcceptResumed(m) ==
    /\ message[m].state = "inflight"
    /\ message[m].task \in started \cup {jobView}
    /\ message' = [message EXCEPT ![m].state = "working"]
    /\ started' = started \cup {message[m].task}
    /\ UNCHANGED <<revision, open, outbox, index, jobView, dispatcher, sent, handled, dead>>

(* The worker reads the Job through GSI1 and goes on only at the task's revision. *)
Accept(m) ==
    /\ message[m].state = "inflight"
    /\ jobView = message[m].task
    /\ message' = [message EXCEPT ![m].state = "working"]
    /\ started' = started \cup {message[m].task}
    /\ UNCHANGED <<revision, open, outbox, index, jobView, dispatcher, sent, handled, dead>>

(* The handler returned: the event source mapping deletes the message, unless the         *)
(* invocation dies before it does.                                                        *)
HandleSucceeds(m) ==
    /\ message[m].state = "working"
    /\ handled' = handled \cup {message[m].task}
    /\ \/ message' = [message EXCEPT ![m] = UnusedMessage]
       \/ Release(m)
    /\ UNCHANGED <<revision, open, outbox, index, jobView, dispatcher, sent, started, dead>>

(* Mutated form of HandleFails: a failing invocation deletes its message. *)
HandleFailsAndDeletes(m) ==
    /\ message[m].state \in {"inflight", "working"}
    /\ message' = [message EXCEPT ![m] = UnusedMessage]
    /\ UNCHANGED <<revision, open, outbox, index, jobView, dispatcher, sent, started, handled, dead>>

(* The Job is at another revision, the handler raises or the invocation times out: the    *)
(* message becomes visible again after its visibility timeout.                            *)
HandleFails(m) ==
    /\ message[m].state \in {"inflight", "working"}
    /\ Release(m)
    /\ UNCHANGED <<revision, open, outbox, index, jobView, dispatcher, sent, started, handled, dead>>

DeadLetter(m) ==
    /\ message[m].state = "visible"
    /\ message[m].receives = MaxReceive
    /\ dead' = dead \cup {message[m].task}
    /\ message' = [message EXCEPT ![m] = UnusedMessage]
    /\ UNCHANGED <<revision, open, outbox, index, jobView, dispatcher, sent, started, handled>>

-----------------------------------------------------------------------------
DispatcherStep(d) ==
    CommitStage(d) \/ Sweep(d) \/ Send(d) \/ SendRaises(d) \/ MarkDispatched(d)
        \/ RecordFailure(d) \/ DispatcherStops(d)

MessageStep(m) ==
    Receive(m) \/ Accept(m) \/ HandleSucceeds(m) \/ HandleFails(m) \/ DeadLetter(m)

Next ==
    \/ CloseJob
    \/ IndexCatchesUp
    \/ JobViewCatchesUp
    \/ \E d \in Dispatchers : DispatcherStep(d)
    \/ \E m \in Messages : MessageStep(m)

Spec == Init /\ [][Next]_vars

(* The sweeper runs every minute, so an indexed entry is picked up and, tried again and  *)
(* again, a send and a status update go through; the indexes catch up; SQS keeps          *)
(* delivering a visible message and a received one is settled before its timeout.         *)
Sweeping ==
    /\ WF_vars(IndexCatchesUp) /\ WF_vars(JobViewCatchesUp)
    /\ WF_vars(\E d \in Dispatchers : Sweep(d))
    /\ \A d \in Dispatchers :
          /\ WF_vars(RecordFailure(d))
          /\ SF_vars(Send(d))
          /\ SF_vars(MarkDispatched(d) /\ outbox' # outbox)
          /\ WF_vars(dispatcher[d].pc # "idle" /\ DispatcherStep(d))
    /\ \A m \in Messages :
          /\ WF_vars(Receive(m)) /\ WF_vars(DeadLetter(m))
          /\ WF_vars(Accept(m) \/ HandleSucceeds(m) \/ HandleFails(m))

FairSpec == Spec /\ Sweeping

-----------------------------------------------------------------------------
EntryRecords == [task : TaskOrNone, status : {"NONE", "PENDING", "DISPATCHED"}, indexed : BOOLEAN]
DispatcherRecords == [pc : {"idle", "send", "mark", "fail"}, task : TaskOrNone]
MessageRecords == [state : {"unused", "visible", "inflight", "working"},
                   task : TaskOrNone, receives : 0 .. MaxReceive]

TypeOK ==
    /\ revision \in Revisions \cup {Uncreated}
    /\ open \in BOOLEAN
    /\ outbox \in EntryRecords
    /\ index \in TaskOrNone
    /\ jobView \in Revisions \cup {Uncreated}
    /\ dispatcher \in [Dispatchers -> DispatcherRecords]
    /\ message \in [Messages -> MessageRecords]
    /\ sent \subseteq Tasks
    /\ started \subseteq Tasks
    /\ handled \subseteq Tasks
    /\ dead \subseteq Tasks

(* An entry is PENDING exactly while it carries the GSI2 keys, the only way the sweeper   *)
(* finds it: _update_outbox never leaves a PENDING entry no sweep can see, nor a          *)
(* DISPATCHED one that every sweep sends again.                                           *)
PendingIsIndexed == outbox.indexed <=> outbox.status = "PENDING"

(* OutboxDispatcher.dispatch_entry promises that a failed publish or status update leaves *)
(* the entry recoverable by the sweeper: the task of the latest stage has reached the      *)
(* queue, or a process still holds it, or its entry is PENDING, whatever sends, marks and   *)
(* sweeps of this stage and of earlier ones did meanwhile.                                  *)
UnsentIsRecoverable ==
    \/ outbox.task \in sent \cup {NoTask}
    \/ \E d \in Dispatchers : dispatcher[d].task = outbox.task
    \/ outbox.status = "PENDING"

(* No stage is lost without a trace: the task of the latest stage is PENDING in the outbox, *)
(* in the queue, in the dead letter queue, or its handler has returned.                     *)
NoSilentLoss ==
    outbox.task # NoTask =>
        \/ outbox.status = "PENDING"
        \/ outbox.task \in handled \cup dead
        \/ \E m \in Messages : message[m].state # "unused" /\ message[m].task = outbox.task

(* A worker accepts the delivery m: the first one of its task or a later one. *)
Accepts(m) == message[m].state = "inflight" /\ message'[m].state = "working"

(* Every acceptance, of a first delivery, of a redelivery or of a duplicate, is of a task   *)
(* the Job has committed and none of an earlier stage than one accepted before: once a      *)
(* worker accepted a later task, the revision check refuses an earlier one however late or  *)
(* often it comes, also when it was accepted before and its handler failed or its message   *)
(* was not deleted.                                                                         *)
AcceptedInOrder ==
    [][\A m \in Messages : Accepts(m) =>
          /\ message[m].task <= revision
          /\ \A u \in started : u <= message[m].task]_vars

(* The sweep ends: an entry does not stay PENDING for ever, sent again every minute.       *)
EventuallyDispatched == outbox.status = "PENDING" ~> outbox.status = "DISPATCHED"

(* A committed task is handled or ends in the dead letter queue, where an operator sees it. *)
EventuallySettled == \A t \in Tasks : outbox.task = t ~> t \in handled \cup dead

=============================================================================
