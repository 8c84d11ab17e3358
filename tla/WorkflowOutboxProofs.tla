------------------------ MODULE WorkflowOutboxProofs ------------------------
(***************************************************************************)
(* Theorems about WorkflowOutbox, for any dispatchers, messages, receive   *)
(* count and, where a theorem does not say otherwise, number of stages.    *)
(***************************************************************************)
EXTENDS WorkflowOutbox, TLAPS

(* Only the transition that closes the Job moves it beyond the last stage; a process that   *)
(* is dispatching, and a message that exists, has a task.                                   *)
OpenIsBounded  == open => revision <= MaxRevision
BusyHaveTasks  == \A d \in Dispatchers : dispatcher[d].pc # "idle" => dispatcher[d].task \in Tasks
QueuedHaveTasks == \A m \in Messages : message[m].state # "unused" => message[m].task \in Tasks

TypeInv == TypeOK /\ OpenIsBounded /\ BusyHaveTasks /\ QueuedHaveTasks

-----------------------------------------------------------------------------
(* The records the actions write. *)

LEMMA EntryUpdates ==
    ASSUME NEW e \in EntryRecords, NEW t \in Tasks
    PROVE  /\ FreshEntry(t) \in EntryRecords
           /\ [e EXCEPT !.status = "PENDING"] \in EntryRecords
           /\ [e EXCEPT !.status = "DISPATCHED", !.indexed = FALSE] \in EntryRecords
           /\ e.task \in TaskOrNone
           /\ e.status \in {"NONE", "PENDING", "DISPATCHED"}
BY DEF EntryRecords, FreshEntry, TaskOrNone

(* An update of one process leaves a function over the processes. *)
LEMMA DispatcherUpdates ==
    ASSUME NEW x \in DispatcherRecords, NEW t \in TaskOrNone,
           NEW pc \in {"idle", "send", "mark", "fail"}
    PROVE  /\ IdleDispatcher \in DispatcherRecords
           /\ [pc |-> pc, task |-> t] \in DispatcherRecords
           /\ [x EXCEPT !.pc = pc] \in DispatcherRecords
           /\ x.task \in TaskOrNone
BY DEF DispatcherRecords, IdleDispatcher, TaskOrNone

(* The same for one message. *)
LEMMA MessageUpdates ==
    ASSUME NEW x \in MessageRecords, NEW t \in Tasks,
           NEW state \in {"unused", "visible", "inflight", "working"}
    PROVE  /\ UnusedMessage \in MessageRecords
           /\ [state |-> state, task |-> t, receives |-> 0] \in MessageRecords
           /\ [x EXCEPT !.state = state] \in MessageRecords
           /\ x.receives < MaxReceive =>
                 [x EXCEPT !.state = state, !.receives = @ + 1] \in MessageRecords
           /\ x.task \in TaskOrNone
<1>1. MaxReceive \in Nat /\ x.receives \in 0 .. MaxReceive
  BY BoundsAssumption DEF MessageRecords
<1>2. UnusedMessage \in MessageRecords
  BY <1>1 DEF MessageRecords, UnusedMessage, TaskOrNone
<1>3. [state |-> state, task |-> t, receives |-> 0] \in MessageRecords
  BY <1>1 DEF MessageRecords, TaskOrNone
<1>4. [x EXCEPT !.state = state] \in MessageRecords /\ x.task \in TaskOrNone
  BY DEF MessageRecords
<1>5. ASSUME x.receives < MaxReceive
      PROVE  [x EXCEPT !.state = state, !.receives = @ + 1] \in MessageRecords
  <2>1. x.receives + 1 \in 0 .. MaxReceive
    BY <1>1, <1>5
  <2> QED
    BY <2>1 DEF MessageRecords
<1> QED
  BY <1>2, <1>3, <1>4, <1>5

-----------------------------------------------------------------------------
(* The initial state has the right types. *)
LEMMA InitialType == Init => TypeInv
<1> SUFFICES ASSUME Init PROVE TypeInv
  OBVIOUS
<1>1. IdleDispatcher \in DispatcherRecords /\ IdleDispatcher.pc = "idle"
  BY DEF DispatcherRecords, IdleDispatcher, TaskOrNone
<1>2. UnusedMessage \in MessageRecords /\ UnusedMessage.state = "unused"
  BY BoundsAssumption DEF MessageRecords, UnusedMessage, TaskOrNone
<1>3. outbox \in EntryRecords
  BY DEF Init, EntryRecords, TaskOrNone
<1>4. TypeOK
  BY <1>1, <1>2, <1>3 DEF Init, TypeOK, TaskOrNone
<1>5. OpenIsBounded
  BY BoundsAssumption DEF Init, OpenIsBounded, Uncreated
<1>6. BusyHaveTasks /\ QueuedHaveTasks
  BY <1>1, <1>2 DEF Init, BusyHaveTasks, QueuedHaveTasks
<1> QED
  BY <1>4, <1>5, <1>6 DEF TypeInv

(* Every step of a dispatching process keeps TypeInv. *)
LEMMA DispatcherKeepsType ==
    ASSUME TypeInv, NEW d \in Dispatchers, DispatcherStep(d)
    PROVE  TypeInv'
<1> USE DEF TypeInv, TypeOK, BusyHaveTasks, QueuedHaveTasks
<1>1. CASE CommitStage(d)
  <2>1. revision' \in Tasks
    BY <1>1, BoundsAssumption DEF CommitStage, Revisions, Uncreated, Tasks
  <2>2. outbox' \in EntryRecords
    BY <1>1, <2>1, EntryUpdates DEF CommitStage
  <2>3. dispatcher' \in [Dispatchers -> DispatcherRecords]
    BY <1>1, <2>1 DEF CommitStage, DispatcherRecords, TaskOrNone
  <2>4. revision' \in Revisions /\ OpenIsBounded'
    BY <1>1, <2>1, BoundsAssumption DEF CommitStage, Revisions, Tasks, OpenIsBounded
  <2> QED
    BY <1>1, <2>1, <2>2, <2>3, <2>4 DEF CommitStage
<1>2. CASE Sweep(d)
  <2>1. index \in Tasks
    BY <1>2 DEF Sweep, TaskOrNone
  <2>2. dispatcher' \in [Dispatchers -> DispatcherRecords]
    BY <1>2, <2>1 DEF Sweep, DispatcherRecords, TaskOrNone
  <2> QED
    BY <1>2, <2>1, <2>2 DEF Sweep, OpenIsBounded
<1>3. ASSUME NEW pc \in {"mark", "fail"}, dispatcher[d].pc # "idle", GoTo(d, pc)
      PROVE  dispatcher' \in [Dispatchers -> DispatcherRecords] /\ BusyHaveTasks'
  BY <1>3 DEF GoTo, DispatcherRecords
<1>4. ASSUME NEW m \in Messages, dispatcher[d].pc # "idle", Enqueue(m, dispatcher[d].task)
      PROVE  /\ message' \in [Messages -> MessageRecords] /\ QueuedHaveTasks'
             /\ sent' \subseteq Tasks
  <2>1. dispatcher[d].task \in Tasks
    BY <1>4
  <2>2. [state |-> "visible", task |-> dispatcher[d].task, receives |-> 0] \in MessageRecords
    BY <2>1, MessageUpdates
  <2> QED
    BY <1>4, <2>1, <2>2 DEF Enqueue
<1>5. CASE Send(d)
  BY <1>3, <1>4, <1>5 DEF Send, OpenIsBounded
<1>6. CASE SendRaises(d)
  BY <1>3, <1>4, <1>6 DEF SendRaises, OpenIsBounded
<1>7. ASSUME dispatcher' = [dispatcher EXCEPT ![d] = IdleDispatcher]
      PROVE  dispatcher' \in [Dispatchers -> DispatcherRecords] /\ BusyHaveTasks'
  BY <1>7 DEF IdleDispatcher, DispatcherRecords, TaskOrNone
<1>8. CASE MarkDispatched(d)
  <2>1. MarkedDispatched \in EntryRecords
    BY DEF MarkedDispatched, EntryRecords
  <2> QED
    BY <1>3, <1>7, <1>8, <2>1 DEF MarkDispatched, OpenIsBounded
<1>9. CASE RecordFailure(d)
  <2>1. [outbox EXCEPT !.status = "PENDING"] \in EntryRecords
    BY DEF EntryRecords
  <2> QED
    BY <1>7, <1>9, <2>1 DEF RecordFailure, OpenIsBounded
<1>10. CASE DispatcherStops(d)
  BY <1>7, <1>10 DEF DispatcherStops, OpenIsBounded
<1> QED
  BY <1>1, <1>2, <1>5, <1>6, <1>8, <1>9, <1>10 DEF DispatcherStep

(* Every step of a message keeps TypeInv. *)
LEMMA MessageKeepsType ==
    ASSUME TypeInv, NEW m \in Messages, MessageStep(m)
    PROVE  TypeInv'
<1> USE DEF TypeInv, TypeOK, BusyHaveTasks, QueuedHaveTasks
<1>1. message[m] \in MessageRecords
  OBVIOUS
<1>2. ASSUME message' = [message EXCEPT ![m] = UnusedMessage]
      PROVE  message' \in [Messages -> MessageRecords] /\ QueuedHaveTasks'
  <2>1. UnusedMessage \in MessageRecords /\ UnusedMessage.state = "unused"
    BY BoundsAssumption DEF MessageRecords, UnusedMessage, TaskOrNone
  <2> QED
    BY <1>2, <2>1
<1>3. ASSUME NEW state \in {"visible", "working"}, message[m].state # "unused",
             message' = [message EXCEPT ![m].state = state]
      PROVE  message' \in [Messages -> MessageRecords] /\ QueuedHaveTasks'
  <2>1. [message[m] EXCEPT !.state = state] \in MessageRecords
    BY <1>1 DEF MessageRecords
  <2>2. message'= [message EXCEPT ![m] = [message[m] EXCEPT !.state = state]]
    BY <1>3
  <2> QED
    BY <1>3, <2>1, <2>2 DEF MessageRecords
<1>4. CASE Receive(m)
  <2> DEFINE got == [message[m] EXCEPT !.state = "inflight", !.receives = @ + 1]
  <2>1. MaxReceive \in Nat /\ message[m].receives \in 0 .. MaxReceive
    BY <1>1, BoundsAssumption DEF MessageRecords
  <2>2. message[m].receives + 1 \in 0 .. MaxReceive
    BY <1>4, <2>1 DEF Receive
  <2>3. got \in MessageRecords /\ got.task = message[m].task
    BY <1>1, <2>2 DEF MessageRecords
  <2>4. message' = [message EXCEPT ![m] = got]
    BY <1>4 DEF Receive
  <2>5. message[m].task \in Tasks
    BY <1>4 DEF Receive
  <2> HIDE DEF got
  <2> QED
    BY <1>4, <2>3, <2>4, <2>5 DEF Receive, OpenIsBounded
<1>5. CASE Accept(m)
  BY <1>3, <1>5 DEF Accept, OpenIsBounded
<1>6. CASE HandleSucceeds(m)
  BY <1>2, <1>3, <1>6 DEF HandleSucceeds, Release, OpenIsBounded
<1>7. CASE HandleFails(m)
  BY <1>3, <1>7 DEF HandleFails, Release, OpenIsBounded
<1>8. CASE DeadLetter(m)
  BY <1>2, <1>8 DEF DeadLetter, OpenIsBounded
<1> QED
  BY <1>4, <1>5, <1>6, <1>7, <1>8 DEF MessageStep

(* TypeInv is inductive. *)
LEMMA StepKeepsType == TypeInv /\ [Next]_vars => TypeInv'
<1> SUFFICES ASSUME TypeInv, [Next]_vars
             PROVE  TypeInv'
  OBVIOUS
<1> USE DEF TypeInv, TypeOK, OpenIsBounded, BusyHaveTasks, QueuedHaveTasks
<1>1. CASE CloseJob
  <2>1. revision' \in Revisions
    BY <1>1, BoundsAssumption DEF CloseJob, Revisions, Uncreated
  <2>2. open' = FALSE
    BY <1>1 DEF CloseJob
  <2> QED
    BY <1>1, <2>1, <2>2 DEF CloseJob
<1>2. CASE IndexCatchesUp
  <2>1. outbox.task \in TaskOrNone /\ NoTask \in TaskOrNone
    BY DEF EntryRecords, TaskOrNone
  <2> QED
    BY <1>2, <2>1 DEF IndexCatchesUp
<1>3. CASE JobViewCatchesUp
  BY <1>3 DEF JobViewCatchesUp
<1>4. CASE \E d \in Dispatchers : DispatcherStep(d)
  BY <1>4, DispatcherKeepsType
<1>5. CASE \E m \in Messages : MessageStep(m)
  BY <1>5, MessageKeepsType
<1>6. CASE UNCHANGED vars
  BY <1>6 DEF vars
<1> QED
  BY <1>1, <1>2, <1>3, <1>4, <1>5, <1>6 DEF Next

(* The inductive invariant of the outbox: types, and the facts about processes and          *)
(* messages that the types of later states rest on.                                          *)
THEOREM TypeInvariant == Spec => []TypeInv
BY InitialType, StepKeepsType, PTL DEF Spec

(* Requests, sweeper, queue and workers store only values of the right types, with any      *)
(* number of stages: a closed Job is never moved, and only real tasks are sent.             *)
THEOREM TypeCorrect == Spec => []TypeOK
<1>1. TypeInv => TypeOK
  BY DEF TypeInv
<1> QED
  BY <1>1, TypeInvariant, PTL

-----------------------------------------------------------------------------
(* PendingIsIndexed is inductive relative to TypeInv. *)
LEMMA StepKeepsIndexed == TypeInv /\ PendingIsIndexed /\ [Next]_vars => PendingIsIndexed'
<1> SUFFICES ASSUME TypeInv, PendingIsIndexed, [Next]_vars
             PROVE  PendingIsIndexed'
  OBVIOUS
<1> USE DEF PendingIsIndexed
<1>1. outbox \in EntryRecords
  BY DEF TypeInv, TypeOK
<1>2. ASSUME outbox' = outbox
      PROVE  PendingIsIndexed'
  BY <1>2
<1>3. ASSUME NEW d \in Dispatchers, DispatcherStep(d)
      PROVE  PendingIsIndexed'
  <2>1. CASE CommitStage(d)
    BY <2>1 DEF CommitStage, FreshEntry
  <2>2. CASE MarkDispatched(d)
    BY <1>1, <2>2 DEF MarkDispatched, MarkedDispatched, EntryRecords
  <2>3. CASE RecordFailure(d)
    BY <1>1, <2>3 DEF RecordFailure, UpdateAllowed, EntryRecords
  <2>4. CASE Sweep(d) \/ Send(d) \/ SendRaises(d) \/ DispatcherStops(d)
    BY <1>2, <2>4 DEF Sweep, Send, SendRaises, DispatcherStops
  <2> QED
    BY <1>3, <2>1, <2>2, <2>3, <2>4 DEF DispatcherStep
<1>4. ASSUME NEW m \in Messages, MessageStep(m)
      PROVE  PendingIsIndexed'
  BY <1>2, <1>4 DEF MessageStep, Receive, Accept, HandleSucceeds, HandleFails, DeadLetter
<1>5. CASE CloseJob \/ IndexCatchesUp \/ JobViewCatchesUp \/ UNCHANGED vars
  BY <1>2, <1>5 DEF CloseJob, IndexCatchesUp, JobViewCatchesUp, vars
<1> QED
  BY <1>3, <1>4, <1>5 DEF Next

(* With any number of stages, processes and messages, _update_outbox leaves no PENDING     *)
(* entry out of the sweeper's index, and none in it that was dispatched.                    *)
THEOREM PendingStaysIndexed == Spec => []PendingIsIndexed
<1>1. Init => PendingIsIndexed
  BY DEF Init, PendingIsIndexed
<1> QED
  BY <1>1, StepKeepsIndexed, TypeInvariant, PTL DEF Spec

-----------------------------------------------------------------------------
(* No view of the Job is ahead of it, and no worker accepted a task ahead of the view.      *)
StartedIsSeen ==
    /\ jobView <= revision
    /\ \A t \in started : t <= jobView

(* StartedIsSeen is inductive relative to TypeInv. *)
LEMMA StepKeepsSeen == TypeInv /\ StartedIsSeen /\ [Next]_vars => StartedIsSeen'
<1> SUFFICES ASSUME TypeInv, StartedIsSeen, [Next]_vars
             PROVE  StartedIsSeen'
  OBVIOUS
<1> USE DEF StartedIsSeen
<1>1. /\ revision \in Int /\ jobView \in Int
      /\ \A t \in started : t \in Int
  BY BoundsAssumption DEF TypeInv, TypeOK, Revisions, Uncreated, Tasks
<1>2. CASE UNCHANGED <<revision, jobView, started>>
  BY <1>2
<1>3. CASE CloseJob
  BY <1>1, <1>3 DEF CloseJob
<1>4. CASE JobViewCatchesUp
  BY <1>1, <1>4 DEF JobViewCatchesUp
<1>5. ASSUME NEW d \in Dispatchers, DispatcherStep(d)
      PROVE  StartedIsSeen'
  <2>1. CASE CommitStage(d)
    BY <1>1, <2>1 DEF CommitStage
  <2> QED
    BY <1>2, <1>5, <2>1 DEF DispatcherStep, Sweep, Send, SendRaises, MarkDispatched,
                            RecordFailure, DispatcherStops
<1>6. ASSUME NEW m \in Messages, MessageStep(m)
      PROVE  StartedIsSeen'
  <2>1. CASE Accept(m)
    BY <1>1, <2>1 DEF Accept
  <2> QED
    BY <1>2, <1>6, <2>1 DEF MessageStep, Receive, HandleSucceeds, HandleFails, DeadLetter
<1>7. CASE IndexCatchesUp \/ UNCHANGED vars
  BY <1>2, <1>7 DEF IndexCatchesUp, vars
<1> QED
  BY <1>3, <1>4, <1>5, <1>6, <1>7 DEF Next

(* A message that goes from in flight to working was accepted. *)
LEMMA OnlyAcceptAccepts ==
    ASSUME TypeInv, Next, NEW m \in Messages, Accepts(m)
    PROVE  Accept(m)
<1>1. /\ message \in [Messages -> MessageRecords]
      /\ message[m].state = "inflight" /\ message'[m].state = "working"
  BY DEF TypeInv, TypeOK, Accepts
<1>2. ASSUME NEW n \in Messages, NEW task, Enqueue(n, task)
      PROVE  FALSE
  BY <1>1, <1>2 DEF Enqueue, MessageRecords
<1>3. message' # message
  BY <1>1
<1>4. PICK n \in Messages : MessageStep(n)
  <2>1. ASSUME NEW d \in Dispatchers, DispatcherStep(d)
        PROVE  FALSE
    BY <1>2, <1>3, <2>1 DEF DispatcherStep, CommitStage, Sweep, Send, SendRaises, MarkDispatched,
                            RecordFailure, DispatcherStops
  <2> QED
    BY <1>3, <2>1 DEF Next, CloseJob, IndexCatchesUp, JobViewCatchesUp
<1>5. CASE Accept(n)
  <2>1. n = m
    BY <1>1, <1>5 DEF Accept, MessageRecords
  <2> QED
    BY <1>5, <2>1
<1>6. CASE ~Accept(n)
  <2>1. \/ message' = [message EXCEPT ![n].state = "inflight", ![n].receives = @ + 1]
        \/ message' = [message EXCEPT ![n] = UnusedMessage]
        \/ message' = [message EXCEPT ![n].state = "visible"]
    BY <1>4, <1>6 DEF MessageStep, Receive, HandleSucceeds, HandleFails, DeadLetter, Release
  <2>2. message'[m].state \in {message[m].state, "inflight", "unused", "visible"}
    BY <1>1, <2>1 DEF MessageRecords, UnusedMessage
  <2> QED
    BY <1>1, <2>2
<1> QED
  BY <1>5, <1>6

(* Every acceptance, of a first delivery or of a later one, is of a committed task and of   *)
(* none behind one accepted before: the view through the lagging GSI1 only moves forward,   *)
(* it is never behind a task that was accepted, and only its own task is accepted.          *)
THEOREM AcceptedInOrderHolds == Spec => AcceptedInOrder
<1>1. Init => StartedIsSeen
  BY DEF Init, StartedIsSeen, Uncreated
<1>2. TypeInv /\ StartedIsSeen /\ [Next]_vars
      => [\A m \in Messages : Accepts(m) =>
             /\ message[m].task <= revision
             /\ \A u \in started : u <= message[m].task]_vars
  <2> SUFFICES ASSUME TypeInv, StartedIsSeen, Next, NEW m \in Messages, Accepts(m)
               PROVE  /\ message[m].task <= revision
                      /\ \A u \in started : u <= message[m].task
    OBVIOUS
  <2>1. Accept(m)
    BY OnlyAcceptAccepts
  <2>2. message[m].task = jobView
    BY <2>1 DEF Accept
  <2> QED
    BY <2>2 DEF StartedIsSeen
<1> QED
  BY <1>1, <1>2, StepKeepsSeen, TypeInvariant, PTL DEF Spec, AcceptedInOrder

-----------------------------------------------------------------------------
(* A task that reached the queue stays in it until it is handled or dead-lettered.          *)
SentIsAccounted ==
    \A t \in sent :
        \/ t \in handled \cup dead
        \/ \E m \in Messages : message[m].state # "unused" /\ message[m].task = t

(* A dispatching process keeps SentIsAccounted. *)
LEMMA DispatcherKeepsAccounts ==
    ASSUME TypeInv, SentIsAccounted, NEW d \in Dispatchers, DispatcherStep(d)
    PROVE  SentIsAccounted'
<1> USE DEF SentIsAccounted
<1>1. message \in [Messages -> MessageRecords]
  BY DEF TypeInv, TypeOK
<1>2. ASSUME UNCHANGED <<message, sent, handled, dead>>
      PROVE  SentIsAccounted'
  BY <1>2
<1>3. ASSUME NEW m \in Messages, Enqueue(m, dispatcher[d].task), UNCHANGED <<handled, dead>>
      PROVE  SentIsAccounted'
  <2> SUFFICES ASSUME NEW t \in sent', t \notin handled \cup dead
               PROVE  \E n \in Messages : message'[n].state # "unused" /\ message'[n].task = t
    BY <1>3
  <2>1. CASE t = dispatcher[d].task
    BY <1>1, <1>3, <2>1 DEF Enqueue
  <2>2. CASE t \in sent
    <3>1. PICK n \in Messages : message[n].state # "unused" /\ message[n].task = t
      BY <2>2
    <3>2. message'[n] = message[n]
      BY <1>1, <1>3, <3>1 DEF Enqueue
    <3> QED
      BY <3>1, <3>2
  <2> QED
    BY <1>3, <2>1, <2>2 DEF Enqueue
<1>4. CASE Send(d)
  BY <1>3, <1>4 DEF Send
<1>5. CASE SendRaises(d)
  BY <1>2, <1>3, <1>5 DEF SendRaises
<1> QED
  BY <1>2, <1>4, <1>5 DEF DispatcherStep, CommitStage, Sweep, MarkDispatched, RecordFailure,
                          DispatcherStops

(* A step of a message keeps SentIsAccounted. *)
LEMMA MessageKeepsAccounts ==
    ASSUME TypeInv, SentIsAccounted, NEW m \in Messages, MessageStep(m)
    PROVE  SentIsAccounted'
<1> USE DEF SentIsAccounted
<1>1. message \in [Messages -> MessageRecords]
  BY DEF TypeInv, TypeOK
<1>2. UNCHANGED sent /\ handled \subseteq handled' /\ dead \subseteq dead'
  BY DEF MessageStep, Receive, Accept, HandleSucceeds, HandleFails, DeadLetter
<1>3. \A n \in Messages \ {m} : message'[n] = message[n]
  BY <1>1 DEF MessageStep, Receive, Accept, HandleSucceeds, HandleFails, DeadLetter, Release
<1>4. \/ message'[m].state # "unused" /\ message'[m].task = message[m].task
      \/ message[m].task \in handled' \cup dead'
  <2>1. CASE Receive(m) \/ Accept(m) \/ HandleFails(m)
    BY <1>1, <2>1 DEF Receive, Accept, HandleFails, Release, MessageRecords
  <2>2. CASE HandleSucceeds(m) \/ DeadLetter(m)
    BY <2>2 DEF HandleSucceeds, DeadLetter
  <2> QED
    BY <2>1, <2>2 DEF MessageStep
<1> QED
  BY <1>2, <1>3, <1>4

(* SentIsAccounted is inductive relative to TypeInv. *)
LEMMA StepKeepsAccounts == TypeInv /\ SentIsAccounted /\ [Next]_vars => SentIsAccounted'
<1> SUFFICES ASSUME TypeInv, SentIsAccounted, [Next]_vars
             PROVE  SentIsAccounted'
  OBVIOUS
<1>1. CASE CloseJob \/ IndexCatchesUp \/ JobViewCatchesUp \/ UNCHANGED vars
  BY <1>1 DEF CloseJob, IndexCatchesUp, JobViewCatchesUp, vars, SentIsAccounted
<1> QED
  BY <1>1, DispatcherKeepsAccounts, MessageKeepsAccounts DEF Next

-----------------------------------------------------------------------------
(* The entry and the processes that mark it: with a single stage, whatever is marked        *)
(* DISPATCHED was sent.                                                                      *)
DispatchedWasSent ==
    /\ \A d \in Dispatchers : dispatcher[d].pc = "mark" => dispatcher[d].task \in sent
    /\ outbox.status = "DISPATCHED" => outbox.task \in sent
    /\ outbox.task = NoTask <=> outbox.status = "NONE"

(* With one stage, only a task that was sent is marked dispatched. *)
LEMMA StepKeepsDispatched ==
    ASSUME MaxRevision = 0, TypeInv, DispatchedWasSent, [Next]_vars
    PROVE  DispatchedWasSent'
<1> USE DEF DispatchedWasSent
<1>1. /\ outbox \in EntryRecords
      /\ dispatcher \in [Dispatchers -> DispatcherRecords]
      /\ \A d \in Dispatchers : dispatcher[d].pc # "idle" => dispatcher[d].task = 0
      /\ outbox.status # "NONE" => outbox.task = 0
  <2>1. Tasks = {0}
    BY DEF Tasks
  <2> QED
    BY <2>1 DEF TypeInv, TypeOK, BusyHaveTasks, EntryRecords, TaskOrNone
<1>2. CASE UNCHANGED <<outbox, dispatcher, sent>>
  BY <1>2
<1>3. ASSUME NEW d \in Dispatchers, DispatcherStep(d)
      PROVE  DispatchedWasSent'
  <2>1. CASE CommitStage(d)
    <3>1. revision' # NoTask
      BY <2>1, BoundsAssumption DEF CommitStage, TypeInv, TypeOK, Revisions, Uncreated, NoTask
    <3>2. outbox'.task = revision' /\ outbox'.status = "PENDING"
      BY <2>1 DEF CommitStage, FreshEntry
    <3>3. dispatcher' = [dispatcher EXCEPT ![d] = [pc |-> "send", task |-> revision']]
      BY <2>1 DEF CommitStage
    <3>4. sent' = sent
      BY <2>1 DEF CommitStage
    <3>5. \A e \in Dispatchers : dispatcher'[e].pc = "mark" => dispatcher'[e].task \in sent'
      BY <1>1, <3>3, <3>4
    <3> QED
      BY <3>1, <3>2, <3>5
  <2>2. CASE Sweep(d)
    BY <1>1, <2>2 DEF Sweep
  <2>3. CASE Send(d)
    BY <1>1, <2>3 DEF Send, Enqueue, GoTo, DispatcherRecords
  <2>4. CASE SendRaises(d)
    BY <1>1, <2>4 DEF SendRaises, Enqueue, GoTo, DispatcherRecords
  <2>5. CASE MarkDispatched(d)
    <3>1. \A e \in Dispatchers : dispatcher'[e].pc = "mark" => dispatcher'[e].task \in sent'
      BY <1>1, <2>5 DEF MarkDispatched, GoTo, IdleDispatcher, DispatcherRecords
    <3>2. CASE outbox' = outbox
      BY <2>5, <3>1, <3>2 DEF MarkDispatched
    <3>3. CASE outbox' = MarkedDispatched /\ UpdateAllowed
      <4>1. outbox'.task = outbox.task /\ outbox'.status = "DISPATCHED"
        BY <1>1, <3>3 DEF MarkedDispatched, EntryRecords
      <4>2. outbox.task = 0 /\ dispatcher[d].task = 0 /\ dispatcher[d].task \in sent
        BY <1>1, <2>5, <3>3 DEF MarkDispatched, UpdateAllowed
      <4>3. sent' = sent
        BY <2>5 DEF MarkDispatched
      <4> QED
        BY <3>1, <4>1, <4>2, <4>3 DEF NoTask
    <3> QED
      BY <2>5, <3>2, <3>3 DEF MarkDispatched
  <2>6. CASE RecordFailure(d)
    BY <1>1, <2>6 DEF RecordFailure, UpdateAllowed, IdleDispatcher, EntryRecords
  <2>7. CASE DispatcherStops(d)
    BY <1>1, <2>7 DEF DispatcherStops, IdleDispatcher
  <2> QED
    BY <1>3, <2>1, <2>2, <2>3, <2>4, <2>5, <2>6, <2>7 DEF DispatcherStep
<1>4. CASE \E m \in Messages : MessageStep(m)
  BY <1>2, <1>4 DEF MessageStep, Receive, Accept, HandleSucceeds, HandleFails, DeadLetter
<1>5. CASE CloseJob \/ IndexCatchesUp \/ JobViewCatchesUp \/ UNCHANGED vars
  BY <1>2, <1>5 DEF CloseJob, IndexCatchesUp, JobViewCatchesUp, vars
<1> QED
  BY <1>3, <1>4, <1>5 DEF Next

LossInv == TypeInv /\ SentIsAccounted /\ DispatchedWasSent

(* The inductive invariant of a single-stage Job holds in every reachable state. *)
LEMMA SingleStage ==
    ASSUME MaxRevision = 0
    PROVE  Spec => []LossInv
<1>1. Init => SentIsAccounted /\ DispatchedWasSent
  BY DEF Init, SentIsAccounted, DispatchedWasSent, IdleDispatcher
<1>2. Init => LossInv
  BY <1>1, InitialType DEF LossInv
<1>3. LossInv /\ [Next]_vars => LossInv'
  BY StepKeepsType, StepKeepsAccounts, StepKeepsDispatched DEF LossInv
<1> QED
  BY <1>2, <1>3, PTL DEF Spec

(* dispatch_entry's promise, for a Job of one stage and any number of concurrent             *)
(* dispatchers: a task that no process holds and that never reached the queue is PENDING.    *)
(* With a second stage it fails (run OutboxLost).                                            *)
THEOREM UnsentStaysRecoverable ==
    ASSUME MaxRevision = 0
    PROVE  Spec => []UnsentIsRecoverable
<1>1. LossInv => UnsentIsRecoverable
  BY DEF LossInv, TypeInv, TypeOK, EntryRecords, DispatchedWasSent, UnsentIsRecoverable
<1> QED
  BY <1>1, SingleStage, PTL

(* A Job of one stage never disappears: its task is pending, queued, handled or dead.        *)
THEOREM NothingLostSilently ==
    ASSUME MaxRevision = 0
    PROVE  Spec => []NoSilentLoss
<1>1. LossInv => NoSilentLoss
  BY DEF LossInv, TypeInv, TypeOK, EntryRecords, DispatchedWasSent, SentIsAccounted, NoSilentLoss
<1> QED
  BY <1>1, SingleStage, PTL

=============================================================================
