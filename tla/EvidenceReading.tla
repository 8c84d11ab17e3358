--------------------------- MODULE EvidenceReading ---------------------------
(***************************************************************************)
(* The read-only tools that supply evidence: the AWS adapters of the four  *)
(* resource kinds (agent/runtime/assume_role_*_resource_tool.py) and the   *)
(* GitHub snapshot tool, as an Assessment delivery (assessment/runtime.py) *)
(* and the re-read after an apply (live_deployment_ports.py) call them.    *)
(*                                                                         *)
(* Every view is put together from several API calls, and the account and  *)
(* the repository change between them.  An operation is a document, a view *)
(* of one resource or a list of a kind; its calls are an agenda that the   *)
(* answers extend.  A failed call ends the reading with nothing returned.  *)
(***************************************************************************)
EXTENDS Naturals, FiniteSets, SequencesExt, Selections

CONSTANTS
    Kinds,         \* the kinds that have an adapter here
    Resources,     \* identifiers, in the order a list returns them
    KindOf,        \* the kind of each resource
    Network,       \* the load balancers that are not application balancers
    Parts,         \* settings, volumes, groups and listeners, in list order
    ClassOf,       \* "required", "optional", "named" or "listener"
    PartsOf,       \* the parts a resource may have
    Commits,       \* commits of the repository
    Sizes,         \* the sizes of the Terraform files of each commit
    DocumentLimit, \* _MAX_DOCUMENT_BYTES
    PageSize,      \* items of a list response
    MaxPages,      \* _MAX_LIST_PAGES
    Accounts,      \* the sets of resources an account may start with
    Works,         \* the resources of an Assessment, in order
    Rereadable,    \* the kinds the re-read after an apply lists, in order
    Targets,       \* fixed commits or Branch
    Branch,        \* the target that follows HEAD
    MaxChanges,    \* how often the world may change
    MaxReadings,   \* readings started
    None

ASSUME LimitsAreNatural ==
    /\ PageSize \in Nat \ {0} /\ MaxPages \in Nat \ {0}
    /\ DocumentLimit \in Nat /\ MaxChanges \in Nat /\ MaxReadings \in Nat

ASSUME AccountsAreOfResources == Accounts \subseteq SUBSET ToSet(Resources)

ASSUME TargetsAreCommits == Targets \subseteq Commits \cup {Branch}

(* Identifiers are unique, and lists hold what they list.                   *)
ASSUME OrdersAreLists ==
    /\ Resources \in Seq(ToSet(Resources)) /\ IsInjective(Resources)
    /\ Parts \in Seq(ToSet(Parts)) /\ IsInjective(Parts)
    /\ Works \in Seq(ToSet(Resources))
    /\ Rereadable \in Seq(ToSet(Rereadable))

(* The four adapters, and the classes of parts each of them looks at.       *)
ASSUME PartsHaveAReader ==
    /\ Kinds \subseteq {"bucket", "instance", "database", "balancer"}
    /\ \A r \in ToSet(Resources) : PartsOf[r] \subseteq ToSet(Parts)
    /\ \A r \in ToSet(Resources) : \A p \in PartsOf[r] :
           /\ KindOf[r] = "bucket" => ClassOf[p] \in {"required", "optional"}
           /\ KindOf[r] \in {"instance", "database"} => ClassOf[p] = "named"
           /\ KindOf[r] = "balancer" => ClassOf[p] \in {"required", "optional", "listener"}

VARIABLES
    alive,     \* the resources that exist
    attached,  \* the parts each of them has
    good,      \* the parts whose value complies
    head,      \* the commit the branch points at
    changes,   \* how often the world changed
    readings,  \* readings started
    todo,      \* operations of the reading still to start
    current,   \* the operation under way or just finished
    agenda,    \* its API calls still to make
    noted,     \* what the answers said of each part of each resource
    listed,    \* the resources the pages of a list held
    returned,  \* the resources that have a view
    pinned,    \* the commit every document of this reading is read at
    documents, \* the commits of the documents read
    seen       \* what was true at some moment of the operation (history)

world == <<alive, attached, good, head, changes>>
answers == <<noted, listed, returned, documents>>
vars == <<world, readings, todo, current, agenda, answers, pinned, seen>>

----------------------------------------------------------------------------
(* History: what an operation may truthfully report *)

Value(p) == IF p \in good THEN "good" ELSE "bad"

Now == [alive  |-> alive,
        stayed |-> alive,
        with   |-> attached,
        held   |-> attached,
        values |-> [p \in ToSet(Parts) |-> {Value(p)}],
        heads  |-> {head}]

(* The history after a change of the world, in its next state. *)
Witness ==
    seen' = [alive  |-> seen.alive \cup alive',
             stayed |-> seen.stayed \cap alive',
             with   |-> [r \in ToSet(Resources) |-> seen.with[r] \cup attached'[r]],
             held   |-> [r \in ToSet(Resources) |-> seen.held[r] \cap attached'[r]],
             values |-> [p \in ToSet(Parts) |->
                            seen.values[p] \cup {IF p \in good' THEN "good" ELSE "bad"}],
             heads  |-> seen.heads \cup {head'}]

----------------------------------------------------------------------------
(* The customer's account and repository *)

Change ==
    /\ current # None /\ agenda \o todo # <<>>
    /\ changes < MaxChanges
    /\ changes' = changes + 1
    /\ Witness
    /\ UNCHANGED <<readings, todo, current, agenda, answers, pinned>>

CreateResource(r) ==
    /\ r \notin alive
    /\ alive' = alive \cup {r}
    /\ UNCHANGED <<attached, good, head>>
    /\ Change

DeleteResource(r) ==
    /\ r \in alive
    /\ alive' = alive \ {r}
    /\ attached' = [attached EXCEPT ![r] = {}]
    /\ UNCHANGED <<good, head>>
    /\ Change

Attach(r, p) ==
    /\ r \in alive
    /\ p \in PartsOf[r] \ attached[r]
    /\ attached' = [attached EXCEPT ![r] = @ \cup {p}]
    /\ UNCHANGED <<alive, good, head>>
    /\ Change

Detach(r, p) ==
    /\ p \in attached[r]
    /\ attached' = [attached EXCEPT ![r] = @ \ {p}]
    /\ UNCHANGED <<alive, good, head>>
    /\ Change

Revalue(p) ==
    /\ good' = IF p \in good THEN good \ {p} ELSE good \cup {p}
    /\ UNCHANGED <<alive, attached, head>>
    /\ Change

Push(c) ==
    /\ c # head
    /\ head' = c
    /\ UNCHANGED <<alive, attached, good>>
    /\ Change

----------------------------------------------------------------------------
(* Operations and their calls *)

Document == [op |-> "document", of |-> None]
View(r) == [op |-> "view", of |-> r]
List(k) == [op |-> "list", of |-> k]

Call(name, of, after, page) == [call |-> name, of |-> of, after |-> after, page |-> page]
OnlyCall(name, of) == Call(name, of, 0, 1)

Applicable(r) == Selected(Parts, PartsOf[r])

(* One call per setting, in the order of the parts. *)
SettingCalls(r) ==
    LET settings == Selected(Applicable(r),
                             {p \in PartsOf[r] : ClassOf[p] \in {"required", "optional"}})
    IN  [i \in DOMAIN settings |-> OnlyCall("setting", <<r, settings[i]>>)]

ListenerCall(r) == OnlyCall("listeners", r)

BalancerCalls(r) == <<ListenerCall(r)>> \o SettingCalls(r)

(* read_resource of each adapter *)
ReadCalls(r) ==
    IF KindOf[r] = "bucket" THEN SettingCalls(r) ELSE <<OnlyCall(KindOf[r], r)>>

CallsFor(operation) ==
    CASE operation.op = "document" -> <<OnlyCall("document", None)>>
      [] operation.op = "view"     -> ReadCalls(operation.of)
      [] operation.op = "list"     -> <<OnlyCall("page", operation.of)>>

(* A kind without an adapter is refused before any call. *)
IsRouted(operation) ==
    CASE operation.op = "document" -> TRUE
      [] operation.op = "view"     -> KindOf[operation.of] \in Kinds
      [] operation.op = "list"     -> operation.of \in Kinds

(* None is no operation. *)
ASSUME NoneIsNoOperation ==
    None \notin {Document} \cup {View(r) : r \in ToSet(Resources)}
                  \cup {List(k) : k \in ToSet(Rereadable)}

Unread == [r \in ToSet(Resources) |-> [p \in ToSet(Parts) |-> "absent"]]

(* A delivery collects, for each resource, the Terraform body and a view,  *)
(* and reads the view again for each Actual rule: one such read stands for *)
(* all, for each starts afresh.                                            *)
Collected(r) == <<Document, View(r)>>

LoadEvidence(r) == <<View(r)>>

WorkOperations(r) == Collected(r) \o LoadEvidence(r)

IsIdle == todo = <<>> /\ agenda = <<>>

Start(operations, commit) ==
    /\ IsIdle
    /\ readings < MaxReadings
    /\ readings' = readings + 1
    /\ todo' = operations
    /\ current' = None
    /\ pinned' = commit
    /\ documents' = {}
    /\ listed' = <<>>
    /\ returned' = {}
    /\ noted' = Unread
    /\ seen' = Now
    /\ UNCHANGED <<world, agenda>>

(* HEAD is resolved once, when a delivery loads its works. *)
ResolveCommit(target) == IF target = Branch THEN head ELSE target

StartDelivery(target) ==
    Start(FlattenSeq([i \in DOMAIN Works |-> WorkOperations(Works[i])]), ResolveCommit(target))

Reread == Start([i \in DOMAIN Rereadable |-> List(Rereadable[i])], None)

StartOperation ==
    /\ agenda = <<>> /\ todo # <<>>
    /\ IsRouted(Head(todo))
    /\ current' = Head(todo)
    /\ todo' = Tail(todo)
    /\ agenda' = CallsFor(Head(todo))
    /\ noted' = Unread
    /\ listed' = <<>>
    /\ returned' = {}
    /\ seen' = [Now EXCEPT !.heads = seen.heads \cup {head}]
    /\ UNCHANGED <<world, readings, pinned, documents>>

(* Throttling, a missing permission, an invalid or missing answer, no adapter. *)
Fail ==
    /\ agenda # <<>> \/ (todo # <<>> /\ ~IsRouted(Head(todo)))
    /\ agenda' = <<>>
    /\ todo' = <<>>
    /\ current' = None
    /\ noted' = Unread
    /\ listed' = <<>>
    /\ returned' = {}
    /\ documents' = {}
    /\ UNCHANGED <<world, readings, pinned, seen>>

Calling(name) == agenda # <<>> /\ Head(agenda).call = name

Continue(calls) ==
    /\ agenda' = calls \o Tail(agenda)
    /\ UNCHANGED <<world, readings, todo, current, pinned, seen>>

----------------------------------------------------------------------------
(* GitHub *)

HasTerraform(commit) == Sizes[commit] # <<>>

(* The Terraform body is refused when it is missing or too large. *)
IsReadable(commit) ==
    /\ HasTerraform(commit)
    /\ FoldSeq(+, 0, Sizes[commit]) <= DocumentLimit

(* Mutated form of CommitRead: each work reads the branch. *)
BranchRead == head

CommitRead == pinned

ReadDocument ==
    /\ Calling("document")
    /\ IsReadable(CommitRead)
    /\ documents' = documents \cup {CommitRead}
    /\ Continue(<<>>)
    /\ UNCHANGED <<noted, listed, returned>>

----------------------------------------------------------------------------
(* AWS *)

Position(x, order) == CHOOSE i \in DOMAIN order : order[i] = x

(* The items of a paginated answer after the token: those that exist now. *)
Following(items, order, after) ==
    Selected(order, {x \in items : Position(x, order) > after})

PageOf(rest) == SubSeq(rest, 1, IF Len(rest) < PageSize THEN Len(rest) ELSE PageSize)

(* Mutated form of HasMore: only the first page is read. *)
FirstPageOnly(rest) == FALSE

HasMore(rest) == Len(rest) > PageSize

(* The next page; a list that needs more than MaxPages is a failure. *)
Paginated(call, rest, order, following) ==
    IF HasMore(rest)
    THEN /\ call.page < MaxPages
         /\ Continue(<<[call EXCEPT !.after = Position(Last(PageOf(rest)), order),
                                    !.page = @ + 1]>>)
    ELSE Continue(following)

(* The parts an answer names, and whose values other calls read. *)
Named(r) == {p \in attached[r] : ClassOf[p] = "named"}

NoteNamed(rs) ==
    [r \in ToSet(Resources) |-> [p \in ToSet(Parts) |->
        IF r \in rs /\ p \in Named(r) THEN "named" ELSE noted[r][p]]]

AwaitValue(rs) == {p \in ToSet(Parts) : \E r \in rs : noted'[r][p] = "named"}

NamedCalls(rs) == IF AwaitValue(rs) = {} THEN <<>> ELSE <<OnlyCall("values", rs)>>

(* What list_resources of each adapter does with the pages it read: buckets *)
(* and instances are read one by one, databases are taken from the pages    *)
(* and their groups read together, balancers are completed one by one.      *)
BucketsListed(all) == FlattenSeq([i \in DOMAIN all |-> ReadCalls(all[i])])

InstancesListed(all) == FlattenSeq([i \in DOMAIN all |-> ReadCalls(all[i])])

SecurityGroupsFor(rs) == NamedCalls(rs)

DatabasesListed(all) == SecurityGroupsFor(ToSet(all))

BalancersListed(all) == FlattenSeq([i \in DOMAIN all |-> BalancerCalls(all[i])])

AfterList(kind, all) ==
    CASE kind = "bucket"   -> BucketsListed(all)
      [] kind = "instance" -> InstancesListed(all)
      [] kind = "database" -> DatabasesListed(all)
      [] kind = "balancer" -> BalancersListed(all)

ListPage ==
    /\ Calling("page")
    /\ LET call == Head(agenda)
           rest == Following({r \in alive : KindOf[r] = call.of}, Resources, call.after)
           page == Selected(PageOf(rest), ToSet(Resources) \ Network)
       IN  /\ listed' = listed \o page
           /\ returned' = returned \cup ToSet(page)
           /\ noted' = IF call.of = "database" THEN NoteNamed(ToSet(page)) ELSE noted
           /\ Paginated(call, rest, Resources, AfterList(call.of, listed'))
    /\ UNCHANGED documents

(* The resource itself; one that is gone fails the whole operation. *)
Described(r, names, calls) ==
    /\ r \in alive
    /\ noted' = names
    /\ returned' = returned \cup {r}
    /\ Continue(calls)
    /\ UNCHANGED <<listed, documents>>

DescribeInstance ==
    /\ Calling("instance")
    /\ LET r == Head(agenda).of IN Described(r, NoteNamed({r}), NamedCalls({r}))

DescribeDatabase ==
    /\ Calling("database")
    /\ LET r == Head(agenda).of IN Described(r, NoteNamed({r}), SecurityGroupsFor({r}))

DescribeBalancer ==
    /\ Calling("balancer")
    /\ Head(agenda).of \notin Network
    /\ LET r == Head(agenda).of IN Described(r, noted, BalancerCalls(r))

(* Mutated form of IsComplete: a partial answer is taken. *)
AnyAnswer(requested, answered) == TRUE

IsComplete(requested, answered) == requested \subseteq answered

(* Volumes, groups and subnets, asked for by name; the answer may lack some. *)
ReadValues ==
    /\ Calling("values")
    /\ \E answered \in SUBSET ToSet(Parts) :
        LET rs == Head(agenda).of
            requested == {p \in ToSet(Parts) : \E r \in rs : noted[r][p] = "named"}
        IN  /\ answered \subseteq requested
            /\ IsComplete(requested, answered)
            /\ noted' = [r \in ToSet(Resources) |-> [p \in ToSet(Parts) |->
                            IF noted[r][p] # "named" THEN noted[r][p]
                            ELSE IF p \in answered THEN Value(p) ELSE "absent"]]
    /\ Continue(<<>>)
    /\ UNCHANGED <<listed, returned, documents>>

(* A setting that is not configured: only the optional ones may be absent. *)
AbsenceIsAFact(r, p) == r \in alive /\ p \notin attached[r] /\ ClassOf[p] = "optional"

ReadSetting ==
    /\ Calling("setting")
    /\ LET r == Head(agenda).of[1]
           p == Head(agenda).of[2]
       IN  /\ returned' = returned \cup {r}
           /\ \/ /\ p \in attached[r]
                 /\ noted' = [noted EXCEPT ![r][p] = Value(p)]
              \/ AbsenceIsAFact(r, p) /\ UNCHANGED noted
    /\ Continue(<<>>)
    /\ UNCHANGED <<listed, documents>>

ListListeners ==
    /\ Calling("listeners")
    /\ LET call == Head(agenda)
           r == call.of
           rest == Following({p \in attached[r] : ClassOf[p] = "listener"}, Parts, call.after)
           page == ToSet(PageOf(rest))
       IN  /\ r \in alive
           /\ noted' = [noted EXCEPT ![r] =
                           [p \in ToSet(Parts) |-> IF p \in page THEN Value(p) ELSE @[p]]]
           /\ Paginated(call, rest, Parts, <<>>)
    /\ UNCHANGED <<listed, returned, documents>>

----------------------------------------------------------------------------

Init ==
    /\ alive \in Accounts
    /\ attached = [r \in ToSet(Resources) |-> IF r \in alive THEN PartsOf[r] ELSE {}]
    /\ good = ToSet(Parts)
    /\ head \in Commits
    /\ changes = 0
    /\ readings = 0
    /\ todo = <<>>
    /\ current = None
    /\ agenda = <<>>
    /\ noted = Unread
    /\ listed = <<>>
    /\ returned = {}
    /\ pinned = None
    /\ documents = {}
    /\ seen = Now

Next ==
    \/ \E r \in ToSet(Resources) : CreateResource(r) \/ DeleteResource(r)
    \/ \E r \in ToSet(Resources), p \in ToSet(Parts) : Attach(r, p) \/ Detach(r, p)
    \/ \E p \in ToSet(Parts) : Revalue(p)
    \/ \E c \in Commits : Push(c)
    \/ \E t \in Targets : StartDelivery(t)
    \/ Reread
    \/ StartOperation \/ Fail
    \/ ReadDocument \/ ListPage \/ ReadValues \/ ReadSetting \/ ListListeners
    \/ DescribeInstance \/ DescribeDatabase \/ DescribeBalancer

Spec == Init /\ [][Next]_vars

----------------------------------------------------------------------------
(* Properties *)

IsFinished(op) == agenda = <<>> /\ current # None /\ current.op = op

(* Every fact of a view was true at some moment of its read, and a part     *)
(* that a view lacks was missing at some moment of it: no error, partial    *)
(* answer or page limit of an adapter reads as an absent volume, group,     *)
(* listener or setting (ec2 tool:243-253, s3 tool:176-193, session:113-143).*)
ViewsAreWitnessed ==
    IsFinished("view") \/ IsFinished("list") =>
        \A r \in returned, p \in ToSet(Parts) :
            IF noted[r][p] = "absent"
            THEN p \notin seen.held[r]
            ELSE p \in seen.with[r] /\ noted[r][p] \in seen.values[p]

(* A finished list holds every resource of its kind that existed while it  *)
(* was read, and only resources that existed then, however the account     *)
(* changes between two pages (session:106-143; the re-read after an apply  *)
(* decides from these lists whether a violation is gone).                  *)
ListsAreComplete ==
    IsFinished("list") =>
        LET ofKind == {r \in ToSet(Resources) \ Network : KindOf[r] = current.of}
        IN  seen.stayed \cap ofKind \subseteq returned /\ returned \subseteq seen.alive

(* However the branch moves while the resources of a delivery are read,    *)
(* their documents are of one commit: the fixed one, or one the branch     *)
(* pointed at during the delivery (assessment/runtime.py:321-336).         *)
DocumentsAreOfOneCommit ==
    /\ Cardinality(documents) <= 1
    /\ documents \subseteq seen.heads \cup (Targets \ {Branch})
=============================================================================
