------------------------ MODULE EvidenceReadingProofs ------------------------
(***************************************************************************)
(* Proofs about EvidenceReading, for any resources, parts, accounts,       *)
(* repositories, page sizes and number of changes.                         *)
(*                                                                         *)
(* The inductive invariant says of each part of each resource under read   *)
(* that it is noted, or was missing at some moment, or that a call is      *)
(* still on the agenda that reads it; and of each resource of a list that  *)
(* it is listed, or was missing, or that the next page begins before it.   *)
(***************************************************************************)
EXTENDS EvidenceReading, SequenceLemmas, FiniteSetTheorems, TLAPS

AllResources == ToSet(Resources)

AllParts == ToSet(Parts)

Operations ==
    {Document} \cup {View(r) : r \in AllResources} \cup {List(k) : k \in ToSet(Rereadable)}

CallNames ==
    {"document", "page", "setting", "listeners", "values", "instance", "database", "balancer"}

Topics ==
    AllResources \cup (AllResources \X AllParts) \cup (SUBSET AllResources)
        \cup ToSet(Rereadable) \cup {None}

Calls == [call : CallNames, of : Topics, after : Nat, page : Nat]

Marks == {"absent", "named", "good", "bad"}

AccountIsSound ==
    /\ alive \subseteq AllResources
    /\ attached \in [AllResources -> SUBSET AllParts]
    /\ \A r \in AllResources :
           attached[r] \subseteq PartsOf[r] /\ (attached[r] # {} => r \in alive)

(* The history is the history of the world. *)
WorldInv ==
    /\ AccountIsSound
    /\ seen.stayed \subseteq alive /\ alive \subseteq seen.alive
    /\ \A r \in AllResources : seen.held[r] \subseteq attached[r] /\ attached[r] \subseteq seen.with[r]
    /\ \A p \in AllParts : Value(p) \in seen.values[p]
    /\ head \in seen.heads

(* What a call that is still to be made will say of the part p of r. *)
Reads(c, r, p) ==
    \/ c.call = "setting" /\ c.of = <<r, p>>
    \/ c.call \in {"instance", "database"} /\ c.of = r /\ ClassOf[p] = "named"
    \/ c.call = "balancer" /\ c.of = r
    \/ c.call = "listeners" /\ c.of = r /\ ClassOf[p] = "listener" /\ Position(p, Parts) > c.after
    \/ c.call = "page" /\ c.of # "database"

(* The call that will read the values of what is named in r. *)
Values(c, r, list) ==
    \/ c.call = "values" /\ r \in c.of
    \/ c.call = "page" /\ c.of = "database" /\ r \in list

(* The resources the operation op is about, as far as they are known. *)
Subjects(op, list) ==
    CASE op.op = "document" -> {}
      [] op.op = "view"     -> {op.of}
      [] op.op = "list"     -> list

IsAbout(c, op, subjects) ==
    CASE c.call = "document"  -> op = Document
      [] c.call = "page"      -> op.op = "list" /\ c.of = op.of
      [] c.call = "setting"   -> \E r \in subjects, p \in AllParts : c.of = <<r, p>>
      [] c.call = "values"    -> c.of \subseteq subjects
      [] c.call = "listeners" -> c.of \in subjects
      [] OTHER                -> c.of \in subjects /\ KindOf[c.of] = c.call

(* The calls to come are about the operation, and only the next one may be a page or a       *)
(* question for what is named.                                                               *)
AgendaInv ==
    /\ agenda \in Seq(Calls)
    /\ \A c \in ToSet(agenda) : IsAbout(c, current, Subjects(current, ToSet(listed)))
    /\ agenda # <<>> => \A c \in ToSet(Tail(agenda)) : c.call \notin {"page", "values"}

ListedInv ==
    /\ ToSet(listed) \subseteq AllResources /\ listed \in Seq(AllResources)
    /\ \A r \in ToSet(listed) : KindOf[r] = current.of
    /\ returned \subseteq Subjects(current, ToSet(listed))
    /\ current.op = "list" => returned = ToSet(listed)
    /\ returned \subseteq seen.alive

NotedInv ==
    /\ noted \in [AllResources -> [AllParts -> Marks]]
    /\ \A r \in AllResources, p \in AllParts : noted[r][p] # "absent" =>
          /\ p \in seen.with[r]
          /\ noted[r][p] # "named" => noted[r][p] \in seen.values[p]
          /\ noted[r][p] = "named" => \E c \in ToSet(agenda) : Values(c, r, ToSet(listed))

(* Nothing is overlooked. *)
PartsAreRead ==
    \A r \in Subjects(current, ToSet(listed)), p \in AllParts : noted[r][p] = "absent" =>
        p \notin seen.held[r] \/ \E c \in ToSet(agenda) : Reads(c, r, p)

PagesAreRead ==
    current.op = "list" =>
        \A r \in AllResources \ Network : KindOf[r] = current.of /\ r \in seen.stayed =>
            \/ r \in returned
            \/ \E c \in ToSet(agenda) : c.call = "page" /\ Position(r, Resources) > c.after

OperationInv ==
    current # None =>
        /\ current \in Operations /\ IsRouted(current)
        /\ AgendaInv /\ ListedInv /\ NotedInv /\ PartsAreRead /\ PagesAreRead

TodoInv ==
    /\ todo \in Seq(Operations)
    /\ current = None => agenda = <<>>

(* Documents are read at the commit the delivery resolved, which the branch pointed at. *)
CommitInv ==
    /\ documents \subseteq {pinned}
    /\ documents # {} \/ Document \in ToSet(todo) \/ current = Document =>
          pinned \in seen.heads \cup (Targets \ {Branch})

ReadingInv == WorldInv /\ TodoInv /\ CommitInv /\ OperationInv

-----------------------------------------------------------------------------
(* Sequences of calls *)

LEMMA HeadAndTail ==
    ASSUME NEW S, NEW s \in Seq(S), s # <<>>
    PROVE  /\ Head(s) \in S /\ Tail(s) \in Seq(S)
           /\ ToSet(s) = {Head(s)} \cup ToSet(Tail(s))
<1>1. PICK n \in Nat : n = Len(s) /\ DOMAIN s = 1 .. n /\ n > 0
  OBVIOUS
<1>2. PICK t \in Seq(S) : t = Tail(s)
  <2>1. Tail(s) \in Seq(S)
    BY HeadTailProperties
  <2> QED
    BY <2>1
<1>3. DOMAIN t = 1 .. n - 1 /\ \A i \in 1 .. n - 1 : t[i] = s[i + 1]
  BY <1>1, <1>2
<1>4. Head(s) = s[1] /\ 1 \in 1 .. n
  BY <1>1
<1>5. ASSUME NEW x \in ToSet(s), x # s[1]
      PROVE  x \in ToSet(t)
  <2>1. PICK i \in 1 .. n : x = s[i]
    BY <1>1 DEF ToSet
  <2>2. i # 1 /\ i - 1 \in 1 .. n - 1 /\ (i - 1) + 1 = i
    BY <1>5, <2>1
  <2>3. x = t[i - 1]
    BY <1>3, <2>1, <2>2
  <2> QED
    BY <1>3, <2>2, <2>3 DEF ToSet
<1>6. ASSUME NEW x \in ToSet(t)
      PROVE  x \in ToSet(s)
  <2>1. PICK i \in 1 .. n - 1 : x = t[i]
    BY <1>3 DEF ToSet
  <2>2. x = s[i + 1] /\ i + 1 \in 1 .. n
    BY <1>1, <1>3, <2>1
  <2> QED
    BY <1>1, <2>2 DEF ToSet
<1>7. s[1] \in ToSet(s)
  BY <1>1, <1>4 DEF ToSet
<1>8. s[1] \in S
  BY <1>1, <1>4
<1> QED
  BY <1>2, <1>4, <1>5, <1>6, <1>7, <1>8

(* What an agenda holds when its first call was answered and led to others. *)
LEMMA AgendaGoesOn ==
    ASSUME NEW S, NEW s \in Seq(S), s # <<>>, NEW more \in Seq(S)
    PROVE  /\ Head(s) \in S /\ ToSet(s) = {Head(s)} \cup ToSet(Tail(s))
           /\ more \o Tail(s) \in Seq(S)
           /\ ToSet(more \o Tail(s)) = ToSet(more) \cup ToSet(Tail(s))
           /\ more \o Tail(s) # <<>> =>
                 ToSet(Tail(more \o Tail(s))) \subseteq
                     (IF more = <<>> THEN {} ELSE ToSet(Tail(more))) \cup ToSet(Tail(s))
<1>1. PICK t \in Seq(S) : t = Tail(s)
  BY HeadAndTail
<1>2. PICK a \in Seq(S) : a = more \o t
  BY ConcatElements
<1>3. \A y : y \in ToSet(a) <=> y \in ToSet(more) \/ y \in ToSet(t)
  BY <1>2, ConcatElements
<1>4. Head(s) \in S /\ ToSet(s) = {Head(s)} \cup ToSet(t)
  BY <1>1, HeadAndTail
<1>5. a # <<>> => ToSet(Tail(a)) \subseteq (IF more = <<>> THEN {} ELSE ToSet(Tail(more))) \cup ToSet(t)
  <2>1. CASE more = <<>>
    <3>1. a = t
      BY <1>2, <2>1
    <3>2. t # <<>> => ToSet(Tail(t)) \subseteq ToSet(t)
      BY HeadAndTail
    <3> QED
      BY <2>1, <3>1, <3>2
  <2>2. CASE more # <<>>
    <3>1. PICK m \in Seq(S) : m = Tail(more)
      BY <2>2, HeadAndTail
    <3>2. Tail(a) = m \o t
      BY <1>2, <2>2, <3>1
    <3>3. \A y : y \in ToSet(m \o t) <=> y \in ToSet(m) \/ y \in ToSet(t)
      BY ConcatElements
    <3> QED
      BY <2>2, <3>1, <3>2, <3>3
  <2> QED
    BY <2>1, <2>2
<1> QED
  BY <1>1, <1>2, <1>3, <1>4, <1>5

LEMMA OneElement ==
    ASSUME NEW S, NEW x \in S
    PROVE  <<x>> \in Seq(S) /\ ToSet(<<x>>) = {x} /\ Tail(<<x>>) = <<>> /\ <<x>> # <<>>
BY DEF ToSet

LEMMA NoElement == ToSet(<<>>) = {}
BY DEF ToSet

-----------------------------------------------------------------------------
(* Pages *)

LEMMA PositionOf ==
    ASSUME NEW S, NEW order \in Seq(S), IsInjective(order), NEW i \in DOMAIN order
    PROVE  Position(order[i], order) = i
BY DEF Position, IsInjective

(* What follows the token is on the page, or follows the last item of the page. *)
LEMMA PageHoldsWhatFollows ==
    ASSUME NEW S, NEW order \in Seq(S), IsInjective(order), NEW items, NEW after \in Nat,
           NEW rest, rest = Following(items, order, after)
    PROVE  /\ PageOf(rest) \in Seq(S)
           /\ ToSet(PageOf(rest)) \subseteq items \cap ToSet(order)
           /\ HasMore(rest) => Position(Last(PageOf(rest)), order) \in Nat
           /\ \A x \in items \cap ToSet(order) : Position(x, order) > after =>
                 \/ x \in ToSet(PageOf(rest))
                 \/ HasMore(rest) /\ Position(x, order) > Position(Last(PageOf(rest)), order)
<1>1. PICK n \in Nat : n = Len(order) /\ DOMAIN order = 1 .. n
  OBVIOUS
<1>2. PICK wanted : wanted = {x \in items : Position(x, order) > after}
  OBVIOUS
<1>3. /\ rest \in Seq(S) /\ ToSet(rest) = ToSet(order) \cap wanted
      /\ IsInOrder(rest, order, n)
  BY <1>1, <1>2, SelectedSet, SelectedOrder DEF Following
<1>4. PICK m \in Nat : m = Len(rest) /\ DOMAIN rest = 1 .. m
  BY <1>3
<1>5. PICK k \in Nat : k = IF m < PageSize THEN m ELSE PageSize
  BY LimitsAreNatural
<1>6. PICK page : page = PageOf(rest)
  OBVIOUS
<1>7. k <= m /\ page = SubSeq(rest, 1, k)
  BY <1>4, <1>5, <1>6, LimitsAreNatural DEF PageOf
<1>8. page \in Seq(S) /\ DOMAIN page = 1 .. k /\ Len(page) = k /\ \A i \in 1 .. k : page[i] = rest[i]
  BY <1>3, <1>4, <1>7
<1>9. \A i \in 1 .. k : i \in 1 .. m
  BY <1>7
<1>10. ToSet(page) \subseteq ToSet(rest)
  BY <1>4, <1>8, <1>9 DEF ToSet
<1>11. HasMore(rest) => k = PageSize /\ k > 0 /\ Last(page) = rest[k] /\ k \in 1 .. m
  <2>1. HasMore(rest) => m > PageSize
    BY <1>4 DEF HasMore
  <2>2. HasMore(rest) => k = PageSize /\ k > 0 /\ k \in 1 .. k /\ k \in 1 .. m
    BY <1>5, <1>7, <2>1, LimitsAreNatural
  <2>3. HasMore(rest) => Last(page) = page[k]
    BY <1>8 DEF Last
  <2> QED
    BY <1>8, <2>2, <2>3
<1>12. \A j \in 1 .. m : \E i \in 1 .. n : rest[j] = order[i] /\ Position(rest[j], order) = i
  <2>1. \A j \in 1 .. m : \E i \in 1 .. n : rest[j] = order[i]
    BY <1>3, <1>4 DEF IsInOrder
  <2>2. \A i \in 1 .. n : Position(order[i], order) = i
    BY <1>1, PositionOf
  <2> QED
    BY <2>1, <2>2
<1>13. ASSUME NEW x \in items \cap ToSet(order), Position(x, order) > after, x \notin ToSet(page)
       PROVE  HasMore(rest) /\ Position(x, order) > Position(Last(page), order)
  <2>1. x \in ToSet(rest)
    BY <1>2, <1>3, <1>13
  <2>2. PICK j \in 1 .. m : x = rest[j]
    BY <1>4, <2>1 DEF ToSet
  <2>3. j \notin 1 .. k
    BY <1>8, <1>13, <2>2 DEF ToSet
  <2>4. j > k /\ k < m
    BY <2>2, <2>3
  <2>5. k = PageSize /\ HasMore(rest)
    BY <1>4, <1>5, <2>4, LimitsAreNatural DEF HasMore
  <2>6. PICK a \in 1 .. n : rest[k] = order[a] /\ Position(rest[k], order) = a
    BY <1>11, <1>12, <2>5
  <2>7. PICK b \in 1 .. n : rest[j] = order[b] /\ Position(rest[j], order) = b
    BY <1>12
  <2>8. a < b
    BY <1>3, <1>4, <1>11, <2>4, <2>5, <2>6, <2>7 DEF IsInOrder
  <2> QED
    BY <1>11, <2>2, <2>5, <2>6, <2>7, <2>8
<1>14. HasMore(rest) => Position(Last(page), order) \in Nat
  BY <1>11, <1>12
<1>15. ToSet(page) \subseteq items \cap ToSet(order)
  BY <1>2, <1>3, <1>10
<1> QED
  BY <1>6, <1>8, <1>13, <1>14, <1>15
-----------------------------------------------------------------------------
(* The calls of an operation *)

IsOf(c, r) ==
    /\ c.call \in {"setting", "listeners", "instance", "database", "balancer"}
    /\ c.call = "setting" => \E p \in AllParts : c.of = <<r, p>>
    /\ c.call # "setting" => c.of = r
    /\ c.call \in {"instance", "database", "balancer"} => KindOf[r] = c.call

(* The calls are about r and read each of its parts. *)
ReadAll(calls, r) ==
    /\ calls \in Seq(Calls)
    /\ \A c \in ToSet(calls) : IsOf(c, r)
    /\ \A p \in PartsOf[r] : \E c \in ToSet(calls) : Reads(c, r, p)

LEMMA CallIsTyped ==
    ASSUME NEW name \in CallNames, NEW of \in Topics, NEW after \in Nat, NEW page \in Nat
    PROVE  /\ Call(name, of, after, page) \in Calls /\ OnlyCall(name, of) \in Calls
           /\ OnlyCall(name, of) = Call(name, of, 0, 1)
BY DEF OnlyCall, Call, Calls

LEMMA CallOfSubject ==
    ASSUME NEW c, NEW r, IsOf(c, r), NEW op, NEW subjects, r \in subjects
    PROVE  IsAbout(c, op, subjects) /\ c.call \notin {"page", "values", "document"}
BY DEF IsOf, IsAbout

LEMMA PositionsArePositive ==
    ASSUME NEW S, NEW order \in Seq(S), IsInjective(order), NEW x \in ToSet(order)
    PROVE  Position(x, order) \in Nat \ {0}
<1>1. PICK n \in Nat : n = Len(order) /\ DOMAIN order = 1 .. n
  OBVIOUS
<1>2. PICK i \in 1 .. n : x = order[i]
  BY <1>1 DEF ToSet
<1>3. Position(x, order) = i
  BY <1>1, <1>2, PositionOf
<1> QED
  BY <1>3

LEMMA PartPositions == \A p \in AllParts : Position(p, Parts) \in Nat \ {0}
BY OrdersAreLists, PositionsArePositive DEF AllParts

LEMMA ResourcePositions == \A r \in AllResources : Position(r, Resources) \in Nat \ {0}
BY OrdersAreLists, PositionsArePositive DEF AllResources

LEMMA SettingFacts ==
    ASSUME NEW r \in AllResources
    PROVE  /\ SettingCalls(r) \in Seq(Calls)
           /\ \A c \in ToSet(SettingCalls(r)) : IsOf(c, r)
           /\ \A p \in PartsOf[r] : ClassOf[p] \in {"required", "optional"} =>
                 \E c \in ToSet(SettingCalls(r)) : Reads(c, r, p)
<1> DEFINE wanted == {p \in PartsOf[r] : ClassOf[p] \in {"required", "optional"}}
           settings == Selected(Applicable(r), wanted)
<1>1. PICK some : some = settings
  OBVIOUS
<1>2. PartsOf[r] \subseteq AllParts /\ Parts \in Seq(AllParts)
  BY PartsHaveAReader, OrdersAreLists DEF AllParts, AllResources
<1>3. Applicable(r) \in Seq(AllParts) /\ ToSet(Applicable(r)) = PartsOf[r]
  <2>1. PICK mine : mine = PartsOf[r]
    OBVIOUS
  <2>2. /\ Selected(Parts, mine) \in Seq(AllParts)
        /\ ToSet(Selected(Parts, mine)) = ToSet(Parts) \cap mine
    BY <1>2, SelectedSet
  <2> QED
    BY <1>2, <2>1, <2>2 DEF Applicable, AllParts
<1>4. some \in Seq(AllParts) /\ ToSet(some) = wanted
  BY <1>1, <1>3, SelectedSet
<1>5. PICK n \in Nat : n = Len(some) /\ DOMAIN some = 1 .. n
  BY <1>4
<1>6. PICK calls : calls = SettingCalls(r)
  OBVIOUS
<1>7. calls = [i \in 1 .. n |-> OnlyCall("setting", <<r, some[i]>>)]
  BY <1>1, <1>5, <1>6 DEF SettingCalls
<1>8. \A i \in 1 .. n : some[i] \in AllParts
  BY <1>4, <1>5
<1>9. \A i \in 1 .. n : OnlyCall("setting", <<r, some[i]>>) \in Calls
  BY <1>8, CallIsTyped DEF CallNames, Topics
<1>10. calls \in Seq(Calls) /\ DOMAIN calls = 1 .. n
  BY <1>7, <1>9
<1>11. ASSUME NEW c \in ToSet(calls)
       PROVE  IsOf(c, r)
  <2>1. PICK i \in 1 .. n : c = OnlyCall("setting", <<r, some[i]>>)
    BY <1>7, <1>10, <1>11 DEF ToSet
  <2> QED
    BY <1>8, <2>1 DEF IsOf, OnlyCall, Call
<1>12. ASSUME NEW p \in PartsOf[r], ClassOf[p] \in {"required", "optional"}
       PROVE  \E c \in ToSet(calls) : Reads(c, r, p)
  <2>1. p \in ToSet(some)
    BY <1>4, <1>12
  <2>2. PICK i \in 1 .. n : p = some[i]
    BY <1>5, <2>1 DEF ToSet
  <2>3. calls[i] \in ToSet(calls)
    BY <1>10 DEF ToSet
  <2>4. calls[i] = OnlyCall("setting", <<r, p>>)
    BY <1>7, <2>2
  <2>5. Reads(calls[i], r, p)
    BY <2>4 DEF Reads, OnlyCall, Call
  <2> QED
    BY <2>3, <2>5
<1> QED
  BY <1>6, <1>10, <1>11, <1>12

LEMMA BalancerFacts ==
    ASSUME NEW r \in AllResources, KindOf[r] = "balancer"
    PROVE  ReadAll(BalancerCalls(r), r)
<1>1. PICK calls \in Seq(Calls) : /\ calls = SettingCalls(r)
                                  /\ \A c \in ToSet(calls) : IsOf(c, r)
                                  /\ \A p \in PartsOf[r] : ClassOf[p] \in {"required", "optional"} =>
                                        \E c \in ToSet(calls) : Reads(c, r, p)
  BY SettingFacts
<1>2. PICK first \in Calls : first = ListenerCall(r)
  BY CallIsTyped DEF ListenerCall, CallNames, Topics
<1>3. PICK all \in Seq(Calls) : all = <<first>> \o calls
  BY OneElement, ConcatElements
<1>4. \A c : c \in ToSet(all) <=> c = first \/ c \in ToSet(calls)
  <2>1. <<first>> \in Seq(Calls) /\ ToSet(<<first>>) = {first}
    BY OneElement
  <2> QED
    BY <1>3, <2>1, ConcatElements
<1>5. IsOf(first, r)
  BY <1>2 DEF IsOf, ListenerCall, OnlyCall, Call
<1>6. ASSUME NEW p \in PartsOf[r]
      PROVE  \E c \in ToSet(all) : Reads(c, r, p)
  <2>1. p \in AllParts /\ ClassOf[p] \in {"required", "optional", "listener"}
    BY PartsHaveAReader DEF AllParts, AllResources
  <2>2. CASE ClassOf[p] = "listener"
    <3>1. Position(p, Parts) > 0
      BY <2>1, PartPositions
    <3>2. Reads(first, r, p)
      BY <1>2, <2>2, <3>1 DEF Reads, ListenerCall, OnlyCall, Call
    <3> QED
      BY <1>4, <3>2
  <2>3. CASE ClassOf[p] \in {"required", "optional"}
    BY <1>1, <1>4, <2>3
  <2> QED
    BY <2>1, <2>2, <2>3
<1> QED
  BY <1>1, <1>2, <1>3, <1>4, <1>5, <1>6 DEF BalancerCalls, ReadAll

LEMMA ReadFacts ==
    ASSUME NEW r \in AllResources, KindOf[r] \in Kinds
    PROVE  ReadAll(ReadCalls(r), r)
<1>1. CASE KindOf[r] = "bucket"
  <2>1. \A p \in PartsOf[r] : ClassOf[p] \in {"required", "optional"}
    BY <1>1, PartsHaveAReader DEF AllResources
  <2> QED
    BY <1>1, <2>1, SettingFacts DEF ReadCalls, ReadAll
<1>2. CASE KindOf[r] # "bucket"
  <2>1. KindOf[r] \in {"instance", "database", "balancer"}
    BY <1>2, PartsHaveAReader
  <2>2. PICK c \in Calls : c = OnlyCall(KindOf[r], r)
    BY <2>1, CallIsTyped DEF CallNames, Topics
  <2>3. ReadCalls(r) = <<c>> /\ <<c>> \in Seq(Calls) /\ ToSet(<<c>>) = {c}
    BY <1>2, <2>2, OneElement DEF ReadCalls
  <2>4. IsOf(c, r)
    BY <2>1, <2>2 DEF IsOf, OnlyCall, Call
  <2>5. \A p \in PartsOf[r] : Reads(c, r, p)
    <3>1. KindOf[r] # "balancer" => \A p \in PartsOf[r] : ClassOf[p] = "named"
      BY <2>1, PartsHaveAReader DEF AllResources
    <3> QED
      BY <2>1, <2>2, <3>1 DEF Reads, OnlyCall, Call
  <2> QED
    BY <2>3, <2>4, <2>5 DEF ReadAll
<1> QED
  BY <1>1, <1>2

(* The calls that follow a list are about what it held, and read all of it. *)
ReadEach(calls, list) ==
    /\ calls \in Seq(Calls)
    /\ \A c \in ToSet(calls) : \E r \in list : IsOf(c, r)
    /\ \A r \in list : \A p \in PartsOf[r] : \E c \in ToSet(calls) : Reads(c, r, p)

LEMMA FlattenedReads ==
    ASSUME NEW all \in Seq(AllResources), NEW of, of = [i \in DOMAIN all |-> of[i]],
           \A i \in DOMAIN all : ReadAll(of[i], all[i])
    PROVE  ReadEach(FlattenSeq(of), ToSet(all))
<1>1. PICK n \in Nat : n = Len(all) /\ DOMAIN all = 1 .. n
  OBVIOUS
<1>2. \A i \in 1 .. n : of[i] \in Seq(Calls)
  BY <1>1 DEF ReadAll
<1>3. of \in Seq(Seq(Calls)) /\ DOMAIN of = 1 .. n
  BY <1>1, <1>2
<1>4. PICK calls : calls = FlattenSeq(of)
  OBVIOUS
<1>5. calls \in Seq(Calls) /\ ToSet(calls) = UNION {ToSet(of[i]) : i \in 1 .. n}
  BY <1>3, <1>4, FlattenedSet
<1>6. \A i \in 1 .. n : all[i] \in ToSet(all)
  BY <1>1 DEF ToSet
<1>7. ASSUME NEW c \in ToSet(calls)
      PROVE  \E r \in ToSet(all) : IsOf(c, r)
  <2>1. PICK i \in 1 .. n : c \in ToSet(of[i])
    BY <1>5, <1>7
  <2>2. IsOf(c, all[i])
    BY <1>1, <2>1 DEF ReadAll
  <2> QED
    BY <1>6, <2>2
<1>8. ASSUME NEW r \in ToSet(all), NEW p \in PartsOf[r]
      PROVE  \E c \in ToSet(calls) : Reads(c, r, p)
  <2>1. PICK i \in 1 .. n : r = all[i]
    BY <1>1, <1>8 DEF ToSet
  <2>2. PICK c \in ToSet(of[i]) : Reads(c, r, p)
    BY <1>1, <1>8, <2>1 DEF ReadAll
  <2> QED
    BY <1>5, <2>2
<1> QED
  BY <1>4, <1>5, <1>7, <1>8 DEF ReadEach

LEMMA ListReads ==
    ASSUME NEW kind \in Kinds \ {"database"}, NEW all \in Seq(AllResources),
           \A r \in ToSet(all) : KindOf[r] = kind
    PROVE  ReadEach(AfterList(kind, all), ToSet(all))
<1>1. kind \in {"bucket", "instance", "balancer"}
  BY PartsHaveAReader
<1>2. \A i \in DOMAIN all : all[i] \in AllResources /\ KindOf[all[i]] = kind
  BY DEF ToSet
<1>3. CASE kind \in {"bucket", "instance"}
  <2>1. PICK of : of = [i \in DOMAIN all |-> ReadCalls(all[i])]
    OBVIOUS
  <2>2. of = [i \in DOMAIN all |-> of[i]] /\ \A i \in DOMAIN all : ReadAll(of[i], all[i])
    BY <1>2, <2>1, ReadFacts
  <2>3. ReadEach(FlattenSeq(of), ToSet(all))
    BY <2>2, FlattenedReads
  <2>4. AfterList(kind, all) = FlattenSeq(of)
    BY <1>3, <2>1 DEF AfterList, BucketsListed, InstancesListed
  <2> QED
    BY <2>3, <2>4
<1>4. CASE kind = "balancer"
  <2>1. PICK of : of = [i \in DOMAIN all |-> BalancerCalls(all[i])]
    OBVIOUS
  <2>2. of = [i \in DOMAIN all |-> of[i]] /\ \A i \in DOMAIN all : ReadAll(of[i], all[i])
    BY <1>2, <1>4, <2>1, BalancerFacts
  <2>3. ReadEach(FlattenSeq(of), ToSet(all))
    BY <2>2, FlattenedReads
  <2>4. AfterList(kind, all) = FlattenSeq(of)
    BY <1>4, <2>1 DEF AfterList, BalancersListed
  <2> QED
    BY <2>3, <2>4
<1> QED
  BY <1>1, <1>3, <1>4
-----------------------------------------------------------------------------
(* The world changes *)

WorldStep ==
    \/ \E r \in AllResources : CreateResource(r) \/ DeleteResource(r)
    \/ \E r \in AllResources, p \in AllParts : Attach(r, p) \/ Detach(r, p)
    \/ \E p \in AllParts : Revalue(p)
    \/ \E c \in Commits : Push(c)

HistoryGrows ==
    /\ seen.alive \subseteq seen'.alive /\ seen'.stayed \subseteq seen.stayed
    /\ \A r \in AllResources : seen.with[r] \subseteq seen'.with[r]
                               /\ seen'.held[r] \subseteq seen.held[r]
    /\ \A p \in AllParts : seen.values[p] \subseteq seen'.values[p]
    /\ seen.heads \subseteq seen'.heads

LEMMA WitnessGrows ==
    ASSUME Witness
    PROVE  /\ HistoryGrows
           /\ seen'.stayed \subseteq alive' /\ alive' \subseteq seen'.alive
           /\ \A r \in AllResources : seen'.held[r] \subseteq attached'[r]
                                      /\ attached'[r] \subseteq seen'.with[r]
           /\ \A p \in AllParts : Value(p)' \in seen'.values[p]
           /\ head' \in seen'.heads
<1>1. /\ seen'.alive = seen.alive \cup alive' /\ seen'.stayed = seen.stayed \cap alive'
      /\ seen'.with = [r \in AllResources |-> seen.with[r] \cup attached'[r]]
      /\ seen'.held = [r \in AllResources |-> seen.held[r] \cap attached'[r]]
      /\ seen'.values = [p \in AllParts |->
                            seen.values[p] \cup {IF p \in good' THEN "good" ELSE "bad"}]
      /\ seen'.heads = seen.heads \cup {head'}
  BY DEF Witness, AllResources, AllParts
<1>2. \A p \in AllParts : Value(p)' = IF p \in good' THEN "good" ELSE "bad"
  BY DEF Value
<1>3. \A p \in AllParts : seen.values[p] \subseteq seen'.values[p] /\ Value(p)' \in seen'.values[p]
  BY <1>1, <1>2
<1> QED
  BY <1>1, <1>3 DEF HistoryGrows

LEMMA WorldStepIsWitnessed ==
    ASSUME WorldInv, WorldStep
    PROVE  WorldInv' /\ HistoryGrows /\ Change
<1>1. Change
  BY DEF WorldStep, CreateResource, DeleteResource, Attach, Detach, Revalue, Push
<1>2. AccountIsSound'
  <2>1. AccountIsSound
    BY DEF WorldInv
  <2> USE DEF AccountIsSound
  <2>2. ASSUME NEW r \in AllResources, CreateResource(r) PROVE AccountIsSound'
    BY <2>1, <2>2 DEF CreateResource
  <2>3. ASSUME NEW r \in AllResources, DeleteResource(r) PROVE AccountIsSound'
    BY <2>1, <2>3 DEF DeleteResource
  <2>4. ASSUME NEW r \in AllResources, NEW p \in AllParts, Attach(r, p) PROVE AccountIsSound'
    BY <2>1, <2>4 DEF Attach
  <2>5. ASSUME NEW r \in AllResources, NEW p \in AllParts, Detach(r, p) PROVE AccountIsSound'
    BY <2>1, <2>5 DEF Detach
  <2>6. ASSUME UNCHANGED <<alive, attached>> PROVE AccountIsSound'
    BY <2>1, <2>6
  <2>7. (\E p \in AllParts : Revalue(p)) \/ (\E c \in Commits : Push(c)) => UNCHANGED <<alive, attached>>
    BY DEF Revalue, Push
  <2> QED
    BY <2>2, <2>3, <2>4, <2>5, <2>6, <2>7 DEF WorldStep
<1>3. Witness
  BY <1>1 DEF Change
<1> QED
  BY <1>1, <1>2, <1>3, WitnessGrows DEF WorldInv

LEMMA WorldStepPreserves ==
    ASSUME ReadingInv, WorldStep
    PROVE  ReadingInv'
<1>1. WorldInv' /\ HistoryGrows
  BY WorldStepIsWitnessed DEF ReadingInv
<1>2. UNCHANGED <<todo, current, agenda, noted, listed, returned, documents, pinned>>
  BY WorldStepIsWitnessed DEF ReadingInv, Change, answers
<1>3. TodoInv'
  BY <1>2 DEF ReadingInv, TodoInv
<1>4. CommitInv'
  BY <1>1, <1>2 DEF ReadingInv, CommitInv, HistoryGrows
<1>5. ASSUME current # None
      PROVE  AgendaInv' /\ ListedInv' /\ NotedInv' /\ PartsAreRead' /\ PagesAreRead'
  <2>1. AgendaInv /\ ListedInv /\ NotedInv /\ PartsAreRead /\ PagesAreRead /\ current \in Operations
    BY <1>5 DEF ReadingInv, OperationInv
  <2>2. AgendaInv'
    BY <1>2, <2>1 DEF AgendaInv
  <2>3. ListedInv'
    BY <1>1, <1>2, <2>1 DEF ListedInv, HistoryGrows
  <2>4. NotedInv'
    BY <1>1, <1>2, <2>1 DEF NotedInv, HistoryGrows
  <2>5. Subjects(current, ToSet(listed)) \subseteq AllResources
    BY <2>1 DEF Operations, Subjects, ListedInv, Document, View, List
  <2>6. PartsAreRead'
    BY <1>1, <1>2, <2>1, <2>5 DEF PartsAreRead, HistoryGrows
  <2>7. PagesAreRead'
    BY <1>1, <1>2, <2>1 DEF PagesAreRead, HistoryGrows
  <2> QED
    BY <2>2, <2>3, <2>4, <2>6, <2>7
<1>6. OperationInv'
  BY <1>2, <1>5 DEF ReadingInv, OperationInv, IsRouted
<1> QED
  BY <1>1, <1>3, <1>4, <1>6 DEF ReadingInv
-----------------------------------------------------------------------------
(* Readings and operations begin and end *)

LEMMA NowIsWitnessed ==
    ASSUME AccountIsSound
    PROVE  /\ Now.stayed \subseteq alive /\ alive \subseteq Now.alive
           /\ \A r \in AllResources : Now.held[r] \subseteq attached[r]
                                      /\ attached[r] \subseteq Now.with[r]
           /\ \A p \in AllParts : Value(p) \in Now.values[p]
           /\ Now.heads = {head}
BY DEF Now, AllParts

LEMMA InitialReading == Init => ReadingInv
<1> SUFFICES ASSUME Init PROVE ReadingInv
  OBVIOUS
<1>1. AccountIsSound
  <2>1. alive \subseteq AllResources
    BY AccountsAreOfResources DEF Init, AllResources
  <2>2. \A r \in AllResources : PartsOf[r] \subseteq AllParts
    BY PartsHaveAReader DEF AllResources, AllParts
  <2> QED
    BY <2>1, <2>2 DEF Init, AccountIsSound, AllResources
<1>2. WorldInv
  BY <1>1, NowIsWitnessed DEF Init, WorldInv
<1>3. TodoInv /\ OperationInv
  BY DEF Init, TodoInv, OperationInv
<1>4. CommitInv
  <2>1. Document # None
    BY NoneIsNoOperation
  <2>2. Document \notin ToSet(todo)
    BY NoElement DEF Init
  <2> QED
    BY <2>1, <2>2 DEF Init, CommitInv
<1> QED
  BY <1>2, <1>3, <1>4 DEF ReadingInv

LEMMA StartPreserves ==
    ASSUME ReadingInv, NEW operations \in Seq(Operations), NEW commit,
           Start(operations, commit),
           Document \in ToSet(operations) => commit \in {head} \cup (Targets \ {Branch})
    PROVE  ReadingInv'
<1>1. /\ UNCHANGED <<alive, attached, good, head, agenda>>
      /\ seen' = Now /\ todo' = operations /\ current' = None
      /\ documents' = {} /\ pinned' = commit /\ agenda = <<>>
  BY DEF Start, world, IsIdle
<1>2. AccountIsSound /\ AccountIsSound'
  BY <1>1 DEF ReadingInv, WorldInv, AccountIsSound
<1>3. WorldInv'
  BY <1>1, <1>2, NowIsWitnessed DEF WorldInv, Value
<1>4. TodoInv' /\ OperationInv'
  BY <1>1 DEF TodoInv, OperationInv
<1>5. CommitInv'
  <2>1. Document # None
    BY NoneIsNoOperation
  <2>2. Now.heads = {head}
    BY DEF Now
  <2> QED
    BY <1>1, <2>1, <2>2 DEF CommitInv
<1> QED
  BY <1>3, <1>4, <1>5 DEF ReadingInv

LEMMA StartDeliveryPreserves ==
    ASSUME ReadingInv, NEW target \in Targets, StartDelivery(target)
    PROVE  ReadingInv'
<1>1. PICK n \in Nat : n = Len(Works) /\ DOMAIN Works = 1 .. n
  BY OrdersAreLists
<1>2. PICK of : of = [i \in 1 .. n |-> WorkOperations(Works[i])]
  OBVIOUS
<1>3. \A i \in 1 .. n : WorkOperations(Works[i]) \in Seq(Operations)
  <2>1. ASSUME NEW i \in 1 .. n PROVE WorkOperations(Works[i]) \in Seq(Operations)
    <3>1. Works[i] \in AllResources
      BY <1>1, OrdersAreLists DEF AllResources
    <3>2. PICK v \in Operations : v = View(Works[i])
      BY <3>1 DEF Operations
    <3>3. PICK d \in Operations : d = Document
      BY DEF Operations
    <3>4. WorkOperations(Works[i]) = <<d, v>> \o <<v>>
      BY <3>2, <3>3 DEF WorkOperations, Collected, LoadEvidence
    <3> QED
      BY <3>4
  <2> QED
    BY <2>1
<1>4. of \in Seq(Seq(Operations))
  BY <1>2, <1>3
<1>5. PICK operations \in Seq(Operations) : operations = FlattenSeq(of)
  BY <1>4, FlattenedSet
<1>6. ResolveCommit(target) \in {head} \cup (Targets \ {Branch})
  BY DEF ResolveCommit
<1>7. Start(operations, ResolveCommit(target))
  BY <1>1, <1>2, <1>5 DEF StartDelivery
<1>8. PICK commit : commit = ResolveCommit(target)
  OBVIOUS
<1> QED
  BY <1>5, <1>6, <1>7, <1>8, StartPreserves

LEMMA RereadPreserves ==
    ASSUME ReadingInv, Reread
    PROVE  ReadingInv'
<1>1. PICK n \in Nat : n = Len(Rereadable) /\ DOMAIN Rereadable = 1 .. n
  BY OrdersAreLists
<1>2. PICK operations : operations = [i \in 1 .. n |-> List(Rereadable[i])]
  OBVIOUS
<1>3. \A i \in 1 .. n : Rereadable[i] \in ToSet(Rereadable)
  BY <1>1 DEF ToSet
<1>4. \A i \in 1 .. n : List(Rereadable[i]) \in Operations
  BY <1>3 DEF Operations
<1>5. operations \in Seq(Operations)
  BY <1>2, <1>4
<1>6. Document \notin ToSet(operations)
  BY <1>1, <1>2 DEF ToSet, Document, List
<1>7. Start(operations, None)
  BY <1>1, <1>2 DEF Reread
<1> QED
  BY <1>5, <1>6, <1>7, StartPreserves

LEMMA FailPreserves ==
    ASSUME ReadingInv, Fail
    PROVE  ReadingInv'
<1>1. /\ UNCHANGED <<alive, attached, good, head, pinned, seen>>
      /\ agenda' = <<>> /\ todo' = <<>> /\ current' = None /\ documents' = {}
  BY DEF Fail, world
<1>2. WorldInv'
  BY <1>1 DEF ReadingInv, WorldInv, AccountIsSound, Value
<1>3. TodoInv' /\ OperationInv'
  BY <1>1 DEF TodoInv, OperationInv
<1>4. CommitInv'
  <2>1. Document # None
    BY NoneIsNoOperation
  <2> QED
    BY <1>1, <2>1, NoElement DEF CommitInv
<1> QED
  BY <1>2, <1>3, <1>4 DEF ReadingInv

(* The first calls of an operation read each part it is about. *)
AreFirst(calls, op) ==
    /\ calls \in Seq(Calls)
    /\ \A c \in ToSet(calls) : IsAbout(c, op, Subjects(op, {})) /\ c.call # "values"
    /\ calls # <<>> => \A c \in ToSet(Tail(calls)) : c.call \notin {"page", "values"}
    /\ \A r \in Subjects(op, {}) :
           /\ r \in AllResources
           /\ \A p \in PartsOf[r] : \E c \in ToSet(calls) : Reads(c, r, p)
    /\ op.op = "list" => \E c \in ToSet(calls) : c.call = "page" /\ c.after = 0

LEMMA FirstCalls ==
    ASSUME NEW op \in Operations, IsRouted(op)
    PROVE  AreFirst(CallsFor(op), op)
<1>1. CASE op = Document
  <2>1. PICK c \in Calls : c = OnlyCall("document", None)
    BY CallIsTyped DEF CallNames, Topics
  <2>2. CallsFor(op) = <<c>> /\ op.op = "document"
    BY <1>1, <2>1 DEF CallsFor, Document
  <2>3. <<c>> \in Seq(Calls) /\ ToSet(<<c>>) = {c} /\ Tail(<<c>>) = <<>>
    BY OneElement
  <2>4. IsAbout(c, op, Subjects(op, {})) /\ c.call # "values"
    BY <1>1, <2>1 DEF IsAbout, OnlyCall, Call
  <2>5. Subjects(op, {}) = {}
    BY <2>2 DEF Subjects
  <2> QED
    BY <2>2, <2>3, <2>4, <2>5, NoElement DEF AreFirst
<1>2. ASSUME NEW r \in AllResources, op = View(r)
      PROVE  AreFirst(CallsFor(op), op)
  <2>1. op.op = "view" /\ op.of = r /\ KindOf[r] \in Kinds
    BY <1>2 DEF View, IsRouted
  <2>2. PICK calls : calls = ReadCalls(r)
    OBVIOUS
  <2>3. ReadAll(calls, r)
    BY <2>1, <2>2, ReadFacts
  <2>4. CallsFor(op) = calls
    BY <2>1, <2>2 DEF CallsFor
  <2>5. Subjects(op, {}) = {r}
    BY <2>1 DEF Subjects
  <2>6. \A c \in ToSet(calls) : IsAbout(c, op, {r}) /\ c.call \notin {"page", "values"}
    BY <2>3, CallOfSubject DEF ReadAll
  <2>7. calls \in Seq(Calls) /\ (calls # <<>> => ToSet(Tail(calls)) \subseteq ToSet(calls))
    <3>1. calls \in Seq(Calls)
      BY <2>3 DEF ReadAll
    <3> QED
      BY <3>1, HeadAndTail
  <2> QED
    BY <2>1, <2>3, <2>4, <2>5, <2>6, <2>7 DEF AreFirst, ReadAll
<1>3. ASSUME NEW k \in ToSet(Rereadable), op = List(k)
      PROVE  AreFirst(CallsFor(op), op)
  <2>1. op.op = "list" /\ op.of = k
    BY <1>3 DEF List
  <2>2. PICK c \in Calls : c = OnlyCall("page", k)
    BY CallIsTyped DEF CallNames, Topics
  <2>3. CallsFor(op) = <<c>>
    BY <2>1, <2>2 DEF CallsFor
  <2>4. <<c>> \in Seq(Calls) /\ ToSet(<<c>>) = {c} /\ Tail(<<c>>) = <<>>
    BY OneElement
  <2>5. IsAbout(c, op, Subjects(op, {})) /\ c.call = "page" /\ c.after = 0
    BY <2>1, <2>2 DEF IsAbout, OnlyCall, Call
  <2>6. Subjects(op, {}) = {}
    BY <2>1 DEF Subjects
  <2> QED
    BY <2>3, <2>4, <2>5, <2>6, NoElement DEF AreFirst
<1> QED
  BY <1>1, <1>2, <1>3 DEF Operations

LEMMA StartOperationPreserves ==
    ASSUME ReadingInv, StartOperation
    PROVE  ReadingInv'
<1>1. /\ UNCHANGED <<alive, attached, good, head, documents, pinned>>
      /\ seen' = [Now EXCEPT !.heads = seen.heads \cup {head}]
      /\ todo' = Tail(todo) /\ todo # <<>> /\ current' = Head(todo)
      /\ agenda' = CallsFor(Head(todo)) /\ IsRouted(Head(todo))
      /\ noted' = Unread /\ listed' = <<>> /\ returned' = {}
  BY DEF StartOperation, world
<1>2. /\ seen'.alive = Now.alive /\ seen'.stayed = Now.stayed /\ seen'.with = Now.with
      /\ seen'.held = Now.held /\ seen'.values = Now.values
      /\ seen'.heads = seen.heads \cup {head}
  BY <1>1 DEF Now
<1>3. AccountIsSound /\ AccountIsSound'
  BY <1>1 DEF ReadingInv, WorldInv, AccountIsSound
<1>4. WorldInv'
  BY <1>1, <1>2, <1>3, NowIsWitnessed DEF WorldInv, Value
<1>5. PICK op : op = Head(todo)
  OBVIOUS
<1>6. /\ op \in Operations /\ Tail(todo) \in Seq(Operations)
      /\ ToSet(todo) = {op} \cup ToSet(Tail(todo))
  BY <1>1, <1>5, HeadAndTail DEF ReadingInv, TodoInv
<1>7. TodoInv'
  BY <1>1, <1>5, <1>6, NoneIsNoOperation DEF TodoInv, Operations, AllResources
<1>8. CommitInv'
  BY <1>1, <1>2, <1>5, <1>6 DEF ReadingInv, CommitInv
<1>9. PICK calls : calls = CallsFor(op)
  OBVIOUS
<1>10. AreFirst(calls, op)
  BY <1>1, <1>5, <1>6, <1>9, FirstCalls
<1>11. Subjects(op, ToSet(<<>>)) = Subjects(op, {})
  BY NoElement
<1>12. AgendaInv'
  BY <1>1, <1>5, <1>9, <1>10, <1>11 DEF AgendaInv, AreFirst
<1>13. ListedInv'
  BY <1>1, NoElement DEF ListedInv
<1>14. Unread \in [AllResources -> [AllParts -> Marks]]
       /\ \A r \in AllResources, p \in AllParts : Unread[r][p] = "absent"
  BY DEF Unread, AllResources, AllParts, Marks
<1>15. NotedInv'
  BY <1>1, <1>14 DEF NotedInv
<1>16. PartsAreRead'
  <2>1. ASSUME NEW r \in Subjects(op, {}), NEW p \in AllParts
        PROVE  p \notin seen'.held[r] \/ \E c \in ToSet(calls) : Reads(c, r, p)
    <3>1. r \in AllResources /\ \A q \in PartsOf[r] : \E c \in ToSet(calls) : Reads(c, r, q)
      BY <1>10 DEF AreFirst
    <3>2. seen'.held[r] \subseteq PartsOf[r]
      BY <1>2, <1>3, <3>1, NowIsWitnessed DEF AccountIsSound
    <3> QED
      BY <3>1, <3>2
  <2> QED
    BY <1>1, <1>5, <1>9, <1>11, <2>1 DEF PartsAreRead
<1>17. PagesAreRead'
  <2>1. \A r \in AllResources : Position(r, Resources) > 0
    BY ResourcePositions
  <2> QED
    BY <1>1, <1>5, <1>9, <1>10, <2>1 DEF PagesAreRead, AreFirst
<1>18. OperationInv'
  BY <1>1, <1>5, <1>6, <1>12, <1>13, <1>15, <1>16, <1>17 DEF OperationInv, IsRouted
<1> QED
  BY <1>4, <1>7, <1>8, <1>18 DEF ReadingInv
-----------------------------------------------------------------------------
(* Answers *)

(* What an answer may note, when it leads to further calls. *)
NotesGoOn(calls) ==
    /\ noted' \in [AllResources -> [AllParts -> Marks]]
    /\ \A r \in AllResources, p \in AllParts :
          noted'[r][p] = "absent" =>
              /\ noted[r][p] = "absent"
              /\ Reads(Head(agenda), r, p) =>
                    p \notin attached[r] \/ \E c \in ToSet(calls) : Reads(c, r, p)
    /\ \A r \in AllResources, p \in AllParts :
          noted'[r][p] # "absent" =>
              \/ noted'[r][p] = noted[r][p] /\ noted[r][p] # "named"
              \/ noted'[r][p] = Value(p) /\ (p \in attached[r] \/ noted[r][p] = "named")
              \/ /\ noted'[r][p] = "named" /\ p \in attached[r]
                 /\ \E c \in ToSet(calls) : Values(c, r, ToSet(listed))

(* An answer that is not a page. *)
Answered(calls, some) ==
    /\ agenda # <<>> /\ Head(agenda).call # "page"
    /\ Continue(calls)
    /\ listed' = listed /\ returned' = returned \cup some
    /\ some \subseteq Subjects(current, ToSet(listed)) \cap alive
    /\ \A c \in ToSet(calls) : /\ IsAbout(c, current, Subjects(current, ToSet(listed)))
                               /\ c.call # "page"
    /\ calls # <<>> => \A c \in ToSet(Tail(calls)) : c.call # "values"
    /\ NotesGoOn(calls)

(* An operation with calls to make is under way. *)
LEMMA UnderWay ==
    ASSUME ReadingInv, agenda # <<>>
    PROVE  /\ current # None /\ current \in Operations /\ IsRouted(current)
           /\ AgendaInv /\ ListedInv /\ NotedInv /\ PartsAreRead /\ PagesAreRead
           /\ Head(agenda) \in Calls
           /\ IsAbout(Head(agenda), current, Subjects(current, ToSet(listed)))
           /\ Subjects(current, ToSet(listed)) \subseteq AllResources
<1>1. /\ current # None /\ current \in Operations /\ IsRouted(current)
      /\ AgendaInv /\ ListedInv /\ NotedInv /\ PartsAreRead /\ PagesAreRead
  BY DEF ReadingInv, TodoInv, OperationInv
<1>2. Head(agenda) \in Calls /\ Head(agenda) \in ToSet(agenda)
  BY <1>1, HeadAndTail DEF AgendaInv
<1>3. IsAbout(Head(agenda), current, Subjects(current, ToSet(listed)))
  BY <1>1, <1>2 DEF AgendaInv
<1>4. Subjects(current, ToSet(listed)) \subseteq AllResources
  BY <1>1 DEF Operations, Subjects, ListedInv, Document, View, List
<1> QED
  BY <1>1, <1>2, <1>3, <1>4

(* Only the next call may be a page or a question for values. *)
LEMMA NothingIsNamed ==
    ASSUME ReadingInv, agenda # <<>>, Head(agenda).call \notin {"page", "values"},
           NEW r \in AllResources, NEW p \in AllParts
    PROVE  noted[r][p] # "named"
<1>1. AgendaInv /\ NotedInv
  BY UnderWay
<1>2. ToSet(agenda) = {Head(agenda)} \cup ToSet(Tail(agenda))
  BY <1>1, HeadAndTail DEF AgendaInv
<1>3. \A c \in ToSet(agenda) : c.call \notin {"page", "values"}
  BY <1>1, <1>2 DEF AgendaInv
<1>4. \A c \in ToSet(agenda) : ~ Values(c, r, ToSet(listed))
  BY <1>3 DEF Values
<1>5. noted[r][p] \in Marks
  BY <1>1 DEF NotedInv
<1> QED
  BY <1>1, <1>4 DEF NotedInv

LEMMA ValueIsRead == \A p : Value(p) \in {"good", "bad"}
BY DEF Value

LEMMA AnswerPreserves ==
    ASSUME ReadingInv, NEW calls \in Seq(Calls), NEW some, Answered(calls, some), CommitInv'
    PROVE  ReadingInv'
<1>1. /\ current # None /\ current \in Operations /\ IsRouted(current)
      /\ AgendaInv /\ ListedInv /\ NotedInv /\ PartsAreRead /\ PagesAreRead
      /\ Subjects(current, ToSet(listed)) \subseteq AllResources
      /\ agenda # <<>> /\ WorldInv
  BY UnderWay DEF Answered, ReadingInv
<1>2. /\ UNCHANGED <<alive, attached, good, head, todo, current, pinned, seen, listed>>
      /\ agenda' = calls \o Tail(agenda) /\ returned' = returned \cup some
  BY DEF Answered, Continue, world
<1>3. PICK first, rest, next, follow :
          /\ first = Head(agenda) /\ rest = ToSet(Tail(agenda))
          /\ next = ToSet(agenda') /\ follow = ToSet(calls)
  OBVIOUS
<1>4. /\ first \in Calls /\ ToSet(agenda) = {first} \cup rest
      /\ agenda' \in Seq(Calls) /\ next = follow \cup rest
      /\ agenda' # <<>> =>
            ToSet(Tail(agenda')) \subseteq (IF calls = <<>> THEN {} ELSE ToSet(Tail(calls))) \cup rest
  BY <1>1, <1>2, <1>3, AgendaGoesOn DEF AgendaInv
<1>5. PICK subjects : subjects = Subjects(current, ToSet(listed))
  OBVIOUS
<1>6. WorldInv'
  BY <1>1, <1>2 DEF WorldInv, AccountIsSound, Value
<1>7. TodoInv'
  BY <1>1, <1>2 DEF TodoInv, ReadingInv
<1>8. AgendaInv'
  <2>1. \A c \in next : IsAbout(c, current, subjects)
    BY <1>1, <1>3, <1>4, <1>5 DEF AgendaInv, Answered
  <2>2. \A c \in rest : c.call \notin {"page", "values"}
    BY <1>1, <1>3 DEF AgendaInv
  <2>3. calls # <<>> => \A c \in ToSet(Tail(calls)) : c.call \notin {"page", "values"}
    <3>1. calls # <<>> => ToSet(Tail(calls)) \subseteq ToSet(calls)
      BY HeadAndTail
    <3> QED
      BY <3>1 DEF Answered
  <2> QED
    BY <1>2, <1>3, <1>4, <1>5, <2>1, <2>2, <2>3 DEF AgendaInv
<1>9. ListedInv'
  <2>1. some \subseteq subjects /\ some \subseteq alive /\ alive \subseteq seen.alive
    BY <1>1, <1>5 DEF Answered, WorldInv
  <2>2. current.op = "list" => subjects = ToSet(listed)
    BY <1>1, <1>5 DEF Subjects, Operations, Document, View, List
  <2> QED
    BY <1>1, <1>2, <1>5, <2>1, <2>2 DEF ListedInv
<1>10. NotedInv'
  <2>1. ASSUME NEW r \in AllResources, NEW p \in AllParts, noted'[r][p] # "absent"
        PROVE  /\ p \in seen.with[r]
               /\ noted'[r][p] # "named" => noted'[r][p] \in seen.values[p]
               /\ noted'[r][p] = "named" => \E c \in next : Values(c, r, ToSet(listed))
    <3>1. attached[r] \subseteq seen.with[r] /\ Value(p) \in seen.values[p]
      BY <1>1 DEF WorldInv
    <3>2. noted[r][p] # "absent" =>
             /\ p \in seen.with[r] /\ (noted[r][p] # "named" => noted[r][p] \in seen.values[p])
      BY <1>1 DEF NotedInv
    <3>3. \/ noted'[r][p] = noted[r][p] /\ noted[r][p] # "named"
          \/ noted'[r][p] = Value(p) /\ (p \in attached[r] \/ noted[r][p] = "named")
          \/ /\ noted'[r][p] = "named" /\ p \in attached[r]
             /\ \E c \in follow : Values(c, r, ToSet(listed))
      BY <1>3, <2>1 DEF Answered, NotesGoOn
    <3>4. Value(p) # "named" /\ Value(p) # "absent"
      BY ValueIsRead
    <3> QED
      BY <1>4, <2>1, <3>1, <3>2, <3>3, <3>4
  <2>2. noted' \in [AllResources -> [AllParts -> Marks]]
    BY DEF Answered, NotesGoOn
  <2> QED
    BY <1>2, <1>3, <2>1, <2>2 DEF NotedInv
<1>11. PartsAreRead'
  <2>1. ASSUME NEW r \in subjects, NEW p \in AllParts, noted'[r][p] = "absent"
        PROVE  p \notin seen.held[r] \/ \E c \in next : Reads(c, r, p)
    <3>1. r \in AllResources
      BY <1>1, <1>5
    <3>2. /\ noted[r][p] = "absent"
          /\ Reads(first, r, p) => p \notin attached[r] \/ \E c \in follow : Reads(c, r, p)
      BY <1>3, <2>1, <3>1 DEF Answered, NotesGoOn
    <3>3. p \notin seen.held[r] \/ Reads(first, r, p) \/ \E c \in rest : Reads(c, r, p)
      BY <1>1, <1>4, <1>5, <3>2 DEF PartsAreRead
    <3>4. seen.held[r] \subseteq attached[r]
      BY <1>1, <3>1 DEF WorldInv
    <3> QED
      BY <1>4, <3>2, <3>3, <3>4
  <2> QED
    BY <1>2, <1>3, <1>5, <2>1 DEF PartsAreRead
<1>12. PagesAreRead'
  <2>1. first.call # "page"
    BY <1>3 DEF Answered
  <2>2. \A c \in ToSet(agenda) : c.call = "page" => c \in next
    BY <1>4, <2>1
  <2> QED
    BY <1>1, <1>2, <1>3, <2>2 DEF PagesAreRead
<1>13. OperationInv'
  BY <1>1, <1>2, <1>8, <1>9, <1>10, <1>11, <1>12 DEF OperationInv, IsRouted
<1> QED
  BY <1>6, <1>7, <1>13 DEF ReadingInv

(* An answer that reads no document leaves the commit alone. *)
LEMMA CommitStays ==
    ASSUME CommitInv, UNCHANGED <<documents, pinned, todo, current, seen>>
    PROVE  CommitInv'
BY DEF CommitInv
(* An answer that leads to no further call. *)
LEMMA LastAnswerPreserves ==
    ASSUME ReadingInv, NEW some, Answered(<<>>, some), CommitInv'
    PROVE  ReadingInv'
<1>1. PICK calls \in Seq(Calls) : calls = <<>>
  <2>1. <<>> \in Seq(Calls)
    OBVIOUS
  <2> QED
    BY <2>1
<1>2. Answered(calls, some)
  BY <1>1
<1> QED
  BY <1>2, AnswerPreserves

LEMMA ReadDocumentPreserves ==
    ASSUME ReadingInv, ReadDocument
    PROVE  ReadingInv'
<1>1. /\ agenda # <<>> /\ Head(agenda).call = "document" /\ Continue(<<>>)
      /\ documents' = documents \cup {pinned} /\ UNCHANGED <<noted, listed, returned>>
  BY DEF ReadDocument, Calling, CommitRead
<1>2. current = Document
  BY <1>1, UnderWay DEF IsAbout
<1>3. CommitInv'
  <2>1. UNCHANGED <<pinned, todo, current, seen>>
    BY <1>1 DEF Continue
  <2> QED
    BY <1>1, <1>2, <2>1 DEF ReadingInv, CommitInv
<1>4. NotesGoOn(<<>>)
  <2>1. noted \in [AllResources -> [AllParts -> Marks]]
    BY <1>1, UnderWay DEF NotedInv
  <2>2. \A r \in AllResources, p \in AllParts : noted[r][p] # "named"
    BY <1>1, NothingIsNamed
  <2>3. \A r, p : ~ Reads(Head(agenda), r, p)
    BY <1>1 DEF Reads
  <2> QED
    BY <1>1, <2>1, <2>2, <2>3 DEF NotesGoOn
<1>5. Answered(<<>>, {})
  BY <1>1, <1>4, NoElement DEF Answered
<1> QED
  BY <1>3, <1>5, LastAnswerPreserves

LEMMA ReadSettingPreserves ==
    ASSUME ReadingInv, ReadSetting
    PROVE  ReadingInv'
<1>1. PICK r, p : r = Head(agenda).of[1] /\ p = Head(agenda).of[2]
  OBVIOUS
<1>2. /\ agenda # <<>> /\ Head(agenda).call = "setting" /\ Continue(<<>>)
      /\ returned' = returned \cup {r} /\ UNCHANGED <<listed, documents>>
      /\ \/ p \in attached[r] /\ noted' = [noted EXCEPT ![r][p] = Value(p)]
         \/ AbsenceIsAFact(r, p) /\ noted' = noted
  BY <1>1 DEF ReadSetting, Calling
<1>3. /\ Head(agenda).of = <<r, p>> /\ p \in AllParts /\ r \in AllResources
      /\ r \in Subjects(current, ToSet(listed))
  <2>1. \E s \in Subjects(current, ToSet(listed)), q \in AllParts : Head(agenda).of = <<s, q>>
    BY <1>2, UnderWay DEF IsAbout
  <2>2. Subjects(current, ToSet(listed)) \subseteq AllResources
    BY <1>2, UnderWay
  <2> QED
    BY <1>1, <2>1, <2>2
<1>4. r \in alive
  BY <1>2, <1>3 DEF ReadingInv, WorldInv, AccountIsSound, AbsenceIsAFact
<1>5. CommitInv'
  BY <1>2, CommitStays DEF ReadingInv, Continue
<1>6. NotesGoOn(<<>>)
  <2>1. noted \in [AllResources -> [AllParts -> Marks]]
    BY <1>2, UnderWay DEF NotedInv
  <2>2. \A s \in AllResources, q \in AllParts : noted[s][q] # "named"
    BY <1>2, NothingIsNamed
  <2>3. \A s, q : Reads(Head(agenda), s, q) => s = r /\ q = p
    BY <1>2, <1>3 DEF Reads
  <2>4. Value(p) \in Marks /\ Value(p) # "absent"
    BY ValueIsRead DEF Marks
  <2>5. CASE p \in attached[r] /\ noted' = [noted EXCEPT ![r][p] = Value(p)]
    <3>1. /\ noted' \in [AllResources -> [AllParts -> Marks]]
          /\ noted'[r][p] = Value(p)
          /\ \A s \in AllResources, q \in AllParts : s # r \/ q # p => noted'[s][q] = noted[s][q]
      BY <1>3, <2>1, <2>4, <2>5
    <3> QED
      BY <2>2, <2>3, <2>4, <2>5, <3>1 DEF NotesGoOn
  <2>6. CASE AbsenceIsAFact(r, p) /\ noted' = noted
    BY <2>1, <2>2, <2>3, <2>6 DEF NotesGoOn, AbsenceIsAFact
  <2> QED
    BY <1>2, <2>5, <2>6
<1>7. Answered(<<>>, {r})
  BY <1>2, <1>3, <1>4, <1>6, NoElement DEF Answered
<1> QED
  BY <1>5, <1>7, LastAnswerPreserves

LEMMA ReadValuesPreserves ==
    ASSUME ReadingInv, ReadValues
    PROVE  ReadingInv'
<1>1. PICK rs : rs = Head(agenda).of
  OBVIOUS
<1>2. PICK requested : requested = {p \in AllParts : \E r \in rs : noted[r][p] = "named"}
  OBVIOUS
<1>3. PICK answered :
          /\ requested \subseteq answered
          /\ noted' = [r \in AllResources |-> [p \in AllParts |->
                          IF noted[r][p] # "named" THEN noted[r][p]
                          ELSE IF p \in answered THEN Value(p) ELSE "absent"]]
  BY <1>1, <1>2 DEF ReadValues, IsComplete, AllResources, AllParts
<1>4. /\ agenda # <<>> /\ Head(agenda).call = "values" /\ Continue(<<>>)
      /\ UNCHANGED <<listed, returned, documents>>
  BY DEF ReadValues, Calling
<1>5. AgendaInv /\ NotedInv
  BY <1>4, UnderWay
<1>6. ASSUME NEW r \in AllResources, NEW p \in AllParts, noted[r][p] = "named"
      PROVE  noted'[r][p] = Value(p)
  <2>1. PICK c \in ToSet(agenda) : Values(c, r, ToSet(listed))
    BY <1>5, <1>6 DEF NotedInv
  <2>2. ToSet(agenda) = {Head(agenda)} \cup ToSet(Tail(agenda))
    BY <1>4, <1>5, HeadAndTail DEF AgendaInv
  <2>3. c = Head(agenda)
    BY <1>4, <1>5, <2>1, <2>2 DEF AgendaInv, Values
  <2>4. r \in rs
    BY <1>1, <1>4, <2>1, <2>3 DEF Values
  <2> QED
    BY <1>2, <1>3, <1>6, <2>4
<1>7. CommitInv'
  BY <1>4, CommitStays DEF ReadingInv, Continue
<1>8. NotesGoOn(<<>>)
  <2>1. noted \in [AllResources -> [AllParts -> Marks]]
    BY <1>5 DEF NotedInv
  <2>2. \A r \in AllResources, p \in AllParts :
            noted'[r][p] = IF noted[r][p] = "named" THEN Value(p) ELSE noted[r][p]
    BY <1>3, <1>6
  <2>3. \A p : Value(p) \in Marks /\ Value(p) # "absent"
    BY ValueIsRead DEF Marks
  <2>4. noted' \in [AllResources -> [AllParts -> Marks]]
    <3>1. \A r \in AllResources, p \in AllParts : noted'[r][p] \in Marks
      BY <2>1, <2>2, <2>3
    <3> QED
      BY <1>3, <3>1
  <2>5. \A r, p : ~ Reads(Head(agenda), r, p)
    BY <1>4 DEF Reads
  <2> QED
    BY <2>2, <2>3, <2>4, <2>5 DEF NotesGoOn
<1>9. Answered(<<>>, {})
  BY <1>4, <1>8, NoElement DEF Answered
<1> QED
  BY <1>7, <1>9, LastAnswerPreserves

(* An instance or a database names its parts, and the next call asks for their values. *)
LEMMA DescribedPreserves ==
    ASSUME ReadingInv, agenda # <<>>, Head(agenda).call \in {"instance", "database"},
           NEW r, r = Head(agenda).of, Described(r, NoteNamed({r}), NamedCalls({r}))
    PROVE  ReadingInv'
<1>1. PICK calls : calls = NamedCalls({r})
  OBVIOUS
<1>2. /\ r \in alive /\ noted' = NoteNamed({r}) /\ returned' = returned \cup {r}
      /\ Continue(calls) /\ UNCHANGED <<listed, documents>>
  BY <1>1 DEF Described
<1>3. r \in Subjects(current, ToSet(listed)) /\ r \in AllResources
  BY UnderWay DEF IsAbout
<1>4. noted \in [AllResources -> [AllParts -> Marks]]
  BY UnderWay DEF NotedInv
<1>5. \A s \in AllResources, q \in AllParts :
          noted'[s][q] = IF s = r /\ q \in attached[r] /\ ClassOf[q] = "named" THEN "named"
                         ELSE noted[s][q]
  BY <1>2 DEF NoteNamed, Named, AllResources, AllParts
<1>6. \A s \in AllResources, q \in AllParts : noted[s][q] # "named"
  BY NothingIsNamed
<1>7. PICK c \in Calls : c = OnlyCall("values", {r})
  BY <1>3, CallIsTyped DEF CallNames, Topics
<1>8. /\ calls \in Seq(Calls) /\ calls \in {<<>>, <<c>>}
      /\ \A q \in AllParts : noted'[r][q] = "named" => calls = <<c>>
  <2>1. AwaitValue({r}) = {q \in AllParts : noted'[r][q] = "named"}
    BY DEF AwaitValue, AllParts
  <2>2. calls = IF AwaitValue({r}) = {} THEN <<>> ELSE <<c>>
    BY <1>1, <1>7 DEF NamedCalls
  <2>3. <<>> \in Seq(Calls) /\ <<c>> \in Seq(Calls)
    BY OneElement
  <2>4. calls = <<>> \/ calls = <<c>>
    BY <2>2
  <2>5. \A q \in AllParts : noted'[r][q] = "named" => AwaitValue({r}) # {}
    BY <2>1
  <2>6. \A q \in AllParts : noted'[r][q] = "named" => calls = <<c>>
    BY <2>2, <2>5
  <2> QED
    BY <2>3, <2>4, <2>6
<1>9. ToSet(<<c>>) = {c} /\ Tail(<<c>>) = <<>> /\ ToSet(<<>>) = {}
  BY OneElement, NoElement
<1>10. c.call = "values" /\ c.of = {r}
  BY <1>7 DEF OnlyCall, Call
<1>11. NotesGoOn(calls)
  <2>1. noted' \in [AllResources -> [AllParts -> Marks]]
    <3>1. \A s \in AllResources, q \in AllParts : noted'[s][q] \in Marks
      BY <1>4, <1>5 DEF Marks
    <3>2. noted' = [s \in AllResources |-> [q \in AllParts |-> noted'[s][q]]]
      BY <1>2 DEF NoteNamed, AllResources, AllParts
    <3> QED
      BY <3>1, <3>2
  <2>2. \A s, q : Reads(Head(agenda), s, q) => s = r /\ ClassOf[q] = "named"
    BY DEF Reads
  <2>3. ASSUME NEW q \in AllParts, noted'[r][q] = "named"
        PROVE  \E d \in ToSet(calls) : Values(d, r, ToSet(listed))
    BY <1>8, <1>9, <1>10, <2>3 DEF Values
  <2>4. \A s \in AllResources, q \in AllParts : noted'[s][q] = "absent" =>
            /\ noted[s][q] = "absent"
            /\ Reads(Head(agenda), s, q) => q \notin attached[s]
    BY <1>5, <2>2
  <2>5. \A s \in AllResources, q \in AllParts :
            \/ noted'[s][q] = noted[s][q]
            \/ s = r /\ q \in attached[r] /\ noted'[r][q] = "named"
    BY <1>5
  <2> QED
    BY <1>6, <2>1, <2>3, <2>4, <2>5 DEF NotesGoOn
<1>12. Answered(calls, {r})
  <2>1. IsAbout(c, current, Subjects(current, ToSet(listed)))
    BY <1>3, <1>10 DEF IsAbout
  <2> QED
    BY <1>2, <1>3, <1>8, <1>9, <1>10, <1>11, <2>1 DEF Answered
<1>13. CommitInv'
  BY <1>2, CommitStays DEF ReadingInv, Continue
<1> QED
  BY <1>8, <1>12, <1>13, AnswerPreserves

LEMMA DescribeBalancerPreserves ==
    ASSUME ReadingInv, DescribeBalancer
    PROVE  ReadingInv'
<1>1. PICK r : r = Head(agenda).of
  OBVIOUS
<1>2. agenda # <<>> /\ Head(agenda).call = "balancer"
  BY DEF DescribeBalancer, Calling
<1>3. PICK calls : calls = BalancerCalls(r)
  OBVIOUS
<1>4. /\ r \in alive /\ noted' = noted /\ returned' = returned \cup {r}
      /\ Continue(calls) /\ UNCHANGED <<listed, documents>>
  BY <1>1, <1>3 DEF DescribeBalancer, Described
<1>5. r \in Subjects(current, ToSet(listed)) /\ r \in AllResources /\ KindOf[r] = "balancer"
  BY <1>1, <1>2, UnderWay DEF IsAbout
<1>6. /\ calls \in Seq(Calls) /\ \A c \in ToSet(calls) : IsOf(c, r)
      /\ \A p \in PartsOf[r] : \E c \in ToSet(calls) : Reads(c, r, p)
  BY <1>3, <1>5, BalancerFacts DEF ReadAll
<1>7. \A c \in ToSet(calls) : /\ IsAbout(c, current, Subjects(current, ToSet(listed)))
                              /\ c.call \notin {"page", "values"}
  BY <1>5, <1>6, CallOfSubject
<1>8. NotesGoOn(calls)
  <2>1. noted \in [AllResources -> [AllParts -> Marks]]
    BY <1>2, UnderWay DEF NotedInv
  <2>2. \A s \in AllResources, q \in AllParts : noted[s][q] # "named"
    BY <1>2, NothingIsNamed
  <2>3. \A s, q : Reads(Head(agenda), s, q) => s = r
    BY <1>1, <1>2 DEF Reads
  <2>4. attached[r] \subseteq PartsOf[r]
    BY <1>5 DEF ReadingInv, WorldInv, AccountIsSound
  <2> QED
    BY <1>4, <1>6, <2>1, <2>2, <2>3, <2>4 DEF NotesGoOn
<1>9. calls # <<>> => \A c \in ToSet(Tail(calls)) : c.call # "values"
  <2>1. calls # <<>> => ToSet(Tail(calls)) \subseteq ToSet(calls)
    BY <1>6, HeadAndTail
  <2> QED
    BY <1>7, <2>1
<1>10. Answered(calls, {r})
  BY <1>2, <1>4, <1>5, <1>7, <1>8, <1>9 DEF Answered
<1>11. CommitInv'
  BY <1>4, CommitStays DEF ReadingInv, Continue
<1> QED
  BY <1>6, <1>10, <1>11, AnswerPreserves

LEMMA TheNextPage ==
    ASSUME NEW call \in Calls, NEW after \in Nat, NEW page \in Nat
    PROVE  [call EXCEPT !.after = after, !.page = page]
               = [call |-> call.call, of |-> call.of, after |-> after, page |-> page]
<1>1. PICK x : x = [call EXCEPT !.after = after, !.page = page]
  OBVIOUS
<1>2. x \in Calls
  BY <1>1 DEF Calls
<1>3. x.call = call.call /\ x.of = call.of /\ x.after = after /\ x.page = page
  BY <1>1 DEF Calls
<1>4. x = [call |-> x.call, of |-> x.of, after |-> x.after, page |-> x.page]
  BY <1>2 DEF Calls
<1> QED
  BY <1>1, <1>3, <1>4

LEMMA ListListenersPreserves ==
    ASSUME ReadingInv, ListListeners
    PROVE  ReadingInv'
<1>1. PICK call, r : call = Head(agenda) /\ r = call.of
  OBVIOUS
<1>2. PICK items, rest, page :
          /\ items = {p \in attached[r] : ClassOf[p] = "listener"}
          /\ rest = Following(items, Parts, call.after) /\ page = ToSet(PageOf(rest))
  OBVIOUS
<1>3. /\ agenda # <<>> /\ call.call = "listeners" /\ r \in alive
      /\ noted' = [noted EXCEPT ![r] =
                      [p \in AllParts |-> IF p \in page THEN Value(p) ELSE noted[r][p]]]
      /\ Paginated(call, rest, Parts, <<>>) /\ UNCHANGED <<listed, returned, documents>>
  BY <1>1, <1>2 DEF ListListeners, Calling, AllParts
<1>4. /\ call \in Calls /\ r \in Subjects(current, ToSet(listed)) /\ r \in AllResources
  BY <1>1, <1>3, UnderWay DEF IsAbout
<1>5. noted \in [AllResources -> [AllParts -> Marks]]
  BY <1>3, UnderWay DEF NotedInv
<1>6. PICK after : after = Position(Last(PageOf(rest)), Parts)
  OBVIOUS
<1>7. PICK c : c = [call |-> "listeners", of |-> r, after |-> after, page |-> call.page + 1]
  OBVIOUS
<1>8. PICK calls : calls = IF HasMore(rest) THEN <<c>> ELSE <<>>
  OBVIOUS
<1>9. call.after \in Nat /\ call.page \in Nat
      /\ call = [call |-> "listeners", of |-> r, after |-> call.after, page |-> call.page]
  BY <1>1, <1>3, <1>4 DEF Calls
<1>10. /\ page \subseteq items \cap AllParts
       /\ HasMore(rest) => after \in Nat
       /\ \A x \in items \cap AllParts : Position(x, Parts) > call.after =>
             x \in page \/ (HasMore(rest) /\ Position(x, Parts) > after)
  <2>1. Parts \in Seq(AllParts) /\ IsInjective(Parts)
    BY OrdersAreLists DEF AllParts
  <2> QED
    BY <1>2, <1>6, <1>9, <2>1, PageHoldsWhatFollows DEF AllParts
<1>11. Continue(calls)
  <2>1. ASSUME HasMore(rest)
        PROVE  [call EXCEPT !.after = after, !.page = call.page + 1] = c
    <3>1. after \in Nat
      BY <1>10, <2>1
    <3>2. PICK n \in Nat : n = call.page + 1
      BY <1>9
    <3>3. [call EXCEPT !.after = after, !.page = n]
              = [call |-> call.call, of |-> call.of, after |-> after, page |-> n]
      BY <1>4, <3>1, <3>2, TheNextPage
    <3> QED
      BY <1>1, <1>3, <1>7, <3>2, <3>3
  <2> QED
    BY <1>3, <1>6, <1>8, <2>1 DEF Paginated
<1>12. ToSet(<<c>>) = {c} /\ Tail(<<c>>) = <<>> /\ ToSet(<<>>) = {}
  BY OneElement, NoElement
<1>13. calls \in Seq(Calls)
  <2>1. HasMore(rest) => c \in Calls
    BY <1>4, <1>7, <1>9, <1>10 DEF Calls, CallNames, Topics
  <2> QED
    BY <1>8, <2>1
<1>14. NotesGoOn(calls)
  <2>1. \A s \in AllResources, q \in AllParts :
            noted'[s][q] = IF s = r /\ q \in page THEN Value(q) ELSE noted[s][q]
    BY <1>3, <1>4, <1>5
  <2>2. \A q : Value(q) \in Marks /\ Value(q) # "absent"
    BY ValueIsRead DEF Marks
  <2>3. noted' \in [AllResources -> [AllParts -> Marks]]
    <3>1. PICK mine : mine = [p \in AllParts |-> IF p \in page THEN Value(p) ELSE noted[r][p]]
      OBVIOUS
    <3>2. mine \in [AllParts -> Marks]
      BY <1>4, <1>5, <2>2, <3>1
    <3> QED
      BY <1>3, <1>4, <1>5, <3>1, <3>2
  <2>4. \A s \in AllResources, q \in AllParts : noted[s][q] # "named"
    BY <1>1, <1>3, NothingIsNamed
  <2>5. ASSUME NEW s \in AllResources, NEW q \in AllParts, noted'[s][q] = "absent",
               Reads(call, s, q), q \in attached[s]
        PROVE  \E d \in ToSet(calls) : Reads(d, s, q)
    <3>1. s = r /\ ClassOf[q] = "listener" /\ Position(q, Parts) > call.after
      BY <1>1, <1>3, <2>5 DEF Reads
    <3>2. q \in items /\ q \notin page
      BY <1>2, <2>1, <2>2, <2>5, <3>1
    <3>3. HasMore(rest) /\ Position(q, Parts) > after
      BY <1>10, <3>1, <3>2
    <3>4. Reads(c, s, q)
      BY <1>7, <3>1, <3>3 DEF Reads
    <3> QED
      BY <1>8, <1>12, <3>3, <3>4
  <2>6. page \subseteq attached[r]
    BY <1>2, <1>10
  <2> QED
    BY <1>1, <2>1, <2>2, <2>3, <2>4, <2>5, <2>6 DEF NotesGoOn
<1>15. Answered(calls, {})
  <2>1. IsAbout(c, current, Subjects(current, ToSet(listed))) /\ c.call = "listeners"
    BY <1>4, <1>7 DEF IsAbout
  <2> QED
    BY <1>1, <1>3, <1>8, <1>11, <1>12, <1>14, <2>1 DEF Answered
<1>16. CommitInv'
  BY <1>3, <1>11, CommitStays DEF ReadingInv, Continue
<1> QED
  BY <1>13, <1>15, <1>16, AnswerPreserves
-----------------------------------------------------------------------------
(* Pages of a list *)

(* An answer that is a page of the list under way. *)
PageAnswered(page, calls) ==
    /\ agenda # <<>> /\ Head(agenda).call = "page"
    /\ Continue(calls)
    /\ listed' \in Seq(AllResources) /\ ToSet(listed') = ToSet(listed) \cup page
    /\ returned' = returned \cup page
    /\ page \subseteq alive /\ \A r \in page : KindOf[r] = current.of
    /\ \A c \in ToSet(calls) : IsAbout(c, current, ToSet(listed) \cup page)
    /\ calls # <<>> => \A c \in ToSet(Tail(calls)) : c.call \notin {"page", "values"}
    /\ noted' \in [AllResources -> [AllParts -> Marks]]
    /\ \A r \in ToSet(listed) \cup page, p \in AllParts : noted'[r][p] = "absent" =>
          \/ p \notin attached[r]
          \/ noted[r][p] = "absent" /\ r \in ToSet(listed) /\ ~ Reads(Head(agenda), r, p)
          \/ \E c \in ToSet(calls) : Reads(c, r, p)
    /\ \A r \in AllResources, p \in AllParts : noted'[r][p] # "absent" =>
          \/ noted'[r][p] = noted[r][p] /\ noted[r][p] # "named"
          \/ /\ noted'[r][p] = "named" /\ (p \in attached[r] \/ noted[r][p] = "named")
             /\ \E c \in ToSet(calls) : Values(c, r, ToSet(listed) \cup page)
    /\ \A r \in alive \ Network :
          KindOf[r] = current.of /\ Position(r, Resources) > Head(agenda).after =>
              \/ r \in page
              \/ \E c \in ToSet(calls) : c.call = "page" /\ Position(r, Resources) > c.after

LEMMA AboutMore ==
    ASSUME NEW c, NEW op, NEW S, NEW T, S \subseteq T, IsAbout(c, op, S)
    PROVE  IsAbout(c, op, T)
BY DEF IsAbout

LEMMA PagePreserves ==
    ASSUME ReadingInv, NEW calls \in Seq(Calls), NEW page, PageAnswered(page, calls), CommitInv'
    PROVE  ReadingInv'
<1>1. /\ current # None /\ current \in Operations /\ IsRouted(current)
      /\ AgendaInv /\ ListedInv /\ NotedInv /\ PartsAreRead /\ PagesAreRead
      /\ agenda # <<>> /\ WorldInv
  BY UnderWay DEF PageAnswered, ReadingInv
<1>2. /\ UNCHANGED <<alive, attached, good, head, todo, current, pinned, seen>>
      /\ agenda' = calls \o Tail(agenda) /\ returned' = returned \cup page
  BY DEF PageAnswered, Continue, world
<1>3. PICK first, rest, next, follow, before, after :
          /\ first = Head(agenda) /\ rest = ToSet(Tail(agenda))
          /\ next = ToSet(agenda') /\ follow = ToSet(calls)
          /\ before = ToSet(listed) /\ after = ToSet(listed')
  OBVIOUS
<1>4. /\ first \in Calls /\ ToSet(agenda) = {first} \cup rest
      /\ agenda' \in Seq(Calls) /\ next = follow \cup rest
      /\ agenda' # <<>> =>
            ToSet(Tail(agenda')) \subseteq (IF calls = <<>> THEN {} ELSE ToSet(Tail(calls))) \cup rest
  BY <1>1, <1>2, <1>3, AgendaGoesOn DEF AgendaInv
<1>5. /\ after = before \cup page /\ page \subseteq alive
      /\ \A r \in page : KindOf[r] = current.of
  BY <1>3 DEF PageAnswered
<1>6. current.op = "list" /\ first.of = current.of
  BY <1>1, <1>3, <1>4 DEF AgendaInv, IsAbout, PageAnswered
<1>7. Subjects(current, before) = before /\ Subjects(current, after) = after
  BY <1>6 DEF Subjects
<1>8. alive \subseteq AllResources /\ alive \subseteq seen.alive /\ before \subseteq AllResources
  BY <1>1, <1>3 DEF WorldInv, AccountIsSound, ListedInv
<1>9. \A c \in rest : c.call \notin {"page", "values"}
  BY <1>1, <1>3 DEF AgendaInv
<1>10. WorldInv'
  BY <1>1, <1>2 DEF WorldInv, AccountIsSound, Value
<1>11. TodoInv'
  BY <1>1, <1>2 DEF TodoInv, ReadingInv
<1>12. AgendaInv'
  <2>1. \A c \in rest : IsAbout(c, current, after)
    <3>1. \A c \in rest : IsAbout(c, current, before)
      BY <1>1, <1>3, <1>4, <1>7 DEF AgendaInv
    <3> QED
      BY <1>5, <3>1, AboutMore
  <2>2. \A c \in follow : IsAbout(c, current, after)
    BY <1>3, <1>5 DEF PageAnswered
  <2>3. agenda' # <<>> => \A c \in ToSet(Tail(agenda')) : c.call \notin {"page", "values"}
    BY <1>4, <1>9 DEF PageAnswered
  <2>4. \A c \in ToSet(agenda') : IsAbout(c, current, Subjects(current, ToSet(listed')))
    BY <1>3, <1>4, <1>7, <2>1, <2>2
  <2> QED
    BY <1>2, <1>4, <2>3, <2>4 DEF AgendaInv
<1>13. ListedInv'
  <2>1. returned = before /\ \A r \in before : KindOf[r] = current.of
    BY <1>1, <1>3, <1>6 DEF ListedInv
  <2>2. returned' = after /\ after \subseteq AllResources /\ \A r \in after : KindOf[r] = current.of
    BY <1>2, <1>5, <1>8, <2>1
  <2>3. returned \subseteq seen.alive
    BY <1>1 DEF ListedInv
  <2>4. listed' \in Seq(AllResources)
    BY DEF PageAnswered
  <2> QED
    BY <1>2, <1>3, <1>5, <1>7, <1>8, <2>2, <2>3, <2>4 DEF ListedInv
<1>14. NotedInv'
  <2>1. ASSUME NEW r \in AllResources, NEW p \in AllParts, noted'[r][p] # "absent"
        PROVE  /\ p \in seen.with[r]
               /\ noted'[r][p] # "named" => noted'[r][p] \in seen.values[p]
               /\ noted'[r][p] = "named" => \E c \in next : Values(c, r, after)
    <3>1. attached[r] \subseteq seen.with[r]
      BY <1>1 DEF WorldInv
    <3>2. noted[r][p] # "absent" =>
             /\ p \in seen.with[r] /\ (noted[r][p] # "named" => noted[r][p] \in seen.values[p])
      BY <1>1 DEF NotedInv
    <3>3. \/ noted'[r][p] = noted[r][p] /\ noted[r][p] # "named"
          \/ /\ noted'[r][p] = "named" /\ (p \in attached[r] \/ noted[r][p] = "named")
             /\ \E c \in follow : Values(c, r, after)
      BY <1>3, <1>5, <2>1 DEF PageAnswered
    <3> QED
      BY <1>4, <2>1, <3>1, <3>2, <3>3
  <2>2. noted' \in [AllResources -> [AllParts -> Marks]]
    BY DEF PageAnswered
  <2> QED
    BY <1>2, <1>3, <2>1, <2>2 DEF NotedInv
<1>15. PartsAreRead'
  <2>1. ASSUME NEW r \in after, NEW p \in AllParts, noted'[r][p] = "absent"
        PROVE  p \notin seen.held[r] \/ \E c \in next : Reads(c, r, p)
    <3>1. r \in AllResources
      BY <1>5, <1>8
    <3>2. \/ p \notin attached[r]
          \/ noted[r][p] = "absent" /\ r \in before /\ ~ Reads(first, r, p)
          \/ \E c \in follow : Reads(c, r, p)
      BY <1>3, <1>5, <2>1 DEF PageAnswered
    <3>3. noted[r][p] = "absent" /\ r \in before =>
              p \notin seen.held[r] \/ Reads(first, r, p) \/ \E c \in rest : Reads(c, r, p)
      BY <1>1, <1>3, <1>4, <1>7 DEF PartsAreRead
    <3>4. seen.held[r] \subseteq attached[r]
      BY <1>1, <3>1 DEF WorldInv
    <3> QED
      BY <1>4, <3>2, <3>3, <3>4
  <2> QED
    BY <1>2, <1>3, <1>7, <2>1 DEF PartsAreRead
<1>16. PagesAreRead'
  <2>1. ASSUME NEW r \in AllResources \ Network, KindOf[r] = current.of, r \in seen.stayed
        PROVE  \/ r \in returned'
               \/ \E c \in next : c.call = "page" /\ Position(r, Resources) > c.after
    <3>1. r \in alive
      BY <1>1, <2>1 DEF WorldInv
    <3>2. r \in returned \/ Position(r, Resources) > first.after
      BY <1>1, <1>4, <1>6, <1>9, <2>1 DEF PagesAreRead
    <3>3. Position(r, Resources) > first.after =>
             r \in page \/ \E c \in follow : c.call = "page" /\ Position(r, Resources) > c.after
      BY <1>3, <2>1, <3>1 DEF PageAnswered
    <3> QED
      BY <1>2, <1>4, <3>2, <3>3
  <2> QED
    BY <1>2, <1>3, <2>1 DEF PagesAreRead
<1>17. OperationInv'
  BY <1>1, <1>2, <1>12, <1>13, <1>14, <1>15, <1>16 DEF OperationInv, IsRouted
<1> QED
  BY <1>10, <1>11, <1>17 DEF ReadingInv
LEMMA ListPagePreserves ==
    ASSUME ReadingInv, ListPage
    PROVE  ReadingInv'
<1>1. PICK call, items, rest, shown :
          /\ call = Head(agenda) /\ items = {r \in alive : KindOf[r] = call.of}
          /\ rest = Following(items, Resources, call.after)
          /\ shown = Selected(PageOf(rest), AllResources \ Network)
  OBVIOUS
<1>2. PICK page, before, all : page = ToSet(shown) /\ before = ToSet(listed) /\ all = listed'
  OBVIOUS
<1>3. /\ agenda # <<>> /\ call.call = "page" /\ all = listed \o shown
      /\ returned' = returned \cup page /\ documents' = documents
      /\ noted' = IF call.of = "database" THEN NoteNamed(page) ELSE noted
      /\ Paginated(call, rest, Resources, AfterList(call.of, all))
  BY <1>1, <1>2 DEF ListPage, Calling, AllResources
<1>4. /\ call \in Calls /\ current.op = "list" /\ call.of = current.of
      /\ AgendaInv /\ ListedInv /\ NotedInv /\ current \in Operations /\ IsRouted(current)
  BY <1>1, <1>3, UnderWay DEF IsAbout
<1>5. /\ call.of \in Kinds /\ call.of \in ToSet(Rereadable)
      /\ call.after \in Nat /\ call.page \in Nat
  BY <1>4 DEF IsRouted, Calls, Operations, Document, View, List
<1>6. PICK after : after = Position(Last(PageOf(rest)), Resources)
  OBVIOUS
<1>7. alive \subseteq AllResources /\ \A r \in AllResources : attached[r] \subseteq PartsOf[r]
  BY DEF ReadingInv, WorldInv, AccountIsSound
<1>8. /\ PageOf(rest) \in Seq(AllResources) /\ ToSet(PageOf(rest)) \subseteq items
      /\ HasMore(rest) => after \in Nat
      /\ \A r \in items : Position(r, Resources) > call.after =>
            r \in ToSet(PageOf(rest)) \/ (HasMore(rest) /\ Position(r, Resources) > after)
  <2>1. Resources \in Seq(AllResources) /\ IsInjective(Resources) /\ ToSet(Resources) = AllResources
    BY OrdersAreLists DEF AllResources
  <2>2. items \cap AllResources = items
    BY <1>1, <1>7
  <2> QED
    BY <1>1, <1>5, <1>6, <2>1, <2>2, PageHoldsWhatFollows
<1>9. /\ shown \in Seq(AllResources) /\ page = ToSet(PageOf(rest)) \cap (AllResources \ Network)
      /\ page \subseteq alive /\ \A r \in page : KindOf[r] = call.of
  <2>1. shown \in Seq(AllResources) /\ page = ToSet(PageOf(rest)) \cap (AllResources \ Network)
    <3>1. PICK held \in Seq(AllResources) : held = PageOf(rest)
      BY <1>8
    <3>2. PICK wanted : wanted = AllResources \ Network
      OBVIOUS
    <3>3. shown = Selected(held, wanted)
      BY <1>1, <3>1, <3>2
    <3> QED
      BY <1>2, <3>1, <3>2, <3>3, SelectedSet
  <2> QED
    BY <1>1, <1>8, <2>1
<1>10. /\ all \in Seq(AllResources) /\ ToSet(all) = before \cup page
       /\ \A r \in before \cup page : r \in AllResources /\ KindOf[r] = call.of
  <2>1. listed \in Seq(AllResources) /\ \A r \in before : r \in AllResources /\ KindOf[r] = call.of
    BY <1>2, <1>4 DEF ListedInv
  <2>2. all \in Seq(AllResources) /\ \A y : y \in ToSet(all) <=> y \in before \/ y \in page
    <3>1. PICK old \in Seq(AllResources), new \in Seq(AllResources) : old = listed /\ new = shown
      BY <1>9, <2>1
    <3>2. all = old \o new
      BY <1>3, <3>1
    <3> QED
      BY <1>2, <3>1, <3>2, ConcatElements
  <2> QED
    BY <1>7, <1>9, <2>1, <2>2
<1>11. PICK c : c = [call |-> "page", of |-> call.of, after |-> after, page |-> call.page + 1]
  OBVIOUS
<1>12. PICK calls : calls = IF HasMore(rest) THEN <<c>> ELSE AfterList(call.of, all)
  OBVIOUS
<1>13. Continue(calls)
  <2>1. ASSUME HasMore(rest)
        PROVE  [call EXCEPT !.after = after, !.page = call.page + 1] = c
    <3>1. after \in Nat
      BY <1>8, <2>1
    <3>2. PICK n \in Nat : n = call.page + 1
      BY <1>5
    <3>3. [call EXCEPT !.after = after, !.page = n]
              = [call |-> call.call, of |-> call.of, after |-> after, page |-> n]
      BY <1>4, <3>1, <3>2, TheNextPage
    <3> QED
      BY <1>3, <1>11, <3>2, <3>3
  <2> QED
    BY <1>3, <1>6, <1>12, <2>1 DEF Paginated
<1>14. HasMore(rest) =>
          /\ <<c>> \in Seq(Calls) /\ ToSet(<<c>>) = {c} /\ Tail(<<c>>) = <<>>
          /\ IsAbout(c, current, before \cup page)
  <2>1. HasMore(rest) => c \in Calls
    BY <1>5, <1>8, <1>11 DEF Calls, CallNames, Topics
  <2>2. IsAbout(c, current, before \cup page)
    BY <1>4, <1>11 DEF IsAbout
  <2> QED
    BY <2>1, <2>2, OneElement
<1>15. noted \in [AllResources -> [AllParts -> Marks]]
  BY <1>4 DEF NotedInv
<1>16. \A r \in AllResources, p \in AllParts : noted[r][p] = "named" =>
          call.of = "database" /\ r \in before
  <2>1. ToSet(agenda) = {call} \cup ToSet(Tail(agenda))
    BY <1>1, <1>3, <1>4, HeadAndTail DEF AgendaInv
  <2>2. \A d \in ToSet(Tail(agenda)) : d.call \notin {"page", "values"}
    BY <1>3, <1>4 DEF AgendaInv
  <2>3. ASSUME NEW r \in AllResources, NEW p \in AllParts, noted[r][p] = "named"
        PROVE  call.of = "database" /\ r \in before
    <3>1. PICK d \in ToSet(agenda) : Values(d, r, before)
      BY <1>2, <1>4, <2>3 DEF NotedInv
    <3>2. d = call
      BY <2>1, <2>2, <3>1 DEF Values
    <3> QED
      BY <1>3, <3>1, <3>2 DEF Values
  <2> QED
    BY <2>3
<1>17. \A r \in alive \ Network :
           KindOf[r] = current.of /\ Position(r, Resources) > call.after =>
               \/ r \in page
               \/ HasMore(rest) /\ Position(r, Resources) > after
  BY <1>1, <1>4, <1>7, <1>8, <1>9
<1>18. CommitInv'
  BY <1>3, <1>13, CommitStays DEF ReadingInv, Continue
<1>19. \A r \in alive \ Network :
           KindOf[r] = current.of /\ Position(r, Resources) > call.after =>
               \/ r \in page
               \/ \E d \in ToSet(calls) : d.call = "page" /\ Position(r, Resources) > d.after
  BY <1>11, <1>12, <1>14, <1>17
<1>20. CASE call.of = "database"
  <2>1. \A r \in AllResources, p \in AllParts :
            noted'[r][p] = IF r \in page /\ p \in attached[r] /\ ClassOf[p] = "named" THEN "named"
                           ELSE noted[r][p]
    BY <1>3, <1>20 DEF NoteNamed, Named, AllResources, AllParts
  <2>2. noted' \in [AllResources -> [AllParts -> Marks]]
    <3>1. \A r \in AllResources, p \in AllParts : noted'[r][p] \in Marks
      BY <1>15, <2>1 DEF Marks
    <3>2. noted' = [r \in AllResources |-> [p \in AllParts |-> noted'[r][p]]]
      BY <1>3, <1>20 DEF NoteNamed, AllResources, AllParts
    <3> QED
      BY <3>1, <3>2
  <2>3. \A r \in page : \A p \in attached[r] : p \in AllParts /\ ClassOf[p] = "named"
    BY <1>7, <1>9, <1>20, PartsHaveAReader DEF AllResources, AllParts
  <2>4. \A r \in before \cup page, p \in AllParts : noted'[r][p] = "absent" =>
            \/ p \notin attached[r]
            \/ noted[r][p] = "absent" /\ r \in before /\ ~ Reads(call, r, p)
    <3>1. \A r, p : ~ Reads(call, r, p)
      BY <1>3, <1>20 DEF Reads
    <3> QED
      BY <1>10, <2>1, <2>3, <3>1
  <2>5. \A r \in AllResources, p \in AllParts : noted'[r][p] # "absent" =>
            \/ noted'[r][p] = noted[r][p] /\ noted[r][p] # "named"
            \/ /\ noted'[r][p] = "named" /\ (p \in attached[r] \/ noted[r][p] = "named")
               /\ r \in before \cup page
    BY <1>16, <2>1
  <2>6. CASE HasMore(rest)
    <3>1. calls = <<c>>
      BY <1>12, <2>6
    <3>2. \A r \in before \cup page : Values(c, r, before \cup page)
      BY <1>11, <1>20 DEF Values
    <3>3. \A d \in ToSet(calls) : IsAbout(d, current, before \cup page)
      BY <1>14, <2>6, <3>1
    <3>4. ToSet(Tail(calls)) = {}
      BY <1>14, <2>6, <3>1, NoElement
    <3>5. calls \in Seq(Calls) /\ c \in ToSet(calls)
      BY <1>14, <2>6, <3>1
    <3>6. PageAnswered(page, calls)
      BY <1>1, <1>2, <1>3, <1>4, <1>9, <1>10, <1>13, <1>19, <2>2, <2>4, <2>5, <3>2, <3>3, <3>4, <3>5
         DEF PageAnswered
    <3> QED
      BY <1>18, <3>5, <3>6, PagePreserves
  <2>7. CASE ~ HasMore(rest)
    <3>1. PICK among : among = before \cup page
      OBVIOUS
    <3>2. calls = NamedCalls(among)
      BY <1>10, <1>12, <1>20, <2>7, <3>1 DEF AfterList, DatabasesListed, SecurityGroupsFor
    <3>3. among \subseteq AllResources
      BY <1>10, <3>1
    <3>4. PICK d \in Calls : d = OnlyCall("values", among)
      BY <3>3, CallIsTyped DEF CallNames, Topics
    <3>5. calls = <<>> \/ calls = <<d>>
      BY <3>2, <3>4 DEF NamedCalls
    <3>6. \A r \in among, p \in AllParts : noted'[r][p] = "named" => calls = <<d>>
      <4>1. \A r \in among, p \in AllParts : noted'[r][p] = "named" => p \in AwaitValue(among)
        BY DEF AwaitValue, AllParts
      <4> QED
        BY <3>2, <3>4, <4>1 DEF NamedCalls
    <3>7. <<d>> \in Seq(Calls) /\ <<>> \in Seq(Calls) /\ ToSet(<<d>>) = {d} /\ Tail(<<d>>) = <<>>
      BY OneElement
    <3>8. d.call = "values" /\ d.of = among
      BY <3>4 DEF OnlyCall, Call
    <3>9. IsAbout(d, current, among)
      BY <3>8 DEF IsAbout
    <3>10. calls \in Seq(Calls) /\ \A e \in ToSet(calls) : e = d
      BY <3>5, <3>7, NoElement
    <3>11. calls # <<>> => ToSet(Tail(calls)) = {}
      BY <3>5, <3>7, NoElement
    <3>12. \A r \in among, p \in AllParts : noted'[r][p] = "named" =>
               \E e \in ToSet(calls) : Values(e, r, among)
      <4>1. \A r \in among : Values(d, r, among)
        BY <3>8 DEF Values
      <4> QED
        BY <3>6, <3>7, <4>1
    <3>13. \A r \in AllResources, p \in AllParts : noted'[r][p] # "absent" =>
               \/ noted'[r][p] = noted[r][p] /\ noted[r][p] # "named"
               \/ /\ noted'[r][p] = "named" /\ (p \in attached[r] \/ noted[r][p] = "named")
                  /\ \E e \in ToSet(calls) : Values(e, r, before \cup page)
      BY <2>5, <3>1, <3>12
    <3>14. \A e \in ToSet(calls) : IsAbout(e, current, before \cup page)
      BY <3>1, <3>9, <3>10
    <3>15. PageAnswered(page, calls)
      BY <1>1, <1>2, <1>3, <1>4, <1>9, <1>10, <1>13, <1>19, <2>2, <2>4, <3>11, <3>13, <3>14
         DEF PageAnswered
    <3> QED
      BY <1>18, <3>10, <3>15, PagePreserves
  <2> QED
    BY <2>6, <2>7
<1>21. CASE call.of # "database"
  <2>1. noted' = noted /\ \A r \in AllResources, p \in AllParts : noted[r][p] # "named"
    BY <1>3, <1>16, <1>21
  <2>2. CASE HasMore(rest)
    <3>1. calls = <<c>> /\ calls \in Seq(Calls) /\ c \in ToSet(calls)
      BY <1>12, <1>14, <2>2
    <3>2. \A r, p : Reads(c, r, p)
      BY <1>11, <1>21 DEF Reads
    <3>3. \A d \in ToSet(calls) : IsAbout(d, current, before \cup page)
      BY <1>14, <2>2, <3>1
    <3>4. ToSet(Tail(calls)) = {}
      BY <1>14, <2>2, <3>1, NoElement
    <3>5. PageAnswered(page, calls)
      BY <1>1, <1>2, <1>3, <1>4, <1>9, <1>10, <1>13, <1>15, <1>19, <2>1, <3>1, <3>2, <3>3, <3>4
         DEF PageAnswered
    <3> QED
      BY <1>18, <3>1, <3>5, PagePreserves
  <2>3. CASE ~ HasMore(rest)
    <3>1. calls = AfterList(call.of, all)
      BY <1>12, <2>3
    <3>2. ReadEach(calls, before \cup page)
      <4>1. PICK kind \in Kinds \ {"database"} : kind = call.of
        BY <1>5, <1>21
      <4> QED
        BY <1>10, <3>1, <4>1, ListReads
    <3>3. /\ calls \in Seq(Calls)
          /\ \A d \in ToSet(calls) : IsAbout(d, current, before \cup page)
                                     /\ d.call \notin {"page", "values"}
      BY <3>2, CallOfSubject DEF ReadEach
    <3>4. calls # <<>> => \A d \in ToSet(Tail(calls)) : d.call \notin {"page", "values"}
      BY <3>3, HeadAndTail
    <3>5. \A r \in before \cup page : \A p \in attached[r] : \E d \in ToSet(calls) : Reads(d, r, p)
      BY <1>7, <1>10, <3>2 DEF ReadEach
    <3>6. PageAnswered(page, calls)
      BY <1>1, <1>2, <1>3, <1>4, <1>9, <1>10, <1>13, <1>15, <1>19, <2>1, <3>3, <3>4, <3>5
         DEF PageAnswered
    <3> QED
      BY <1>18, <3>3, <3>6, PagePreserves
  <2> QED
    BY <2>2, <2>3
<1> QED
  BY <1>20, <1>21
-----------------------------------------------------------------------------
(* Every step *)

LEMMA DescribePreserves ==
    ASSUME ReadingInv, DescribeInstance \/ DescribeDatabase
    PROVE  ReadingInv'
<1>1. PICK r : r = Head(agenda).of
  OBVIOUS
<1>2. agenda # <<>> /\ Head(agenda).call \in {"instance", "database"}
  BY DEF DescribeInstance, DescribeDatabase, Calling
<1>3. Described(r, NoteNamed({r}), NamedCalls({r}))
  BY <1>1 DEF DescribeInstance, DescribeDatabase, SecurityGroupsFor
<1> QED
  BY <1>1, <1>2, <1>3, DescribedPreserves

LEMMA StutterPreserves ==
    ASSUME ReadingInv, UNCHANGED vars
    PROVE  ReadingInv'
<1>1. /\ UNCHANGED <<alive, attached, good, head, todo, current, agenda>>
      /\ UNCHANGED <<noted, listed, returned, documents, pinned, seen>>
  BY DEF vars, world, answers
<1>2. WorldInv'
  BY <1>1 DEF ReadingInv, WorldInv, AccountIsSound, Value
<1>3. TodoInv' /\ CommitInv'
  BY <1>1 DEF ReadingInv, TodoInv, CommitInv
<1>4. AgendaInv = AgendaInv' /\ ListedInv = ListedInv'
  BY <1>1 DEF AgendaInv, ListedInv
<1>5. NotedInv = NotedInv' /\ PartsAreRead = PartsAreRead' /\ PagesAreRead = PagesAreRead'
  BY <1>1 DEF NotedInv, PartsAreRead, PagesAreRead
<1>6. OperationInv'
  BY <1>1, <1>4, <1>5 DEF ReadingInv, OperationInv, IsRouted
<1> QED
  BY <1>2, <1>3, <1>6 DEF ReadingInv

LEMMA StepPreserves == ReadingInv /\ [Next]_vars => ReadingInv'
<1> SUFFICES ASSUME ReadingInv, [Next]_vars PROVE ReadingInv'
  OBVIOUS
<1>1. CASE WorldStep
  BY <1>1, WorldStepPreserves
<1>2. ASSUME NEW t \in Targets, StartDelivery(t) PROVE ReadingInv'
  BY <1>2, StartDeliveryPreserves
<1>3. CASE Reread
  BY <1>3, RereadPreserves
<1>4. CASE StartOperation
  BY <1>4, StartOperationPreserves
<1>5. CASE Fail
  BY <1>5, FailPreserves
<1>6. CASE ReadDocument
  BY <1>6, ReadDocumentPreserves
<1>7. CASE ListPage
  BY <1>7, ListPagePreserves
<1>8. CASE ReadValues
  BY <1>8, ReadValuesPreserves
<1>9. CASE ReadSetting
  BY <1>9, ReadSettingPreserves
<1>10. CASE ListListeners
  BY <1>10, ListListenersPreserves
<1>11. CASE DescribeInstance \/ DescribeDatabase
  BY <1>11, DescribePreserves
<1>12. CASE DescribeBalancer
  BY <1>12, DescribeBalancerPreserves
<1>13. CASE UNCHANGED vars
  BY <1>13, StutterPreserves
<1> QED
  BY <1>1, <1>2, <1>3, <1>4, <1>5, <1>6, <1>7, <1>8, <1>9, <1>10, <1>11, <1>12, <1>13
     DEF Next, WorldStep, AllResources, AllParts

(* ReadingInv holds in every reachable state, for any account, repository and page size,      *)
(* however often they change between two calls of an adapter (agent/runtime).                 *)
THEOREM ReadingInvariant == Spec => []ReadingInv
<1>1. Init => ReadingInv
  BY InitialReading
<1>2. ReadingInv /\ [Next]_vars => ReadingInv'
  BY StepPreserves
<1> QED
  BY <1>1, <1>2, PTL DEF Spec

LEMMA WitnessedFollows == ReadingInv => ViewsAreWitnessed
<1> SUFFICES ASSUME ReadingInv, IsFinished("view") \/ IsFinished("list"),
                    NEW r \in returned, NEW p \in AllParts
             PROVE  IF noted[r][p] = "absent" THEN p \notin seen.held[r]
                    ELSE p \in seen.with[r] /\ noted[r][p] \in seen.values[p]
  BY DEF ViewsAreWitnessed, AllParts
<1>1. agenda = <<>> /\ current # None
  BY DEF IsFinished
<1>2. /\ ListedInv /\ NotedInv /\ PartsAreRead /\ current \in Operations
      /\ ToSet(agenda) = {}
  BY <1>1, NoElement DEF ReadingInv, OperationInv
<1>3. r \in Subjects(current, ToSet(listed))
  BY <1>2 DEF ListedInv
<1>4. r \in AllResources
  BY <1>2, <1>3 DEF Operations, Subjects, ListedInv, Document, View, List
<1>5. noted[r][p] = "absent" => p \notin seen.held[r]
  BY <1>2, <1>3 DEF PartsAreRead
<1>6. noted[r][p] # "absent" => p \in seen.with[r] /\ noted[r][p] \in seen.values[p]
  BY <1>2, <1>4 DEF NotedInv
<1> QED
  BY <1>5, <1>6

(* Every fact of a finished view was true at some moment of its read, and what it lacks was   *)
(* missing at some moment of it: partial answers, missing settings and page limits of the     *)
(* adapters never read as an absence (ec2 tool:243-253, s3 tool:176-193, session:113-143).    *)
THEOREM ViewsWitnessed == Spec => []ViewsAreWitnessed
BY ReadingInvariant, WitnessedFollows, PTL

LEMMA CompleteFollows == ReadingInv => ListsAreComplete
<1> SUFFICES ASSUME ReadingInv, IsFinished("list")
             PROVE  LET ofKind == {r \in AllResources \ Network : KindOf[r] = current.of}
                    IN  seen.stayed \cap ofKind \subseteq returned /\ returned \subseteq seen.alive
  BY DEF ListsAreComplete, AllResources
<1>1. agenda = <<>> /\ current # None /\ current.op = "list"
  BY DEF IsFinished
<1>2. ListedInv /\ PagesAreRead /\ ToSet(agenda) = {}
  BY <1>1, NoElement DEF ReadingInv, OperationInv
<1>3. \A r \in AllResources \ Network :
          KindOf[r] = current.of /\ r \in seen.stayed => r \in returned
  BY <1>1, <1>2 DEF PagesAreRead
<1>4. returned \subseteq seen.alive
  BY <1>2 DEF ListedInv
<1> QED
  BY <1>3, <1>4

(* A finished list holds every resource of its kind that existed throughout, and none that    *)
(* never existed meanwhile, whatever is created or deleted between two pages and whatever the *)
(* page size is (session:106-143).                                                            *)
THEOREM ListsComplete == Spec => []ListsAreComplete
BY ReadingInvariant, CompleteFollows, PTL

LEMMA OneCommitFollows == ReadingInv => DocumentsAreOfOneCommit
<1> SUFFICES ASSUME ReadingInv PROVE DocumentsAreOfOneCommit
  OBVIOUS
<1>1. /\ documents \subseteq {pinned}
      /\ documents # {} => pinned \in seen.heads \cup (Targets \ {Branch})
  BY DEF ReadingInv, CommitInv
<1>2. documents = {} \/ documents = {pinned}
  BY <1>1
<1>3. Cardinality(documents) <= 1
  <2>1. Cardinality({}) = 0
    BY FS_EmptySet
  <2>2. Cardinality({pinned}) = 1
    BY FS_Singleton
  <2> QED
    BY <1>2, <2>1, <2>2
<1> QED
  BY <1>1, <1>2, <1>3 DEF DocumentsAreOfOneCommit

(* The documents of a delivery are of one commit, the fixed one or one the branch pointed at  *)
(* during the delivery, however often it moves (assessment/runtime.py:321-336).               *)
THEOREM OneCommit == Spec => []DocumentsAreOfOneCommit
BY ReadingInvariant, OneCommitFollows, PTL
=============================================================================
