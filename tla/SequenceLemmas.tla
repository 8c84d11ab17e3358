---------------------------- MODULE SequenceLemmas ----------------------------
(***************************************************************************)
(* What the sequence operators of the specifications return, for all of    *)
(* their arguments.  Every induction is over the numbers: the least number *)
(* for which a fact fails does not exist.                                  *)
(***************************************************************************)
EXTENDS Integers, SequencesExt, Selections, WellFoundedInduction, SequenceTheorems, TLAPS

LEMMA LeastNumber ==
    ASSUME NEW T \in SUBSET Nat, T # {}
    PROVE  \E x \in T : \A y \in T : x <= y
<1>1. PICK R : IsWellFoundedOn(R, Nat) /\ \A x, y \in Nat : x < y => <<x, y>> \in R
  <2> DEFINE R == OpToRel(<, Nat)
  <2>1. IsWellFoundedOn(R, Nat)
    BY NatLessThanWellFounded
  <2>2. \A x, y \in Nat : x < y => <<x, y>> \in R
    BY DEF OpToRel
  <2> HIDE DEF R
  <2> QED
    BY <2>1, <2>2
<1>2. T \subseteq Nat /\ IsWellFoundedOn(R, Nat)
  BY <1>1
<1>3. PICK x \in T : \A y \in T : ~(<<y, x>> \in R)
  BY <1>2, WFMin
<1>4. \A y \in T : ~(y < x)
  BY <1>1, <1>2, <1>3
<1> QED
  BY <1>2, <1>4

(* A set of numbers up to n that holds 0 and each successor holds all of them. *)
LEMMA Induction ==
    ASSUME NEW n \in Nat, NEW T, 0 \in T, \A i \in 0 .. n : i < n /\ i \in T => i + 1 \in T
    PROVE  \A i \in 0 .. n : i \in T
<1> SUFFICES ASSUME \E i \in 0 .. n : i \notin T PROVE FALSE
  OBVIOUS
<1> DEFINE failing == {i \in 0 .. n : i \notin T}
<1>1. failing \in SUBSET Nat /\ failing # {}
  OBVIOUS
<1>2. PICK x \in failing : \A y \in failing : x <= y
  BY <1>1, LeastNumber
<1>3. x # 0 /\ x - 1 \in 0 .. n /\ x - 1 \notin failing
  BY <1>2
<1> QED
  BY <1>2, <1>3

-----------------------------------------------------------------------------
(* Selected *)

SelectedUpTo(seq, wanted, of) ==
    of = [i \in 0 .. Len(seq) |->
             IF i = 0 THEN <<>>
             ELSE IF seq[i] \in wanted THEN Append(of[i - 1], seq[i]) ELSE of[i - 1]]

LEMMA SelectedExists ==
    ASSUME NEW S, NEW seq \in Seq(S), NEW wanted
    PROVE  \E of : SelectedUpTo(seq, wanted, of)
<1>1. PICK n \in Nat : n = Len(seq)
  OBVIOUS
<1> DEFINE Upto(m, of) ==
             of = [i \in 0 .. m |->
                      IF i = 0 THEN <<>>
                      ELSE IF seq[i] \in wanted THEN Append(of[i - 1], seq[i]) ELSE of[i - 1]]
           T == {m \in 0 .. n : \E of : Upto(m, of)}
<1>2. 0 \in T
  <2>1. Upto(0, [i \in 0 .. 0 |-> <<>>])
    OBVIOUS
  <2>2. \E of : Upto(0, of)
    <3> HIDE DEF Upto
    <3> QED
      BY <2>1
  <2> QED
    BY <2>2
<1>3. ASSUME NEW m \in 0 .. n, m < n, m \in T
      PROVE  m + 1 \in T
  <2>1. PICK of : Upto(m, of)
    BY <1>3
  <2> DEFINE next == IF seq[m + 1] \in wanted THEN Append(of[m], seq[m + 1]) ELSE of[m]
             longer == [i \in 0 .. m + 1 |-> IF i = m + 1 THEN next ELSE of[i]]
  <2>2. \A i \in 0 .. m + 1 : i # 0 => i - 1 \in 0 .. m /\ longer[i - 1] = of[i - 1]
    OBVIOUS
  <2>3. \A i \in 0 .. m : of[i] = IF i = 0 THEN <<>>
             ELSE IF seq[i] \in wanted THEN Append(of[i - 1], seq[i]) ELSE of[i - 1]
    BY <2>1
  <2>4. ASSUME NEW i \in 0 .. m + 1
        PROVE  longer[i] = IF i = 0 THEN <<>>
             ELSE IF seq[i] \in wanted THEN Append(longer[i - 1], seq[i]) ELSE longer[i - 1]
    BY <2>2, <2>3
  <2>5. Upto(m + 1, longer)
    BY <2>4
  <2>6. \E more : Upto(m + 1, more)
    <3> HIDE DEF Upto
    <3> QED
      BY <2>5
  <2>7. m + 1 \in 0 .. n
    BY <1>3
  <2> HIDE DEF Upto
  <2> QED
    BY <2>6, <2>7
<1>4. n \in T
  <2> HIDE DEF T
  <2>1. n \in 0 .. n
    OBVIOUS
  <2> QED
    BY <1>2, <1>3, <2>1, Induction
<1> QED
  BY <1>1, <1>4 DEF SelectedUpTo

LEMMA SelectedIsLast ==
    ASSUME NEW S, NEW seq \in Seq(S), NEW wanted
    PROVE  \E of : SelectedUpTo(seq, wanted, of) /\ Selected(seq, wanted) = of[Len(seq)]
<1> DEFINE chosen == CHOOSE of : SelectedUpTo(seq, wanted, of)
<1>1. SelectedUpTo(seq, wanted, chosen)
  BY SelectedExists
<1>2. Selected(seq, wanted) = chosen[Len(seq)]
  BY DEF Selected, SelectedUpTo
<1> HIDE DEF chosen
<1> QED
  BY <1>1, <1>2

(* r has the elements among the first m of seq that are wanted, and begins with the first. *)
IsSelection(r, seq, m, wanted) ==
    /\ \A x : x \in ToSet(r) <=> x \in wanted /\ \E i \in 1 .. m : seq[i] = x
    /\ r # <<>> =>
          \E i \in 1 .. m : /\ seq[i] \in wanted /\ r[1] = seq[i]
                            /\ \A j \in 1 .. i - 1 : seq[j] \notin wanted

LEMMA AppendElements ==
    ASSUME NEW S, NEW p \in Seq(S), NEW x \in S
    PROVE  /\ Append(p, x) \in Seq(S)
           /\ \A y : y \in ToSet(Append(p, x)) <=> y \in ToSet(p) \/ y = x
           /\ p = <<>> => Append(p, x)[1] = x
           /\ p # <<>> => Append(p, x)[1] = p[1]
<1>1. PICK k \in Nat : k = Len(p) /\ DOMAIN p = 1 .. k
  OBVIOUS
<1>2. PICK r : r = Append(p, x)
  OBVIOUS
<1>3. /\ r \in Seq(S) /\ DOMAIN r = 1 .. k + 1 /\ r[k + 1] = x
      /\ \A i \in 1 .. k : r[i] = p[i]
  BY <1>1, <1>2, AppendProperties
<1>4. 1 .. k + 1 = (1 .. k) \cup {k + 1}
  OBVIOUS
<1>5. ASSUME NEW y
      PROVE  y \in ToSet(r) <=> y \in ToSet(p) \/ y = x
  BY <1>1, <1>3, <1>4 DEF ToSet
<1>6. p = <<>> => r[1] = x
  BY <1>1, <1>3
<1>7. p # <<>> => r[1] = p[1]
  <2>1. p # <<>> => 1 \in 1 .. k
    BY <1>1
  <2> QED
    BY <1>3, <2>1
<1> QED
  BY <1>2, <1>3, <1>5, <1>6, <1>7

LEMMA SelectionGrows ==
    ASSUME NEW S, NEW seq, NEW wanted, NEW m \in Nat, NEW n, n = m + 1, NEW p \in Seq(S),
           IsSelection(p, seq, m, wanted), NEW x \in S, x = seq[n]
    PROVE  IF x \in wanted THEN Append(p, x) \in Seq(S) /\ IsSelection(Append(p, x), seq, n, wanted)
                           ELSE IsSelection(p, seq, n, wanted)
<1>1. n \in 1 .. n /\ 1 .. n = (1 .. m) \cup {n} /\ n - 1 = m
  OBVIOUS
<1>2. /\ \A y : y \in ToSet(p) <=> y \in wanted /\ \E i \in 1 .. m : seq[i] = y
      /\ p # <<>> =>
            \E i \in 1 .. m : /\ seq[i] \in wanted /\ p[1] = seq[i]
                              /\ \A j \in 1 .. i - 1 : seq[j] \notin wanted
  BY DEF IsSelection
<1>3. CASE x \notin wanted
  BY <1>1, <1>2, <1>3 DEF IsSelection
<1>4. CASE x \in wanted
  <2>1. PICK r : r = Append(p, x)
    OBVIOUS
  <2>2. /\ r \in Seq(S)
        /\ \A y : y \in ToSet(r) <=> y \in ToSet(p) \/ y = x
        /\ p = <<>> => r[1] = x
        /\ p # <<>> => r[1] = p[1]
    BY <2>1, AppendElements
  <2>3. \A y : y \in ToSet(r) <=> y \in wanted /\ \E i \in 1 .. n : seq[i] = y
    BY <1>1, <1>2, <1>4, <2>2
  <2>4. \E i \in 1 .. n : /\ seq[i] \in wanted /\ r[1] = seq[i]
                          /\ \A j \in 1 .. i - 1 : seq[j] \notin wanted
    <3>1. CASE p = <<>>
      <4>1. \A y : y \notin ToSet(p)
        BY <3>1 DEF ToSet
      <4>2. \A j \in 1 .. m : seq[j] \notin wanted
        BY <1>2, <4>1
      <4> QED
        BY <1>1, <1>4, <2>2, <3>1, <4>2
    <3>2. CASE p # <<>>
      BY <1>1, <1>2, <2>2, <3>2
    <3> QED
      BY <3>1, <3>2
  <2>5. IsSelection(r, seq, n, wanted)
    BY <2>3, <2>4 DEF IsSelection
  <2> QED
    BY <1>4, <2>1, <2>2, <2>5
<1> QED
  BY <1>3, <1>4

(* Selected keeps the elements that are wanted, and begins with the first of them. *)
LEMMA SelectedElements ==
    ASSUME NEW S, NEW seq \in Seq(S), NEW wanted
    PROVE  /\ Selected(seq, wanted) \in Seq(S)
           /\ IsSelection(Selected(seq, wanted), seq, Len(seq), wanted)
<1>1. PICK n \in Nat : n = Len(seq) /\ DOMAIN seq = 1 .. n
  OBVIOUS
<1>2. PICK of : SelectedUpTo(seq, wanted, of) /\ Selected(seq, wanted) = of[n]
  BY <1>1, SelectedIsLast
<1>3. \A i \in 0 .. n :
          of[i] = IF i = 0 THEN <<>>
                  ELSE IF seq[i] \in wanted THEN Append(of[i - 1], seq[i]) ELSE of[i - 1]
  BY <1>1, <1>2 DEF SelectedUpTo
<1> DEFINE T == {m \in 0 .. n : of[m] \in Seq(S) /\ IsSelection(of[m], seq, m, wanted)}
<1>4. 0 \in T
  <2>1. 0 \in 0 .. n
    OBVIOUS
  <2>2. of[0] = <<>>
    BY <1>3, <2>1
  <2>3. <<>> \in Seq(S) /\ IsSelection(<<>>, seq, 0, wanted)
    BY DEF IsSelection, ToSet
  <2>4. of[0] \in Seq(S) /\ IsSelection(of[0], seq, 0, wanted)
    BY <2>2, <2>3
  <2> QED
    BY <2>1, <2>4
<1>5. ASSUME NEW m \in 0 .. n, m < n, m \in T
      PROVE  m + 1 \in T
  <2>1. m + 1 \in 0 .. n /\ m + 1 # 0 /\ m + 1 - 1 = m /\ m + 1 \in 1 .. n /\ m \in Nat
    BY <1>5
  <2>2. PICK x \in S : x = seq[m + 1]
    BY <1>1, <2>1
  <2>3. of[m + 1] = IF x \in wanted THEN Append(of[m], x) ELSE of[m]
    BY <1>3, <2>1, <2>2
  <2>4. of[m] \in Seq(S) /\ IsSelection(of[m], seq, m, wanted)
    BY <1>5
  <2>5. of[m + 1] \in Seq(S) /\ IsSelection(of[m + 1], seq, m + 1, wanted)
    <3>1. PICK n1 : n1 = m + 1
      OBVIOUS
    <3>2. PICK p \in Seq(S) : p = of[m]
      BY <2>4
    <3>3. m \in Nat /\ n1 = m + 1 /\ IsSelection(p, seq, m, wanted) /\ x = seq[n1]
      BY <2>1, <2>2, <2>4, <3>1, <3>2
    <3>4. IF x \in wanted
          THEN Append(p, x) \in Seq(S) /\ IsSelection(Append(p, x), seq, n1, wanted)
          ELSE IsSelection(p, seq, n1, wanted)
      BY <3>3, SelectionGrows
    <3> QED
      BY <2>3, <3>1, <3>2, <3>4
  <2> QED
    BY <2>1, <2>5
<1>6. n \in T
  <2> HIDE DEF T
  <2>1. n \in 0 .. n
    OBVIOUS
  <2> QED
    BY <1>4, <1>5, <2>1, Induction
<1> QED
  BY <1>1, <1>2, <1>6

-----------------------------------------------------------------------------
(* FlattenSeq *)

FlattenedUpTo(seqs, of) ==
    of = [i \in 1 .. Len(seqs) |-> IF i = 1 THEN seqs[i] ELSE of[i - 1] \o seqs[i]]

LEMMA FlattenedExists ==
    ASSUME NEW S, NEW seqs \in Seq(Seq(S))
    PROVE  \E of : FlattenedUpTo(seqs, of)
<1>1. PICK n \in Nat : n = Len(seqs)
  OBVIOUS
<1> DEFINE Upto(m, of) ==
             of = [i \in 1 .. m |-> IF i = 1 THEN seqs[i] ELSE of[i - 1] \o seqs[i]]
           T == {m \in 0 .. n : \E of : Upto(m, of)}
<1>2. 0 \in T
  <2>1. Upto(0, [i \in 1 .. 0 |-> IF i = 1 THEN seqs[i] ELSE <<>>])
    OBVIOUS
  <2>2. \E of : Upto(0, of)
    <3> HIDE DEF Upto
    <3> QED
      BY <2>1
  <2>3. 0 \in 0 .. n
    OBVIOUS
  <2> HIDE DEF Upto
  <2> QED
    BY <2>2, <2>3
<1>3. ASSUME NEW m \in 0 .. n, m < n, m \in T
      PROVE  m + 1 \in T
  <2>1. PICK of : Upto(m, of)
    BY <1>3
  <2> DEFINE next == IF m = 0 THEN seqs[1] ELSE of[m] \o seqs[m + 1]
             longer == [i \in 1 .. m + 1 |-> IF i = m + 1 THEN next ELSE of[i]]
  <2>2. \A i \in 1 .. m + 1 : i # 1 => i - 1 \in 1 .. m /\ longer[i - 1] = of[i - 1]
    OBVIOUS
  <2>3. \A i \in 1 .. m : of[i] = IF i = 1 THEN seqs[i] ELSE of[i - 1] \o seqs[i]
    BY <2>1
  <2>4. ASSUME NEW i \in 1 .. m + 1
        PROVE  longer[i] = IF i = 1 THEN seqs[i] ELSE longer[i - 1] \o seqs[i]
    BY <2>2, <2>3
  <2>5. Upto(m + 1, longer)
    BY <2>4
  <2>6. \E more : Upto(m + 1, more)
    <3> HIDE DEF Upto
    <3> QED
      BY <2>5
  <2>7. m + 1 \in 0 .. n
    BY <1>3
  <2> HIDE DEF Upto
  <2> QED
    BY <2>6, <2>7
<1>4. n \in T
  <2> HIDE DEF T
  <2>1. n \in 0 .. n
    OBVIOUS
  <2> QED
    BY <1>2, <1>3, <2>1, Induction
<1> QED
  BY <1>1, <1>4 DEF FlattenedUpTo

LEMMA FlattenedIsLast ==
    ASSUME NEW S, NEW seqs \in Seq(Seq(S)), Len(seqs) # 0
    PROVE  \E of : FlattenedUpTo(seqs, of) /\ FlattenSeq(seqs) = of[Len(seqs)]
<1> DEFINE chosen == CHOOSE of : FlattenedUpTo(seqs, of)
<1>1. FlattenedUpTo(seqs, chosen)
  BY FlattenedExists
<1>2. FlattenSeq(seqs) = chosen[Len(seqs)]
  BY DEF FlattenSeq, FlattenedUpTo
<1> HIDE DEF chosen
<1> QED
  BY <1>1, <1>2

(* r has the elements of the first m sequences, and begins with the first that there is. *)
IsFlattening(r, seqs, m) ==
    /\ \A x : x \in ToSet(r) <=> \E i \in 1 .. m : x \in ToSet(seqs[i])
    /\ r # <<>> =>
          \E i \in 1 .. m : /\ seqs[i] # <<>> /\ r[1] = seqs[i][1]
                            /\ \A j \in 1 .. i - 1 : seqs[j] = <<>>

LEMMA ConcatElements ==
    ASSUME NEW S, NEW p \in Seq(S), NEW q \in Seq(S)
    PROVE  /\ p \o q \in Seq(S)
           /\ \A y : y \in ToSet(p \o q) <=> y \in ToSet(p) \/ y \in ToSet(q)
           /\ p # <<>> => (p \o q)[1] = p[1]
           /\ p = <<>> => p \o q = q
<1>1. PICK k \in Nat, l \in Nat : /\ k = Len(p) /\ DOMAIN p = 1 .. k
                                  /\ l = Len(q) /\ DOMAIN q = 1 .. l
  OBVIOUS
<1>2. PICK r : r = p \o q
  OBVIOUS
<1>3. r \in Seq(S) /\ DOMAIN r = 1 .. k + l
  BY <1>1, <1>2, ConcatProperties
<1>4. \A i \in 1 .. k + l : r[i] = IF i <= k THEN p[i] ELSE q[i - k]
  BY <1>1, <1>2, ConcatProperties
<1>5. ASSUME NEW i \in 1 .. k + l
      PROVE  \/ i \in 1 .. k /\ r[i] = p[i]
             \/ i - k \in 1 .. l /\ r[i] = q[i - k]
  BY <1>4
<1>6. ASSUME NEW i \in 1 .. k
      PROVE  i \in 1 .. k + l /\ r[i] = p[i]
  BY <1>4
<1>7. ASSUME NEW i \in 1 .. l
      PROVE  i + k \in 1 .. k + l /\ r[i + k] = q[i]
  <2>1. i + k \in 1 .. k + l /\ ~(i + k <= k) /\ i + k - k = i
    OBVIOUS
  <2> QED
    BY <1>4, <2>1
<1>8. ASSUME NEW y
      PROVE  y \in ToSet(r) <=> y \in ToSet(p) \/ y \in ToSet(q)
  <2>1. ASSUME y \in ToSet(r)
        PROVE  y \in ToSet(p) \/ y \in ToSet(q)
    <3>1. PICK i \in 1 .. k + l : y = r[i]
      BY <1>3, <2>1 DEF ToSet
    <3> QED
      BY <1>1, <1>5, <3>1 DEF ToSet
  <2>2. ASSUME y \in ToSet(p)
        PROVE  y \in ToSet(r)
    <3>1. PICK i \in 1 .. k : y = p[i]
      BY <1>1, <2>2 DEF ToSet
    <3> QED
      BY <1>3, <1>6, <3>1 DEF ToSet
  <2>3. ASSUME y \in ToSet(q)
        PROVE  y \in ToSet(r)
    <3>1. PICK i \in 1 .. l : y = q[i]
      BY <1>1, <2>3 DEF ToSet
    <3> QED
      BY <1>3, <1>7, <3>1 DEF ToSet
  <2> QED
    BY <2>1, <2>2, <2>3
<1>9. p # <<>> => r[1] = p[1]
  <2>1. p # <<>> => 1 \in 1 .. k
    BY <1>1
  <2> QED
    BY <1>6, <2>1
<1>10. p = <<>> => r = q
  BY <1>2
<1> QED
  BY <1>2, <1>3, <1>8, <1>9, <1>10

LEMMA NoElements ==
    ASSUME NEW S, NEW p \in Seq(S), \A y : y \notin ToSet(p)
    PROVE  p = <<>>
<1>1. DOMAIN p = {}
  BY DEF ToSet
<1> QED
  BY <1>1

LEMMA FlatteningGrows ==
    ASSUME NEW S, NEW seqs, NEW m \in Nat, NEW n, n = m + 1, NEW p \in Seq(S),
           IsFlattening(p, seqs, m), NEW x \in Seq(S), x = seqs[n],
           \A i \in 1 .. m : seqs[i] \in Seq(S)
    PROVE  p \o x \in Seq(S) /\ IsFlattening(p \o x, seqs, n)
<1>1. n \in 1 .. n /\ 1 .. n = (1 .. m) \cup {n} /\ n - 1 = m
  OBVIOUS
<1>2. /\ \A y : y \in ToSet(p) <=> \E i \in 1 .. m : y \in ToSet(seqs[i])
      /\ p # <<>> =>
            \E i \in 1 .. m : /\ seqs[i] # <<>> /\ p[1] = seqs[i][1]
                              /\ \A j \in 1 .. i - 1 : seqs[j] = <<>>
  BY DEF IsFlattening
<1>3. PICK r : r = p \o x
  OBVIOUS
<1>4. /\ r \in Seq(S)
      /\ \A y : y \in ToSet(r) <=> y \in ToSet(p) \/ y \in ToSet(x)
      /\ p # <<>> => r[1] = p[1]
      /\ p = <<>> => r = x
  BY <1>3, ConcatElements
<1>5. \A y : y \in ToSet(r) <=> \E i \in 1 .. n : y \in ToSet(seqs[i])
  BY <1>1, <1>2, <1>4
<1>6. ASSUME r # <<>>
      PROVE  \E i \in 1 .. n : /\ seqs[i] # <<>> /\ r[1] = seqs[i][1]
                               /\ \A j \in 1 .. i - 1 : seqs[j] = <<>>
  <2>1. CASE p = <<>>
    <3>1. \A y : y \notin ToSet(p)
      BY <2>1 DEF ToSet
    <3>2. ASSUME NEW i \in 1 .. m
          PROVE  seqs[i] = <<>>
      <4>1. \A y : y \notin ToSet(seqs[i])
        BY <1>2, <3>1
      <4> QED
        BY <4>1, NoElements
    <3> QED
      BY <1>1, <1>4, <1>6, <2>1, <3>2
  <2>2. CASE p # <<>>
    BY <1>1, <1>2, <1>4, <2>2
  <2> QED
    BY <2>1, <2>2
<1> QED
  BY <1>3, <1>4, <1>5, <1>6 DEF IsFlattening

(* FlattenSeq has the elements of all sequences, and begins with the first of the first that  *)
(* is not empty.                                                                              *)
LEMMA FlattenedElements ==
    ASSUME NEW S, NEW seqs \in Seq(Seq(S))
    PROVE  /\ FlattenSeq(seqs) \in Seq(S)
           /\ IsFlattening(FlattenSeq(seqs), seqs, Len(seqs))
<1>1. PICK n \in Nat : n = Len(seqs) /\ DOMAIN seqs = 1 .. n
  OBVIOUS
<1>2. \A i \in 1 .. n : seqs[i] \in Seq(S)
  BY <1>1
<1>3. CASE n = 0
  <2>1. FlattenSeq(seqs) = <<>>
    BY <1>1, <1>3 DEF FlattenSeq
  <2>2. IsFlattening(<<>>, seqs, 0)
    BY DEF IsFlattening, ToSet
  <2> QED
    BY <1>1, <1>3, <2>1, <2>2
<1>4. CASE n # 0
  <2>1. PICK of : FlattenedUpTo(seqs, of) /\ FlattenSeq(seqs) = of[n]
    BY <1>1, <1>4, FlattenedIsLast
  <2>2. \A i \in 1 .. n : of[i] = IF i = 1 THEN seqs[i] ELSE of[i - 1] \o seqs[i]
    BY <1>1, <2>1 DEF FlattenedUpTo
  <2> DEFINE T == {m \in 0 .. n : m # 0 => of[m] \in Seq(S) /\ IsFlattening(of[m], seqs, m)}
  <2>3. 0 \in T
    OBVIOUS
  <2>4. ASSUME NEW m \in 0 .. n, m < n, m \in T
        PROVE  m + 1 \in T
    <3>1. /\ m + 1 \in 0 .. n /\ m + 1 # 0 /\ m + 1 - 1 = m /\ m + 1 \in 1 .. n /\ m \in Nat
          /\ 1 .. m \subseteq 1 .. n
      BY <2>4
    <3>0. \A i \in 1 .. m : seqs[i] \in Seq(S)
      BY <1>2, <3>1
    <3>2. PICK x \in Seq(S) : x = seqs[m + 1]
      BY <1>2, <3>1
    <3>3. CASE m = 0
      <4>1. of[1] = <<>> \o x /\ m + 1 = 1
        BY <2>2, <3>1, <3>2, <3>3
      <4>2. <<>> \in Seq(S) /\ IsFlattening(<<>>, seqs, 0)
        BY DEF IsFlattening, ToSet
      <4>3. of[1] \in Seq(S) /\ IsFlattening(of[1], seqs, 1)
        <5>1. PICK z, k : z = 0 /\ k = z + 1 /\ k = 1
          OBVIOUS
        <5>2. x = seqs[k] /\ z \in Nat /\ \A i \in 1 .. z : seqs[i] \in Seq(S)
          BY <3>2, <3>3, <5>1
        <5>3. <<>> \o x \in Seq(S) /\ IsFlattening(<<>> \o x, seqs, k)
          BY <4>2, <5>1, <5>2, FlatteningGrows
        <5> QED
          BY <4>1, <5>1, <5>3
      <4> QED
        BY <3>1, <4>1, <4>3
    <3>4. CASE m # 0
      <4>1. of[m + 1] = of[m] \o x
        <5>1. PICK k \in 1 .. n : k = m + 1 /\ k # 1 /\ k - 1 = m
          BY <3>1, <3>4
        <5>2. of[k] = of[k - 1] \o seqs[k]
          BY <2>2, <5>1
        <5> QED
          BY <3>2, <5>1, <5>2
      <4>2. of[m] \in Seq(S) /\ IsFlattening(of[m], seqs, m)
        BY <2>4, <3>4
      <4>3. of[m + 1] \in Seq(S) /\ IsFlattening(of[m + 1], seqs, m + 1)
        <5>1. PICK p \in Seq(S), k \in Nat : p = of[m] /\ k = m + 1
          BY <4>2
        <5>2. p \o x \in Seq(S) /\ IsFlattening(p \o x, seqs, k)
          BY <3>0, <3>1, <3>2, <4>2, <5>1, FlatteningGrows
        <5> QED
          BY <4>1, <5>1, <5>2
      <4> QED
        BY <3>1, <4>3
    <3> QED
      BY <3>3, <3>4
  <2>5. n \in T
    <3> HIDE DEF T
    <3>1. n \in 0 .. n
      OBVIOUS
    <3> QED
      BY <2>3, <2>4, <3>1, Induction
  <2> QED
    BY <1>1, <1>4, <2>1, <2>5
<1> QED
  BY <1>3, <1>4
-----------------------------------------------------------------------------
(* The same facts, as sets. *)

LEMMA SelectedSet ==
    ASSUME NEW S, NEW seq \in Seq(S), NEW wanted
    PROVE  /\ Selected(seq, wanted) \in Seq(S)
           /\ ToSet(Selected(seq, wanted)) = ToSet(seq) \cap wanted
           /\ Selected(seq, wanted) # <<>> =>
                 \E i \in DOMAIN seq : /\ seq[i] \in wanted /\ Selected(seq, wanted)[1] = seq[i]
                                       /\ \A j \in 1 .. i - 1 : seq[j] \notin wanted
<1>1. PICK n \in Nat : n = Len(seq) /\ DOMAIN seq = 1 .. n
  OBVIOUS
<1>2. PICK r : r = Selected(seq, wanted)
  OBVIOUS
<1>3. r \in Seq(S) /\ IsSelection(r, seq, n, wanted)
  BY <1>1, <1>2, SelectedElements
<1>4. \A x : x \in ToSet(r) <=> x \in wanted /\ \E i \in 1 .. n : seq[i] = x
  BY <1>3 DEF IsSelection
<1>5. ToSet(seq) = {seq[i] : i \in 1 .. n}
  BY <1>1 DEF ToSet
<1>6. ToSet(r) = ToSet(seq) \cap wanted
  BY <1>4, <1>5
<1>7. r # <<>> =>
          \E i \in DOMAIN seq : /\ seq[i] \in wanted /\ r[1] = seq[i]
                                /\ \A j \in 1 .. i - 1 : seq[j] \notin wanted
  BY <1>1, <1>3 DEF IsSelection
<1> QED
  BY <1>2, <1>3, <1>6, <1>7

LEMMA FlattenedSet ==
    ASSUME NEW S, NEW seqs \in Seq(Seq(S))
    PROVE  /\ FlattenSeq(seqs) \in Seq(S)
           /\ ToSet(FlattenSeq(seqs)) = UNION {ToSet(seqs[i]) : i \in DOMAIN seqs}
           /\ FlattenSeq(seqs) # <<>> =>
                 \E i \in DOMAIN seqs : /\ seqs[i] # <<>> /\ FlattenSeq(seqs)[1] = seqs[i][1]
                                        /\ \A j \in 1 .. i - 1 : seqs[j] = <<>>
<1>1. PICK n \in Nat : n = Len(seqs) /\ DOMAIN seqs = 1 .. n
  OBVIOUS
<1>2. PICK r : r = FlattenSeq(seqs)
  OBVIOUS
<1>3. r \in Seq(S) /\ IsFlattening(r, seqs, n)
  BY <1>1, <1>2, FlattenedElements
<1>4. \A x : x \in ToSet(r) <=> \E i \in 1 .. n : x \in ToSet(seqs[i])
  BY <1>3 DEF IsFlattening
<1>5. ToSet(r) = UNION {ToSet(seqs[i]) : i \in DOMAIN seqs}
  BY <1>1, <1>4
<1>6. r # <<>> =>
          \E i \in DOMAIN seqs : /\ seqs[i] # <<>> /\ r[1] = seqs[i][1]
                                 /\ \A j \in 1 .. i - 1 : seqs[j] = <<>>
  BY <1>1, <1>3 DEF IsFlattening
<1> QED
  BY <1>2, <1>3, <1>5, <1>6

LEMMA ToSetOf ==
    ASSUME NEW S, NEW p \in Seq(S)
    PROVE  /\ ToSet(p) \subseteq S
           /\ p \in Seq(ToSet(p))
           /\ p = <<>> <=> ToSet(p) = {}
           /\ p # <<>> => p[1] \in ToSet(p) /\ 1 \in DOMAIN p
           /\ \A i \in DOMAIN p : p[i] \in ToSet(p)
<1>1. PICK n \in Nat : n = Len(p) /\ DOMAIN p = 1 .. n
  OBVIOUS
<1>2. ToSet(p) = {p[i] : i \in 1 .. n}
  BY <1>1 DEF ToSet
<1>3. p = <<>> <=> n = 0
  BY <1>1
<1>4. p = <<>> <=> ToSet(p) = {}
  <2>1. n # 0 => p[1] \in ToSet(p)
    BY <1>1, <1>2
  <2>2. n = 0 => ToSet(p) = {}
    BY <1>2
  <2> QED
    BY <1>3, <2>1, <2>2
<1>5. p \in Seq(ToSet(p))
  <2>1. \A i \in 1 .. n : p[i] \in ToSet(p)
    BY <1>2
  <2> QED
    BY <1>1, <2>1
<1>6. p # <<>> => p[1] \in ToSet(p) /\ 1 \in DOMAIN p
  BY <1>1, <1>2, <1>3
<1>7. ToSet(p) \subseteq S
  <2>1. \A i \in 1 .. n : p[i] \in S
    BY <1>1
  <2> QED
    BY <1>2, <2>1
<1>8. \A i \in DOMAIN p : p[i] \in ToSet(p)
  BY <1>1, <1>2
<1> QED
  BY <1>4, <1>5, <1>6, <1>7, <1>8

LEMMA SequenceOfMore ==
    ASSUME NEW S, NEW T, S \subseteq T, NEW p \in Seq(S)
    PROVE  p \in Seq(T)
OBVIOUS

LEMMA Concatenated ==
    ASSUME NEW S, NEW p \in Seq(S), NEW q \in Seq(S), NEW k, k = Len(p)
    PROVE  /\ p \o q \in Seq(S) /\ Len(p \o q) = k + Len(q)
           /\ \A i \in 1 .. k + Len(q) : (p \o q)[i] = IF i <= k THEN p[i] ELSE q[i - k]
BY ConcatProperties

(* Where the elements of four sequences, of the lengths k to n, are in their concatenation. *)
AreInOrder(all, p, q, r, s, k, l, m, n) ==
    /\ DOMAIN all = 1 .. k + l + m + n
    /\ \A i \in 1 .. k : all[i] = p[i]
    /\ \A i \in 1 .. l : all[k + i] = q[i]
    /\ \A i \in 1 .. m : all[k + l + i] = r[i]
    /\ \A i \in 1 .. n : all[k + l + m + i] = s[i]
    /\ \A i \in DOMAIN all :
          \/ i \in 1 .. k \/ i - k \in 1 .. l \/ i - k - l \in 1 .. m \/ i - k - l - m \in 1 .. n

LEMMA FourParts ==
    ASSUME NEW S, NEW p \in Seq(S), NEW q \in Seq(S), NEW r \in Seq(S), NEW s \in Seq(S),
           NEW k, NEW l, NEW m, NEW n, k = Len(p), l = Len(q), m = Len(r), n = Len(s)
    PROVE  p \o q \o r \o s \in Seq(S) /\ AreInOrder(p \o q \o r \o s, p, q, r, s, k, l, m, n)
<1>1. k \in Nat /\ l \in Nat /\ m \in Nat /\ n \in Nat
  OBVIOUS
<1>2. PICK a : a = p \o q
  OBVIOUS
<1>3. /\ a \in Seq(S) /\ Len(a) = k + l
      /\ \A i \in 1 .. k + l : a[i] = IF i <= k THEN p[i] ELSE q[i - k]
  BY <1>2, Concatenated
<1>4. PICK b : b = a \o r
  OBVIOUS
<1>5. /\ b \in Seq(S) /\ Len(b) = k + l + m
      /\ \A i \in 1 .. k + l + m : b[i] = IF i <= k + l THEN a[i] ELSE r[i - (k + l)]
  <2>1. PICK h : h = Len(a)
    OBVIOUS
  <2>2. /\ b \in Seq(S) /\ Len(b) = h + Len(r)
        /\ \A i \in 1 .. h + Len(r) : b[i] = IF i <= h THEN a[i] ELSE r[i - h]
    <3>1. a \in Seq(S)
      BY <1>3
    <3> QED
      BY <1>4, <2>1, <3>1, Concatenated
  <2>3. h = k + l
    BY <1>3, <2>1
  <2> QED
    BY <2>2, <2>3
<1>6. PICK all : all = b \o s
  OBVIOUS
<1>7. /\ all \in Seq(S) /\ Len(all) = k + l + m + n
      /\ \A i \in 1 .. k + l + m + n :
             all[i] = IF i <= k + l + m THEN b[i] ELSE s[i - (k + l + m)]
  <2>1. PICK h : h = Len(b)
    OBVIOUS
  <2>2. /\ all \in Seq(S) /\ Len(all) = h + Len(s)
        /\ \A i \in 1 .. h + Len(s) : all[i] = IF i <= h THEN b[i] ELSE s[i - h]
    <3>1. b \in Seq(S)
      BY <1>5
    <3> QED
      BY <1>6, <2>1, <3>1, Concatenated
  <2>3. h = k + l + m
    BY <1>5, <2>1
  <2> QED
    BY <2>2, <2>3
<1>8. DOMAIN all = 1 .. k + l + m + n
  BY <1>7
<1>9. ASSUME NEW i \in 1 .. k
      PROVE  all[i] = p[i]
  <2>1. i \in 1 .. k + l + m + n /\ i <= k + l + m /\ i \in 1 .. k + l + m /\ i <= k + l
        /\ i \in 1 .. k + l /\ i <= k
    BY <1>1
  <2> QED
    BY <1>3, <1>5, <1>7, <2>1
<1>10. ASSUME NEW i \in 1 .. l
       PROVE  all[k + i] = q[i]
  <2>1. PICK j : j = k + i
    OBVIOUS
  <2>2. j \in 1 .. k + l + m + n /\ j <= k + l + m /\ j \in 1 .. k + l + m /\ j <= k + l
        /\ j \in 1 .. k + l /\ ~(j <= k) /\ j - k = i
    BY <1>1, <2>1
  <2>3. all[j] = b[j] /\ b[j] = a[j] /\ a[j] = q[j - k]
    BY <1>3, <1>5, <1>7, <2>2
  <2> QED
    BY <2>1, <2>2, <2>3
<1>11. ASSUME NEW i \in 1 .. m
       PROVE  all[k + l + i] = r[i]
  <2>1. PICK j : j = k + l + i
    OBVIOUS
  <2>2. j \in 1 .. k + l + m + n /\ j <= k + l + m /\ j \in 1 .. k + l + m /\ ~(j <= k + l)
        /\ j - (k + l) = i
    BY <1>1, <2>1
  <2>3. all[j] = b[j] /\ b[j] = r[j - (k + l)]
    BY <1>5, <1>7, <2>2
  <2> QED
    BY <2>1, <2>2, <2>3
<1>12. ASSUME NEW i \in 1 .. n
       PROVE  all[k + l + m + i] = s[i]
  <2>1. PICK j : j = k + l + m + i
    OBVIOUS
  <2>2. j \in 1 .. k + l + m + n /\ ~(j <= k + l + m) /\ j - (k + l + m) = i
    BY <1>1, <2>1
  <2>3. all[j] = s[j - (k + l + m)]
    BY <1>7, <2>2
  <2> QED
    BY <2>1, <2>2, <2>3
<1>13. ASSUME NEW i \in 1 .. k + l + m + n
       PROVE  \/ i \in 1 .. k \/ i - k \in 1 .. l \/ i - k - l \in 1 .. m
              \/ i - k - l - m \in 1 .. n
  BY <1>1
<1>14. all = p \o q \o r \o s
  BY <1>2, <1>4, <1>6
<1> QED
  BY <1>7, <1>8, <1>9, <1>10, <1>11, <1>12, <1>13, <1>14 DEF AreInOrder

(* The elements of r are among the first m of seq, and in their order. *)
IsInOrder(r, seq, m) ==
    /\ \A j \in DOMAIN r : \E i \in 1 .. m : r[j] = seq[i]
    /\ \A j, k \in DOMAIN r : \A a, b \in 1 .. m :
           j < k /\ r[j] = seq[a] /\ r[k] = seq[b] => a < b

LEMMA OrderGrows ==
    ASSUME NEW S, NEW seq \in Seq(S), IsInjective(seq), NEW m \in Nat, NEW n, n = m + 1,
           n \in DOMAIN seq, NEW p \in Seq(S), IsInOrder(p, seq, m)
    PROVE  IsInOrder(Append(p, seq[n]), seq, n) /\ IsInOrder(p, seq, n)
<1>1. PICK l \in Nat : l = Len(seq) /\ DOMAIN seq = 1 .. l
  OBVIOUS
<1>2. PICK k \in Nat : k = Len(p) /\ DOMAIN p = 1 .. k
  OBVIOUS
<1>3. PICK r : r = Append(p, seq[n])
  OBVIOUS
<1>4. PICK x \in S : x = seq[n]
  BY <1>1
<1>5. /\ DOMAIN r = 1 .. k + 1 /\ r[k + 1] = x
      /\ \A i \in 1 .. k : r[i] = p[i]
  BY <1>2, <1>3, <1>4, AppendProperties
<1>6. 1 .. k + 1 = (1 .. k) \cup {k + 1} /\ 1 .. n = (1 .. m) \cup {n} /\ n <= l
  BY <1>1
<1>7. /\ \A j \in 1 .. k : \E i \in 1 .. m : p[j] = seq[i]
      /\ \A j, i \in 1 .. k : \A a, b \in 1 .. m : j < i /\ p[j] = seq[a] /\ p[i] = seq[b] => a < b
  BY <1>2 DEF IsInOrder
<1>8. \A a, b \in 1 .. n : seq[a] = seq[b] => a = b
  BY <1>1, <1>6 DEF IsInjective
<1>9. \A j \in 1 .. k : \A a \in 1 .. n : p[j] = seq[a] => a \in 1 .. m
  BY <1>6, <1>7, <1>8
<1>10. IsInOrder(p, seq, n)
  BY <1>2, <1>6, <1>7, <1>9 DEF IsInOrder
<1>11. \A j \in DOMAIN r : \E i \in 1 .. n : r[j] = seq[i]
  BY <1>4, <1>5, <1>6, <1>7
<1>12. ASSUME NEW j \in DOMAIN r, NEW i \in DOMAIN r, NEW a \in 1 .. n, NEW b \in 1 .. n,
              j < i, r[j] = seq[a], r[i] = seq[b]
       PROVE  a < b
  <2>1. j \in 1 .. k /\ p[j] = seq[a]
    BY <1>5, <1>12
  <2>2. a \in 1 .. m
    BY <1>9, <2>1
  <2>3. CASE i \in 1 .. k
    <3>1. p[i] = seq[b]
      BY <1>5, <1>12, <2>3
    <3>2. b \in 1 .. m
      BY <1>9, <2>3, <3>1
    <3> QED
      BY <1>7, <1>12, <2>1, <2>2, <2>3, <3>1, <3>2
  <2>4. CASE i = k + 1
    <3>1. b = n
      BY <1>4, <1>5, <1>6, <1>8, <1>12, <2>4
    <3> QED
      BY <2>2, <3>1
  <2> QED
    BY <1>5, <1>6, <2>3, <2>4
<1>13. IsInOrder(r, seq, n)
  BY <1>11, <1>12 DEF IsInOrder
<1> QED
  BY <1>3, <1>10, <1>13

(* Selected keeps the order of what it selects from. *)
LEMMA SelectedOrder ==
    ASSUME NEW S, NEW seq \in Seq(S), IsInjective(seq), NEW wanted
    PROVE  IsInOrder(Selected(seq, wanted), seq, Len(seq))
<1>1. PICK n \in Nat : n = Len(seq) /\ DOMAIN seq = 1 .. n
  OBVIOUS
<1>2. PICK of : SelectedUpTo(seq, wanted, of) /\ Selected(seq, wanted) = of[n]
  BY <1>1, SelectedIsLast
<1>3. \A i \in 0 .. n :
          of[i] = IF i = 0 THEN <<>>
                  ELSE IF seq[i] \in wanted THEN Append(of[i - 1], seq[i]) ELSE of[i - 1]
  BY <1>1, <1>2 DEF SelectedUpTo
<1> DEFINE T == {m \in 0 .. n : of[m] \in Seq(S) /\ IsInOrder(of[m], seq, m)}
<1>4. 0 \in T
  <2>1. of[0] = <<>> /\ 0 \in 0 .. n
    <3>1. 0 \in 0 .. n
      OBVIOUS
    <3>2. of[0] = IF 0 = 0 THEN <<>>
                  ELSE IF seq[0] \in wanted THEN Append(of[0 - 1], seq[0]) ELSE of[0 - 1]
      BY <1>3, <3>1
    <3> QED
      BY <3>1, <3>2
  <2>2. <<>> \in Seq(S) /\ IsInOrder(<<>>, seq, 0)
    BY DEF IsInOrder
  <2>3. of[0] \in Seq(S) /\ IsInOrder(of[0], seq, 0)
    BY <2>1, <2>2
  <2> QED
    BY <2>1, <2>3
<1>5. ASSUME NEW m \in 0 .. n, m < n, m \in T
      PROVE  m + 1 \in T
  <2>1. PICK n1 : n1 = m + 1
    OBVIOUS
  <2>2. n1 \in 0 .. n /\ n1 # 0 /\ n1 - 1 = m /\ n1 \in 1 .. n /\ m \in Nat
    BY <1>5, <2>1
  <2>3. PICK p \in Seq(S) : p = of[m] /\ IsInOrder(p, seq, m)
    BY <1>5
  <2>4. PICK x \in S : x = seq[n1]
    BY <1>1, <2>2
  <2>5. of[n1] = IF x \in wanted THEN Append(p, x) ELSE p
    BY <1>3, <2>2, <2>3, <2>4
  <2>6. IsInOrder(Append(p, x), seq, n1) /\ IsInOrder(p, seq, n1)
    BY <1>1, <2>1, <2>2, <2>3, <2>4, OrderGrows
  <2>7. Append(p, x) \in Seq(S)
    BY AppendElements
  <2>8. of[n1] \in Seq(S) /\ IsInOrder(of[n1], seq, n1)
    BY <2>3, <2>5, <2>6, <2>7
  <2> QED
    BY <2>1, <2>2, <2>8
<1>6. n \in T
  <2> HIDE DEF T
  <2>1. n \in 0 .. n
    OBVIOUS
  <2> QED
    BY <1>4, <1>5, <2>1, Induction
<1> QED
  BY <1>1, <1>2, <1>6
=============================================================================
