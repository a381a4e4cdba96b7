------------------------ MODULE QueryHandlingProofs ------------------------
(***************************************************************************)
(* Proofs about QueryHandling, for every set of datagrams, every block     *)
(* list, every hop limit and any safe search hosts: no read goes past the  *)
(* end of what is read, the walks over a name and its parents find an      *)
(* entry of the list exactly when there is one, the answer is about the    *)
(* question, the parser reads what the encoder writes, and the decoder     *)
(* undoes what the translation proxy does to a name.                       *)
(*                                                                         *)
(* The encoder and the proxy's way of writing a name are folds, so what    *)
(* they compute is shown by induction.  The induction theorems of the      *)
(* library take a predicate as parameter; here a set stands for it, and    *)
(* the principle is that a set of numbers has a smallest one.              *)
(***************************************************************************)
EXTENDS QueryHandling, FiniteSetTheorems, SequenceTheorems, WellFoundedInduction, TLAPS

-----------------------------------------------------------------------------
(* Induction, with sets of numbers for predicates.                         *)

\* A set of natural numbers that is not empty has a smallest one.
LEMMA SmallestExists ==
    ASSUME NEW T \in SUBSET Nat, T # {}
    PROVE  \E x \in T : \A y \in T : x <= y
<1> DEFINE R == OpToRel(<, Nat)
<1>1. PICK x \in T : \A y \in T : <<y, x>> \notin R
  <2>1. IsWellFoundedOn(R, Nat)
    BY NatLessThanWellFounded
  <2> HIDE DEF R
  <2> QED
    BY <2>1, WFMin
<1>2. \A y \in T : ~(y < x)
    BY <1>1 DEF OpToRel
<1> HIDE DEF R
<1> QED
    BY <1>2

\* What holds at m, and with any number of the next, holds from m on.
LEMMA CountingUp ==
    ASSUME NEW T, NEW m \in Nat, m \in T, \A k \in Nat : k >= m /\ k \in T => k + 1 \in T
    PROVE  \A k \in Nat : k >= m => k \in T
<1> SUFFICES ASSUME NEW k \in Nat, k >= m, k \notin T PROVE FALSE
    OBVIOUS
<1> DEFINE Missing == {j \in Nat : j >= m /\ j \notin T}
<1>1. PICK x \in Missing : \A y \in Missing : x <= y
  <2>1. k \in Missing /\ Missing \in SUBSET Nat
    OBVIOUS
  <2> QED
    BY <2>1, SmallestExists
<1>2. x - 1 \in Nat /\ x - 1 >= m /\ x - 1 \notin Missing
    BY <1>1
<1> QED
    BY <1>1, <1>2

\* What holds at n + 1, and with any number of the one before, holds down to 1.
LEMMA CountingDown ==
    ASSUME NEW T, NEW n \in Nat, n + 1 \in T, \A i \in 1..n : i + 1 \in T => i \in T
    PROVE  \A i \in 1..n + 1 : i \in T
<1> DEFINE Up == {k \in Nat : k <= n => n + 1 - k \in T}
<1>1. ASSUME NEW k \in Nat, k \in Up
      PROVE  k + 1 \in Up
    BY <1>1
<1>2. 0 \in Up
    OBVIOUS
<1>3. \A k \in Nat : k \in Up
  <2> HIDE DEF Up
  <2> QED
    BY <1>1, <1>2, CountingUp
<1>4. ASSUME NEW i \in 1..n + 1
      PROVE  i \in T
  <2>1. n + 1 - i \in Up
    BY <1>3
  <2> QED
    BY <2>1
<1> QED
    BY <1>4

-----------------------------------------------------------------------------
(* The encoder.  It takes the characters from the last to the first:       *)
(* Encoder(d, i) is what it has when it has come to the i-th.              *)

Encodings == [label : Seq(Byte), rest : Seq(Byte)]
EndMark == <<0>>
Nothing == [label |-> <<>>, rest |-> EndMark]
Flushed(acc) ==
    IF acc.label = <<>> THEN acc.rest ELSE <<Len(acc.label) % 256>> \o acc.label \o acc.rest
Taken(char, acc) ==
    IF char = Dot THEN [label |-> <<>>, rest |-> Flushed(acc)]
    ELSE [acc EXCEPT !.label = <<char>> \o @]

IsEncoder(d, iter) ==
    iter = [s \in SUBSET DOMAIN d |->
               IF s = {} THEN Nothing ELSE Taken(d[Min(s)], iter[s \ {Min(s)}])]
Encoder(d, i) == (CHOOSE iter : IsEncoder(d, iter))[i..Len(d)]
EncodedFrom(d, i) == Flushed(Encoder(d, i))

\* The minimum that the folds choose is one.
LEMMA MinIsOne ==
    ASSUME NEW s \in SUBSET Nat, s # {}
    PROVE  Min(s) \in s /\ \A y \in s : Min(s) <= y
<1>1. \E x \in s : \A y \in s : x <= y
    BY SmallestExists
<1> QED
    BY <1>1 DEF Min

\* A character taken leaves bytes, as does the label written out in front.
LEMMA TakenIsTyped ==
    ASSUME NEW char \in Byte, NEW acc \in Encodings
    PROVE  Taken(char, acc) \in Encodings /\ Flushed(acc) \in Seq(Byte)
<1>0. acc.label \in Seq(Byte) /\ acc.rest \in Seq(Byte)
    BY DEF Encodings
<1>1. Flushed(acc) \in Seq(Byte)
  <2>1. Len(acc.label) \in Nat /\ \A n \in Nat : n % 256 \in Byte
    BY <1>0 DEF Byte
  <2>2. PICK length \in Byte : length = Len(acc.label) % 256
    BY <2>1
  <2>3. <<length>> \in Seq(Byte)
    OBVIOUS
  <2>4. <<length>> \o acc.label \in Seq(Byte)
    BY <1>0, <2>3, ConcatProperties
  <2>5. <<length>> \o acc.label \o acc.rest \in Seq(Byte)
    BY <1>0, <2>4, ConcatProperties
  <2> QED
    BY <1>0, <2>2, <2>5 DEF Flushed
<1>2. <<char>> \o acc.label \in Seq(Byte)
    BY <1>0
<1>3. char = Dot => Taken(char, acc) \in Encodings
    BY <1>1 DEF Taken, Encodings
<1>4. char # Dot => Taken(char, acc) \in Encodings
    BY <1>0, <1>2 DEF Taken, Encodings
<1> QED
    BY <1>1, <1>3, <1>4

\* There is such a function, by induction over the size of the sets.
LEMMA EncoderExists ==
    ASSUME NEW d \in Seq(Byte)
    PROVE  \E iter : IsEncoder(d, iter)
<1> DEFINE Sets == SUBSET DOMAIN d
           UpTo(k) == {s \in Sets : Cardinality(s) <= k}
           At(s, f) == IF s = {} THEN Nothing ELSE Taken(d[Min(s)], f[s \ {Min(s)}])
           Good(k, f) == f = [s \in UpTo(k) |-> At(s, f)]
           T == {k \in Nat : \E f : Good(k, f)}
<1>1. DOMAIN d = 1..Len(d) /\ IsFiniteSet(DOMAIN d)
    BY FS_Interval
<1>2. ASSUME NEW s \in Sets
      PROVE  /\ IsFiniteSet(s) /\ Cardinality(s) \in Nat /\ Cardinality(s) <= Cardinality(DOMAIN d)
             /\ Cardinality(s) = 0 <=> s = {}
             /\ s # {} => /\ s \ {Min(s)} \in Sets
                          /\ Cardinality(s \ {Min(s)}) = Cardinality(s) - 1
  <2>1. IsFiniteSet(s) /\ Cardinality(s) <= Cardinality(DOMAIN d)
    BY <1>1, FS_Subset
  <2>2. s # {} => Min(s) \in s
    BY <1>1, MinIsOne
  <2> QED
    BY <2>1, <2>2, FS_CardinalityType, FS_EmptySet, FS_RemoveElement
<1>3. 0 \in T
  <2> DEFINE f == [s \in UpTo(0) |-> Nothing]
  <2>1. ASSUME NEW s \in UpTo(0)
        PROVE  s = {}
    <3>1. s \in Sets /\ Cardinality(s) <= 0
      OBVIOUS
    <3>2. Cardinality(s) \in Nat /\ (Cardinality(s) = 0 <=> s = {})
      BY <1>2, <3>1
    <3> QED
      BY <3>1, <3>2
  <2>2. Good(0, f)
    <3>1. \A s \in UpTo(0) : At(s, f) = Nothing
      BY <2>1
    <3> HIDE DEF At
    <3> QED
      BY <3>1
  <2> QED
    BY <2>2
<1>4. ASSUME NEW k \in Nat, k \in T
      PROVE  k + 1 \in T
  <2>1. PICK f : Good(k, f)
    BY <1>4
  <2> DEFINE g == [s \in UpTo(k + 1) |-> At(s, f)]
  <2>2. ASSUME NEW s \in UpTo(k)
        PROVE  s \in UpTo(k + 1) /\ f[s] = g[s]
    <3>1. s \in UpTo(k + 1)
      <4>1. s \in Sets /\ Cardinality(s) <= k
        OBVIOUS
      <4>2. Cardinality(s) \in Nat
        BY <1>2, <4>1
      <4> QED
        BY <4>1, <4>2
    <3>2. f[s] = At(s, f)
      <4> HIDE DEF At, UpTo
      <4> QED
        BY <2>1
    <3> QED
      BY <3>1, <3>2
  <2>3. ASSUME NEW s \in UpTo(k + 1)
        PROVE  At(s, f) = At(s, g)
    <3>1. CASE s = {}
      BY <3>1
    <3>2. CASE s # {}
      <4>1. s \ {Min(s)} \in UpTo(k)
        BY <1>2, <3>2
      <4> QED
        BY <2>2, <4>1
    <3> QED
      BY <3>1, <3>2
  <2>4. Good(k + 1, g)
    <3> HIDE DEF At
    <3> QED
      BY <2>3
  <2> HIDE DEF g, Good
  <2> QED
    BY <2>4
<1>5. Cardinality(DOMAIN d) \in T
  <2> HIDE DEF T
  <2> QED
    BY <1>1, <1>3, <1>4, CountingUp, FS_CardinalityType
<1>6. UpTo(Cardinality(DOMAIN d)) = Sets
    BY <1>2
<1>7. PICK f : Good(Cardinality(DOMAIN d), f)
    BY <1>5
<1>8. IsEncoder(d, f)
    BY <1>6, <1>7 DEF IsEncoder
<1> QED
    BY <1>8

\* What it has is the character's doing and that of those behind it.
LEMMA EncoderStep ==
    ASSUME NEW d \in Seq(Byte)
    PROVE  /\ Encoder(d, Len(d) + 1) = Nothing
           /\ \A i \in 1..Len(d) : Encoder(d, i) = Taken(d[i], Encoder(d, i + 1))
<1> DEFINE iter == CHOOSE iter : IsEncoder(d, iter)
<1>1. IsEncoder(d, iter)
    BY EncoderExists
<1>2. Len(d) \in Nat /\ DOMAIN d = 1..Len(d)
    OBVIOUS
<1>3. Encoder(d, Len(d) + 1) = iter[{}] /\ \A i \in Nat : Encoder(d, i) = iter[i..Len(d)]
    BY <1>2 DEF Encoder
<1> HIDE DEF iter
<1>4. iter[{}] = Nothing
    BY <1>1 DEF IsEncoder
<1>5. ASSUME NEW i \in 1..Len(d)
      PROVE  Encoder(d, i) = Taken(d[i], Encoder(d, i + 1))
  <2>1. i..Len(d) \in SUBSET DOMAIN d /\ i..Len(d) # {} /\ i..Len(d) \in SUBSET Nat
    BY <1>2
  <2>2. Min(i..Len(d)) = i
    BY <1>2, <2>1, MinIsOne
  <2>3. (i..Len(d)) \ {i} = i + 1..Len(d)
    BY <1>2
  <2>4. iter[i..Len(d)] = Taken(d[i], iter[(i..Len(d)) \ {i}])
    BY <1>1, <2>1, <2>2 DEF IsEncoder
  <2>5. Encoder(d, i) = iter[i..Len(d)] /\ Encoder(d, i + 1) = iter[i + 1..Len(d)]
    BY <1>2, <1>3
  <2> QED
    BY <2>3, <2>4, <2>5
<1> QED
    BY <1>3, <1>4, <1>5

\* All along, what it has is bytes.
LEMMA EncoderIsTyped ==
    ASSUME NEW d \in Seq(Byte)
    PROVE  \A i \in 1..Len(d) + 1 : Encoder(d, i) \in Encodings /\ EncodedFrom(d, i) \in Seq(Byte)
<1> DEFINE T == {i \in 1..Len(d) + 1 : Encoder(d, i) \in Encodings}
<1>1. Len(d) \in Nat
    OBVIOUS
<1>2. Nothing \in Encodings
  <2>1. EndMark \in Seq(Byte)
    BY DEF Byte, EndMark
  <2> QED
    BY <2>1 DEF Nothing, Encodings
<1>3. Len(d) + 1 \in T
    BY <1>1, <1>2, EncoderStep
<1>4. ASSUME NEW i \in 1..Len(d), i + 1 \in T
      PROVE  i \in T
    BY <1>4, EncoderStep, TakenIsTyped
<1>5. \A i \in 1..Len(d) + 1 : i \in T
  <2> HIDE DEF T
  <2> QED
    BY <1>1, <1>3, <1>4, CountingDown
<1>6. 0 \in Byte
    BY DEF Byte
<1> QED
    BY <1>5, <1>6, TakenIsTyped DEF EncodedFrom

\* Encoding a name is what it has when it has come to the first character
\* (encodeName).
LEMMA EncodeName ==
    ASSUME NEW d \in Seq(Byte)
    PROVE  encodeName(d) = EncodedFrom(d, 1) /\ encodeName(d) \in Seq(Byte)
<1>1. encodeName(d) = Flushed((CHOOSE iter : IsEncoder(d, iter))[DOMAIN d])
    BY DEF encodeName, FoldRight, MapThenFoldSet, IsEncoder, Nothing, EndMark, Flushed, Taken
<1>2. DOMAIN d = 1..Len(d) /\ 1 \in 1..Len(d) + 1
    OBVIOUS
<1>3. encodeName(d) = EncodedFrom(d, 1)
    BY <1>1, <1>2 DEF EncodedFrom, Encoder
<1> QED
    BY <1>2, <1>3, EncoderIsTyped

-----------------------------------------------------------------------------
(* The labels of a name, and how they are written.                         *)

\* No dot from the i-th to the j-th character.
NoDot(d, i, j) == \A x \in i..j : d[x] # Dot

\* How many labels there can be from the i-th character on, empty ones counted in.
LabelsFrom(d, i) ==
    IF i > Len(d) THEN 0 ELSE Cardinality({x \in i..Len(d) : d[x] = Dot}) + 1

\* The label that lies before the i-th character and the k-th, where it ends.
LabelTo(d, i, k) ==
    /\ NoDot(d, i, k - 1)
    /\ k = Len(d) + 1 \/ d[k] = Dot
    /\ Encoder(d, i).label = SubSeq(d, i, k - 1)
    /\ Encoder(d, i).rest = IF k > Len(d) THEN EndMark ELSE EncodedFrom(d, k + 1)

\* From any place on there is a label, maybe empty, that the encoder has gathered,
\* with what lies behind the dot that ends it already written.
LEMMA LabelAhead ==
    ASSUME NEW d \in Seq(Byte)
    PROVE  \A i \in 1..Len(d) + 1 : \E k \in i..Len(d) + 1 : LabelTo(d, i, k)
<1> DEFINE T == {i \in 1..Len(d) + 1 : \E k \in i..Len(d) + 1 : LabelTo(d, i, k)}
<1>1. Len(d) \in Nat
    OBVIOUS
<1>2. Len(d) + 1 \in T
  <2> DEFINE end == Len(d) + 1
  <2>1. SubSeq(d, end, end - 1) = <<>> /\ NoDot(d, end, end - 1)
    BY <1>1, SubSeqEmpty DEF NoDot
  <2>2. end > Len(d) /\ end = Len(d) + 1 /\ end \in 1..Len(d) + 1 /\ end \in end..Len(d) + 1
    BY <1>1
  <2>3. Encoder(d, end) = Nothing
    BY EncoderStep
  <2> HIDE DEF end
  <2>4. Encoder(d, end).label = <<>> /\ Encoder(d, end).rest = EndMark
    BY <2>3 DEF Nothing
  <2>5. LabelTo(d, end, end)
    BY <2>1, <2>2, <2>4 DEF LabelTo
  <2> QED
    BY <2>2, <2>5
<1>3. ASSUME NEW i \in 1..Len(d), i + 1 \in T
      PROVE  i \in T
  <2>1. PICK k \in i + 1..Len(d) + 1 : LabelTo(d, i + 1, k)
    BY <1>1, <1>3
  <2>2. Encoder(d, i) = Taken(d[i], Encoder(d, i + 1)) /\ Encoder(d, i + 1) \in Encodings
    BY <1>1, EncoderStep, EncoderIsTyped
  <2>3. CASE d[i] = Dot
    <3>1. /\ Encoder(d, i).label = <<>> /\ Encoder(d, i).rest = EncodedFrom(d, i + 1)
          /\ SubSeq(d, i, i - 1) = <<>> /\ NoDot(d, i, i - 1)
      BY <1>1, <2>2, <2>3, SubSeqEmpty DEF Taken, EncodedFrom, NoDot
    <3>2. LabelTo(d, i, i)
      BY <1>1, <2>3, <3>1 DEF LabelTo
    <3> QED
      BY <1>1, <3>2
  <2>4. CASE d[i] # Dot
    <3>1. /\ Encoder(d, i).label = <<d[i]>> \o SubSeq(d, i + 1, k - 1)
          /\ Encoder(d, i).rest = Encoder(d, i + 1).rest
      BY <2>1, <2>2, <2>4 DEF Taken, Encodings, LabelTo
    <3>2. SubSeq(d, i, k - 1) = <<d[i]>> \o SubSeq(d, i + 1, k - 1)
      BY <1>1, SubSeqRecursiveFirst
    <3>3. NoDot(d, i, k - 1)
      BY <1>1, <2>1, <2>4 DEF NoDot, LabelTo
    <3>4. LabelTo(d, i, k)
      BY <2>1, <3>1, <3>2, <3>3 DEF LabelTo
    <3> QED
      BY <1>1, <3>4
  <2> QED
    BY <2>3, <2>4
<1> HIDE DEF T
<1>4. \A i \in 1..Len(d) + 1 : i \in T
    BY <1>1, <1>2, <1>3, CountingDown
<1> QED
    BY <1>4 DEF T

\* Labels are counted.
LEMMA LabelsAreNat ==
    ASSUME NEW d \in Seq(Byte), NEW i \in 1..Len(d) + 1
    PROVE  LabelsFrom(d, i) \in Nat
<1> DEFINE dots == {x \in i..Len(d) : d[x] = Dot}
<1>1. IsFiniteSet(i..Len(d)) /\ dots \in SUBSET (i..Len(d))
    BY FS_Interval
<1> HIDE DEF dots
<1>2. Cardinality(dots) \in Nat
    BY <1>1, FS_Subset, FS_CardinalityType
<1>3. LabelsFrom(d, i) \in {0, Cardinality(dots) + 1}
    BY DEF LabelsFrom, dots
<1> QED
    BY <1>2, <1>3

\* Further on there are fewer dots, and one fewer behind a dot.
LEMMA FewerLabels ==
    ASSUME NEW d \in Seq(Byte), NEW i \in 1..Len(d), NEW j \in i..Len(d)
    PROVE  /\ LabelsFrom(d, i) \in Nat /\ LabelsFrom(d, i) >= 1
           /\ LabelsFrom(d, j) <= LabelsFrom(d, i)
           /\ d[j] = Dot => LabelsFrom(d, j + 1) + 1 <= LabelsFrom(d, i)
<1> DEFINE Dots(x) == {y \in x..Len(d) : d[y] = Dot}
<1>0. i \in Nat /\ j \in Nat /\ j + 1 \in Nat
    OBVIOUS
<1>1. Len(d) \in Nat
    OBVIOUS
<1>2. ASSUME NEW x \in Nat
      PROVE  IsFiniteSet(Dots(x)) /\ Cardinality(Dots(x)) \in Nat
  <2>1. Dots(x) \in SUBSET (x..Len(d))
    OBVIOUS
  <2>2. IsFiniteSet(x..Len(d))
    BY <1>1, FS_Interval
  <2> HIDE DEF Dots
  <2>3. IsFiniteSet(Dots(x))
    BY <2>1, <2>2, FS_Subset
  <2> QED
    BY <2>3, FS_CardinalityType
<1>3. Cardinality(Dots(j)) <= Cardinality(Dots(i))
  <2>1. Dots(j) \subseteq Dots(i)
    BY <1>1
  <2> QED
    BY <1>2, <2>1, FS_Subset
<1>4. ASSUME d[j] = Dot
      PROVE  Cardinality(Dots(j + 1)) + 1 <= Cardinality(Dots(i))
  <2>1. Dots(j + 1) \subseteq Dots(i) \ {j} /\ j \in Dots(i)
    BY <1>1, <1>4
  <2>2. /\ Cardinality(Dots(i) \ {j}) = Cardinality(Dots(i)) - 1
        /\ IsFiniteSet(Dots(i) \ {j})
    <3> HIDE DEF Dots
    <3>1. IsFiniteSet(Dots(i))
      BY <1>0, <1>2
    <3> QED
      BY <2>1, <3>1, FS_RemoveElement
  <2>3. Cardinality(Dots(j + 1)) <= Cardinality(Dots(i) \ {j})
    BY <2>1, <2>2, FS_Subset
  <2> HIDE DEF Dots
  <2>4. Cardinality(Dots(j + 1)) \in Nat /\ Cardinality(Dots(i)) \in Nat
    BY <1>0, <1>2
  <2> QED
    BY <2>2, <2>3, <2>4
<1>5. LabelsFrom(d, i) = Cardinality(Dots(i)) + 1 /\ LabelsFrom(d, j) = Cardinality(Dots(j)) + 1
    BY <1>1 DEF LabelsFrom
<1>6. LabelsFrom(d, j + 1) = IF j + 1 > Len(d) THEN 0 ELSE Cardinality(Dots(j + 1)) + 1
    BY <1>1 DEF LabelsFrom
<1> HIDE DEF Dots
<1>7. Cardinality(Dots(i)) \in Nat /\ Cardinality(Dots(j)) \in Nat /\ Cardinality(Dots(j + 1)) \in Nat
    BY <1>0, <1>2
<1> QED
    BY <1>1, <1>3, <1>4, <1>5, <1>6, <1>7

\* A name written is the end mark, or a label with its length before it and then
\* what lies behind that label.
StartsWithLabel(d, i, j, k, next) ==
    /\ i <= j /\ j < k /\ k <= next /\ next <= k + 1 /\ next <= Len(d) + 1
    /\ NoDot(d, j, k - 1)
    /\ EncodedFrom(d, i) = <<(k - j) % 256>> \o SubSeq(d, j, k - 1) \o EncodedFrom(d, next)
    /\ LabelsFrom(d, next) + 1 <= LabelsFrom(d, i)

\* From any place on, what is written is one or the other.
LEMMA EncodedForm ==
    ASSUME NEW d \in Seq(Byte)
    PROVE  \A i \in 1..Len(d) + 1 :
               \/ EncodedFrom(d, i) = EndMark
               \/ \E j, k, next \in i..Len(d) + 1 : StartsWithLabel(d, i, j, k, next)
<1> DEFINE Form(i) ==
               \/ EncodedFrom(d, i) = EndMark
               \/ \E j, k, next \in i..Len(d) + 1 : StartsWithLabel(d, i, j, k, next)
           T == {i \in 1..Len(d) + 1 : Form(i)}
<1>1. Len(d) \in Nat
    OBVIOUS
<1>2. EncodedFrom(d, Len(d) + 1) = EndMark /\ LabelsFrom(d, Len(d) + 1) = 0
  <2> DEFINE end == Len(d) + 1
  <2>1. Encoder(d, end) = Nothing
    BY EncoderStep
  <2>2. end > Len(d)
    BY <1>1
  <2> HIDE DEF end
  <2>3. EncodedFrom(d, end) = EndMark
    BY <2>1 DEF EncodedFrom, Nothing, Flushed
  <2>4. LabelsFrom(d, end) = 0
    BY <2>2 DEF LabelsFrom
  <2> QED
    BY <2>3, <2>4 DEF end
<1>3. ASSUME NEW i \in 1..Len(d), i + 1 \in T
      PROVE  Form(i)
  <2>1. PICK k \in i..Len(d) + 1 : LabelTo(d, i, k)
    BY <1>1, LabelAhead
  <2>2. CASE k = i
    <3>1. Encoder(d, i).label = <<>> /\ EncodedFrom(d, i) = EncodedFrom(d, i + 1)
      BY <1>1, <2>1, <2>2, SubSeqEmpty DEF LabelTo, EncodedFrom, Flushed
    <3>2. CASE EncodedFrom(d, i + 1) = EndMark
      BY <3>1, <3>2
    <3>3. CASE \E j, k1, next \in i + 1..Len(d) + 1 : StartsWithLabel(d, i + 1, j, k1, next)
      <4>1. PICK j, k1, next \in i + 1..Len(d) + 1 : StartsWithLabel(d, i + 1, j, k1, next)
        BY <3>3
      <4>2. LabelsFrom(d, i + 1) <= LabelsFrom(d, i)
        <5>1. CASE i = Len(d)
          BY <1>1, <1>2, <5>1, FewerLabels
        <5>2. CASE i < Len(d)
          BY <1>1, <5>2, FewerLabels
        <5> QED
          BY <1>1, <5>1, <5>2
      <4>3. /\ LabelsFrom(d, next) \in Nat /\ LabelsFrom(d, i) \in Nat
            /\ LabelsFrom(d, i + 1) \in Nat
        BY <1>1, LabelsAreNat
      <4>4. LabelsFrom(d, next) + 1 <= LabelsFrom(d, i)
        BY <4>1, <4>2, <4>3 DEF StartsWithLabel
      <4>5. StartsWithLabel(d, i, j, k1, next)
        BY <1>1, <3>1, <4>1, <4>4 DEF StartsWithLabel
      <4> QED
        BY <1>1, <4>5
    <3> QED
      BY <1>3, <3>2, <3>3
  <2>3. CASE k > i
    <3> DEFINE next == IF k > Len(d) THEN k ELSE k + 1
    <3> DEFINE label == SubSeq(d, i, k - 1)
    <3>1. Len(label) = k - i /\ k - i > 0
      BY <1>1, <2>3
    <3>2. Encoder(d, i).label = label /\ label # <<>>
      <4>1. Len(<<>>) = 0
        OBVIOUS
      <4> QED
        BY <2>1, <3>1, <4>1 DEF LabelTo
    <3>3. Encoder(d, i).rest = EncodedFrom(d, next)
      <4>1. CASE k > Len(d)
        <5>1. k = Len(d) + 1
          BY <1>1, <4>1
        <5> QED
          BY <1>2, <2>1, <4>1, <5>1 DEF LabelTo
      <4>2. CASE ~(k > Len(d))
        BY <2>1, <4>2 DEF LabelTo
      <4> QED
        BY <4>1, <4>2
    <3>8. EncodedFrom(d, i) = <<(k - i) % 256>> \o SubSeq(d, i, k - 1) \o EncodedFrom(d, next)
      <4> HIDE DEF label, next
      <4>1. EncodedFrom(d, i) = <<(k - i) % 256>> \o label \o EncodedFrom(d, next)
        BY <3>1, <3>2, <3>3 DEF EncodedFrom, Flushed
      <4> QED
        BY <4>1 DEF label
    <3>4. LabelsFrom(d, next) + 1 <= LabelsFrom(d, i)
      <4>1. CASE k > Len(d)
        BY <1>1, <1>2, <4>1, FewerLabels
      <4>2. CASE k <= Len(d)
        BY <1>1, <2>1, <4>2, FewerLabels DEF LabelTo
      <4> QED
        BY <1>1, <4>1, <4>2
    <3>5. next \in i..Len(d) + 1 /\ k <= next /\ next <= k + 1
      BY <1>1
    <3>6. NoDot(d, i, k - 1)
      BY <2>1 DEF LabelTo
    <3> HIDE DEF next
    <3>7. StartsWithLabel(d, i, i, k, next)
      BY <1>1, <2>3, <3>4, <3>5, <3>6, <3>8 DEF StartsWithLabel
    <3> QED
      BY <1>1, <3>5, <3>7
  <2> QED
    BY <1>1, <2>2, <2>3
<1> HIDE DEF Form
<1>4. \A i \in 1..Len(d) : i + 1 \in T => i \in T
    BY <1>1, <1>3
<1>5. Len(d) + 1 \in T
    BY <1>1, <1>2 DEF Form
<1> HIDE DEF T
<1>6. \A i \in 1..Len(d) + 1 : i \in T
    BY <1>1, <1>4, <1>5, CountingDown
<1> QED
    BY <1>6 DEF T, Form

-----------------------------------------------------------------------------
(* A name with one more label, and a name in lower case.                   *)

WrittenAlone(l) == <<Len(l) % 256>> \o l \o EndMark

\* Putting together three parts, it does not matter which two come first.
LEMMA ThreeParts ==
    \A r, s, t \in Seq(Byte) : r \o (s \o t) = (r \o s) \o t
    BY ConcatAssociative

\* A label with its length before it and the end mark behind is bytes.
LEMMA WrittenIsTyped ==
    ASSUME NEW l \in Seq(Byte)
    PROVE  WrittenAlone(l) \in Seq(Byte) /\ <<Len(l) % 256>> \in Seq(Byte) /\ EndMark \in Seq(Byte)
<1>1. Len(l) \in Nat /\ \A n \in Nat : n % 256 \in Byte
    BY DEF Byte
<1>2. PICK length \in Byte : length = Len(l) % 256
    BY <1>1
<1>3. <<length>> \in Seq(Byte) /\ EndMark \in Seq(Byte)
    BY DEF Byte, EndMark
<1>4. <<length>> \o l \in Seq(Byte)
    BY <1>3, ConcatProperties
<1>5. <<length>> \o l \o EndMark \in Seq(Byte)
    BY <1>3, <1>4, ConcatProperties
<1> QED
    BY <1>2, <1>3, <1>5 DEF WrittenAlone

\* Alike but for what stands at the end: the mark, or w.
DifferAtEnd(v, u, w) == \E p \in Seq(Byte) : v = p \o EndMark /\ u = p \o w

\* A label written in front of both leaves the difference at the end.
LEMMA FlushedAlike ==
    ASSUME NEW a \in Encodings, NEW b \in Encodings, b.label = a.label,
           NEW w \in Seq(Byte), DifferAtEnd(a.rest, b.rest, w)
    PROVE  DifferAtEnd(Flushed(a), Flushed(b), w)
<1>1. CASE a.label = <<>>
    BY <1>1 DEF Flushed
<1>2. CASE a.label # <<>>
  <2>1. a.label \in Seq(Byte) /\ EndMark \in Seq(Byte)
    BY WrittenIsTyped DEF Encodings
  <2>2. PICK h \in Seq(Byte) : h = <<Len(a.label) % 256>> \o a.label
    BY <2>1, WrittenIsTyped, ConcatProperties
  <2>3. PICK p \in Seq(Byte) : a.rest = p \o EndMark /\ b.rest = p \o w
    BY DEF DifferAtEnd
  <2>4. Flushed(a) = h \o (p \o EndMark) /\ Flushed(b) = h \o (p \o w)
    BY <1>2, <2>2, <2>3 DEF Flushed
  <2>5. h \o p \in Seq(Byte)
    BY ConcatProperties
  <2>6. h \o (p \o EndMark) = (h \o p) \o EndMark /\ h \o (p \o w) = (h \o p) \o w
    BY <2>1, ThreeParts
  <2> QED
    BY <2>4, <2>5, <2>6 DEF DifferAtEnd
<1> QED
    BY <1>1, <1>2

\* From where no dot is left there is one label, the last.
LEMMA LastLabel ==
    ASSUME NEW d \in Seq(Byte), NEW i \in 1..Len(d), NoDot(d, i, Len(d))
    PROVE  /\ Encoder(d, i) = [label |-> SubSeq(d, i, Len(d)), rest |-> EndMark]
           /\ EncodedFrom(d, i) = WrittenAlone(SubSeq(d, i, Len(d)))
<1>1. PICK k \in i..Len(d) + 1 : LabelTo(d, i, k)
    BY LabelAhead
<1>2. k = Len(d) + 1
  <2>1. k \notin i..Len(d) \/ d[k] # Dot
    BY DEF NoDot
  <2> QED
    BY <1>1, <2>1 DEF LabelTo
<1>3. k > Len(d) /\ k - 1 = Len(d)
    BY <1>2
<1>4. /\ Encoder(d, i).label = SubSeq(d, i, Len(d)) /\ Encoder(d, i).rest = EndMark
    BY <1>1, <1>3 DEF LabelTo
<1>5. Encoder(d, i) \in Encodings
    BY EncoderIsTyped
<1>6. SubSeq(d, i, Len(d)) # <<>>
  <2> DEFINE l == SubSeq(d, i, Len(d))
  <2>1. Len(l) > 0 /\ Len(<<>>) = 0
    OBVIOUS
  <2> HIDE DEF l
  <2>2. l # <<>>
    BY <2>1
  <2> QED
    BY <2>2 DEF l
<1> QED
    BY <1>4, <1>5, <1>6 DEF Encodings, EncodedFrom, Flushed, WrittenAlone

\* A name of one label is written as that label, with its length and the end mark.
LEMMA OneLabel ==
    ASSUME NEW l \in Seq(Byte), l # <<>>, NoDot(l, 1, Len(l))
    PROVE  encodeName(l) = WrittenAlone(l)
<1>1. 1 \in 1..Len(l) /\ SubSeq(l, 1, Len(l)) = l
    BY SubSeqFull
<1> QED
    BY <1>1, LastLabel, EncodeName

\* A name, a dot and a label: what stands where.
LEMMA TwoParts ==
    ASSUME NEW n \in Seq(Byte), NEW l \in Seq(Byte)
    PROVE  LET d == n \o <<Dot>> \o l
           IN  /\ Len(n) \in Nat /\ Len(l) \in Nat
               /\ d \in Seq(Byte) /\ Len(d) = Len(n) + 1 + Len(l)
               /\ \A i \in 1..Len(n) : d[i] = n[i]
               /\ d[Len(n) + 1] = Dot
               /\ \A i \in 1..Len(l) : d[Len(n) + 1 + i] = l[i]
<1> DEFINE d == n \o <<Dot>> \o l
<1>1. <<Dot>> \in Seq(Byte) /\ Len(<<Dot>>) = 1 /\ <<Dot>>[1] = Dot
  BY DEF Dot, Byte
<1> DEFINE c == n \o <<Dot>>
<1>2. /\ c \in Seq(Byte) /\ Len(c) = Len(n) + 1
      /\ \A i \in 1..Len(n) : c[i] = n[i]
      /\ c[Len(n) + 1] = Dot
  BY <1>1, ConcatProperties
<1> HIDE DEF c
<1>3. /\ c \o l \in Seq(Byte) /\ Len(c \o l) = Len(c) + Len(l)
      /\ \A i \in 1..Len(c) + Len(l) :
             (c \o l)[i] = IF i <= Len(c) THEN c[i] ELSE l[i - Len(c)]
  BY <1>2, ConcatProperties
<1>4. Len(n) \in Nat /\ Len(l) \in Nat
  OBVIOUS
<1>5. d = c \o l
  BY DEF c
<1> HIDE DEF d
<1>6. ASSUME NEW i \in 1..Len(l)
      PROVE  d[Len(n) + 1 + i] = l[i]
  <2>1. /\ Len(n) + 1 + i \in 1..Len(c) + Len(l) /\ ~(Len(n) + 1 + i <= Len(c))
        /\ (Len(n) + 1 + i) - Len(c) = i
    BY <1>2, <1>4
  <2> QED
    BY <1>3, <1>5, <2>1
<1>7. ASSUME NEW i \in 1..Len(c)
      PROVE  d[i] = c[i]
  BY <1>2, <1>3, <1>4, <1>5
<1> QED
  BY <1>2, <1>3, <1>4, <1>5, <1>6, <1>7 DEF d

\* With one more label, what is written differs behind what stood before the end
\* mark only.
LEMMA OneLabelMore ==
    ASSUME NEW n \in Seq(Byte), NEW l \in Seq(Byte), l # <<>>, NoDot(l, 1, Len(l))
    PROVE  DifferAtEnd(encodeName(n), encodeName(n \o <<Dot>> \o l), WrittenAlone(l))
<1> DEFINE d == n \o <<Dot>> \o l
           w == WrittenAlone(l)
           Alike(i) ==
               /\ Encoder(d, i).label = Encoder(n, i).label
               /\ DifferAtEnd(Encoder(n, i).rest, Encoder(d, i).rest, w)
           T == {i \in 1..Len(n) + 1 : Alike(i)}
<1>1. /\ Len(n) \in Nat /\ Len(l) \in Nat /\ Len(l) > 0
      /\ d \in Seq(Byte) /\ Len(d) = Len(n) + 1 + Len(l)
      /\ \A i \in 1..Len(n) : d[i] = n[i]
      /\ d[Len(n) + 1] = Dot
      /\ \A i \in 1..Len(l) : d[Len(n) + 1 + i] = l[i]
    BY TwoParts
<1> HIDE DEF d
<1>2. SubSeq(d, Len(n) + 2, Len(d)) = l
  <2> DEFINE s == SubSeq(d, Len(n) + 2, Len(d))
  <2>1. s \in Seq(Byte) /\ Len(s) = Len(l) /\ \A i \in 1..Len(l) : s[i] = d[Len(n) + 1 + i]
    BY <1>1
  <2> HIDE DEF s
  <2>2. s = l
    BY <1>1, <2>1, SeqEqual
  <2> QED
    BY <2>2 DEF s
<1>3. Encoder(d, Len(n) + 2) = [label |-> l, rest |-> EndMark] /\ EncodedFrom(d, Len(n) + 2) = w
  <2>1. Len(n) + 2 \in 1..Len(d) /\ NoDot(d, Len(n) + 2, Len(d))
    <3>1. ASSUME NEW x \in Len(n) + 2..Len(d)
          PROVE  d[x] # Dot
      <4>1. x - (Len(n) + 1) \in 1..Len(l) /\ d[x] = l[x - (Len(n) + 1)]
        BY <1>1
      <4> QED
        BY <4>1 DEF NoDot
    <3> QED
      BY <1>1, <3>1 DEF NoDot
  <2> QED
    BY <1>1, <1>2, <2>1, LastLabel
<1>4. w \in Seq(Byte) /\ EndMark \in Seq(Byte)
    BY WrittenIsTyped
<1> HIDE DEF w
<1>5. Len(n) + 1 \in T
  <2>1. Encoder(d, Len(n) + 1) = Taken(Dot, Encoder(d, Len(n) + 2))
    <3>1. Len(n) + 1 \in 1..Len(d) /\ (Len(n) + 1) + 1 = Len(n) + 2
      BY <1>1
    <3>2. Encoder(d, Len(n) + 1) = Taken(d[Len(n) + 1], Encoder(d, (Len(n) + 1) + 1))
      BY <1>1, <3>1, EncoderStep
    <3> QED
      BY <1>1, <3>1, <3>2
  <2>2. Encoder(d, Len(n) + 1).label = <<>> /\ Encoder(d, Len(n) + 1).rest = w
    BY <1>3, <2>1 DEF Taken, EncodedFrom
  <2>3. Encoder(n, Len(n) + 1).label = <<>> /\ Encoder(n, Len(n) + 1).rest = EndMark
    BY EncoderStep DEF Nothing
  <2>4. DifferAtEnd(EndMark, w, w)
    <3>1. <<>> \in Seq(Byte) /\ <<>> \o EndMark = EndMark /\ <<>> \o w = w
      BY <1>4, ConcatEmptySeq
    <3> QED
      BY <3>1 DEF DifferAtEnd
  <2>5. Alike(Len(n) + 1)
    BY <2>2, <2>3, <2>4
  <2> HIDE DEF Alike
  <2> QED
    BY <1>1, <2>5
<1>6. ASSUME NEW i \in 1..Len(n), i + 1 \in T
      PROVE  i \in T
  <2>1. DifferAtEnd(Encoder(n, i + 1).rest, Encoder(d, i + 1).rest, w)
    BY <1>6
  <2>2. /\ Encoder(n, i) = Taken(n[i], Encoder(n, i + 1))
        /\ Encoder(d, i) = Taken(n[i], Encoder(d, i + 1))
        /\ Encoder(n, i + 1) \in Encodings /\ Encoder(d, i + 1) \in Encodings
    <3>1. i \in 1..Len(d) /\ i + 1 \in 1..Len(d) + 1 /\ i + 1 \in 1..Len(n) + 1 /\ d[i] = n[i]
      BY <1>1
    <3>2. Encoder(n, i) = Taken(n[i], Encoder(n, i + 1)) /\ Encoder(n, i + 1) \in Encodings
      BY <3>1, EncoderStep, EncoderIsTyped
    <3>3. Encoder(d, i) = Taken(d[i], Encoder(d, i + 1)) /\ Encoder(d, i + 1) \in Encodings
      BY <1>1, <3>1, EncoderStep, EncoderIsTyped
    <3> QED
      BY <3>1, <3>2, <3>3
  <2>3. Encoder(d, i + 1).label = Encoder(n, i + 1).label
    BY <1>6
  <2>4. DifferAtEnd(Flushed(Encoder(n, i + 1)), Flushed(Encoder(d, i + 1)), w)
    BY <1>4, <2>1, <2>2, <2>3, FlushedAlike
  <2>5. Alike(i)
    <3>1. CASE n[i] = Dot
      <4>1. /\ Encoder(n, i) = [label |-> <<>>, rest |-> Flushed(Encoder(n, i + 1))]
            /\ Encoder(d, i) = [label |-> <<>>, rest |-> Flushed(Encoder(d, i + 1))]
        BY <2>2, <3>1 DEF Taken
      <4> QED
        BY <2>4, <4>1
    <3>2. CASE n[i] # Dot
      BY <2>1, <2>2, <2>3, <3>2 DEF Taken, Encodings
    <3> QED
      BY <3>1, <3>2
  <2> HIDE DEF Alike
  <2> QED
    BY <2>5
<1> HIDE DEF Alike
<1>7. 1 \in T
  <2>1. 1 \in 1..Len(n) + 1
    BY <1>1
  <2> HIDE DEF T
  <2>2. \A i \in 1..Len(n) + 1 : i \in T
    BY <1>1, <1>5, <1>6, CountingDown
  <2> QED
    BY <2>1, <2>2
<1>8. /\ Encoder(n, 1) \in Encodings /\ Encoder(d, 1) \in Encodings
      /\ Encoder(d, 1).label = Encoder(n, 1).label
      /\ DifferAtEnd(Encoder(n, 1).rest, Encoder(d, 1).rest, w)
    BY <1>1, <1>7, EncoderIsTyped DEF Alike
<1>9. encodeName(n) = Flushed(Encoder(n, 1)) /\ encodeName(d) = Flushed(Encoder(d, 1))
    BY <1>1, EncodeName DEF EncodedFrom
<1>10. DifferAtEnd(encodeName(n), encodeName(d), w)
    BY <1>4, <1>8, <1>9, FlushedAlike
<1> QED
    BY <1>10 DEF d, w

\* What folding the case of a name does to what is written, apart from case: nothing.
LowerByte(c) == IF c \in 65..90 THEN c + 32 ELSE c

\* A character stays one, is folded once and for all, and a dot stays a dot.
LEMMA LowerByteIsTyped ==
    \A c \in Byte :
        /\ LowerByte(c) \in Byte /\ LowerByte(LowerByte(c)) = LowerByte(c)
        /\ LowerByte(c) = Dot <=> c = Dot
<1>1. ASSUME NEW c \in 0..255
      PROVE  /\ LowerByte(c) \in 0..255 /\ LowerByte(LowerByte(c)) = LowerByte(c)
             /\ LowerByte(c) = 46 <=> c = 46
  <2>1. CASE c \in 65..90
    <3>1. LowerByte(c) = c + 32 /\ c + 32 \in 0..255 /\ c + 32 \notin 65..90
      BY <2>1 DEF LowerByte
    <3>2. LowerByte(c + 32) = c + 32
      BY <3>1 DEF LowerByte
    <3> QED
      BY <2>1, <3>1, <3>2
  <2>2. CASE c \notin 65..90
    BY <2>2 DEF LowerByte
  <2> QED
    BY <2>1, <2>2
<1> QED
    BY <1>1 DEF Byte, Dot

\* Folding case keeps a name a name of the same length, character by character.
LEMMA LowerCaseIsTyped ==
    ASSUME NEW n \in Seq(Byte)
    PROVE  /\ tolower(n) \in Seq(Byte) /\ Len(tolower(n)) = Len(n)
           /\ \A i \in 1..Len(n) : tolower(n)[i] = LowerByte(n[i])
<1>1. Len(n) \in Nat /\ DOMAIN n = 1..Len(n)
    OBVIOUS
<1>2. \A i \in 1..Len(n) : LowerByte(n[i]) \in Byte
    BY LowerByteIsTyped
<1>3. tolower(n) = [i \in 1..Len(n) |-> LowerByte(n[i])]
    BY <1>1 DEF tolower, LowerByte
<1>4. tolower(n) \in [1..Len(n) -> Byte]
    BY <1>2, <1>3
<1> QED
    BY <1>1, <1>3, <1>4

\* A second fold changes nothing.
LEMMA LowerCaseTwice ==
    ASSUME NEW n \in Seq(Byte)
    PROVE  tolower(tolower(n)) = tolower(n)
<1> DEFINE m == tolower(n)
<1>1. /\ m \in Seq(Byte) /\ Len(m) = Len(n) /\ \A i \in 1..Len(n) : m[i] = LowerByte(n[i])
    BY LowerCaseIsTyped
<1> HIDE DEF m
<1>2. /\ tolower(m) \in Seq(Byte) /\ Len(tolower(m)) = Len(m)
      /\ \A i \in 1..Len(m) : tolower(m)[i] = LowerByte(m[i])
    BY <1>1, LowerCaseIsTyped
<1>3. \A i \in 1..Len(m) : tolower(m)[i] = m[i]
    BY <1>1, <1>2, LowerByteIsTyped
<1>4. tolower(m) = m
    BY <1>1, <1>2, <1>3, SeqEqual
<1> QED
    BY <1>4 DEF m

\* Parts are folded one by one.
LEMMA LowerCaseOfParts ==
    ASSUME NEW s \in Seq(Byte), NEW t \in Seq(Byte)
    PROVE  tolower(s \o t) = tolower(s) \o tolower(t)
<1> DEFINE a == tolower(s \o t)
           ls == tolower(s)
           lt == tolower(t)
           b == ls \o lt
<1>1. /\ Len(s) \in Nat /\ Len(t) \in Nat
      /\ s \o t \in Seq(Byte) /\ Len(s \o t) = Len(s) + Len(t)
      /\ \A i \in 1..Len(s) + Len(t) : (s \o t)[i] = IF i <= Len(s) THEN s[i] ELSE t[i - Len(s)]
    BY ConcatProperties
<1>2. /\ a \in Seq(Byte) /\ Len(a) = Len(s) + Len(t)
      /\ \A i \in 1..Len(s) + Len(t) : a[i] = LowerByte((s \o t)[i])
    BY <1>1, LowerCaseIsTyped
<1>3. /\ ls \in Seq(Byte) /\ Len(ls) = Len(s) /\ \A i \in 1..Len(s) : ls[i] = LowerByte(s[i])
      /\ lt \in Seq(Byte) /\ Len(lt) = Len(t) /\ \A i \in 1..Len(t) : lt[i] = LowerByte(t[i])
    BY LowerCaseIsTyped
<1> HIDE DEF ls, lt
<1>4. /\ b \in Seq(Byte) /\ Len(b) = Len(s) + Len(t)
      /\ \A i \in 1..Len(s) + Len(t) : b[i] = IF i <= Len(s) THEN ls[i] ELSE lt[i - Len(s)]
  <2>1. ls \in Seq(Byte) /\ lt \in Seq(Byte)
    BY <1>3
  <2>2. /\ b \in Seq(Byte) /\ Len(b) = Len(ls) + Len(lt)
        /\ \A i \in 1..Len(ls) + Len(lt) :
               b[i] = IF i <= Len(ls) THEN ls[i] ELSE lt[i - Len(ls)]
    BY <2>1, ConcatProperties
  <2> HIDE DEF b
  <2> QED
    BY <1>3, <2>2
<1> HIDE DEF a, b
<1>5. ASSUME NEW i \in 1..Len(s) + Len(t)
      PROVE  a[i] = b[i]
  <2>1. CASE i <= Len(s)
    <3>1. i \in 1..Len(s)
      BY <1>1, <2>1
    <3> QED
      BY <1>1, <1>2, <1>3, <1>4, <2>1, <3>1
  <2>2. CASE ~(i <= Len(s))
    <3>1. i - Len(s) \in 1..Len(t)
      BY <1>1, <2>2
    <3> QED
      BY <1>1, <1>2, <1>3, <1>4, <2>2, <3>1
  <2> QED
    BY <2>1, <2>2
<1>6. a = b
    BY <1>1, <1>2, <1>4, <1>5, SeqEqual
<1> QED
    BY <1>6 DEF a, b, ls, lt

\* The lengths that the encoder writes are those of the labels, whatever their case.
LEMMA WrittenInLowerCase ==
    ASSUME NEW n \in Seq(Byte)
    PROVE  tolower(encodeName(tolower(n))) = tolower(encodeName(n))
<1> DEFINE m == tolower(n)
           Alike(i) ==
               /\ Encoder(m, i).label = tolower(Encoder(n, i).label)
               /\ tolower(Encoder(m, i).rest) = tolower(Encoder(n, i).rest)
           T == {i \in 1..Len(n) + 1 : Alike(i)}
<1>1. /\ Len(n) \in Nat /\ m \in Seq(Byte) /\ Len(m) = Len(n)
      /\ \A i \in 1..Len(n) : /\ m[i] \in Byte /\ n[i] \in Byte /\ (m[i] = Dot <=> n[i] = Dot)
                              /\ tolower(<<n[i]>>) = <<m[i]>>
  <2>1. m \in Seq(Byte) /\ Len(m) = Len(n) /\ Len(n) \in Nat
    BY LowerCaseIsTyped
  <2>2. ASSUME NEW i \in 1..Len(n)
        PROVE  /\ m[i] \in Byte /\ n[i] \in Byte /\ (m[i] = Dot <=> n[i] = Dot)
               /\ tolower(<<n[i]>>) = <<m[i]>>
    <3>1. m[i] = LowerByte(n[i])
      BY LowerCaseIsTyped
    <3>2. m[i] \in Byte /\ n[i] \in Byte
      BY <2>1
    <3> HIDE DEF m
    <3>3. m[i] = Dot <=> n[i] = Dot
      BY <3>1, <3>2, LowerByteIsTyped
    <3>4. tolower(<<n[i]>>) = <<m[i]>>
      <4> DEFINE s == <<n[i]>>
      <4>1. s \in Seq(Byte) /\ Len(s) = 1 /\ s[1] = n[i]
        BY <3>2
      <4> HIDE DEF s
      <4>2. tolower(s) \in Seq(Byte) /\ Len(tolower(s)) = 1 /\ tolower(s)[1] = m[i]
        BY <3>1, <4>1, LowerCaseIsTyped
      <4>3. <<m[i]>> \in Seq(Byte) /\ Len(<<m[i]>>) = 1 /\ <<m[i]>>[1] = m[i]
        BY <3>2
      <4>4. tolower(s) = <<m[i]>>
        BY <4>2, <4>3, SeqEqual
      <4> QED
        BY <4>4 DEF s
    <3> QED
      BY <3>2, <3>3, <3>4
  <2> QED
    BY <2>1, <2>2
<1> HIDE DEF m
<1>2. tolower(<<>>) = <<>>
    BY DEF tolower
<1>3. ASSUME NEW a \in Encodings, NEW b \in Encodings,
             b.label = tolower(a.label), tolower(b.rest) = tolower(a.rest)
      PROVE  tolower(Flushed(b)) = tolower(Flushed(a))
  <2>1. /\ a.label \in Seq(Byte) /\ a.rest \in Seq(Byte)
        /\ b.label \in Seq(Byte) /\ b.rest \in Seq(Byte)
    BY DEF Encodings
  <2>2. Len(b.label) = Len(a.label) /\ tolower(b.label) = tolower(a.label)
    BY <1>3, <2>1, LowerCaseIsTyped, LowerCaseTwice
  <2>3. CASE a.label = <<>>
    BY <1>2, <1>3, <2>3 DEF Flushed
  <2>4. CASE a.label # <<>>
    <3> DEFINE h == <<Len(a.label) % 256>>
    <3>1. b.label # <<>>
      <4>1. Len(a.label) # 0 /\ Len(<<>>) = 0
        BY <2>1, <2>4
      <4> QED
        BY <2>2, <4>1
    <3>2. h \in Seq(Byte)
      BY <2>1, WrittenIsTyped
    <3>3. Flushed(a) = h \o a.label \o a.rest /\ Flushed(b) = h \o b.label \o b.rest
      BY <2>2, <2>4, <3>1 DEF Flushed
    <3> HIDE DEF h
    <3>4. h \o a.label \in Seq(Byte) /\ h \o b.label \in Seq(Byte)
      BY <2>1, <3>2, ConcatProperties
    <3>5. tolower(Flushed(a)) = tolower(h) \o tolower(a.label) \o tolower(a.rest)
      BY <2>1, <3>2, <3>3, <3>4, LowerCaseOfParts
    <3>6. tolower(Flushed(b)) = tolower(h) \o tolower(b.label) \o tolower(b.rest)
      BY <2>1, <3>2, <3>3, <3>4, LowerCaseOfParts
    <3> QED
      BY <1>3, <2>2, <3>5, <3>6
  <2> QED
    BY <2>3, <2>4
<1>4. Len(n) + 1 \in T
  <2>1. Encoder(n, Len(n) + 1) = Nothing /\ Encoder(m, Len(n) + 1) = Nothing
    BY <1>1, EncoderStep
  <2>2. Nothing.label = <<>>
    BY DEF Nothing
  <2>3. Alike(Len(n) + 1)
    BY <1>2, <2>1, <2>2
  <2> HIDE DEF Alike
  <2> QED
    BY <1>1, <2>3
<1>5. ASSUME NEW i \in 1..Len(n), i + 1 \in T
      PROVE  i \in T
  <2> DEFINE a == Encoder(n, i + 1)
             b == Encoder(m, i + 1)
  <2>1. /\ Encoder(n, i) = Taken(n[i], a) /\ Encoder(m, i) = Taken(m[i], b)
        /\ a \in Encodings /\ b \in Encodings
    BY <1>1, EncoderStep, EncoderIsTyped
  <2>2. b.label = tolower(a.label) /\ tolower(b.rest) = tolower(a.rest)
    BY <1>5
  <2> HIDE DEF a, b
  <2>3. Alike(i)
    <3>1. CASE n[i] = Dot
      <4>1. /\ Encoder(n, i) = [label |-> <<>>, rest |-> Flushed(a)]
            /\ Encoder(m, i) = [label |-> <<>>, rest |-> Flushed(b)]
        BY <1>1, <2>1, <3>1 DEF Taken
      <4>2. tolower(Flushed(b)) = tolower(Flushed(a))
        BY <1>3, <2>1, <2>2
      <4> QED
        BY <1>2, <4>1, <4>2
    <3>2. CASE n[i] # Dot
      <4>1. /\ a.label \in Seq(Byte) /\ <<n[i]>> \in Seq(Byte)
            /\ tolower(<<n[i]>>) = <<m[i]>>
        BY <1>1, <2>1 DEF Encodings
      <4>2. tolower(<<n[i]>> \o a.label) = <<m[i]>> \o b.label
        BY <2>2, <4>1, LowerCaseOfParts
      <4>3. /\ Encoder(n, i).label = <<n[i]>> \o a.label /\ Encoder(n, i).rest = a.rest
        BY <2>1, <3>2 DEF Taken, Encodings
      <4>4. /\ Encoder(m, i).label = <<m[i]>> \o b.label /\ Encoder(m, i).rest = b.rest
        BY <1>1, <2>1, <3>2 DEF Taken, Encodings
      <4> QED
        BY <2>2, <4>2, <4>3, <4>4
    <3> QED
      BY <3>1, <3>2
  <2> HIDE DEF Alike
  <2> QED
    BY <2>3
<1>6. 1 \in T
  <2>1. 1 \in 1..Len(n) + 1
    BY <1>1
  <2> HIDE DEF T
  <2>2. \A i \in 1..Len(n) + 1 : i \in T
    BY <1>1, <1>4, <1>5, CountingDown
  <2> QED
    BY <2>1, <2>2
<1>7. Encoder(n, 1) \in Encodings /\ Encoder(m, 1) \in Encodings
    BY <1>1, EncoderIsTyped
<1>8. tolower(Flushed(Encoder(m, 1))) = tolower(Flushed(Encoder(n, 1)))
    BY <1>3, <1>6, <1>7
<1> QED
    BY <1>1, <1>8, EncodeName DEF EncodedFrom, m

-----------------------------------------------------------------------------
(* How the translation proxy writes a name, character by character.        *)

Piece(c) ==
    CASE c = Dot  -> <<Dash>>
      [] c = Dash -> <<Dash, Dash>>
      [] OTHER    -> <<c>>
Pieces(n) == [i \in 1..Len(n) |-> Piece(n[i])]

IsJoining(s, join) ==
    join = [i \in 1..Len(s) |-> IF i = 1 THEN s[i] ELSE join[i - 1] \o s[i]]

\* What the first k characters become.
Joined(n, k) == IF k = 0 THEN <<>> ELSE (CHOOSE join : IsJoining(Pieces(n), join))[k]

\* What a character becomes, and how long it is.
LEMMA PieceIsTyped ==
    ASSUME NEW c \in Byte
    PROVE  /\ c = Dot => Piece(c) = <<Dash>>
           /\ c = Dash => Piece(c) = <<Dash, Dash>>
           /\ c \notin {Dot, Dash} => Piece(c) = <<c>>
           /\ Piece(c) \in Seq(Byte) /\ Len(Piece(c)) \in {1, 2}
<1>1. Dash \in Byte /\ Dot # Dash
    BY DEF Dash, Dot, Byte
<1>2. c = Dot => Piece(c) = <<Dash>>
    BY <1>1 DEF Piece
<1>3. c = Dash => Piece(c) = <<Dash, Dash>>
    BY <1>1 DEF Piece
<1>4. c \notin {Dot, Dash} => Piece(c) = <<c>>
    BY DEF Piece
<1>5. /\ <<Dash>> \in Seq(Byte) /\ <<Dash, Dash>> \in Seq(Byte) /\ <<c>> \in Seq(Byte)
      /\ Len(<<Dash>>) = 1 /\ Len(<<Dash, Dash>>) = 2 /\ Len(<<c>>) = 1
    BY <1>1
<1> QED
    BY <1>2, <1>3, <1>4, <1>5

\* There is such a function, by induction over how far it goes.
LEMMA JoiningExists ==
    ASSUME NEW s, Len(s) \in Nat
    PROVE  \E join : IsJoining(s, join)
<1> DEFINE At(i, f) == IF i = 1 THEN s[i] ELSE f[i - 1] \o s[i]
           Good(k, f) == f = [i \in 1..k |-> At(i, f)]
           T == {k \in Nat : \E f : Good(k, f)}
<1>1. 0 \in T
  <2> DEFINE f == [i \in 1..0 |-> <<>>]
  <2>1. \A i \in 1..0 : At(i, f) = <<>>
    OBVIOUS
  <2>2. Good(0, f)
    <3> HIDE DEF At
    <3> QED
      BY <2>1
  <2> HIDE DEF Good
  <2> QED
    BY <2>2
<1>2. ASSUME NEW k \in Nat, k \in T
      PROVE  k + 1 \in T
  <2>1. PICK f : Good(k, f)
    BY <1>2
  <2> DEFINE g == [i \in 1..k + 1 |-> At(i, f)]
  <2>2. ASSUME NEW i \in 1..k
        PROVE  f[i] = g[i]
    <3> HIDE DEF At
    <3> QED
      BY <2>1
  <2>3. ASSUME NEW i \in 1..k + 1
        PROVE  At(i, f) = At(i, g)
    <3>1. CASE i = 1
      BY <3>1
    <3>2. CASE i # 1
      <4>1. i - 1 \in 1..k
        BY <3>2
      <4> QED
        BY <2>2, <3>2, <4>1
    <3> QED
      BY <3>1, <3>2
  <2>4. Good(k + 1, g)
    <3> HIDE DEF At
    <3> QED
      BY <2>3
  <2> HIDE DEF g, Good
  <2> QED
    BY <2>4
<1>3. Len(s) \in T
  <2> HIDE DEF T
  <2> QED
    BY <1>1, <1>2, CountingUp
<1>4. PICK f : Good(Len(s), f)
    BY <1>3
<1>5. IsJoining(s, f)
    BY <1>4 DEF IsJoining
<1> QED
    BY <1>5

\* What the first k characters become ends with what the k-th becomes.
LEMMA JoinedStep ==
    ASSUME NEW n \in Seq(Byte)
    PROVE  /\ Joined(n, 0) = <<>>
           /\ \A k \in 1..Len(n) : Joined(n, k) = Joined(n, k - 1) \o Piece(n[k])
<1> DEFINE s == Pieces(n)
           join == CHOOSE join : IsJoining(s, join)
<1>1. Len(n) \in Nat /\ Len(s) = Len(n) /\ \A i \in 1..Len(n) : s[i] = Piece(n[i])
    BY DEF Pieces
<1> HIDE DEF s
<1>2. IsJoining(s, join)
    BY <1>1, JoiningExists
<1>3. \A k \in 1..Len(n) : Joined(n, k) = join[k]
    BY DEF Joined, s
<1> HIDE DEF join
<1>4. ASSUME NEW k \in 1..Len(n)
      PROVE  Joined(n, k) = Joined(n, k - 1) \o Piece(n[k])
  <2>1. join[k] = IF k = 1 THEN s[k] ELSE join[k - 1] \o s[k]
    BY <1>1, <1>2 DEF IsJoining
  <2>2. CASE k = 1
    <3>1. Piece(n[k]) \in Seq(Byte)
      BY PieceIsTyped
    <3>2. <<>> \o Piece(n[k]) = Piece(n[k])
      BY <3>1, ConcatEmptySeq
    <3> QED
      BY <1>1, <1>3, <2>1, <2>2, <3>2 DEF Joined
  <2>3. CASE k # 1
    <3>1. k - 1 \in 1..Len(n)
      BY <2>3
    <3> QED
      BY <1>1, <1>3, <2>1, <2>3, <3>1
  <2> QED
    BY <2>2, <2>3
<1> QED
    BY <1>4 DEF Joined

\* What the first characters become is bytes.
LEMMA JoinedIsTyped ==
    ASSUME NEW n \in Seq(Byte)
    PROVE  \A k \in 0..Len(n) : Joined(n, k) \in Seq(Byte)
<1> DEFINE T == {k \in Nat : k <= Len(n) => Joined(n, k) \in Seq(Byte)}
<1>1. 0 \in T
  <2>1. <<>> \in Seq(Byte)
    OBVIOUS
  <2> QED
    BY <2>1, JoinedStep
<1>2. ASSUME NEW k \in Nat, k \in T
      PROVE  k + 1 \in T
  <2>1. CASE k + 1 <= Len(n)
    <3>1. k + 1 \in 1..Len(n) /\ (k + 1) - 1 = k /\ Joined(n, k) \in Seq(Byte)
      BY <1>2, <2>1
    <3>2. Joined(n, k + 1) = Joined(n, k) \o Piece(n[k + 1])
      BY <3>1, JoinedStep
    <3>3. Piece(n[k + 1]) \in Seq(Byte)
      BY <3>1, PieceIsTyped
    <3>4. Joined(n, k + 1) \in Seq(Byte)
      BY <3>1, <3>2, <3>3, ConcatProperties
    <3> QED
      BY <3>4
  <2> QED
    BY <2>1
<1>3. \A k \in Nat : k \in T
  <2> HIDE DEF T
  <2> QED
    BY <1>1, <1>2, CountingUp
<1> QED
    BY <1>3

\* What a character becomes stays where it is.
LEMMA JoinedStays ==
    ASSUME NEW n \in Seq(Byte), NEW k \in 0..Len(n)
    PROVE  \A m \in k..Len(n) :
               /\ Len(Joined(n, k)) <= Len(Joined(n, m))
               /\ \A x \in 1..Len(Joined(n, k)) : Joined(n, m)[x] = Joined(n, k)[x]
<1> DEFINE Stays(m) ==
               /\ Len(Joined(n, k)) <= Len(Joined(n, m))
               /\ \A x \in 1..Len(Joined(n, k)) : Joined(n, m)[x] = Joined(n, k)[x]
           T == {m \in Nat : m <= Len(n) => Stays(m)}
<1>1. k \in Nat /\ Len(n) \in Nat /\ Joined(n, k) \in Seq(Byte) /\ Len(Joined(n, k)) \in Nat
    BY JoinedIsTyped
<1>2. k \in T
    BY <1>1
<1>3. ASSUME NEW m \in Nat, m >= k, m \in T
      PROVE  m + 1 \in T
  <2>1. CASE m + 1 <= Len(n)
    <3>1. /\ m + 1 \in 1..Len(n) /\ (m + 1) - 1 = m /\ m \in 0..Len(n) /\ Stays(m)
      BY <1>1, <1>3, <2>1
    <3>2. Joined(n, m) \in Seq(Byte) /\ Piece(n[m + 1]) \in Seq(Byte)
      BY <3>1, JoinedIsTyped, PieceIsTyped
    <3>3. Joined(n, m + 1) = Joined(n, m) \o Piece(n[m + 1])
      BY <3>1, JoinedStep
    <3> DEFINE j == Joined(n, m)
               p == Piece(n[m + 1])
               w == Joined(n, m + 1)
    <3>4. /\ Len(w) = Len(j) + Len(p) /\ Len(j) \in Nat /\ Len(p) \in Nat
          /\ \A x \in 1..Len(j) + Len(p) : w[x] = IF x <= Len(j) THEN j[x] ELSE p[x - Len(j)]
      BY <3>2, <3>3, ConcatProperties
    <3>5. Len(Joined(n, k)) <= Len(j) /\ \A x \in 1..Len(Joined(n, k)) : j[x] = Joined(n, k)[x]
      BY <3>1
    <3> HIDE DEF j, p, w
    <3>6. Len(Joined(n, k)) <= Len(w)
      BY <1>1, <3>4, <3>5
    <3>7. \A x \in 1..Len(Joined(n, k)) : w[x] = Joined(n, k)[x]
      BY <1>1, <3>4, <3>5
    <3>8. Stays(m + 1)
      BY <3>6, <3>7 DEF w
    <3> HIDE DEF Stays
    <3> QED
      BY <3>8
  <2> QED
    BY <2>1
<1>4. \A m \in Nat : m >= k => m \in T
  <2> HIDE DEF T
  <2> QED
    BY <1>1, <1>2, <1>3, CountingUp
<1> HIDE DEF Stays
<1>5. \A m \in k..Len(n) : Stays(m)
    BY <1>1, <1>4
<1> QED
    BY <1>5 DEF Stays

\* Where the next character is found, and what it became.
LEMMA NextPiece ==
    ASSUME NEW n \in Seq(Byte), NEW k \in 0..Len(n) - 1
    PROVE  LET w    == Joined(n, Len(n))
               at   == Len(Joined(n, k)) + 1
               p    == Piece(n[k + 1])
           IN  /\ Len(Joined(n, k + 1)) = at + Len(p) - 1
               /\ at + Len(p) - 1 <= Len(w)
               /\ w[at] = p[1]
               /\ Len(p) = 2 => w[at + 1] = p[2]
<1> DEFINE w == Joined(n, Len(n))
           j == Joined(n, k)
           v == Joined(n, k + 1)
           p == Piece(n[k + 1])
<1>1. /\ Len(n) \in Nat /\ k \in Nat /\ k \in 0..Len(n) /\ k + 1 \in 1..Len(n)
      /\ k + 1 \in 0..Len(n) /\ (k + 1) - 1 = k /\ Len(n) \in k + 1..Len(n)
    OBVIOUS
<1>2. /\ j \in Seq(Byte) /\ p \in Seq(Byte)
      /\ Len(p) \in {1, 2} /\ Len(p) \in Nat /\ Len(p) >= 1
  <2>1. n[k + 1] \in Byte
    BY <1>1
  <2>2. Len(p) \in {1, 2}
    BY <2>1, PieceIsTyped
  <2>3. \A x \in {1, 2} : x \in Nat /\ x >= 1
    OBVIOUS
  <2> QED
    BY <1>1, <2>1, <2>2, <2>3, JoinedIsTyped, PieceIsTyped
<1>3. v = j \o p
    BY <1>1, JoinedStep
<1>4. /\ Len(v) = Len(j) + Len(p) /\ Len(j) \in Nat
      /\ \A x \in 1..Len(j) + Len(p) : v[x] = IF x <= Len(j) THEN j[x] ELSE p[x - Len(j)]
    BY <1>2, <1>3, ConcatProperties
<1>5. Len(v) <= Len(w) /\ \A x \in 1..Len(v) : w[x] = v[x]
    BY <1>1, JoinedStays
<1> HIDE DEF w, j, v, p
<1>6. w[Len(j) + 1] = p[1]
  <2>0. Len(j) \in Nat /\ Len(p) >= 1 /\ Len(v) = Len(j) + Len(p) /\ Len(p) \in Nat
    BY <1>2, <1>4
  <2>1. Len(j) + 1 \in 1..Len(v) /\ ~(Len(j) + 1 <= Len(j)) /\ (Len(j) + 1) - Len(j) = 1
    BY <2>0
  <2> QED
    BY <1>4, <1>5, <2>1
<1>7. ASSUME Len(p) = 2
      PROVE  w[Len(j) + 2] = p[2]
  <2>1. Len(j) + 2 \in 1..Len(v) /\ ~(Len(j) + 2 <= Len(j)) /\ (Len(j) + 2) - Len(j) = 2
    BY <1>4, <1>7
  <2> QED
    BY <1>4, <1>5, <2>1
<1>8. /\ Len(v) = (Len(j) + 1) + Len(p) - 1 /\ (Len(j) + 1) + 1 = Len(j) + 2
    BY <1>2, <1>4
<1> QED
    BY <1>5, <1>6, <1>7, <1>8 DEF w, j, v, p

\* The name as the proxy writes it.
LEMMA ProxiedName ==
    ASSUME NEW n \in Seq(Byte), Len(n) > 0
    PROVE  ProxiedAs(n) = Joined(n, Len(n)) \o TranslateSuffix
<1>1. FlattenSeq(Pieces(n)) = Joined(n, Len(n))
  <2>1. Len(Pieces(n)) = Len(n) /\ Len(n) # 0
    BY DEF Pieces
  <2> QED
    BY <2>1 DEF FlattenSeq, Joined, IsJoining
<1>2. Pieces(n) = [i \in 1..Len(n) |-> CASE n[i] = Dot  -> <<Dash>>
                                         [] n[i] = Dash -> <<Dash, Dash>>
                                         [] OTHER       -> <<n[i]>>]
    BY DEF Pieces, Piece
<1> QED
    BY <1>1, <1>2 DEF ProxiedAs

-----------------------------------------------------------------------------
(* What bounds the reads.                                                  *)

\* A sequence cut at both ends is a sequence, of the length one expects.
LEMMA CutIsASequence ==
    ASSUME NEW s \in Seq(Byte), NEW i \in Nat \ {0}, NEW j \in Nat, j <= Len(s)
    PROVE  /\ SubSeq(s, i, j) \in Seq(Byte)
           /\ Len(SubSeq(s, i, j)) = IF i <= j THEN j - i + 1 ELSE 0
    OBVIOUS

\* What stands in front of the proxy's suffix.
LEMMA EncodedIsAName ==
    ASSUME TypeOK, IsTranslateProxyHost(name)
    PROVE  Encoded \in Seq(Byte) /\ Len(Encoded) \in Nat
<1>1. name \in Seq(Byte) /\ Len(name) \in Nat /\ Len(TranslateSuffix) \in Nat
    BY SuffixAssumption DEF TypeOK
<1>2. Len(name) - Len(TranslateSuffix) \in Nat /\ Len(name) - Len(TranslateSuffix) <= Len(name)
    BY <1>1 DEF IsTranslateProxyHost
<1> QED  BY <1>1, <1>2, CutIsASequence DEF Encoded

\* The types are inductive together with what bounds the reads.
Bounded ==
    /\ TypeOK
    /\ stage = "receiving" => offset = 0 /\ hops = 0
    /\ stage = "decoding" => IsTranslateProxyHost(name)
    /\ InBounds

\* The reads are bounded from the start.
LEMMA BoundedInitially == Init => Bounded
<1> SUFFICES ASSUME Init PROVE Bounded
    OBVIOUS
<1>1. NoMessage \in [id : Nat, questions : Nat, body : Seq(Byte)]
    BY DEF NoMessage, Message
<1> QED
    BY <1>1 DEF Init, Bounded, TypeOK, InBounds, Stages, Walking

\* No step reads past an end or leaves a position or a name that is none.
LEMMA BoundedStep ==
    ASSUME Bounded, [Next]_vars
    PROVE  Bounded'
<1> USE DEF Bounded
<1>0. Body \in Seq(Byte) /\ Len(Body) \in Nat
    BY DEF TypeOK, Body
<1>1. ASSUME NEW lines \in Files, LoadFromFile(lines) PROVE Bounded'
    BY <1>1 DEF LoadFromFile, TypeOK, InBounds, Stages, Walking, parser, walk, Body, QuestionEnd, Encoded
<1>2. ASSUME NEW m \in Messages, Receive(m) PROVE Bounded'
  <2>1. message' \in [id : Nat, questions : Nat, body : Seq(Byte)]
    BY <1>2, MessagesAssumption DEF Receive
  <2>2. stage' \in {"done", "labels"} /\ offset' = 0 /\ hops' = 0
    BY <1>2 DEF Receive, Drops, Ends, parser
  <2>3. UNCHANGED <<name, subject, from>>
    BY <1>2 DEF Receive, parser, walk
  <2>4. Len(Body') \in Nat
    BY <2>1 DEF Body
  <2> QED
    BY <2>1, <2>2, <2>3, <2>4, HopsAssumption DEF TypeOK, InBounds, Stages, Walking
<1>3. ASSUME NEW length \in Byte, ReadLabel(length) PROVE Bounded'
  <2>0. length \in Nat
    BY DEF Byte
  <2>1. offset + 1 + length <= Len(Body) /\ hops + 1 <= kMaxLabelHops
    BY <1>3, <2>0, HopsAssumption DEF ReadLabel, Fits, AtLength, HopsLeft, TypeOK
  <2>2. SubSeq(Body, offset + 2, offset + 1 + length) \in Seq(Byte)
    BY <1>0, <2>0, <2>1, CutIsASequence DEF TypeOK
  <2>3. Dot \in Byte
    BY DEF Dot, Byte
  <2>4. name' \in Seq(Byte)
    BY <1>3, <2>2, <2>3 DEF ReadLabel, TypeOK
  <2>5. /\ stage = "labels" /\ UNCHANGED <<message, stage, subject, from, Body>>
        /\ offset' = offset + 1 + length /\ hops' = hops + 1
    BY <1>3 DEF ReadLabel, AtLength, walk, Body
  <2> QED
    BY <1>0, <2>0, <2>1, <2>4, <2>5 DEF TypeOK, InBounds, Walking
<1>4. CASE EndOfName
  <2>1. name' \in Seq(Byte)
    BY <1>4, LowerCaseIsTyped DEF EndOfName, TypeOK
  <2> QED
    BY <1>0, <1>4, <2>1
       DEF EndOfName, AtLength, Drops, Ends, TypeOK, InBounds, Stages, Walking, walk, Body, QuestionEnd
<1>5. CASE Reject
    BY <1>5 DEF Reject, Drops, Ends, TypeOK, InBounds, Stages, Walking, parser, walk, Body
<1>6. CASE Enforce
    BY <1>6 DEF Enforce, TypeOK, InBounds, Stages, Walking, parser, walk, Body, QuestionEnd
<1>7. CASE LookUp
    BY <1>7 DEF LookUp, TypeOK, InBounds, Stages, Walking, parser, Body, QuestionEnd
<1>8. CASE Sinkhole
    BY <1>8 DEF Sinkhole, Ends, TypeOK, InBounds, Stages, Walking, parser, walk, Body
<1>9. CASE LookUpProxied
  <2>1. IsTranslateProxyHost(name') /\ Encoded' = Encoded
    BY <1>9 DEF LookUpProxied, parser, IsTranslateProxyHost, Encoded
  <2>2. Len(Encoded) \in Nat
    BY <1>9, EncodedIsAName DEF LookUpProxied
  <2> QED
    BY <1>9, <2>1, <2>2
       DEF LookUpProxied, NoParent, TypeOK, InBounds, Stages, Walking, parser, Body, QuestionEnd
<1>10. CASE Forward
    BY <1>10 DEF Forward, NoParent, TypeOK, InBounds, Stages, Walking, parser, walk, Body, QuestionEnd
<1>11. ASSUME NEW i \in from..Len(subject), NextParent(i) PROVE Bounded'
  <2>1. Len(subject) \in Nat /\ i \in Nat
    BY <1>11 DEF TypeOK
  <2> QED
    BY <1>11, <2>1 DEF NextParent, TypeOK, InBounds, Stages, Walking, parser, Body, QuestionEnd
<1>12. CASE Decode
  <2>1. IsTranslateProxyHost(name') /\ Encoded' = Encoded
    BY <1>12 DEF Decode, parser, IsTranslateProxyHost, Encoded
  <2>2. Encoded \in Seq(Byte) /\ Len(Encoded) \in Nat
    BY <1>12, EncodedIsAName DEF Decode
  <2>3. from \in 1..Len(Encoded)
    BY <1>12, <2>2 DEF Decode, TypeOK
  <2>4. Encoded[from] \in Byte
    BY <2>2, <2>3
  <2>5. Decoded[1] \in Byte /\ Decoded[2] \in {1, 2} /\ from + Decoded[2] <= Len(Encoded) + 1
    BY <2>2, <2>3, <2>4 DEF Decoded, Paired, Dash, Dot, Byte
  <2>6. subject' \in Seq(Byte) /\ from' \in Nat \ {0} /\ from' <= Len(Encoded) + 1
    BY <1>12, <2>3, <2>5 DEF Decode, TypeOK
  <2> QED
    BY <1>12, <2>1, <2>6 DEF Decode, TypeOK, InBounds, Stages, Walking, parser, Body, QuestionEnd
<1>13. CASE LookUpDecoded
  <2>1. Len(subject') \in Nat
    BY <1>13 DEF LookUpDecoded, TypeOK
  <2> QED
    BY <1>13, <2>1 DEF LookUpDecoded, TypeOK, InBounds, Stages, Walking, parser, Body, QuestionEnd
<1>14. CASE Settle
  <2>1. stage' = "done" /\ UNCHANGED <<message, parser, walk>>
    BY <1>14 DEF Settle, UpstreamSilent, Answer, AnswerEnforced, Drops, Ends
  <2> QED
    BY <2>1 DEF TypeOK, InBounds, Stages, Walking, parser, walk, Body
<1>15. CASE Loop
  <2>1. NoMessage \in [id : Nat, questions : Nat, body : Seq(Byte)]
    BY DEF NoMessage, Message
  <2> QED
    BY <1>15, <2>1 DEF Loop, TypeOK, InBounds, Stages, Walking
<1>16. CASE UNCHANGED vars
    BY <1>16 DEF vars, TypeOK, InBounds, Stages, Walking, parser, walk, Body, QuestionEnd, Encoded
<1> QED
    BY <1>1, <1>2, <1>3, <1>4, <1>5, <1>6, <1>7, <1>8, <1>9, <1>10, <1>11, <1>12, <1>13, <1>14,
       <1>15, <1>16 DEF Next, Parse, Decide

\* Whatever datagrams come, names are sequences of bytes and the parser's
\* positions numbers (parseQuery, tolower, decodeTranslateProxyHost).
THEOREM TypeCorrect == Spec => []TypeOK
<1>1. Init => Bounded
    BY BoundedInitially
<1>2. Bounded /\ [Next]_vars => Bounded'
    BY BoundedStep
<1>3. Bounded => TypeOK
    BY DEF Bounded
<1> QED
    BY <1>1, <1>2, <1>3, PTL DEF Spec

\* No datagram makes the parser, the copy of the question, the walk over the
\* parents or the decoding of a proxy's name read past an end (parseQuery,
\* buildSinkholeResponse, isBlocked, decodeTranslateProxyHost).
THEOREM ReadsInBounds == Spec => []InBounds
<1>1. Init => Bounded
    BY BoundedInitially
<1>2. Bounded /\ [Next]_vars => Bounded'
    BY BoundedStep
<1>3. Bounded => InBounds
    BY DEF Bounded
<1> QED
    BY <1>1, <1>2, <1>3, PTL DEF Spec

-----------------------------------------------------------------------------
(* The walk: every parent in front of `from` has been looked up in vain.   *)

LookedUp ==
    Walking =>
        /\ from \in Beginnings(subject)
        /\ \A j \in Beginnings(subject) : j < from => From(subject, j) \notin domains

Sought ==
    /\ stage = "walk" => subject = name
    /\ stage \in {"walk", "decoding", "proxied"} => ~IsEnforced(name)
    /\ stage \in {"decoding", "proxied"} => ~Listed(name) /\ IsTranslateProxyHost(name)
    /\ stage # "done" => fate = "none"
    /\ LookedUp
    /\ SinkholedIffListed

\* The next parent begins behind the first dot: none is left out.
LEMMA NoneLeftOut ==
    ASSUME TypeOK, LookedUp, NEW i \in from..Len(subject), NextParent(i)
    PROVE  LookedUp'
<1>1. /\ from \in Nat /\ i \in Nat /\ Len(subject) \in Nat /\ i >= from
      /\ from' = i + 1 /\ UNCHANGED <<subject, domains>>
    BY DEF NextParent, TypeOK
<1>2. i + 1 \in Beginnings(subject)
    BY <1>1 DEF NextParent, IsFirstDot, IsDot, Beginnings, TypeOK
<1>3. ASSUME NEW j \in Beginnings(subject), j < i + 1
      PROVE  From(subject, j) \notin domains
  <2>1. CASE j < from
    BY <2>1 DEF LookedUp, NextParent
  <2>2. CASE j = from
    BY <2>2 DEF NextParent, Candidate
  <2>3. CASE j > from
    <3>1. PICK k \in 1..Len(subject) : j = k + 1 /\ subject[k] = Dot
        BY <1>1, <2>3 DEF Beginnings, TypeOK
    <3>2. k \in from..i - 1
        BY <1>1, <1>3, <2>3, <3>1
    <3> QED
        BY <3>1, <3>2 DEF NextParent, IsFirstDot
  <2>4. j \in Nat
    BY <1>1 DEF Beginnings
  <2> QED
    BY <1>1, <2>1, <2>2, <2>3, <2>4
<1>4. Beginnings(subject') = Beginnings(subject)
    BY <1>1
<1> QED
    BY <1>1, <1>2, <1>3, <1>4 DEF LookedUp, From

\* Where no dot is left, nothing of the name is listed.
LEMMA NothingFound ==
    ASSUME TypeOK, LookedUp, NoParent
    PROVE  ~Listed(subject)
<1>1. from \in Nat /\ Len(subject) \in Nat /\ Walking
    BY DEF TypeOK, NoParent
<1>2. ASSUME NEW j \in Beginnings(subject)
      PROVE  From(subject, j) \notin domains
  <2>1. CASE j < from
    BY <1>1, <2>1 DEF LookedUp
  <2>2. CASE j = from
    BY <2>2 DEF NoParent, Candidate
  <2>3. CASE j > from
    <3>1. PICK k \in 1..Len(subject) : j = k + 1 /\ subject[k] = Dot
        BY <1>1, <2>3 DEF Beginnings, TypeOK
    <3> QED
        BY <1>1, <2>3, <3>1 DEF NoParent, IsDot
  <2>4. j \in Nat
    BY <1>1 DEF Beginnings
  <2> QED
    BY <1>1, <2>1, <2>2, <2>3, <2>4
<1> QED
    BY <1>2 DEF Listed

\* At the start nothing has been sought.
LEMMA SoughtInitially == Init => Sought
    BY DEF Init, Sought, LookedUp, Walking, SinkholedIffListed

\* A step that neither walks nor decides leaves what has been found alone.
LEMMA SoughtElsewhere ==
    ASSUME stage' \notin {"walk", "decoding", "proxied", "asking"},
           fate' \in {"none", "dropped", "enforced", "resolved"},
           stage' # "done" => fate' = "none"
    PROVE  Sought'
    BY DEF Sought, LookedUp, Walking, SinkholedIffListed

\* Every step keeps what has been sought in vain.
LEMMA SoughtStep ==
    ASSUME TypeOK, Sought, [Next]_vars
    PROVE  Sought'
<1>1. ASSUME NEW lines \in Files, LoadFromFile(lines) PROVE Sought'
    BY <1>1, SoughtElsewhere DEF LoadFromFile, Sought
<1>2. ASSUME NEW m \in Messages, Receive(m) PROVE Sought'
    BY <1>2, SoughtElsewhere DEF Receive, Drops, Ends, Sought
<1>3. ASSUME NEW length \in Byte, ReadLabel(length) PROVE Sought'
    BY <1>3, SoughtElsewhere DEF ReadLabel, AtLength, Sought
<1>4. CASE EndOfName
    BY <1>4, SoughtElsewhere DEF EndOfName, AtLength, Drops, Ends, Sought
<1>5. CASE Reject
    BY <1>5, SoughtElsewhere DEF Reject, Drops, Ends, Sought
<1>6. CASE Enforce
  <2>1. IsEnforced(name') /\ stage' = "asking" /\ fate' = "none"
    BY <1>6 DEF Enforce, parser, Sought
  <2> QED
    BY <2>1 DEF Sought, LookedUp, Walking, SinkholedIffListed
<1>7. CASE LookUp
  <2>1. /\ stage' = "walk" /\ fate' = "none" /\ subject' = name' /\ ~IsEnforced(name')
        /\ from' = 1
    BY <1>7 DEF LookUp, parser, Sought
  <2>2. Len(subject') \in Nat
    BY <1>7 DEF LookUp, TypeOK
  <2>3. 1 \in Beginnings(subject') /\ \A j \in Beginnings(subject') : ~(j < 1)
    BY <2>2 DEF Beginnings
  <2> QED
    BY <2>1, <2>3 DEF Sought, LookedUp, SinkholedIffListed
<1>8. CASE Sinkhole
  <2>1. Walking /\ Listed(subject)
    BY <1>8 DEF Sinkhole, Sought, LookedUp, Candidate, Listed
  <2>2. Listed(name) \/ (IsTranslateProxyHost(name) /\ Listed(subject))
    BY <2>1 DEF Sought, Walking
  <2>3. UNCHANGED <<name, subject, domains>> /\ stage' = "done" /\ fate' = "sinkholed"
    BY <1>8 DEF Sinkhole, Ends, parser, walk
  <2>4. UNCHANGED <<Listed(name), Listed(subject), IsTranslateProxyHost(name)>>
    BY <2>3 DEF Listed, From, Beginnings, IsTranslateProxyHost
  <2> QED
    BY <2>2, <2>3, <2>4 DEF Sought, LookedUp, Walking, SinkholedIffListed
<1>9. CASE LookUpProxied
  <2>1. ~Listed(name) /\ IsTranslateProxyHost(name) /\ ~IsEnforced(name)
    BY <1>9, NothingFound DEF LookUpProxied, Sought
  <2>2. UNCHANGED <<name, domains>> /\ stage' = "decoding" /\ fate' = "none"
    BY <1>9 DEF LookUpProxied, NoParent, Walking, parser, Sought
  <2>3. UNCHANGED <<Listed(name), IsTranslateProxyHost(name), IsEnforced(name)>>
    BY <2>2 DEF Listed, From, Beginnings, IsTranslateProxyHost, IsEnforced, PrefixesOf
  <2> QED
    BY <2>1, <2>2, <2>3 DEF Sought, LookedUp, Walking, SinkholedIffListed
<1>10. CASE Forward
  <2>1. ~Listed(subject) /\ Walking
    BY <1>10, NothingFound DEF Forward, NoParent, Sought
  <2>2. ~Listed(name) /\ (IsTranslateProxyHost(name) => ~Listed(subject))
    BY <1>10, <2>1 DEF Forward, Sought, Walking
  <2>3. UNCHANGED <<name, subject, domains>> /\ stage' = "asking" /\ fate' = "none"
    BY <1>10, <2>1 DEF Forward, Walking, parser, walk, Sought
  <2>4. UNCHANGED <<Listed(name), Listed(subject), IsTranslateProxyHost(name)>>
    BY <2>3 DEF Listed, From, Beginnings, IsTranslateProxyHost
  <2> QED
    BY <2>2, <2>3, <2>4 DEF Sought, LookedUp, Walking, SinkholedIffListed
<1>11. ASSUME NEW i \in from..Len(subject), NextParent(i) PROVE Sought'
  <2>1. LookedUp'
    BY <1>11, NoneLeftOut DEF Sought
  <2>2. UNCHANGED <<name, subject, domains, stage, fate>> /\ Walking
    BY <1>11 DEF NextParent, parser
  <2>3. UNCHANGED <<Listed(name), IsTranslateProxyHost(name), IsEnforced(name)>>
    BY <2>2 DEF Listed, From, Beginnings, IsTranslateProxyHost, IsEnforced, PrefixesOf
  <2> QED
    BY <2>1, <2>2, <2>3 DEF Sought, Walking, SinkholedIffListed
<1>12. CASE Decode
  <2>1. UNCHANGED <<name, domains, stage, fate>> /\ stage = "decoding"
    BY <1>12 DEF Decode, parser
  <2>2. UNCHANGED <<Listed(name), IsTranslateProxyHost(name), IsEnforced(name)>>
    BY <2>1 DEF Listed, From, Beginnings, IsTranslateProxyHost, IsEnforced, PrefixesOf
  <2> QED
    BY <2>1, <2>2 DEF Sought, LookedUp, Walking, SinkholedIffListed
<1>13. CASE LookUpDecoded
  <2>1. /\ UNCHANGED <<name, domains, fate>> /\ stage = "decoding" /\ stage' = "proxied"
        /\ from' = 1
    BY <1>13 DEF LookUpDecoded, parser
  <2>2. UNCHANGED <<Listed(name), IsTranslateProxyHost(name), IsEnforced(name)>>
    BY <2>1 DEF Listed, From, Beginnings, IsTranslateProxyHost, IsEnforced, PrefixesOf
  <2>3. Len(subject') \in Nat
    BY <1>13 DEF LookUpDecoded, TypeOK
  <2>4. 1 \in Beginnings(subject') /\ \A j \in Beginnings(subject') : ~(j < 1)
    BY <2>3 DEF Beginnings
  <2> QED
    BY <2>1, <2>2, <2>4 DEF Sought, LookedUp, SinkholedIffListed
<1>14. CASE Settle
  <2>1. stage' = "done" /\ fate' \in {"dropped", "enforced", "resolved"}
    BY <1>14 DEF Settle, UpstreamSilent, Answer, AnswerEnforced, Drops, Ends
  <2> QED
    BY <2>1, SoughtElsewhere
<1>15. CASE Loop
    BY <1>15, SoughtElsewhere DEF Loop
<1>16. CASE UNCHANGED vars
  <2>1. UNCHANGED <<name, subject, from, domains, stage, fate>>
    BY <1>16 DEF vars, parser, walk
  <2> QED
    BY <2>1 DEF Sought, LookedUp, Walking, SinkholedIffListed, Listed, From, Beginnings,
                IsTranslateProxyHost, IsEnforced, PrefixesOf
<1> QED
    BY <1>1, <1>2, <1>3, <1>4, <1>5, <1>6, <1>7, <1>8, <1>9, <1>10, <1>11, <1>12, <1>13, <1>14,
       <1>15, <1>16 DEF Next, Parse, Decide

\* The walk over the parents finds an entry of the list exactly when the name, or
\* what it stands for at the translation proxy, has one: for every list, every
\* name and any safe search hosts (isBlocked, isBlockedIncludingProxies).
THEOREM SinkholedExactly == Spec => []SinkholedIffListed
<1>1. Init => Bounded /\ Sought
    BY BoundedInitially, SoughtInitially
<1>2. Bounded /\ Sought /\ [Next]_vars => Bounded' /\ Sought'
    BY BoundedStep, SoughtStep DEF Bounded
<1>3. Sought => SinkholedIffListed
    BY DEF Sought
<1> QED
    BY <1>1, <1>2, <1>3, PTL DEF Spec

-----------------------------------------------------------------------------
(* The answer: it is what was asked, cut and put together at the seams.    *)

\* Two sequences put together come apart where they were joined.
LEMMA Seam ==
    ASSUME NEW s \in Seq(Byte), NEW t \in Seq(Byte)
    PROVE  /\ s \o t \in Seq(Byte) /\ Len(s \o t) = Len(s) + Len(t)
           /\ SubSeq(s \o t, 1, Len(s)) = s
           /\ From(s \o t, Len(s) + 1) = t
           /\ IsPrefix(s, s \o t)
<1> DEFINE w == s \o t
           a == SubSeq(w, 1, Len(s))
           b == SubSeq(w, Len(s) + 1, Len(w))
<1>1. /\ Len(s) \in Nat /\ Len(t) \in Nat
      /\ w \in Seq(Byte) /\ Len(w) = Len(s) + Len(t)
      /\ \A i \in 1..Len(s) + Len(t) : w[i] = IF i <= Len(s) THEN s[i] ELSE t[i - Len(s)]
    BY ConcatProperties
<1> HIDE DEF w
<1>2. a = s
  <2>1. a \in Seq(Byte) /\ Len(a) = Len(s) /\ \A i \in 1..Len(s) : a[i] = w[i]
    BY <1>1
  <2>2. \A i \in 1..Len(s) : w[i] = s[i]
    BY <1>1
  <2> HIDE DEF a
  <2> QED
    BY <2>1, <2>2, SeqEqual
<1>3. b = t
  <2>1. b \in Seq(Byte) /\ Len(b) = Len(t) /\ \A i \in 1..Len(t) : b[i] = w[Len(s) + i]
    BY <1>1
  <2>2. ASSUME NEW i \in 1..Len(t)
        PROVE  w[Len(s) + i] = t[i]
    <3>1. /\ Len(s) + i \in 1..Len(s) + Len(t) /\ ~(Len(s) + i <= Len(s))
          /\ (Len(s) + i) - Len(s) = i
      BY <1>1
    <3> QED
      BY <1>1, <3>1
  <2> HIDE DEF b
  <2> QED
    BY <2>1, <2>2, SeqEqual
<1>4. SubSeq(s, 1, Len(s)) = s /\ Len(s) <= Len(w)
    BY <1>1, SubSeqFull
<1> QED
    BY <1>1, <1>2, <1>3, <1>4 DEF From, IsPrefix, w

\* What lies in front of the seam is cut from the first part, and what is cut from
\* behind a place in the first part has the second at its end.
LEMMA SeamFurtherOn ==
    ASSUME NEW s \in Seq(Byte), NEW t \in Seq(Byte), NEW i \in 1..Len(s) + 1
    PROVE  From(s \o t, i) = From(s, i) \o t
<1> DEFINE w == s \o t
           a == SubSeq(w, i, Len(w))
           h == SubSeq(s, i, Len(s))
           b == h \o t
<1>1. /\ Len(s) \in Nat /\ Len(t) \in Nat
      /\ w \in Seq(Byte) /\ Len(w) = Len(s) + Len(t)
      /\ \A x \in 1..Len(s) + Len(t) : w[x] = IF x <= Len(s) THEN s[x] ELSE t[x - Len(s)]
    BY ConcatProperties
<1>2. /\ h \in Seq(Byte) /\ Len(h) = Len(s) + 1 - i
      /\ \A x \in 1..Len(s) + 1 - i : h[x] = s[i + x - 1]
    BY <1>1
<1> HIDE DEF h
<1>3. /\ b \in Seq(Byte) /\ Len(b) = Len(h) + Len(t)
      /\ \A x \in 1..Len(h) + Len(t) : b[x] = IF x <= Len(h) THEN h[x] ELSE t[x - Len(h)]
    BY <1>2, ConcatProperties
<1> HIDE DEF w, b
<1>4. /\ a \in Seq(Byte) /\ Len(a) = Len(h) + Len(t)
      /\ \A x \in 1..Len(h) + Len(t) : a[x] = w[i + x - 1]
    BY <1>1, <1>2
<1> HIDE DEF a
<1>5. ASSUME NEW x \in 1..Len(a)
      PROVE  a[x] = b[x]
  <2>1. x \in 1..Len(h) + Len(t) /\ i + x - 1 \in 1..Len(s) + Len(t)
    BY <1>1, <1>2, <1>4
  <2>2. CASE x <= Len(h)
    <3>1. x \in 1..Len(s) + 1 - i /\ i + x - 1 <= Len(s)
      BY <1>1, <1>2, <2>1, <2>2
    <3>2. a[x] = s[i + x - 1] /\ b[x] = h[x] /\ h[x] = s[i + x - 1]
      BY <1>1, <1>2, <1>3, <1>4, <2>1, <2>2, <3>1
    <3> QED
      BY <3>2
  <2>3. CASE ~(x <= Len(h))
    <3>1. ~(i + x - 1 <= Len(s)) /\ (i + x - 1) - Len(s) = x - Len(h)
      BY <1>1, <1>2, <2>1, <2>3
    <3>2. a[x] = t[x - Len(h)] /\ b[x] = t[x - Len(h)]
      BY <1>1, <1>3, <1>4, <2>1, <2>3, <3>1
    <3> QED
      BY <3>2
  <2> QED
    BY <2>2, <2>3
<1>6. a = b
    BY <1>3, <1>4, <1>5, SeqEqual
<1> QED
    BY <1>6 DEF From, a, b, h, w

\* The host that a name is forced to is a name, and its encoding bytes.
LEMMA HostIsAName ==
    ASSUME IsEnforced(name)
    PROVE  /\ enforcedSafeSearchHostFor(name) \in Seq(Byte)
           /\ encodeName(enforcedSafeSearchHostFor(name)) \in Seq(Byte)
           /\ Len(encodeName(enforcedSafeSearchHostFor(name))) \in Nat
<1> DEFINE host == enforcedSafeSearchHostFor(name)
<1>1. host \in Seq(Byte)
  <2>1. CASE PrefixesOf(name) # {}
    <3>1. (CHOOSE p \in PrefixesOf(name) : TRUE) \in PrefixesOf(name)
      BY <2>1
    <3>2. (CHOOSE p \in PrefixesOf(name) : TRUE) \in DOMAIN EnforcedPrefixes
      BY <3>1 DEF PrefixesOf
    <3> QED
      BY <2>1, <3>2, HostsAssumption DEF enforcedSafeSearchHostFor
  <2>2. CASE PrefixesOf(name) = {}
    BY <2>2, HostsAssumption DEF enforcedSafeSearchHostFor, IsEnforced
  <2> QED
    BY <2>1, <2>2
<1> HIDE DEF host
<1>2. encodeName(host) \in Seq(Byte)
    BY <1>1, EncodeName
<1>3. Len(encodeName(host)) \in Nat
    BY <1>2, LenProperties
<1> QED
    BY <1>1, <1>2, <1>3 DEF host

\* An answer that begins with the question q, and the records behind it.
AnswersWith(q, answer) ==
    \E records \in Seq(Byte) :
        /\ answer = q \o records
        /\ records = <<>> \/ IsPrefix(QuestionPointer, records)

Question == SubSeq(Body, 1, QuestionEnd)

\* Such an answer begins with the question, and its first record is about it.
LEMMA AnswerIsAboutIt ==
    ASSUME Body \in Seq(Byte), QuestionEnd \in Nat, QuestionEnd <= Len(Body),
           NEW answer, AnswersWith(Question, answer)
    PROVE  /\ IsPrefix(Question, answer)
           /\ LET records == From(answer, QuestionEnd + 1)
              IN  records = <<>> \/ IsPrefix(QuestionPointer, records)
<1> DEFINE q == Question
<1>1. q \in Seq(Byte) /\ Len(q) = QuestionEnd
    BY DEF Question
<1> HIDE DEF q
<1>2. PICK records \in Seq(Byte) : /\ answer = q \o records
                                   /\ records = <<>> \/ IsPrefix(QuestionPointer, records)
    BY DEF AnswersWith, q
<1>3. IsPrefix(q, answer) /\ From(answer, QuestionEnd + 1) = records
    BY <1>1, <1>2, Seam
<1> QED
    BY <1>2, <1>3 DEF q

\* The sinkhole's record is about the question.
LEMMA SinkholeAnswers ==
    SinkholeAnswer \in Seq(Byte) /\ IsPrefix(QuestionPointer, SinkholeAnswer)
<1> DEFINE rest == <<0, 1, 0, 1, 0, 0, 0, 60, 0, 4, 0, 0, 0, 0>>
<1>1. QuestionPointer \in Seq(Byte) /\ rest \in Seq(Byte)
    BY DEF QuestionPointer, Byte
<1> HIDE DEF rest
<1>2. SinkholeAnswer = QuestionPointer \o rest
    BY DEF SinkholeAnswer, rest
<1> QED
    BY <1>1, <1>2, Seam

\* What was sent upstream, and that what came of it is an answer.
Replied ==
    /\ stage = "asking" =>
        asked = IF IsEnforced(name)
                  THEN buildSafeSearchUpstreamQuery(message, offset, enforcedSafeSearchHostFor(name))
                  ELSE message
    /\ stage # "done" => fate = "none"
    /\ AnswersTheQuestion

\* A step that neither asks nor answers.
LEMMA RepliedElsewhere ==
    ASSUME stage' # "asking", fate' \in {"none", "dropped"}, stage' # "done" => fate' = "none"
    PROVE  Replied'
    BY DEF Replied, AnswersTheQuestion

\* An answer with the client's number that begins with its question is one.
LEMMA RepliedByAnswer ==
    ASSUME Bounded, stage \in {"parsed", "walk", "decoding", "proxied", "asking"},
           stage' = "done", UNCHANGED <<message, offset>>,
           response'.id = message.id, AnswersWith(Question, response'.body)
    PROVE  Replied'
<1>1. Body \in Seq(Byte) /\ QuestionEnd \in Nat /\ QuestionEnd <= Len(Body)
    BY DEF Bounded, TypeOK, InBounds, Body, QuestionEnd
<1>2. /\ IsPrefix(Question, response'.body)
      /\ LET records == From(response'.body, QuestionEnd + 1)
         IN  records = <<>> \/ IsPrefix(QuestionPointer, records)
    BY <1>1, AnswerIsAboutIt
<1>3. Body' = Body /\ QuestionEnd' = QuestionEnd
    BY DEF Body, QuestionEnd
<1> QED
    BY <1>2, <1>3 DEF Replied, AnswersTheQuestion, Question

\* The sinkhole's answer is about the question.
LEMMA SinkholeReplies ==
    ASSUME Bounded, Sinkhole
    PROVE  Replied'
<1>1. /\ stage \in {"walk", "proxied"} /\ stage' = "done" /\ UNCHANGED <<message, offset>>
      /\ response' = Message(message.id, Question \o SinkholeAnswer)
    BY DEF Sinkhole, Walking, Ends, parser, buildSinkholeResponse, Body, Question
<1>2. response'.id = message.id /\ response'.body = Question \o SinkholeAnswer
    BY <1>1 DEF Message
<1>3. AnswersWith(Question, response'.body)
    BY <1>2, SinkholeAnswers DEF AnswersWith
<1> QED
    BY <1>1, <1>2, <1>3, RepliedByAnswer

\* What a server can add.
Records == {<<>>, UpstreamAnswer}

\* A server adds nothing, or records that begin with a pointer to the question.
LEMMA RecordsAreRecords ==
    ASSUME NEW records \in Records
    PROVE  records \in Seq(Byte) /\ (records = <<>> \/ IsPrefix(QuestionPointer, records))
<1>1. <<>> \in Seq(Byte)
    OBVIOUS
<1> QED
    BY <1>1, UpstreamAssumption DEF Records

\* What a server answers is passed on, and is about the question as it was asked.
LEMMA AnswerReplies ==
    ASSUME Bounded, Replied, stage = "asking", NEW reply \in UpstreamReplies, Answer(reply)
    PROVE  Replied'
<1>1. /\ ~IsEnforced(name) /\ stage' = "done" /\ fate' = "resolved" /\ response' = reply
      /\ UNCHANGED <<message, offset>> /\ asked = message
    BY DEF Answer, Ends, parser, Replied
<1>2. CASE reply = Message(asked.id, <<>>)
    BY <1>1, <1>2 DEF Replied, AnswersTheQuestion, Message
<1>3. CASE reply # Message(asked.id, <<>>)
  <2>1. PICK records \in Records :
            reply = Message(asked.id, SubSeq(asked.body, 1, QuestionLength) \o records)
    BY <1>3 DEF UpstreamReplies, Records
  <2>2. reply.id = message.id /\ reply.body = Question \o records
    BY <1>1, <2>1 DEF Message, QuestionLength, Question, Body
  <2>3. AnswersWith(Question, response'.body)
    BY <1>1, <2>2, RecordsAreRecords DEF AnswersWith
  <2> QED
    BY <1>1, <2>2, <2>3, RepliedByAnswer
<1> QED
    BY <1>2, <1>3

\* For a name with a safe search host the client's question is put back.
LEMMA AnswerEnforcedReplies ==
    ASSUME Bounded, Replied, stage = "asking", NEW reply \in UpstreamReplies, AnswerEnforced(reply)
    PROVE  Replied'
<1> DEFINE written == encodeName(enforcedSafeSearchHostFor(name))
           rest == From(Body, offset + 1)
<1>1. /\ IsEnforced(name) /\ stage' = "done" /\ UNCHANGED <<message, offset>>
      /\ asked = buildSafeSearchUpstreamQuery(message, offset, enforcedSafeSearchHostFor(name))
    BY DEF AnswerEnforced, Drops, Ends, parser, Replied
<1>2. CASE ~RestorableFrom(reply, QuestionLength)
  <2>1. fate' = "dropped"
    BY <1>2 DEF AnswerEnforced, Drops, Ends
  <2> QED
    BY <1>1, <2>1, RepliedElsewhere
<1>3. CASE RestorableFrom(reply, QuestionLength)
  <2>1. /\ written \in Seq(Byte) /\ Len(written) \in Nat
    BY <1>1, HostIsAName
  <2>2. /\ Body \in Seq(Byte) /\ Len(Body) \in Nat /\ offset \in Nat /\ offset + 4 <= Len(Body)
        /\ message \in [id : Nat, questions : Nat, body : Seq(Byte)]
    BY DEF Bounded, TypeOK, InBounds, Body, QuestionEnd
  <2>3. rest \in Seq(Byte) /\ Len(rest) >= 4 /\ Len(rest) \in Nat
    BY <2>2 DEF From
  <2>4. asked.id = message.id /\ asked.body = written \o rest
    BY <1>1, <2>2 DEF buildSafeSearchUpstreamQuery, Body
  <2>5. QuestionLength = Len(written) + 4
    BY <1>1 DEF QuestionLength, safeSearchRewrittenQuestionLength
  <2> HIDE DEF written, rest
  <2>6. response' = restoreSafeSearchOriginalName(reply, Question, QuestionLength)
    BY <1>3 DEF AnswerEnforced, Question
  <2>7. CASE reply = Message(asked.id, <<>>)
    <3>1. Len(reply.body) = 0
      BY <2>7 DEF Message
    <3>2. ~(Len(reply.body) >= QuestionLength)
      BY <2>1, <2>5, <3>1
    <3> QED
      BY <1>3, <3>2 DEF RestorableFrom
  <2>8. CASE reply # Message(asked.id, <<>>)
    <3>1. PICK records \in Records :
              reply = Message(asked.id, SubSeq(asked.body, 1, QuestionLength) \o records)
      BY <2>8 DEF UpstreamReplies, Records
    <3> DEFINE cut == SubSeq(asked.body, 1, QuestionLength)
    <3>2. cut \in Seq(Byte) /\ Len(cut) = QuestionLength
      <4>1. asked.body \in Seq(Byte) /\ Len(asked.body) = Len(written) + Len(rest)
        BY <2>1, <2>3, <2>4, ConcatProperties
      <4>2. QuestionLength \in Nat /\ QuestionLength <= Len(asked.body)
        BY <2>1, <2>3, <2>5, <4>1
      <4> QED
        BY <4>1, <4>2, CutIsASequence
    <3> HIDE DEF cut
    <3>3. reply.id = message.id /\ reply.body = cut \o records
      BY <2>4, <3>1 DEF Message, cut
    <3>4. From(reply.body, QuestionLength + 1) = records
      BY <3>2, <3>3, RecordsAreRecords, Seam
    <3>5. response'.id = message.id /\ response'.body = Question \o records
      BY <2>6, <3>1, <3>3, <3>4 DEF restoreSafeSearchOriginalName, Message
    <3>6. AnswersWith(Question, response'.body)
      BY <3>5, RecordsAreRecords DEF AnswersWith
    <3> QED
      BY <1>1, <3>5, <3>6, RepliedByAnswer
  <2> QED
    BY <2>7, <2>8
<1> QED
    BY <1>2, <1>3

\* At the start nothing has been asked or answered.
LEMMA RepliedInitially == Init => Replied
    BY DEF Init, Replied, AnswersTheQuestion

\* Every step keeps what is asked and answered about the question.
LEMMA RepliedStep ==
    ASSUME Bounded, Sought, Replied, [Next]_vars
    PROVE  Replied'
<1> USE DEF Replied
<1>1. ASSUME NEW lines \in Files, LoadFromFile(lines) PROVE Replied'
    BY <1>1, RepliedElsewhere DEF LoadFromFile
<1>2. ASSUME NEW m \in Messages, Receive(m) PROVE Replied'
    BY <1>2, RepliedElsewhere DEF Receive, Drops, Ends
<1>3. CASE Parse
    BY <1>3, RepliedElsewhere DEF Parse, ReadLabel, EndOfName, AtLength, Reject, Drops, Ends
<1>4. CASE Enforce
  <2>1. /\ IsEnforced(name) /\ UNCHANGED <<message, parser, fate>> /\ fate = "none" /\ stage' = "asking"
        /\ asked' = buildSafeSearchUpstreamQuery(message, offset, enforcedSafeSearchHostFor(name))
    BY <1>4 DEF Enforce
  <2>2. UNCHANGED <<name, offset, message>>
    BY <2>1 DEF parser
  <2> QED
    BY <2>1, <2>2 DEF AnswersTheQuestion, IsEnforced, PrefixesOf, enforcedSafeSearchHostFor
<1>5. CASE LookUp \/ LookUpProxied \/ Decode \/ LookUpDecoded
    BY <1>5, RepliedElsewhere DEF LookUp, LookUpProxied, NoParent, Walking, Decode, LookUpDecoded
<1>6. CASE Sinkhole
    BY <1>6, SinkholeReplies
<1>7. CASE Forward
  <2>1. stage \in {"walk", "proxied"} /\ UNCHANGED <<message, parser, fate>> /\ fate = "none"
    BY <1>7 DEF Forward, NoParent, Walking
  <2>2. asked' = message' /\ stage' = "asking" /\ name' = name
    BY <1>7 DEF Forward, parser
  <2>3. ~IsEnforced(name')
    BY <2>1, <2>2 DEF Sought
  <2> QED
    BY <2>1, <2>2, <2>3 DEF AnswersTheQuestion
<1>8. ASSUME NEW i \in from..Len(subject), NextParent(i) PROVE Replied'
    BY <1>8, RepliedElsewhere DEF NextParent, Walking
<1>9. CASE Settle
  <2>1. CASE UpstreamSilent
    BY <2>1, RepliedElsewhere DEF UpstreamSilent, Drops, Ends
  <2>2. ASSUME NEW reply \in UpstreamReplies, Answer(reply) \/ AnswerEnforced(reply)
        PROVE  Replied'
    <3> HIDE DEF Replied
    <3> QED
      BY <1>9, <2>2, AnswerReplies, AnswerEnforcedReplies DEF Settle
  <2> QED
    BY <1>9, <2>1, <2>2 DEF Settle
<1>10. CASE Loop
    BY <1>10, RepliedElsewhere DEF Loop
<1>11. CASE UNCHANGED vars
    BY <1>11 DEF vars, parser, AnswersTheQuestion, Body, QuestionEnd
<1> QED
    BY <1>1, <1>2, <1>3, <1>4, <1>5, <1>6, <1>7, <1>8, <1>9, <1>10, <1>11 DEF Next, Decide

\* Whatever the datagrams, the hosts and the records of the upstream server, an
\* answer carries the client's number and question, with the records right behind
\* it (buildSinkholeResponse, restoreSafeSearchOriginalName, encodeName).
THEOREM AnswersFit == Spec => []AnswersTheQuestion
<1>1. Init => Bounded /\ Sought /\ Replied
    BY BoundedInitially, SoughtInitially, RepliedInitially
<1>2. Bounded /\ Sought /\ Replied /\ [Next]_vars => Bounded' /\ Sought' /\ Replied'
    BY BoundedStep, SoughtStep, RepliedStep DEF Bounded
<1>3. Replied => AnswersTheQuestion
    BY DEF Replied
<1> QED
    BY <1>1, <1>2, <1>3, PTL DEF Spec

-----------------------------------------------------------------------------
(* The parser reads what the encoder writes.                               *)

\* With the same end, parts put together are the same only if the fronts are.
LEMMA SameFront ==
    ASSUME NEW s \in Seq(Byte), NEW t \in Seq(Byte), NEW v \in Seq(Byte), s \o v = t \o v
    PROVE  s = t
<1> DEFINE w == s \o v
<1>1. w = t \o v
    OBVIOUS
<1>2. Len(w) = Len(s) + Len(v) /\ SubSeq(w, 1, Len(s)) = s
    BY Seam
<1> HIDE DEF w
<1>3. Len(w) = Len(t) + Len(v) /\ SubSeq(w, 1, Len(t)) = t
    BY <1>1, Seam
<1>4. Len(s) \in Nat /\ Len(t) \in Nat /\ Len(v) \in Nat
    BY LenProperties
<1>5. Len(s) = Len(t)
  <2>1. \A a, b, c \in Nat : a + c = b + c => a = b
    OBVIOUS
  <2>2. Len(s) + Len(v) = Len(t) + Len(v)
    BY <1>2, <1>3
  <2> QED
    BY <1>4, <2>1, <2>2
<1> QED
    BY <1>2, <1>3, <1>5

\* A name begins somewhere, and its parents in finitely many places.
LEMMA BeginningsAreFinite ==
    ASSUME NEW n \in Seq(Byte)
    PROVE  /\ IsFiniteSet(Beginnings(n)) /\ Cardinality(Beginnings(n)) \in Nat
           /\ Cardinality(Beginnings(n)) >= 1
<1>1. Beginnings(n) \subseteq 1..Len(n) + 1 /\ {1} \subseteq Beginnings(n) /\ Len(n) + 1 \in Nat
    BY DEF Beginnings
<1>2. IsFiniteSet(1..Len(n) + 1)
    BY <1>1, FS_Interval
<1> DEFINE b == Beginnings(n)
<1>3. b \subseteq 1..Len(n) + 1 /\ {1} \subseteq b
    BY <1>1
<1> HIDE DEF b
<1>4. IsFiniteSet(b)
    BY <1>2, <1>3, FS_Subset
<1>5. Cardinality({1}) = 1 /\ Cardinality({1}) <= Cardinality(b)
    BY <1>3, <1>4, FS_Singleton, FS_Subset
<1> QED
    BY <1>4, <1>5, FS_CardinalityType DEF b

\* With one more label there is one more beginning, and as many more as the label
\* has dots.
LEMMA OneMoreBegins ==
    ASSUME NEW n \in Seq(Byte), NEW l \in Seq(Byte)
    PROVE  LET d == n \o <<Dot>> \o l
           IN  /\ d \in Seq(Byte) /\ d # <<>>
               /\ Cardinality(Beginnings(n)) + 1 <= Cardinality(Beginnings(d))
               /\ Cardinality(Beginnings(d)) = Cardinality(Beginnings(n)) + 1 => NoDot(l, 1, Len(l))
<1> DEFINE d == n \o <<Dot>> \o l
           behind == Len(n) + 2
           B == Beginnings(n)
           D == Beginnings(d)
<1>1. /\ Len(n) \in Nat /\ Len(l) \in Nat /\ d \in Seq(Byte) /\ Len(d) = Len(n) + 1 + Len(l)
      /\ \A i \in 1..Len(n) : d[i] = n[i]
      /\ d[Len(n) + 1] = Dot
      /\ \A i \in 1..Len(l) : d[Len(n) + 1 + i] = l[i]
    BY TwoParts
<1>2. d # <<>>
  <2>1. Len(d) # 0 /\ Len(<<>>) = 0
    BY <1>1
  <2> HIDE DEF d
  <2> QED
    BY <2>1
<1> HIDE DEF d
<1>3. B \subseteq D /\ behind \in D /\ behind \notin B
    BY <1>1 DEF Beginnings
<1>4. ASSUME NEW x \in 1..Len(l), l[x] = Dot
      PROVE  Len(n) + x + 2 \in D /\ Len(n) + x + 2 \notin B \cup {behind}
  <2>1. Len(n) + 1 + x \in 1..Len(d) /\ d[Len(n) + 1 + x] = Dot
    BY <1>1, <1>4
  <2>2. Len(n) + x + 2 = (Len(n) + 1 + x) + 1 /\ x >= 1
    BY <1>1
  <2>3. Len(n) + x + 2 \in D
    BY <2>1, <2>2 DEF Beginnings
  <2>4. Len(n) + x + 2 # behind /\ Len(n) + x + 2 \notin 1..Len(n) + 1
    BY <1>1
  <2>5. B \subseteq 1..Len(n) + 1
    BY <1>1 DEF Beginnings
  <2> QED
    BY <2>3, <2>4, <2>5
<1>5. /\ IsFiniteSet(B) /\ Cardinality(B) \in Nat
      /\ IsFiniteSet(D) /\ Cardinality(D) \in Nat
    BY <1>1, BeginningsAreFinite
<1> DEFINE more == B \cup {behind}
<1> HIDE DEF B, D, behind
<1>6. more \subseteq D /\ IsFiniteSet(more) /\ Cardinality(more) = Cardinality(B) + 1
    BY <1>3, <1>5, FS_AddElement
<1>7. Cardinality(more) <= Cardinality(D)
    BY <1>5, <1>6, FS_Subset
<1>8. ASSUME Cardinality(D) = Cardinality(B) + 1
      PROVE  NoDot(l, 1, Len(l))
  <2>1. more = D
    BY <1>5, <1>6, <1>8, FS_Subset
  <2> QED
    BY <1>4, <2>1 DEF NoDot
<1> QED
    BY <1>1, <1>2, <1>6, <1>7, <1>8 DEF d, B, D

\* The name has at least so many labels, and spells out what was read if no more.
SpellsOut(n, count, read) ==
    /\ count <= Cardinality(Beginnings(n))
    /\ Cardinality(Beginnings(n)) = count => encodeName(n) = read \o EndMark

\* The first label spells what was read, if no dot is in it.
LEMMA FirstSpells ==
    ASSUME NEW l \in Seq(Byte), l # <<>>
    PROVE  SpellsOut(l, 1, <<Len(l) % 256>> \o l)
<1>1. Cardinality(Beginnings(l)) >= 1 /\ IsFiniteSet(Beginnings(l))
    BY BeginningsAreFinite
<1>2. ASSUME Cardinality(Beginnings(l)) = 1
      PROVE  NoDot(l, 1, Len(l))
  <2>1. 1 \in Beginnings(l) /\ {1} \subseteq Beginnings(l)
    BY DEF Beginnings
  <2>2. Beginnings(l) = {1}
    <3>1. Cardinality({1}) = 1
      BY FS_Singleton
    <3> QED
      BY <1>1, <1>2, <2>1, <3>1, FS_Subset
  <2>3. ASSUME NEW x \in 1..Len(l)
        PROVE  l[x] # Dot
    <3>1. x + 1 # 1
      OBVIOUS
    <3>2. l[x] = Dot => x + 1 \in Beginnings(l)
      BY DEF Beginnings
    <3> QED
      BY <2>2, <3>1, <3>2
  <2> QED
    BY <2>3 DEF NoDot
<1>3. Cardinality(Beginnings(l)) = 1 => encodeName(l) = (<<Len(l) % 256>> \o l) \o EndMark
    BY <1>2, OneLabel DEF WrittenAlone
<1>4. 1 <= Cardinality(Beginnings(l))
    BY BeginningsAreFinite
<1> QED
    BY <1>3, <1>4 DEF SpellsOut

\* With another label, what was read before and the label with its length are spelt.
LEMMA NextSpells ==
    ASSUME NEW n \in Seq(Byte), NEW l \in Seq(Byte), l # <<>>, NEW count \in Nat,
           NEW read \in Seq(Byte), SpellsOut(n, count, read)
    PROVE  SpellsOut(n \o <<Dot>> \o l, count + 1, read \o (<<Len(l) % 256>> \o l))
<1> DEFINE d == n \o <<Dot>> \o l
           h == <<Len(l) % 256>> \o l
<1>1. /\ Cardinality(Beginnings(n)) + 1 <= Cardinality(Beginnings(d))
      /\ Cardinality(Beginnings(d)) = Cardinality(Beginnings(n)) + 1 => NoDot(l, 1, Len(l))
      /\ d \in Seq(Byte)
    BY OneMoreBegins
<1>2. Cardinality(Beginnings(n)) \in Nat /\ Cardinality(Beginnings(d)) \in Nat
    BY <1>1, BeginningsAreFinite
<1>3. h \in Seq(Byte) /\ EndMark \in Seq(Byte)
    BY WrittenIsTyped, ConcatProperties
<1> HIDE DEF d
<1>4. ASSUME Cardinality(Beginnings(d)) = count + 1
      PROVE  encodeName(d) = read \o h \o EndMark
  <2>1. Cardinality(Beginnings(n)) = count /\ NoDot(l, 1, Len(l))
    BY <1>1, <1>2, <1>4 DEF SpellsOut
  <2>2. encodeName(n) = read \o EndMark
    BY <2>1 DEF SpellsOut
  <2>3. DifferAtEnd(encodeName(n), encodeName(d), WrittenAlone(l))
    BY <2>1, OneLabelMore DEF d
  <2>4. PICK p \in Seq(Byte) : encodeName(n) = p \o EndMark /\ encodeName(d) = p \o WrittenAlone(l)
    BY <2>3 DEF DifferAtEnd
  <2>5. p = read
    BY <1>3, <2>2, <2>4, SameFront
  <2>6. WrittenAlone(l) = h \o EndMark
    BY DEF WrittenAlone
  <2> HIDE DEF h
  <2>7. read \o (h \o EndMark) = (read \o h) \o EndMark
    BY <1>3, ThreeParts
  <2> QED
    BY <2>4, <2>5, <2>6, <2>7
<1>5. count + 1 <= Cardinality(Beginnings(d))
    BY <1>1, <1>2 DEF SpellsOut
<1> QED
    BY <1>4, <1>5 DEF SpellsOut, d

\* What was read of the question spells the name read, unless a label has a dot.
Spelled ==
    /\ stage = "receiving" => name = <<>>
    /\ stage = "labels" =>
        \/ hops = 0 /\ name = <<>> /\ offset = 0
        \/ hops > 0 /\ name # <<>> /\ SpellsOut(name, hops, SubSeq(Body, 1, offset))
    /\ stage = "parsed" /\ Cardinality(Beginnings(name)) = hops - 1 =>
        tolower(encodeName(name)) = tolower(SubSeq(Body, 1, offset))

\* The label that is read, and what has been read with it.
LEMMA LabelRead ==
    ASSUME Bounded, NEW length \in Byte, ReadLabel(length)
    PROVE  LET l == SubSeq(Body, offset + 2, offset + 1 + length)
           IN  /\ l \in Seq(Byte) /\ Len(l) = length /\ l # <<>> /\ length > 0
               /\ <<length>> = <<Len(l) % 256>>
               /\ SubSeq(Body, 1, offset) \in Seq(Byte)
               /\ SubSeq(Body, 1, offset + 1 + length) = SubSeq(Body, 1, offset) \o (<<length>> \o l)
               /\ offset + 1 + length <= Len(Body)
<1> DEFINE l == SubSeq(Body, offset + 2, offset + 1 + length)
<1>1. /\ Body \in Seq(Byte) /\ Len(Body) \in Nat /\ offset \in Nat
      /\ length \in Nat /\ length > 0 /\ length < 256
    BY DEF Bounded, TypeOK, Body, ReadLabel, Byte
<1>2. offset + 1 + length <= Len(Body) /\ length = Body[offset + 1]
    BY DEF ReadLabel, Fits, AtLength
<1>3. l \in Seq(Byte) /\ Len(l) = length
  <2>1. /\ offset + 2 \in Nat \ {0} /\ offset + 1 + length \in Nat
        /\ (offset + 1 + length) - (offset + 2) + 1 = length /\ offset + 2 <= offset + 1 + length
    BY <1>1
  <2> QED
    BY <1>1, <1>2, <2>1, CutIsASequence
<1>4. SubSeq(Body, offset + 1, offset + 1 + length) = <<length>> \o l
  <2>1. /\ offset + 1 \in 1..Len(Body) /\ offset + 1 + length \in offset + 1..Len(Body)
        /\ (offset + 1) + 1 = offset + 2
    BY <1>1, <1>2
  <2> QED
    BY <1>1, <1>2, <2>1, SubSeqRecursiveFirst
<1> HIDE DEF l
<1>5. SubSeq(Body, 1, offset + 1 + length) = SubSeq(Body, 1, offset) \o (<<length>> \o l)
  <2>1. /\ 1 \in 1..Len(Body) + 1 /\ offset \in 1 - 1..Len(Body)
        /\ offset + 1 + length \in offset..Len(Body)
    BY <1>1, <1>2
  <2>2. SubSeq(Body, 1, offset) \o SubSeq(Body, offset + 1, offset + 1 + length)
            = SubSeq(Body, 1, offset + 1 + length)
    BY <1>1, <2>1, ConcatAdjacentSubSeq
  <2> QED
    BY <1>4, <2>2
<1>6. l # <<>>
  <2>1. Len(<<>>) = 0
    OBVIOUS
  <2> QED
    BY <1>1, <1>3, <2>1
<1>7. <<length>> = <<Len(l) % 256>>
  <2>1. \A k \in Nat : k < 256 => k % 256 = k
    OBVIOUS
  <2> QED
    BY <1>1, <1>3, <2>1
<1>8. SubSeq(Body, 1, offset) \in Seq(Byte)
  <2>1. offset <= Len(Body)
    BY <1>1, <1>2
  <2> QED
    BY <1>1, <2>1, CutIsASequence
<1> QED
    BY <1>1, <1>2, <1>3, <1>5, <1>6, <1>7, <1>8 DEF l

\* Reading a label keeps the name in step with what was read.
LEMMA ReadLabelSpells ==
    ASSUME Bounded, Spelled, NEW length \in Byte, ReadLabel(length)
    PROVE  Spelled'
<1> DEFINE l == SubSeq(Body, offset + 2, offset + 1 + length)
           read == SubSeq(Body, 1, offset)
           h == <<Len(l) % 256>> \o l
<1>1. /\ l \in Seq(Byte) /\ l # <<>> /\ read \in Seq(Byte)
      /\ SubSeq(Body, 1, offset + 1 + length) = read \o h
      /\ Len(l) = length
    BY LabelRead
<1>2. /\ stage = "labels" /\ stage' = "labels" /\ Body' = Body /\ message' = message
      /\ offset' = offset + 1 + length /\ hops' = hops + 1
      /\ name' = (IF name = <<>> THEN <<>> ELSE Append(name, Dot)) \o l
    BY DEF ReadLabel, AtLength, Body
<1>3. /\ name \in Seq(Byte) /\ hops \in Nat /\ offset \in Nat /\ length \in Nat
    BY DEF Bounded, TypeOK, Byte
<1>4. SubSeq(Body', 1, offset') = read \o h
    BY <1>1, <1>2
<1>5. CASE hops = 0 /\ name = <<>> /\ offset = 0
  <2>1. <<>> \o l = l /\ read = <<>>
    BY <1>1, <1>5, ConcatEmptySeq, SubSeqEmpty
  <2>2. name' = l /\ hops' = 1
    BY <1>2, <1>5, <2>1
  <2>3. h \in Seq(Byte)
    BY <1>1, WrittenIsTyped, ConcatProperties
  <2>4. SpellsOut(l, 1, h) /\ read \o h = h
    <3>1. SpellsOut(l, 1, h)
      BY <1>1, FirstSpells
    <3> HIDE DEF read, h
    <3>2. read \o h = h
      BY <2>1, <2>3, ConcatEmptySeq
    <3> QED
      BY <3>1, <3>2
  <2>5. SpellsOut(l, 1, SubSeq(Body', 1, offset'))
    BY <1>4, <2>4
  <2> HIDE DEF l, h, read
  <2>6. SpellsOut(name', hops', SubSeq(Body', 1, offset')) /\ name' # <<>> /\ hops' > 0
    BY <1>1, <2>2, <2>5
  <2> QED
    BY <1>2, <2>6 DEF Spelled, SpellsOut, Beginnings
<1>6. CASE hops > 0 /\ name # <<>> /\ SpellsOut(name, hops, read)
  <2> DEFINE d == name \o <<Dot>> \o l
  <2>1. Append(name, Dot) = name \o <<Dot>>
    <3>1. Dot \in Byte
      BY DEF Dot, Byte
    <3> QED
      BY <1>3, <3>1, AppendIsConcat
  <2>2. name' = d /\ hops' > 0 /\ hops' = hops + 1
    BY <1>2, <1>3, <1>6, <2>1
  <2>3. SpellsOut(d, hops + 1, read \o h)
    <3> HIDE DEF l, read
    <3> QED
      BY <1>1, <1>3, <1>6, NextSpells
  <2>4. d # <<>>
    BY <1>1, <1>3, OneMoreBegins
  <2> HIDE DEF d, h, read
  <2>5. SpellsOut(name', hops', SubSeq(Body', 1, offset')) /\ name' # <<>>
    BY <1>4, <2>2, <2>3, <2>4
  <2> QED
    BY <1>2, <2>2, <2>5 DEF Spelled, SpellsOut, Beginnings
<1> QED
    BY <1>2, <1>5, <1>6 DEF Spelled

\* At the end mark the name is folded, which what was read is up to case.
LEMMA EndOfNameSpells ==
    ASSUME Bounded, Spelled, EndOfName
    PROVE  Spelled'
<1>1. /\ stage = "labels" /\ offset < Len(Body) /\ Body[offset + 1] = 0
      /\ Body' = Body /\ stage' \in {"done", "parsed"}
      /\ offset' = offset + 1 /\ hops' = hops + 1 /\ name' = tolower(name)
    BY DEF EndOfName, AtLength, Drops, Ends, Body
<1>2. /\ Body \in Seq(Byte) /\ Len(Body) \in Nat /\ offset \in Nat /\ hops \in Nat
      /\ name \in Seq(Byte)
    BY DEF Bounded, TypeOK, Body
<1>3. Beginnings(name') = Beginnings(name)
  <2> DEFINE m == tolower(name)
  <2>1. /\ m \in Seq(Byte) /\ Len(m) = Len(name)
        /\ \A i \in 1..Len(name) : m[i] = LowerByte(name[i]) /\ name[i] \in Byte
    BY <1>2, LowerCaseIsTyped
  <2> HIDE DEF m
  <2>2. \A i \in 1..Len(name) : m[i] = Dot <=> name[i] = Dot
    BY <2>1, LowerByteIsTyped
  <2>3. Beginnings(m) = Beginnings(name)
    BY <2>1, <2>2 DEF Beginnings
  <2> QED
    BY <1>1, <2>3 DEF m
<1>4. ASSUME Cardinality(Beginnings(name')) = hops' - 1
      PROVE  tolower(encodeName(name')) = tolower(SubSeq(Body', 1, offset'))
  <2> DEFINE count == Cardinality(Beginnings(name))
             read == SubSeq(Body, 1, offset)
  <2>1. count = hops /\ count >= 1
    <3>1. count \in Nat /\ count >= 1
      BY <1>2, BeginningsAreFinite
    <3>2. count = hops' - 1
      BY <1>3, <1>4
    <3> HIDE DEF count
    <3>3. hops' - 1 = hops
      BY <1>1, <1>2
    <3> QED
      BY <3>1, <3>2, <3>3
  <2>2. SpellsOut(name, hops, read)
    BY <1>1, <2>1 DEF Spelled
  <2>3. encodeName(name) = read \o EndMark
    BY <2>1, <2>2 DEF SpellsOut
  <2>4. SubSeq(Body, 1, offset + 1) = read \o <<0>>
    <3>1. 1 \in 1..Len(Body) /\ offset + 1 \in 1..Len(Body) /\ (offset + 1) - 1 = offset
      BY <1>1, <1>2
    <3>2. SubSeq(Body, 1, offset + 1)
              = SubSeq(Body, 1, (offset + 1) - 1) \o <<Body[offset + 1]>>
      BY <1>2, <3>1, SubSeqRecursiveSecond
    <3> QED
      BY <1>1, <3>1, <3>2
  <2>5. tolower(encodeName(tolower(name))) = tolower(encodeName(name))
    BY <1>2, WrittenInLowerCase
  <2> QED
    BY <1>1, <2>3, <2>4, <2>5 DEF EndMark
<1> QED
    BY <1>1, <1>4 DEF Spelled, Beginnings

\* A step that leaves the question to others.
LEMMA SpelledElsewhere ==
    ASSUME stage' \notin {"receiving", "labels", "parsed"}
    PROVE  Spelled'
    BY DEF Spelled

\* Every step keeps the name in step with what was read.
LEMMA SpelledStep ==
    ASSUME Bounded, Spelled, [Next]_vars
    PROVE  Spelled'
<1>1. ASSUME NEW lines \in Files, LoadFromFile(lines) PROVE Spelled'
    BY <1>1 DEF LoadFromFile, Spelled, parser
<1>2. ASSUME NEW m \in Messages, Receive(m) PROVE Spelled'
  <2>1. /\ stage' \in {"done", "labels"}
        /\ name' = <<>> /\ hops' = 0 /\ offset' = 0
    BY <1>2 DEF Receive, Drops, Ends, parser, Spelled, Bounded
  <2> QED
    BY <2>1 DEF Spelled
<1>3. ASSUME NEW length \in Byte, ReadLabel(length) PROVE Spelled'
    BY <1>3, ReadLabelSpells
<1>4. CASE EndOfName
    BY <1>4, EndOfNameSpells
<1>5. CASE Reject \/ Decide \/ Settle
    BY <1>5, SpelledElsewhere
       DEF Reject, Decide, Settle, Enforce, LookUp, LookUpProxied, NoParent, Walking, Decode,
           LookUpDecoded, Sinkhole, Forward, NextParent, UpstreamSilent, Answer, AnswerEnforced,
           Drops, Ends
<1>6. CASE Loop
    BY <1>6 DEF Loop, Spelled
<1>7. CASE UNCHANGED vars
  <2>1. UNCHANGED <<stage, name, hops, offset, Body>>
    BY <1>7 DEF vars, parser, Body
  <2> QED
    BY <2>1 DEF Spelled, SpellsOut, Beginnings
<1> QED
    BY <1>1, <1>2, <1>3, <1>4, <1>5, <1>6, <1>7 DEF Next, Parse

\* What is left from a place on.
LEMMA FromIsTyped ==
    ASSUME NEW s \in Seq(Byte), NEW i \in 1..Len(s) + 1
    PROVE  /\ From(s, i) \in Seq(Byte) /\ Len(From(s, i)) = Len(s) + 1 - i
           /\ \A x \in 1..Len(s) + 1 - i : From(s, i)[x] = s[i + x - 1]
    BY DEF From

\* What is left of what is left.
LEMMA FromFurtherOn ==
    ASSUME NEW s \in Seq(Byte), NEW i \in 1..Len(s) + 1, NEW j \in 1..Len(From(s, i)) + 1
    PROVE  From(From(s, i), j) = From(s, i + j - 1)
<1> DEFINE r == From(s, i)
           a == From(r, j)
           b == From(s, i + j - 1)
<1>1. /\ Len(s) \in Nat /\ r \in Seq(Byte) /\ Len(r) = Len(s) + 1 - i
      /\ \A x \in 1..Len(s) + 1 - i : r[x] = s[i + x - 1]
    BY FromIsTyped
<1>2. j \in 1..Len(r) + 1 /\ Len(r) \in Nat
    BY <1>1
<1> HIDE DEF r
<1>3. /\ a \in Seq(Byte) /\ Len(a) = Len(r) + 1 - j
      /\ \A x \in 1..Len(r) + 1 - j : a[x] = r[j + x - 1]
    BY <1>1, <1>2, FromIsTyped
<1>4. /\ b \in Seq(Byte) /\ Len(b) = Len(r) + 1 - j
      /\ \A x \in 1..Len(r) + 1 - j : b[x] = s[i + j - 1 + x - 1]
  <2>1. /\ i + j - 1 \in 1..Len(s) + 1 /\ Len(s) + 1 - (i + j - 1) = Len(r) + 1 - j
    BY <1>1, <1>2
  <2> QED
    BY <2>1, FromIsTyped
<1> HIDE DEF a, b
<1>5. ASSUME NEW x \in 1..Len(a)
      PROVE  a[x] = b[x]
  <2>1. /\ x \in 1..Len(r) + 1 - j /\ j + x - 1 \in 1..Len(s) + 1 - i
        /\ i + (j + x - 1) - 1 = i + j - 1 + x - 1
    BY <1>1, <1>2, <1>3
  <2>2. a[x] = r[j + x - 1] /\ b[x] = s[i + j - 1 + x - 1]
    BY <1>3, <1>4, <2>1
  <2>3. r[j + x - 1] = s[i + (j + x - 1) - 1]
    BY <1>1, <2>1
  <2> QED
    BY <2>1, <2>2, <2>3
<1>6. a = b
    BY <1>3, <1>4, <1>5, SeqEqual
<1> QED
    BY <1>6 DEF a, b, r

\* Where the parser stands, the name from its i-th character on lies written out,
\* with t behind it.
Ahead(n, t, i) == From(Body, offset + 1) = EncodedFrom(n, i) \o t

\* The parser has the end mark before it, with enough behind, or a label that fits.
LEMMA EndOrLabel ==
    ASSUME Body \in Seq(Byte), offset \in Nat, offset <= Len(Body),
           NEW n \in Names, NEW t \in TypesAndClasses, NEW i \in 1..Len(n) + 1, Ahead(n, t, i)
    PROVE  LET length == Body[offset + 1]
           IN  /\ offset < Len(Body)
               /\ \/ length = 0 /\ offset + 5 <= Len(Body)
                  \/ /\ length > 0 /\ Fits(length)
                     /\ \E next \in 1..Len(n) + 1 :
                            /\ From(Body, offset + 1 + length + 1) = EncodedFrom(n, next) \o t
                            /\ LabelsFrom(n, next) + 1 <= LabelsFrom(n, i)
<1> DEFINE rest == From(Body, offset + 1)
           e == EncodedFrom(n, i)
           length == Body[offset + 1]
<1>1. /\ n \in Seq(Byte) /\ Len(n) \in Nat /\ t \in Seq(Byte) /\ Len(t) \in Nat /\ Len(t) >= 4
    BY NamesAssumption, TypesAndClassesAssumption
<1>2. /\ rest \in Seq(Byte) /\ Len(rest) = Len(Body) - offset /\ Len(Body) \in Nat
      /\ Len(rest) > 0 => rest[1] = length
    BY DEF From
<1>3. e \in Seq(Byte) /\ rest = e \o t
    BY <1>1, EncoderIsTyped DEF Ahead
<1> HIDE DEF rest, length
<1>4. CASE e = EndMark
  <2>1. EndMark \in Seq(Byte) /\ Len(EndMark) = 1 /\ EndMark[1] = 0
    BY DEF EndMark, Byte
  <2>2. Len(rest) = 1 + Len(t) /\ rest[1] = 0
    <3> HIDE DEF e
    <3>1. /\ Len(rest) = Len(e) + Len(t)
          /\ \A x \in 1..Len(e) + Len(t) : rest[x] = IF x <= Len(e) THEN e[x] ELSE t[x - Len(e)]
      BY <1>1, <1>3, ConcatProperties
    <3>2. Len(e) = 1 /\ e[1] = 0
      BY <1>4, <2>1
    <3>3. 1 \in 1..Len(e) + Len(t) /\ 1 <= Len(e)
      BY <1>1, <3>2
    <3> QED
      BY <3>1, <3>2, <3>3
  <2>3. length = 0 /\ offset + 5 <= Len(Body) /\ offset < Len(Body)
    BY <1>1, <1>2, <2>2
  <2> QED
    BY <2>3 DEF length
<1>5. CASE \E j, k, next \in i..Len(n) + 1 : StartsWithLabel(n, i, j, k, next)
  <2>1. PICK j, k, next \in i..Len(n) + 1 : StartsWithLabel(n, i, j, k, next)
    BY <1>5
  <2> DEFINE l == SubSeq(n, j, k - 1)
             c == (k - j) % 256
             h == <<c>> \o l
             r == EncodedFrom(n, next)
  <2>2. j < k /\ k - j < 192 /\ j \in Nat /\ k \in Nat /\ next \in 1..Len(n) + 1
    <3>1. /\ j < k /\ j \in 1..Len(n) /\ k - 1 \in 1..Len(n) /\ k \in Nat
          /\ \A x \in j..k - 1 : n[x] # Dot
      BY <1>1, <2>1 DEF StartsWithLabel, NoDot
    <3>2. (k - 1) - j < 191
      BY <3>1, NamesAssumption
    <3> QED
      BY <1>1, <3>1, <3>2
  <2>3. c = k - j /\ c \in 1..191 /\ c \in Byte
    <3>1. \A x \in 1..191 : x % 256 = x
      OBVIOUS
    <3>2. k - j \in 1..191
      BY <2>2
    <3>3. c \in 1..191 /\ c = k - j
      BY <3>1, <3>2
    <3> HIDE DEF c
    <3> QED
      BY <3>3 DEF Byte
  <2>4. l \in Seq(Byte) /\ Len(l) = k - j
    <3>1. k - 1 <= Len(n) /\ j >= 1
      BY <1>1, <2>1, <2>2
    <3> QED
      BY <1>1, <2>2, <3>1
  <2>5. r \in Seq(Byte)
    BY <1>1, <2>2, EncoderIsTyped
  <2>6. e = h \o r /\ LabelsFrom(n, next) + 1 <= LabelsFrom(n, i)
    BY <2>1 DEF StartsWithLabel
  <2> HIDE DEF e, l, c, r
  <2>7. h \in Seq(Byte) /\ Len(h) = 1 + c /\ h[1] = c
    <3>1. <<c>> \in Seq(Byte) /\ Len(<<c>>) = 1 /\ <<c>>[1] = c
      BY <2>3
    <3>2. /\ h \in Seq(Byte) /\ Len(h) = Len(<<c>>) + Len(l)
          /\ \A x \in 1..Len(<<c>>) + Len(l) :
                 h[x] = IF x <= Len(<<c>>) THEN <<c>>[x] ELSE l[x - Len(<<c>>)]
      BY <2>4, <3>1, ConcatProperties
    <3> HIDE DEF h
    <3>3. 1 \in 1..Len(<<c>>) + Len(l) /\ 1 <= Len(<<c>>)
      BY <2>3, <2>4, <3>1
    <3> QED
      BY <2>3, <2>4, <3>1, <3>2, <3>3
  <2> HIDE DEF h
  <2> DEFINE u == r \o t
  <2>8. u \in Seq(Byte) /\ Len(u) \in Nat
    BY <1>1, <2>5, ConcatProperties
  <2>9. rest = h \o u
    <3>1. h \o (r \o t) = (h \o r) \o t
      BY <1>1, <2>5, <2>7, ThreeParts
    <3> QED
      BY <1>3, <2>6, <3>1
  <2> HIDE DEF u
  <2>10. Len(rest) = 1 + c + Len(u) /\ rest[1] = c /\ From(rest, c + 2) = u
    <3>1. /\ Len(rest) = Len(h) + Len(u)
          /\ \A x \in 1..Len(h) + Len(u) : rest[x] = IF x <= Len(h) THEN h[x] ELSE u[x - Len(h)]
      BY <2>7, <2>8, <2>9, ConcatProperties
    <3>3. From(rest, Len(h) + 1) = u
      BY <2>7, <2>8, <2>9, Seam
    <3>2. 1 \in 1..Len(h) + Len(u) /\ 1 <= Len(h) /\ Len(h) + 1 = c + 2
      BY <2>3, <2>7, <2>8
    <3> QED
      BY <2>7, <3>1, <3>2, <3>3
  <2>11. /\ length = c /\ offset + 1 + c <= Len(Body) /\ offset < Len(Body)
    <3>1. c \in Nat /\ Len(rest) \in Nat
      BY <1>2, <2>3
    <3> QED
      BY <1>2, <2>8, <2>10, <3>1
  <2>12. From(Body, offset + 1 + c + 1) = u
    <3>1. /\ offset + 1 \in 1..Len(Body) + 1 /\ c + 2 \in 1..Len(rest) + 1
          /\ (offset + 1) + (c + 2) - 1 = offset + 1 + c + 1
      BY <1>2, <2>3, <2>8, <2>10, <2>11
    <3>2. From(From(Body, offset + 1), c + 2) = From(Body, (offset + 1) + (c + 2) - 1)
      BY <3>1, FromFurtherOn DEF rest
    <3> QED
      BY <2>10, <3>1, <3>2 DEF rest
  <2>13. length > 0 /\ Fits(length)
    BY <2>3, <2>11 DEF Fits
  <2>14. From(Body, offset + 1 + length + 1) = EncodedFrom(n, next) \o t
    BY <2>11, <2>12 DEF u, r
  <2> QED
    BY <2>2, <2>6, <2>11, <2>13, <2>14 DEF length
<1> QED
    BY <1>1, <1>4, <1>5, EncodedForm

\* A proper query has its name ahead until it is read, and hops to spare, so that
\* it is not dropped before it is sent upstream.
OnItsWay ==
    \E n \in Names, t \in TypesAndClasses : \E i \in 1..Len(n) + 1 :
        Ahead(n, t, i) /\ hops + LabelsFrom(n, i) < kMaxLabelHops

Served ==
    /\ stage = "labels" /\ message \in Queries => OnItsWay
    /\ message \in Queries /\ fate = "dropped" => asked # NoMessage

\* What a proper query is.
LEMMA ProperQuery ==
    ASSUME NEW m, m \in Queries
    PROVE  \E n \in Names, t \in TypesAndClasses :
               /\ m = Message(1, encodeName(n) \o t)
               /\ Cardinality({i \in DOMAIN n : n[i] = Dot}) + 1 < kMaxLabelHops
<1> DEFINE Short(k) == Cardinality({i \in DOMAIN k : k[i] = Dot}) + 1 < kMaxLabelHops
           Written(n, t) == Message(1, encodeName(n) \o t)
<1>1. m \in {Written(n, t) : n \in {k \in Names : Short(k)}, t \in TypesAndClasses}
    BY DEF Queries
<1> HIDE DEF Short, Written
<1>2. \E n \in Names, t \in TypesAndClasses : m = Written(n, t) /\ Short(n)
    BY <1>1
<1> QED
    BY <1>2 DEF Short, Written

\* A proper query is let in, its whole name ahead and hops to spare.
LEMMA QueryArrives ==
    ASSUME Bounded, Replied, NEW m \in Messages, m \in Queries, Receive(m)
    PROVE  Served'
<1>1. PICK n \in Names, t \in TypesAndClasses :
          /\ m = Message(1, encodeName(n) \o t)
          /\ Cardinality({i \in DOMAIN n : n[i] = Dot}) + 1 < kMaxLabelHops
    BY ProperQuery
<1>2. /\ n \in Seq(Byte) /\ Len(n) \in Nat /\ DOMAIN n = 1..Len(n) /\ 1 \in 1..Len(n) + 1
      /\ t \in Seq(Byte) /\ Len(t) \in Nat /\ Len(t) >= 4
    BY NamesAssumption, TypesAndClassesAssumption
<1> DEFINE e == encodeName(n)
           b == e \o t
<1>3. e = EncodedFrom(n, 1) /\ e \in Seq(Byte)
    BY <1>2, EncodeName
<1>4. Len(e) >= 1 /\ Len(e) \in Nat
  <2>1. CASE EncodedFrom(n, 1) = EndMark
    <3>1. Len(EndMark) = 1
      BY DEF EndMark
    <3>2. Len(e) = 1
      BY <1>3, <2>1, <3>1
    <3> HIDE DEF e
    <3> QED
      BY <3>2
  <2>2. CASE \E j, k, next \in 1..Len(n) + 1 : StartsWithLabel(n, 1, j, k, next)
    <3>1. PICK j, k, next \in 1..Len(n) + 1 : StartsWithLabel(n, 1, j, k, next)
      BY <2>2
    <3> DEFINE l == SubSeq(n, j, k - 1)
               c == (k - j) % 256
               r == EncodedFrom(n, next)
    <3>2. c \in Byte /\ r \in Seq(Byte) /\ l \in Seq(Byte)
      <4>1. k - j \in Nat /\ j \in Nat \ {0} /\ k - 1 \in Nat /\ k - 1 <= Len(n)
        BY <1>2, <3>1 DEF StartsWithLabel
      <4>2. \A x \in Nat : x % 256 \in Byte
        BY DEF Byte
      <4>3. l \in Seq(Byte)
        BY <1>2, <4>1, CutIsASequence
      <4> QED
        BY <1>2, <4>1, <4>2, <4>3, EncoderIsTyped
    <3>3. e = <<c>> \o l \o r
      BY <1>3, <3>1 DEF StartsWithLabel
    <3> HIDE DEF c, l, r, e
    <3>4. <<c>> \in Seq(Byte) /\ Len(<<c>>) = 1
      BY <3>2
    <3>5. <<c>> \o l \in Seq(Byte) /\ Len(<<c>> \o l) = 1 + Len(l)
      BY <3>2, <3>4, ConcatProperties
    <3>6. Len(e) = (1 + Len(l)) + Len(r)
      BY <3>2, <3>3, <3>5, ConcatProperties
    <3>7. Len(l) \in Nat /\ Len(r) \in Nat
      BY <3>2, LenProperties
    <3> QED
      BY <3>6, <3>7
  <2> HIDE DEF e
  <2> QED
    BY <1>2, <2>1, <2>2, EncodedForm
<1> HIDE DEF e
<1>5. b \in Seq(Byte) /\ Len(b) >= 5
  <2>1. b \in Seq(Byte) /\ Len(b) = Len(e) + Len(t)
    BY <1>2, <1>3, ConcatProperties
  <2> QED
    BY <1>2, <1>4, <2>1
<1>6. m.body = b /\ m.questions = 1
    BY <1>1 DEF Message, e
<1> HIDE DEF b
<1>7. ~(Len(m.body) < 5 \/ m.questions < 1)
    BY <1>5, <1>6, LenProperties
<1>8. /\ stage' = "labels" /\ message' = m /\ offset' = 0 /\ hops' = 0 /\ fate' = "none"
    BY <1>7 DEF Receive, parser, Bounded, Replied
<1>9. From(Body', offset' + 1) = EncodedFrom(n, 1) \o t
  <2>1. Body' = b
    BY <1>6, <1>8 DEF Body
  <2>2. From(b, 1) = b
    BY <1>5, SubSeqFull DEF From
  <2> QED
    BY <1>3, <1>8, <2>1, <2>2 DEF b
<1>10. hops' + LabelsFrom(n, 1) < kMaxLabelHops
  <2> DEFINE dots == {i \in 1..Len(n) : n[i] = Dot}
  <2>1. Cardinality(dots) \in Nat
    <3>1. IsFiniteSet(1..Len(n)) /\ dots \subseteq 1..Len(n)
      BY <1>2, FS_Interval
    <3> HIDE DEF dots
    <3> QED
      BY <3>1, FS_Subset, FS_CardinalityType
  <2>2. Cardinality(dots) + 1 < kMaxLabelHops
    BY <1>1, <1>2
  <2>3. LabelsFrom(n, 1) \in {0, Cardinality(dots) + 1}
    BY DEF LabelsFrom
  <2> HIDE DEF dots
  <2> QED
    BY <1>8, <2>1, <2>2, <2>3, HopsAssumption
<1> QED
    BY <1>2, <1>8, <1>9, <1>10 DEF Served, OnItsWay, Ahead

\* Where the parser stands in a proper query.
LEMMA BeforeLabel ==
    ASSUME Bounded, Served, stage = "labels", message \in Queries
    PROVE  \E n \in Names, t \in TypesAndClasses : \E i \in 1..Len(n) + 1 :
               /\ Ahead(n, t, i) /\ hops + LabelsFrom(n, i) < kMaxLabelHops /\ HopsLeft
               /\ LET length == Body[offset + 1]
                  IN  /\ offset < Len(Body)
                      /\ \/ length = 0 /\ offset + 5 <= Len(Body)
                         \/ /\ length > 0 /\ Fits(length)
                            /\ \E next \in 1..Len(n) + 1 :
                                   /\ From(Body, offset + 1 + length + 1) = EncodedFrom(n, next) \o t
                                   /\ LabelsFrom(n, next) + 1 <= LabelsFrom(n, i)
<1>1. PICK n \in Names, t \in TypesAndClasses : \E i \in 1..Len(n) + 1 :
          Ahead(n, t, i) /\ hops + LabelsFrom(n, i) < kMaxLabelHops
    BY DEF Served, OnItsWay
<1>2. PICK i \in 1..Len(n) + 1 : Ahead(n, t, i) /\ hops + LabelsFrom(n, i) < kMaxLabelHops
    BY <1>1
<1>3. Body \in Seq(Byte) /\ offset \in Nat /\ offset <= Len(Body) /\ hops \in Nat
    BY DEF Bounded, TypeOK, InBounds, Body
<1>4. HopsLeft
  <2>1. LabelsFrom(n, i) \in Nat
    BY NamesAssumption, LabelsAreNat
  <2> QED
    BY <1>2, <1>3, <2>1, HopsAssumption DEF HopsLeft
<1> QED
    BY <1>2, <1>3, <1>4, EndOrLabel

\* A label read, the rest of the name is ahead, with one hop and one label less.
LEMMA ReadLabelServes ==
    ASSUME Bounded, Served, Replied, NEW length \in Byte, ReadLabel(length)
    PROVE  Served'
<1>1. /\ stage = "labels" /\ stage' = "labels" /\ fate' = fate /\ fate = "none"
      /\ message' = message /\ Body' = Body /\ length > 0 /\ length = Body[offset + 1]
      /\ offset' = offset + 1 + length /\ hops' = hops + 1
    BY DEF ReadLabel, AtLength, Replied, Body
<1>2. CASE message \in Queries
  <2>1. PICK n \in Names, t \in TypesAndClasses : \E i \in 1..Len(n) + 1 :
            /\ hops + LabelsFrom(n, i) < kMaxLabelHops
            /\ \/ length = 0
               \/ \E next \in 1..Len(n) + 1 :
                      /\ From(Body, offset + 1 + length + 1) = EncodedFrom(n, next) \o t
                      /\ LabelsFrom(n, next) + 1 <= LabelsFrom(n, i)
    BY <1>1, <1>2, BeforeLabel
  <2>2. length # 0 /\ length \in Nat /\ hops \in Nat /\ offset \in Nat
    BY <1>1 DEF Bounded, TypeOK, Byte
  <2>3. PICK i \in 1..Len(n) + 1, next \in 1..Len(n) + 1 :
            /\ hops + LabelsFrom(n, i) < kMaxLabelHops
            /\ From(Body, offset + 1 + length + 1) = EncodedFrom(n, next) \o t
            /\ LabelsFrom(n, next) + 1 <= LabelsFrom(n, i)
    BY <2>1, <2>2
  <2>4. LabelsFrom(n, i) \in Nat /\ LabelsFrom(n, next) \in Nat
    BY NamesAssumption, LabelsAreNat
  <2>5. hops' + LabelsFrom(n, next) < kMaxLabelHops
    BY <1>1, <2>2, <2>3, <2>4, HopsAssumption
  <2>6. From(Body', offset' + 1) = EncodedFrom(n, next) \o t
    BY <1>1, <2>3
  <2> QED
    BY <1>1, <2>5, <2>6 DEF Served, OnItsWay, Ahead
<1>3. CASE message \notin Queries
    BY <1>1, <1>3 DEF Served
<1> QED
    BY <1>2, <1>3

\* At the end mark there is enough behind the name.
LEMMA EndOfNameServes ==
    ASSUME Bounded, Served, Replied, EndOfName
    PROVE  Served'
<1>1. /\ stage = "labels" /\ stage' # "labels" /\ fate = "none" /\ message' = message
      /\ Body[offset + 1] = 0 /\ offset' = offset + 1 /\ offset \in Nat
      /\ IF offset' + 4 > Len(Body) THEN fate' = "dropped" ELSE fate' = fate
    BY DEF EndOfName, AtLength, Drops, Ends, Replied, Bounded, TypeOK
<1>2. ASSUME message \in Queries
      PROVE  offset + 5 <= Len(Body)
  <2>1. PICK n \in Names, t \in TypesAndClasses :
            offset + 5 <= Len(Body) \/ Body[offset + 1] > 0
    BY <1>1, <1>2, BeforeLabel
  <2> QED
    BY <1>1, <2>1
<1>3. ASSUME message \in Queries
      PROVE  fate' = "none"
  <2>1. Len(Body) \in Nat
    BY DEF Bounded, TypeOK, Body
  <2>2. ~(offset' + 4 > Len(Body))
    BY <1>1, <1>2, <1>3, <2>1
  <2> QED
    BY <1>1, <2>2
<1> QED
    BY <1>1, <1>3 DEF Served

\* Where a proper query stands, nothing is rejected.
LEMMA NoneRejected ==
    ASSUME Bounded, Served, message \in Queries
    PROVE  ~Reject
<1> SUFFICES ASSUME Reject PROVE FALSE
    OBVIOUS
<1>1. /\ stage = "labels"
      /\ \/ offset >= Len(Body) \/ ~HopsLeft
         \/ \E length \in Byte : length = Body[offset + 1] /\ ~Fits(length)
    BY DEF Reject, AtLength
<1>2. /\ HopsLeft /\ offset < Len(Body)
      /\ \/ Body[offset + 1] = 0 /\ offset + 5 <= Len(Body)
         \/ Fits(Body[offset + 1])
    BY <1>1, BeforeLabel
<1>3. offset \in Nat /\ Len(Body) \in Nat
    BY DEF Bounded, TypeOK, Body
<1>4. ASSUME Body[offset + 1] = 0, offset + 5 <= Len(Body)
      PROVE  Fits(Body[offset + 1])
    BY <1>3, <1>4 DEF Fits
<1> QED
    BY <1>1, <1>2, <1>3, <1>4

\* A step that leaves the labels behind and does not drop the datagram.
LEMMA ServedElsewhere ==
    ASSUME stage' # "labels", fate' # "dropped"
    PROVE  Served'
    BY DEF Served

\* At the start no query has come.
LEMMA ServedInitially == Init => Served
    BY DEF Init, Served

\* Every step keeps a proper query on its way.
LEMMA ServedStep ==
    ASSUME Bounded, Sought, Replied, Served, [Next]_vars
    PROVE  Served'
<1>0. stage # "done" => fate = "none"
    BY DEF Replied
<1>1. ASSUME NEW lines \in Files, LoadFromFile(lines) PROVE Served'
    BY <1>0, <1>1, ServedElsewhere DEF LoadFromFile
<1>2. ASSUME NEW m \in Messages, Receive(m) PROVE Served'
  <2>1. CASE m \in Queries
    BY <1>2, <2>1, QueryArrives
  <2>2. CASE m \notin Queries
    BY <1>2, <2>2 DEF Receive, Served
  <2> QED
    BY <2>1, <2>2
<1>3. ASSUME NEW length \in Byte, ReadLabel(length) PROVE Served'
    BY <1>3, ReadLabelServes
<1>4. CASE EndOfName
    BY <1>4, EndOfNameServes
<1>5. CASE Reject
    BY <1>5, NoneRejected DEF Reject, Drops, Ends, Served
<1>6. CASE Decide
    BY <1>0, <1>6, ServedElsewhere
       DEF Decide, Enforce, LookUp, LookUpProxied, NoParent, Walking, Decode, LookUpDecoded,
           Sinkhole, Forward, NextParent, Ends
<1>7. CASE Settle
  <2>1. UNCHANGED <<message, asked>> /\ stage' = "done"
    BY <1>7 DEF Settle, UpstreamSilent, Answer, AnswerEnforced, Drops, Ends
  <2>2. ASSUME message \in Queries
        PROVE  asked # NoMessage
    <3>1. message.id = 1
      <4>1. PICK n \in Names, t \in TypesAndClasses : message = Message(1, encodeName(n) \o t)
        BY <2>2, ProperQuery
      <4> QED
        BY <4>1 DEF Message
    <3>2. message \in [id : Nat, questions : Nat, body : Seq(Byte)]
      BY DEF Bounded, TypeOK
    <3>3. asked.id = 1
      BY <1>7, <3>1, <3>2 DEF Settle, Replied, buildSafeSearchUpstreamQuery
    <3>4. NoMessage.id = 0
      BY DEF NoMessage, Message
    <3> QED
      BY <3>3, <3>4
  <2> QED
    BY <2>1, <2>2 DEF Served
<1>8. CASE Loop
    BY <1>8, ServedElsewhere DEF Loop
<1>9. CASE UNCHANGED vars
  <2>1. UNCHANGED <<stage, message, fate, asked, hops, offset, Body>>
    BY <1>9 DEF vars, parser, Body
  <2> QED
    BY <2>1 DEF Served, OnItsWay, Ahead
<1> QED
    BY <1>1, <1>2, <1>3, <1>4, <1>5, <1>6, <1>7, <1>8, <1>9 DEF Next, Parse

\* Whatever else comes, a proper query with few enough labels is read to its end
\* and not dropped before it is sent upstream, and whatever is read spells the name
\* that encodes to it, unless a dot stands inside a label (parseQuery, encodeName).
THEOREM ParserReadsTheEncoder == Spec => []ParsesWhatItEncodes
<1> DEFINE Inv == Bounded /\ Sought /\ Replied /\ Spelled /\ Served
<1>1. Init => Inv
    BY BoundedInitially, SoughtInitially, RepliedInitially, ServedInitially DEF Init, Spelled
<1>2. Inv /\ [Next]_vars => Inv'
    BY BoundedStep, SoughtStep, RepliedStep, SpelledStep, ServedStep DEF Bounded
<1>3. Inv => ParsesWhatItEncodes
    BY DEF Served, Spelled, ParsesWhatItEncodes
<1> HIDE DEF Inv
<1> QED
    BY <1>1, <1>2, <1>3, PTL DEF Spec

-----------------------------------------------------------------------------
(* The decoder turns the proxy's way of writing a name back.               *)

\* What was in front of the suffix, for a name that the proxy can write.
LEMMA SuffixTakenOff ==
    ASSUME NEW n \in Names, IsHostName(n), name = ProxiedAs(n)
    PROVE  /\ n \in Seq(Byte) /\ Len(n) \in Nat /\ Len(n) > 0
           /\ Joined(n, Len(n)) \in Seq(Byte)
           /\ IsTranslateProxyHost(name) /\ Encoded = Joined(n, Len(n))
<1> DEFINE w == Joined(n, Len(n))
           s == TranslateSuffix
<1>1. n \in Seq(Byte) /\ Len(n) \in Nat /\ Len(n) > 0
  <2>1. n \in Seq(Byte)
    BY NamesAssumption
  <2>2. 1 \in Beginnings(n)
    BY DEF Beginnings
  <2>3. 1 <= Len(n) /\ Len(n) \in Nat
    BY <2>1, <2>2 DEF IsHostName
  <2> QED
    BY <2>1, <2>3
<1>2. w \in Seq(Byte) /\ s \in Seq(Byte) /\ Len(s) \in Nat /\ name = w \o s
    BY <1>1, JoinedIsTyped, ProxiedName, SuffixAssumption
<1>3. Len(w) > 0
  <2>1. 0 \in 0..Len(n) - 1 /\ 0 + 1 = 1 /\ Joined(n, 0) = <<>> /\ Len(<<>>) = 0
    BY <1>1, JoinedStep
  <2>2. 1 + Len(Piece(n[1])) - 1 <= Len(w)
    BY <1>1, <2>1, NextPiece
  <2>3. Len(Piece(n[1])) \in {1, 2}
    BY <1>1, PieceIsTyped
  <2> HIDE DEF w
  <2>4. Len(w) \in Nat
    BY <1>2
  <2> QED
    BY <2>2, <2>3, <2>4
<1> HIDE DEF w, s
<1>4. /\ name \in Seq(Byte) /\ Len(name) = Len(w) + Len(s) /\ Len(w) \in Nat
      /\ \A x \in 1..Len(w) + Len(s) : name[x] = IF x <= Len(w) THEN w[x] ELSE s[x - Len(w)]
    BY <1>2, ConcatProperties
<1>5. IsTranslateProxyHost(name)
  <2> DEFINE rs == [i \in 1..Len(s) |-> s[(Len(s) - i) + 1]]
             rn == [i \in 1..Len(name) |-> name[(Len(name) - i) + 1]]
  <2>1. rs \in Seq(Byte) /\ Len(rs) = Len(s) /\ \A i \in 1..Len(s) : rs[i] = s[(Len(s) - i) + 1]
    BY <1>2
  <2>2. /\ rn \in Seq(Byte) /\ Len(rn) = Len(name)
        /\ \A i \in 1..Len(name) : rn[i] = name[(Len(name) - i) + 1]
    BY <1>4
  <2> HIDE DEF rs, rn
  <2>3. ASSUME NEW i \in 1..Len(s)
        PROVE  rn[i] = rs[i]
    <3>1. /\ i \in 1..Len(name) /\ (Len(name) - i) + 1 \in 1..Len(w) + Len(s)
          /\ ~((Len(name) - i) + 1 <= Len(w)) /\ ((Len(name) - i) + 1) - Len(w) = (Len(s) - i) + 1
      BY <1>2, <1>4
    <3>2. rn[i] = name[(Len(name) - i) + 1]
      BY <2>2, <3>1
    <3>3. name[(Len(name) - i) + 1] = s[(Len(s) - i) + 1]
      BY <1>4, <3>1
    <3> QED
      BY <2>1, <3>2, <3>3
  <2>4. SubSeq(rs, 1, Len(s)) = rs
    BY <2>1, SubSeqFull
  <2>5. SubSeq(rn, 1, Len(s)) = rs
    <3> DEFINE a == SubSeq(rn, 1, Len(s))
    <3>1. a \in Seq(Byte) /\ Len(a) = Len(s) /\ \A i \in 1..Len(s) : a[i] = rn[i]
      BY <1>2, <1>4, <2>2
    <3> HIDE DEF a
    <3>2. a = rs
      BY <2>1, <2>3, <3>1, SeqEqual
    <3> QED
      BY <3>2 DEF a
  <2>6. IsPrefix(rs, rn)
    BY <1>2, <1>4, <2>1, <2>2, <2>4, <2>5 DEF IsPrefix
  <2>7. Len(name) > Len(s)
    BY <1>2, <1>3, <1>4
  <2> QED
    BY <2>6, <2>7 DEF IsTranslateProxyHost, IsSuffix, Reverse, rs, rn, s
<1>6. Encoded = w
  <2>1. Len(name) - Len(s) = Len(w)
    BY <1>2, <1>4
  <2>2. SubSeq(w \o s, 1, Len(w)) = w
    BY <1>2, Seam
  <2> QED
    BY <1>2, <2>1, <2>2 DEF Encoded, s
<1> QED
    BY <1>1, <1>2, <1>5, <1>6 DEF w

\* The first k characters of n have been decoded.
DecodedTo(n, k) == subject = SubSeq(n, 1, k) /\ from = Len(Joined(n, k)) + 1

\* The name that the proxy writes as the one asked for is the one looked up.
SeenThrough ==
    \A n \in Names : name = ProxiedAs(n) /\ IsHostName(n) =>
        /\ stage = "decoding" => \E k \in 0..Len(n) : DecodedTo(n, k)
        /\ stage = "proxied" => subject = n
        /\ stage = "asking" /\ ~IsEnforced(name) => subject = n

\* Whatever is there, it is what the next character of the name became.
LEMMA NextDecoded ==
    ASSUME NEW n \in Names, IsHostName(n), name = ProxiedAs(n),
           NEW k \in 0..Len(n), from = Len(Joined(n, k)) + 1, from <= Len(Encoded)
    PROVE  /\ k < Len(n) /\ Decoded[1] = n[k + 1]
           /\ from + Decoded[2] = Len(Joined(n, k + 1)) + 1
<1> DEFINE w == Joined(n, Len(n))
           p == Piece(n[k + 1])
<1>1. /\ n \in Seq(Byte) /\ Len(n) \in Nat /\ w \in Seq(Byte) /\ Encoded = w
    BY SuffixTakenOff
<1>2. k \in Nat /\ k < Len(n) /\ from \in Nat /\ Len(w) \in Nat
  <2>1. Joined(n, k) \in Seq(Byte)
    BY <1>1, JoinedIsTyped
  <2>2. from \in Nat /\ Len(w) \in Nat
    BY <1>1, <2>1, LenProperties
  <2>3. k # Len(n)
    <3>1. ~(Len(w) + 1 <= Len(w))
      BY <2>2
    <3> QED
      BY <1>1, <3>1
  <2> QED
    BY <1>1, <2>2, <2>3
<1>3. /\ Len(Joined(n, k + 1)) = from + Len(p) - 1 /\ from + Len(p) - 1 <= Len(w)
      /\ w[from] = p[1] /\ (Len(p) = 2 => w[from + 1] = p[2])
  <2>1. k \in 0..Len(n) - 1
    BY <1>1, <1>2
  <2> QED
    BY <1>1, <2>1, NextPiece
<1>4. n[k + 1] \in Byte /\ k + 1 \in 1..Len(n)
    BY <1>1, <1>2
<1> HIDE DEF w, p
<1>5. CASE n[k + 1] = Dot
  <2>1. p = <<Dash>> /\ Len(p) = 1 /\ p[1] = Dash
    BY <1>4, <1>5, PieceIsTyped DEF p
  <2>2. k + 2 <= Len(n) /\ n[k + 2] \notin {Dot, Dash}
    <3>1. k + 2 \in Beginnings(n)
      BY <1>4, <1>5, <1>2 DEF Beginnings
    <3> QED
      BY <3>1 DEF IsHostName
  <2>3. w[from + 1] = n[k + 2]
    <3>1. k + 1 \in 0..Len(n) - 1 /\ (k + 1) + 1 = k + 2 /\ k + 2 \in 1..Len(n)
      BY <1>1, <1>2, <2>2
    <3>2. Len(Joined(n, k + 1)) + 1 = from + 1
      BY <1>2, <1>3, <2>1
    <3>3. w[Len(Joined(n, k + 1)) + 1] = Piece(n[(k + 1) + 1])[1]
      BY <1>1, <3>1, NextPiece DEF w
    <3>4. n[k + 2] \in Byte
      BY <1>1, <3>1
    <3>5. Piece(n[k + 2]) = <<n[k + 2]>>
      BY <2>2, <3>4, PieceIsTyped
    <3> QED
      BY <3>1, <3>2, <3>3, <3>5
  <2>4. Encoded[from] = Dash /\ ~Paired
    BY <1>1, <1>3, <2>1, <2>2, <2>3 DEF Paired
  <2>5. Decoded = <<Dot, 1>>
    BY <2>4 DEF Decoded
  <2> QED
    BY <1>2, <1>3, <1>5, <2>1, <2>5
<1>6. CASE n[k + 1] = Dash
  <2>1. p = <<Dash, Dash>> /\ Len(p) = 2 /\ p[1] = Dash /\ p[2] = Dash
    BY <1>4, <1>6, PieceIsTyped DEF p
  <2>2. Encoded[from] = Dash /\ Paired
    <3>1. from < Len(w)
      BY <1>2, <1>3, <2>1
    <3> QED
      BY <1>1, <1>3, <2>1, <3>1 DEF Paired
  <2>3. Decoded = <<Dash, 2>>
    BY <2>2 DEF Decoded
  <2> QED
    BY <1>2, <1>3, <1>6, <2>1, <2>3
<1>7. CASE n[k + 1] \notin {Dot, Dash}
  <2>1. p = <<n[k + 1]>> /\ Len(p) = 1 /\ p[1] = n[k + 1]
    BY <1>4, <1>7, PieceIsTyped DEF p
  <2>2. Decoded = <<n[k + 1], 1>>
    BY <1>1, <1>3, <1>7, <2>1 DEF Decoded
  <2> QED
    BY <1>2, <1>3, <2>1, <2>2
<1> QED
    BY <1>5, <1>6, <1>7

\* A character decoded is the next of the name.
LEMMA DecodeSees ==
    ASSUME SeenThrough, Decode
    PROVE  SeenThrough'
<1>1. /\ stage = "decoding" /\ stage' = "decoding" /\ name' = name /\ from <= Len(Encoded)
      /\ subject' = Append(subject, Decoded[1]) /\ from' = from + Decoded[2]
    BY DEF Decode, parser
<1>2. ASSUME NEW n \in Names, name = ProxiedAs(n), IsHostName(n)
      PROVE  \E k \in 0..Len(n) : DecodedTo(n, k)'
  <2>1. PICK k \in 0..Len(n) : DecodedTo(n, k)
    BY <1>1, <1>2 DEF SeenThrough
  <2>2. n \in Seq(Byte) /\ Len(n) \in Nat
    BY <1>2, SuffixTakenOff
  <2>3. k < Len(n) /\ Decoded[1] = n[k + 1] /\ from + Decoded[2] = Len(Joined(n, k + 1)) + 1
    BY <1>1, <1>2, <2>1, NextDecoded DEF DecodedTo
  <2>4. k + 1 \in 0..Len(n) /\ k + 1 \in 1..Len(n) /\ (k + 1) - 1 = k /\ 1 \in 1..Len(n)
    BY <2>2, <2>3
  <2>5. Append(SubSeq(n, 1, k), n[k + 1]) = SubSeq(n, 1, k + 1)
    <3>1. SubSeq(n, 1, k + 1) = SubSeq(n, 1, (k + 1) - 1) \o <<n[k + 1]>>
      BY <2>2, <2>4, SubSeqRecursiveSecond
    <3>2. SubSeq(n, 1, k) \in Seq(Byte) /\ n[k + 1] \in Byte
      BY <2>2, <2>4, CutIsASequence
    <3> QED
      BY <2>4, <3>1, <3>2, AppendIsConcat
  <2>6. subject' = SubSeq(n, 1, k + 1) /\ from' = Len(Joined(n, k + 1)) + 1
    BY <1>1, <2>1, <2>3, <2>5 DEF DecodedTo
  <2>7. DecodedTo(n, k + 1)'
    BY <2>6 DEF DecodedTo
  <2> QED
    BY <2>4, <2>7
<1> QED
  <2>1. stage' # "proxied" /\ stage' # "asking"
    BY <1>1
  <2> QED
    BY <1>1, <1>2, <2>1 DEF SeenThrough

\* When all is decoded, it is the name.
LEMMA LookUpDecodedSees ==
    ASSUME SeenThrough, LookUpDecoded
    PROVE  SeenThrough'
<1>1. /\ stage = "decoding" /\ stage' = "proxied" /\ name' = name /\ subject' = subject
      /\ from > Len(Encoded)
    BY DEF LookUpDecoded, parser
<1>2. ASSUME NEW n \in Names, name = ProxiedAs(n), IsHostName(n)
      PROVE  subject = n
  <2> DEFINE w == Joined(n, Len(n))
  <2>1. PICK k \in 0..Len(n) : DecodedTo(n, k)
    BY <1>1, <1>2 DEF SeenThrough
  <2>2. n \in Seq(Byte) /\ Len(n) \in Nat /\ w \in Seq(Byte) /\ Encoded = w
    BY <1>2, SuffixTakenOff
  <2>3. ASSUME k < Len(n)
        PROVE  FALSE
    <3> DEFINE j == Joined(n, k)
               p == Piece(n[k + 1])
    <3>1. k \in 0..Len(n) - 1 /\ k + 1 \in 1..Len(n)
      BY <2>2, <2>3
    <3>2. (Len(j) + 1) + Len(p) - 1 <= Len(w)
      BY <2>2, <3>1, NextPiece
    <3>3. Len(p) \in Nat /\ Len(p) >= 1 /\ j \in Seq(Byte)
      <4>1. \A x \in {1, 2} : x \in Nat /\ x >= 1
        OBVIOUS
      <4>2. Len(p) \in {1, 2}
        BY <2>2, <3>1, PieceIsTyped
      <4> QED
        BY <2>2, <4>1, <4>2, JoinedIsTyped
    <3>4. Len(j) + 1 > Len(w)
      BY <1>1, <2>1, <2>2 DEF DecodedTo
    <3> HIDE DEF j, p, w
    <3>5. Len(j) \in Nat /\ Len(w) \in Nat
      BY <2>2, <3>3, LenProperties
    <3> QED
      BY <3>2, <3>3, <3>4, <3>5
  <2>4. k = Len(n)
    BY <2>2, <2>3
  <2> QED
    BY <2>1, <2>2, <2>4, SubSeqFull DEF DecodedTo
<1> QED
    BY <1>1, <1>2 DEF SeenThrough

\* Every step keeps what is decoded the name that the proxy wrote.
LEMMA SeenThroughStep ==
    ASSUME Bounded, Sought, SeenThrough, [Next]_vars
    PROVE  SeenThrough'
<1>1. CASE \E lines \in Files : LoadFromFile(lines)
    BY <1>1 DEF LoadFromFile, SeenThrough
<1>2. CASE \E m \in Messages : Receive(m)
    BY <1>2 DEF Receive, Drops, Ends, SeenThrough
<1>3. CASE Parse
    BY <1>3 DEF Parse, ReadLabel, EndOfName, AtLength, Reject, Drops, Ends, SeenThrough
<1>4. CASE Enforce
  <2>1. IsEnforced(name') /\ stage' = "asking"
    BY <1>4 DEF Enforce, parser
  <2> QED
    BY <2>1 DEF SeenThrough
<1>5. CASE LookUp \/ Sinkhole
    BY <1>5 DEF LookUp, Sinkhole, Ends, SeenThrough
<1>6. CASE LookUpProxied
  <2>1. /\ stage' = "decoding" /\ name' = name /\ subject' = <<>> /\ from' = 1
    BY <1>6 DEF LookUpProxied, parser
  <2>2. ASSUME NEW n \in Names, name = ProxiedAs(n), IsHostName(n)
        PROVE  0 \in 0..Len(n) /\ DecodedTo(n, 0)'
    <3>1. n \in Seq(Byte) /\ Len(n) \in Nat
      BY <2>2, SuffixTakenOff
    <3>2. SubSeq(n, 1, 0) = <<>> /\ Joined(n, 0) = <<>> /\ Len(<<>>) = 0
      BY <3>1, SubSeqEmpty, JoinedStep
    <3> QED
      BY <2>1, <3>1, <3>2 DEF DecodedTo
  <2> QED
    BY <2>1, <2>2 DEF SeenThrough
<1>7. CASE Forward
  <2>1. /\ stage \in {"walk", "proxied"} /\ UNCHANGED <<name, subject>> /\ stage' = "asking"
        /\ stage = "walk" => ~IsTranslateProxyHost(name)
    BY <1>7 DEF Forward, NoParent, Walking, parser, walk
  <2>2. ASSUME NEW n \in Names, name = ProxiedAs(n), IsHostName(n)
        PROVE  subject = n
    BY <2>1, <2>2, SuffixTakenOff DEF SeenThrough
  <2> QED
    BY <2>1, <2>2 DEF SeenThrough
<1>8. CASE \E i \in from..Len(subject) : NextParent(i)
  <2>1. Walking /\ UNCHANGED <<stage, name, subject>>
    BY <1>8 DEF NextParent, parser
  <2> QED
    BY <2>1 DEF SeenThrough, Walking
<1>9. CASE Decode
    BY <1>9, DecodeSees
<1>10. CASE LookUpDecoded
    BY <1>10, LookUpDecodedSees
<1>11. CASE Settle \/ Loop
    BY <1>11 DEF Settle, UpstreamSilent, Answer, AnswerEnforced, Drops, Ends, Loop, SeenThrough
<1>12. CASE UNCHANGED vars
  <2>1. UNCHANGED <<stage, name, subject, from>>
    BY <1>12 DEF vars, parser, walk
  <2> QED
    BY <2>1 DEF SeenThrough, DecodedTo, IsEnforced, PrefixesOf
<1> QED
    BY <1>1, <1>2, <1>3, <1>4, <1>5, <1>6, <1>7, <1>8, <1>9, <1>10, <1>11, <1>12 DEF Next, Decide

\* For every list and every name whose labels do not begin with a dash, the name as
\* the translation proxy writes it goes upstream only if neither the name nor one of
\* its parents is listed (decodeTranslateProxyHost, isBlockedIncludingProxies).
THEOREM ProxyIsSeenThrough == Spec => []ProxySeenThrough
<1> DEFINE Inv == Bounded /\ Sought /\ SeenThrough
<1>1. Init => Inv
    BY BoundedInitially, SoughtInitially DEF Init, SeenThrough
<1>2. Inv /\ [Next]_vars => Inv'
    BY BoundedStep, SoughtStep, SeenThroughStep DEF Bounded
<1>3. Inv => ProxySeenThrough
  <2> SUFFICES ASSUME Inv, stage = "asking", ~IsEnforced(name),
                      NEW n \in Names, name = Proxied[n], IsHostName(n)
               PROVE  ~Listed(n)
    BY DEF ProxySeenThrough
  <2>1. name = ProxiedAs(n)
    BY DEF Proxied
  <2>2. IsTranslateProxyHost(name) /\ subject = n
    BY <2>1, SuffixTakenOff DEF SeenThrough
  <2> QED
    BY <2>2 DEF Sought, SinkholedIffListed
<1> HIDE DEF Inv
<1> QED
    BY <1>1, <1>2, <1>3, PTL DEF Spec
=============================================================================
