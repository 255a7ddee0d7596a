-------------------------- MODULE ReportDataProofs --------------------------
(***************************************************************************)
(* Proofs about the performance report: one that is made has every case    *)
(* uploaded, in whichever order the files are merged, for any number of    *)
(* cases; and each of its rows shows what was measured in this row, for    *)
(* any cases and metrics, as long as a case has at most ten rows and none  *)
(* lacks a metric.                                                         *)
(***************************************************************************)
EXTENDS ReportData, FunctionTheorems, FiniteSetTheorems, SequenceTheorems,
        WellFoundedInduction, TLAPS

(* Numbers have a least one, since there is no endless chain of intervals  *)
(* 0..n inside each other.                                                 *)
LEMMA LeastNumber ==
  ASSUME NEW T, T \subseteq Nat, T # {}
  PROVE  \E x \in T : \A y \in T : x <= y
<1> DEFINE R == StrictSubsetOrdering(Nat)
           F == {0..n : n \in T}
<1>1. IsWellFoundedOn(R, FiniteSubsetsOf(Nat))
  BY FS_StrictSubsetOrderingWellFounded
<1>2. F \subseteq FiniteSubsetsOf(Nat) /\ F # {}
  <2>1. \A n \in T : IsFiniteSet(0..n) /\ 0..n \subseteq Nat
    BY FS_Interval
  <2> QED
    BY <2>1 DEF FiniteSubsetsOf
<1>3. \E a \in F : \A b \in F : <<b, a>> \notin R
  <2> HIDE DEF F, R
  <2> QED
    BY <1>1, <1>2, WFMin
<1>4. PICK x \in T : \A y \in T : <<0..y, 0..x>> \notin R
  BY <1>3
<1>5. \A y \in T : y < x => <<0..y, 0..x>> \in R
  <2>1. ASSUME NEW y \in T, y < x PROVE 0..y \subseteq 0..x /\ 0..y # 0..x
    <3>1. x \in 0..x /\ x \notin 0..y
      BY <2>1
    <3> QED
      BY <2>1, <3>1
  <2> QED
    BY <2>1 DEF StrictSubsetOrdering
<1> HIDE DEF R
<1>6. \A y \in T : ~(y < x)
  BY <1>4, <1>5
<1>7. \A y \in T : y \in Nat /\ x \in Nat
  OBVIOUS
<1> QED
  BY <1>6, <1>7

(* Induction over the numbers up to n.                                     *)
LEMMA UpToInduction ==
  ASSUME NEW n \in Nat, NEW T, 0 \in T,
         \A i \in 0..(n - 1) : i \in T => i + 1 \in T
  PROVE  0..n \subseteq T
<1> SUFFICES ASSUME NEW k \in 0..n, k \notin T PROVE FALSE
  OBVIOUS
<1> DEFINE B == {i \in 0..n : i \notin T}
<1>1. B \subseteq Nat /\ B # {}
  OBVIOUS
<1>2. PICK x \in B : \A y \in B : x <= y
  <2> HIDE DEF B
  <2> QED
    BY <1>1, LeastNumber
<1>3. x \in 1..n /\ x \notin T
  OBVIOUS
<1>4. x - 1 \in 0..(n - 1) /\ (x - 1) + 1 = x /\ ~(x <= x - 1)
  BY <1>3
<1>5. x - 1 \in T
  BY <1>2, <1>4
<1> QED
  BY <1>3, <1>4, <1>5

-----------------------------------------------------------------------------
(* Merging                                                                 *)

(* An order of the files is one of all of them.                            *)
LEMMA OrderOfAll ==
  ASSUME NEW S, IsFiniteSet(S), NEW order \in SetToSeqs(S)
  PROVE  /\ Len(order) \in Nat /\ DOMAIN order = 1..Len(order)
         /\ order \in [1..Len(order) -> S]
         /\ \A c \in S : \E i \in 1..Len(order) : order[i] = c
<1> DEFINE n == Cardinality(S)
<1>1. n \in Nat
  BY FS_CardinalityType
<1>2. order \in [1..n -> S] /\ \A i, j \in 1..n : i # j => order[i] # order[j]
  BY DEF SetToSeqs
<1>3. order \in Injection(1..n, S)
  BY <1>2 DEF Injection, IsInjective
<1>4. Cardinality(1..n) = n
  BY <1>1, FS_Interval
<1> HIDE DEF n
<1>5. order \in Surjection(1..n, S)
  BY <1>3, <1>4, FS_Injection DEF n
<1>6. \A c \in S : \E i \in 1..n : order[i] = c
  BY <1>5 DEF Surjection
<1>7. order \in Seq(S) /\ Len(order) = n
  BY <1>1, <1>2
<1> QED
  BY <1>1, <1>2, <1>6, <1>7

(* After i files, the group has the cases of these files, as measured.     *)
LEMMA MergedIsAll ==
  ASSUME NEW S, IsFiniteSet(S), NEW order \in SetToSeqs(S)
  PROVE  Merged(order) = [c \in S |-> measured[c]]
<1> DEFINE n == Len(order)
           Has(i) == [c \in {order[j] : j \in 1..i} |-> measured[c]]
           data == CHOOSE f : f = [i \in 0..n |->
                       IF i = 0 THEN [c \in {} |-> NoRows]
                       ELSE Update(f[i - 1], [c \in {order[i]} |-> measured[c]])]
<1>1. Merged(order) = data[n]
  BY Zenon DEF Merged
<1>2. n \in Nat /\ \A c \in S : \E i \in 1..n : order[i] = c
  BY OrderOfAll
<1>3. Has(0) = [c \in {} |-> NoRows]
  OBVIOUS
<1>4. ASSUME NEW i \in 1..n
      PROVE  Update(Has(i - 1), [c \in {order[i]} |-> measured[c]]) = Has(i)
  <2>1. {order[j] : j \in 1..i} = {order[j] : j \in 1..(i - 1)} \cup {order[i]}
    <3>1. 1..i = 1..(i - 1) \cup {i}
      BY <1>4, <1>2
    <3> QED
      BY <3>1, Zenon
  <2> QED
    BY <2>1 DEF Update
<1> HIDE DEF n, Has
<1>5. [i \in 0..n |-> Has(i)] = [i \in 0..n |->
          IF i = 0 THEN [c \in {} |-> NoRows]
          ELSE Update([k \in 0..n |-> Has(k)][i - 1], [c \in {order[i]} |-> measured[c]])]
  <2>1. ASSUME NEW i \in 0..n
        PROVE  Has(i) = IF i = 0 THEN [c \in {} |-> NoRows]
                        ELSE Update([k \in 0..n |-> Has(k)][i - 1], [c \in {order[i]} |-> measured[c]])
    <3>1. i # 0 => i \in 1..n /\ i - 1 \in 0..n
      BY <1>2
    <3> QED
      BY <3>1, <1>3, <1>4
  <2> QED
    BY <2>1, Zenon
<1>6. data = [i \in 0..n |->
                 IF i = 0 THEN [c \in {} |-> NoRows]
                 ELSE Update(data[i - 1], [c \in {order[i]} |-> measured[c]])]
  BY <1>5, Zenon
<1> HIDE DEF data
<1>7. data[n] = Has(n)
  <2> DEFINE T == {i \in 0..n : data[i] = Has(i)}
  <2>1. 0 \in T
    BY <1>2, <1>3, <1>6
  <2>2. ASSUME NEW i \in 0..(n - 1), i \in T PROVE i + 1 \in T
    <3>1. i + 1 \in 1..n /\ i + 1 \in 0..n /\ (i + 1) - 1 = i /\ i + 1 # 0
      BY <1>2
    <3>2. data[i + 1] = Update(data[i], [c \in {order[i + 1]} |-> measured[c]])
      BY <3>1, <1>6
    <3>3. Update(Has(i), [c \in {order[i + 1]} |-> measured[c]]) = Has(i + 1)
      BY <3>1, <1>4
    <3> QED
      BY <2>2, <3>1, <3>2, <3>3
  <2>3. n \in 0..n
    BY <1>2
  <2> HIDE DEF T
  <2>4. n \in T
    BY <2>1, <2>2, <2>3, <1>2, UpToInduction
  <2> QED
    BY <2>4 DEF T
<1>8. {order[j] : j \in 1..n} = S
  BY <1>2, OrderOfAll DEF n
<1> QED
  BY <1>1, <1>7, <1>8 DEF Has

-----------------------------------------------------------------------------
(* No case is lost                                                         *)

(* What is merged is what was measured, of each case with a file.          *)
MergeInv ==
    /\ IsFiniteSet(files)
    /\ stage \in {"testing", "uploaded", "loaded", "reported", "failed"}
    /\ stage \in {"testing", "uploaded"} => merged = [c \in {} |-> NoRows]
    /\ stage = "loaded" => merged = [c \in files |-> measured[c]]
    /\ NoCaseLost

LEMMA MergeInit == Init => MergeInv
BY FS_EmptySet DEF Init, MergeInv, NoCaseLost

LEMMA MergeStep == MergeInv /\ [Next]_vars => MergeInv'
<1> SUFFICES ASSUME MergeInv, [Next]_vars PROVE MergeInv'
  OBVIOUS
<1> USE DEF MergeInv, NoCaseLost
<1>1. ASSUME NEW c \in Cases, NEW row \in 0..MaxRows - 1, NEW ms \in (SUBSET Metrics) \ {{}},
             AddResultData(c, row, ms)
      PROVE  MergeInv'
  BY <1>1 DEF AddResultData
<1>2. ASSUME NEW c \in Cases, GenerateYamlFile(c) PROVE MergeInv'
  BY <1>2, FS_AddElement DEF GenerateYamlFile
<1>3. CASE PostZip
  BY <1>3 DEF PostZip
<1>4. CASE NoFile
  BY <1>4 DEF NoFile
<1>5. CASE Merge
  <2>1. PICK order \in SetToSeqs(files) : merged' = Merged(order)
    BY <1>5 DEF Merge
  <2>2. merged' = [c \in files |-> measured[c]]
    BY <2>1, MergedIsAll
  <2> QED
    BY <1>5, <2>2 DEF Merge
<1>6. CASE Write
  BY <1>6 DEF Write
<1>7. CASE GetPerformanceMd
  BY <1>7 DEF GetPerformanceMd
<1>8. CASE ReportFails
  BY <1>8 DEF ReportFails
<1>9. CASE UNCHANGED vars
  BY <1>9 DEF vars
<1> QED
  BY <1>1, <1>2, <1>3, <1>4, <1>5, <1>6, <1>7, <1>8, <1>9 DEF Next

(* A report that is made has every case whose measures were uploaded, in   *)
(* whichever order load_data finds the files and merge() updates the group *)
(* with them; one that fails on the way is not made for any of them.       *)
THEOREM EveryCaseReported == Spec => []NoCaseLost
<1>1. MergeInv => NoCaseLost
  BY DEF MergeInv
<1> QED
  BY <1>1, MergeInit, MergeStep, PTL DEF Spec

-----------------------------------------------------------------------------
(* The rows of a metric                                                    *)

(* Up to ten, the numbers are in the same order as strings.                *)
LEMMA DigitsOrdered ==
  ASSUME NEW j \in 0..9, NEW k \in 0..9
  PROVE  AsStrings(j, k) <=> j < k
<1>1. Digits(j) = <<j>> /\ Digits(k) = <<k>>
  BY DEF Digits
<1>2. Digits(j)[1] = j /\ Digits(k)[1] = k /\ Len(Digits(j)) = 1 /\ Len(Digits(k)) = 1
  BY <1>1
<1> QED
  BY <1>2 DEF AsStrings

LEMMA CountBelow == \A n \in Nat : Cardinality(0..(n - 1)) = n
<1> TAKE n \in Nat
<1>1. Cardinality(0..(n - 1)) = IF 0 > n - 1 THEN 0 ELSE (n - 1) - 0 + 1
  BY FS_Interval
<1> QED
  BY <1>1

(* So the keys of rows without a gap come in their own order.              *)
LEMMA KeysAre ==
  ASSUME NEW n \in 0..10
  PROVE  Keys(0..(n - 1)) = [i \in 1..n |-> i - 1]
<1> DEFINE R == 0..(n - 1)
           before == {p \in R \X R : AsStrings(p[1], p[2])}
           Earlier(k) == {j \in R : <<j, k>> \in before}
<1>1. Cardinality(R) = n
  BY CountBelow
<1>2. ASSUME NEW k \in R PROVE Cardinality(Earlier(k)) = k
  <2>1. ASSUME NEW j \in R PROVE <<j, k>> \in before <=> j < k
    <3>1. AsStrings(j, k) <=> j < k
      BY <1>2, <2>1, DigitsOrdered
    <3> QED
      BY <3>1
  <2> HIDE DEF before
  <2>2. Earlier(k) = 0..(k - 1)
    BY <2>1
  <2>3. k \in Nat
    OBVIOUS
  <2> HIDE DEF Earlier
  <2> QED
    BY <2>2, <2>3, CountBelow
<1> HIDE DEF before
<1>3. Keys(R) = [i \in 1..n |-> CHOOSE k \in R : Cardinality(Earlier(k)) = i - 1]
  BY <1>1, Zenon DEF Keys, InOrder, before
<1> HIDE DEF Earlier
<1>4. ASSUME NEW i \in 1..n PROVE (CHOOSE k \in R : Cardinality(Earlier(k)) = i - 1) = i - 1
  <2>1. i - 1 \in R
    OBVIOUS
  <2> HIDE DEF R
  <2> QED
    BY <1>2, <2>1
<1> HIDE DEF R
<1> QED
  BY <1>3, <1>4 DEF R

(* Dict2Obj puts each of them at the end.                                  *)
LEMMA DictIs ==
  ASSUME NEW n \in 0..10
  PROVE  Dict2Obj(0..(n - 1)) = [i \in 1..n |-> Measure(i - 1)]
<1> DEFINE keys == Keys(0..(n - 1))
           First(i) == [j \in 1..i |-> Measure(j - 1)]
           values == CHOOSE f : f = [i \in 0..Len(keys) |->
                         IF i = 0 THEN <<>> ELSE Place(f[i - 1], keys[i])]
<1>1. Dict2Obj(0..(n - 1)) = values[Len(keys)]
  BY Zenon DEF Dict2Obj
<1>2. Len(keys) = n /\ \A i \in 1..n : keys[i] = i - 1
  <2>1. keys = [i \in 1..n |-> i - 1]
    BY KeysAre
  <2> HIDE DEF keys
  <2>2. keys \in Seq(Nat) /\ Len(keys) = n
    BY <2>1
  <2> QED
    BY <2>1, <2>2
<1> HIDE DEF keys
<1>3. First(0) = <<>>
  OBVIOUS
<1>4. ASSUME NEW i \in 1..n PROVE Place(First(i - 1), keys[i]) = First(i)
  <2>1. First(i - 1) \in Seq({Measure(k) : k \in Nat}) /\ Len(First(i - 1)) = i - 1
    BY DEF Measure
  <2>2. Place(First(i - 1), keys[i]) = Append(First(i - 1), Measure(i - 1))
    BY <2>1, <1>2 DEF Place
  <2>3. Append(First(i - 1), Measure(i - 1)) = First(i)
    BY <2>1, SMTT(60) DEF Measure
  <2> QED
    BY <2>2, <2>3, Zenon
<1> HIDE DEF First
<1>5. [i \in 0..n |-> First(i)] = [i \in 0..n |->
          IF i = 0 THEN <<>> ELSE Place([k \in 0..n |-> First(k)][i - 1], keys[i])]
  <2>1. ASSUME NEW i \in 0..n
        PROVE  First(i) = IF i = 0 THEN <<>> ELSE Place([k \in 0..n |-> First(k)][i - 1], keys[i])
    <3>1. i # 0 => i \in 1..n /\ i - 1 \in 0..n
      OBVIOUS
    <3> QED
      BY <3>1, <1>3, <1>4
  <2> QED
    BY <2>1, Zenon
<1>6. values = [i \in 0..n |-> IF i = 0 THEN <<>> ELSE Place(values[i - 1], keys[i])]
  BY <1>2, <1>5, Zenon
<1> HIDE DEF values
<1>7. values[n] = First(n)
  <2> DEFINE T == {i \in 0..n : values[i] = First(i)}
  <2>1. 0 \in T
    BY <1>3, <1>6
  <2>2. ASSUME NEW i \in 0..(n - 1), i \in T PROVE i + 1 \in T
    <3>1. i + 1 \in 1..n /\ i + 1 \in 0..n /\ (i + 1) - 1 = i /\ i + 1 # 0
      OBVIOUS
    <3>2. values[i + 1] = Place(values[i], keys[i + 1])
      BY <3>1, <1>6
    <3>3. Place(First(i), keys[i + 1]) = First(i + 1)
      BY <3>1, <1>4
    <3> QED
      BY <2>2, <3>1, <3>2, <3>3
  <2>3. n \in 0..n /\ n \in Nat
    OBVIOUS
  <2> HIDE DEF T
  <2>4. n \in T
    BY <2>1, <2>2, <2>3, UpToInduction
  <2> QED
    BY <2>4 DEF T
<1> QED
  BY <1>1, <1>2, <1>7 DEF First

(* So an item of the object is the measure of its row.                     *)
LEMMA ItemIs ==
  ASSUME NEW n \in 0..10, NEW k \in Nat
  PROVE  Item(Dict2Obj(0..(n - 1)), k) = IF k \in 0..(n - 1) THEN Measure(k) ELSE Blank
<1> DEFINE values == [i \in 1..n |-> Measure(i - 1)]
<1>1. Dict2Obj(0..(n - 1)) = values
  BY DictIs
<1>2. values \in Seq({Measure(i) : i \in Nat}) /\ Len(values) = n
  OBVIOUS
<1>3. k < n <=> k \in 0..(n - 1)
  OBVIOUS
<1>4. k < n => values[k + 1] = Measure(k)
  OBVIOUS
<1> QED
  BY <1>1, <1>2, <1>3, <1>4 DEF Item

(* The rows of a metric have no gap.                                       *)
Gapless(rows) == \E n \in 0..MaxRows : rows = 0..(n - 1)

GaplessInv ==
    /\ measured \in [Cases -> [Metrics -> SUBSET Nat]] /\ files \subseteq Cases
    /\ \A c \in Cases, m \in Metrics : Gapless(measured[c][m])

LEMMA GaplessInit == MaxRows \in Nat /\ Init => GaplessInv
<1> SUFFICES ASSUME MaxRows \in Nat, Init PROVE GaplessInv
  OBVIOUS
<1>1. Gapless({})
  <2>1. 0 \in 0..MaxRows /\ {} = 0..(0 - 1)
    OBVIOUS
  <2> QED
    BY <2>1, Zenon DEF Gapless
<1> QED
  BY <1>1 DEF Init, GaplessInv, NoRows

LEMMA GaplessStep ==
  ASSUME ~Gaps, MaxRows \in Nat, GaplessInv, [Next]_vars
  PROVE  GaplessInv'
<1>1. ASSUME NEW c \in Cases, NEW row \in 0..MaxRows - 1, NEW ms \in (SUBSET Metrics) \ {{}},
             AddResultData(c, row, ms)
      PROVE  GaplessInv'
  <2>1. /\ measured' = [measured EXCEPT ![c] =
               [m \in Metrics |-> IF m \in ms THEN @[m] \cup {row} ELSE @[m]]]
        /\ files' = files
        /\ \A m \in ms : row = Cardinality(measured[c][m])
    BY <1>1 DEF AddResultData
  <2>2. measured' \in [Cases -> [Metrics -> SUBSET Nat]]
    BY <2>1 DEF GaplessInv
  <2>3. ASSUME NEW m \in ms PROVE Gapless(measured[c][m] \cup {row})
    <3>1. PICK n \in 0..MaxRows : measured[c][m] = 0..(n - 1)
      BY DEF GaplessInv, Gapless
    <3>2. row = n
      BY <2>1, <3>1, CountBelow
    <3>3. n + 1 \in 0..MaxRows /\ measured[c][m] \cup {row} = 0..((n + 1) - 1)
      BY <3>1, <3>2
    <3> QED
      BY <3>3, Zenon DEF Gapless
  <2>4. ASSUME NEW d \in Cases, NEW m \in Metrics PROVE Gapless(measured'[d][m])
    <3>1. measured'[d][m] = IF d = c /\ m \in ms THEN measured[c][m] \cup {row} ELSE measured[d][m]
      BY <2>1 DEF GaplessInv
    <3> QED
      BY <2>3, <3>1 DEF GaplessInv
  <2> QED
    BY <2>1, <2>2, <2>4 DEF GaplessInv
<1>2. ASSUME NEW c \in Cases, GenerateYamlFile(c) PROVE GaplessInv'
  BY <1>2 DEF GenerateYamlFile, GaplessInv
<1>3. PostZip \/ NoFile \/ Merge \/ Write \/ ReportFails \/ GetPerformanceMd \/ UNCHANGED vars
      => UNCHANGED <<measured, files>>
  BY DEF PostZip, NoFile, Merge, Write, ReportFails, GetPerformanceMd, vars
<1>4. UNCHANGED <<measured, files>> => GaplessInv'
  BY DEF GaplessInv
<1> QED
  BY <1>1, <1>2, <1>3, <1>4 DEF Next

LEMMA RowsFollow == MaxRows \in 0..10 /\ MergeInv /\ GaplessInv => RowsAreMeasured
<1> SUFFICES ASSUME MaxRows \in 0..10, MergeInv, GaplessInv, stage = "loaded",
                    NEW c \in DOMAIN merged, NEW m \in Metrics, NEW k \in 0..MaxRows - 1
             PROVE  Item(Dict2Obj(merged[c][m]), k) = IF k \in merged[c][m] THEN Measure(k) ELSE Blank
  BY DEF RowsAreMeasured
<1>1. c \in Cases /\ merged[c] = measured[c]
  BY DEF MergeInv, GaplessInv
<1>2. PICK n \in 0..MaxRows : measured[c][m] = 0..(n - 1)
  BY <1>1 DEF GaplessInv, Gapless
<1>3. n \in 0..10 /\ k \in Nat
  OBVIOUS
<1> QED
  BY <1>1, <1>2, <1>3, ItemIs

(* Each row of the report shows what add_result_data was given for this    *)
(* row, though yaml.dump sorts the numbers as strings and Dict2Obj goes by *)
(* their order, if there are at most ten rows and none lacks a metric.     *)
THEOREM RowsShown == ~Gaps /\ MaxRows \in 0..10 => (Spec => []RowsAreMeasured)
<1> SUFFICES ASSUME ~Gaps, MaxRows \in 0..10 PROVE Spec => []RowsAreMeasured
  OBVIOUS
<1>1. MaxRows \in Nat
  OBVIOUS
<1>2. Init => MergeInv /\ GaplessInv
  BY <1>1, MergeInit, GaplessInit
<1>3. MergeInv /\ GaplessInv /\ [Next]_vars => (MergeInv /\ GaplessInv)'
  BY <1>1, MergeStep, GaplessStep
<1>4. MergeInv /\ GaplessInv => RowsAreMeasured
  BY RowsFollow
<1> QED
  BY <1>2, <1>3, <1>4, PTL DEF Spec
=============================================================================
