--------------------------- MODULE Wizards_proofs ---------------------------
(* What is proved about the wizards, the migration page and the endpoints    *)
(* that generate projects: for any wizards, inputs and clusters, and any     *)
(* sequence of submits, returns and changed answers, the saved answers are   *)
(* those of the visited steps and one way through the wizard; for any number *)
(* of requests, also those of wizards that were closed while they waited, a  *)
(* wizard that waits shows what it asked for, and the store keeps the files  *)
(* of one way through each wizard; and what a wizard sends is served.        *)
EXTENDS MigrationPage, InfraWizards, WellFoundedInduction, TLAPS

-----------------------------------------------------------------------------
(* Numbers.                                                                  *)

(* A set of natural numbers that is not empty has a least element.           *)
LEMMA LeastNumber ==
  ASSUME NEW S, S \subseteq Nat, S # {}
  PROVE  Min(S) \in S /\ \A m \in S : Min(S) <= m
<1> DEFINE Below == {p \in Nat \X Nat : p[1] < p[2]}
<1>1. Below = OpToRel(<, Nat)
  BY Zenon DEF OpToRel
<1>2. IsWellFoundedOn(Below, Nat)
  BY <1>1, NatLessThanWellFounded, Zenon
<1>3. \A m, n \in Nat : m < n => <<m, n>> \in Below
  OBVIOUS
<1> HIDE DEF Below
<1>4. PICK n \in S : \A m \in S : ~ (<<m, n>> \in Below)
  BY <1>2, WFMin, Zenon
<1>5. \A m \in S : n <= m
  <2> TAKE m \in S
  <2>1. m \in Nat /\ n \in Nat /\ ~ (<<m, n>> \in Below)
    BY <1>4
  <2>2. ~ (m < n)
    BY <1>3, <2>1
  <2>3. QED
    BY <2>1, <2>2
<1>6. QED
  BY <1>5 DEF Min

-----------------------------------------------------------------------------
(* Array.filter.                                                             *)

(* What has been kept of the first i elements, for each i, decides what is   *)
(* kept of all: it suffices to say what has been kept on the way.            *)
LEMMA KeepingByPrefixes ==
  ASSUME NEW s, Len(s) \in Nat, NEW S, NEW g,
         g = [i \in 0..Len(s) |->
                IF i = 0 THEN <<>> ELSE IF s[i] \in S THEN Append(g[i - 1], s[i]) ELSE g[i - 1]]
  PROVE  Keeping(s, S) = g[Len(s)]
<1> DEFINE Step(f) == [i \in 0..Len(s) |->
              IF i = 0 THEN <<>> ELSE IF s[i] \in S THEN Append(f[i - 1], s[i]) ELSE f[i - 1]]
           kept == CHOOSE f : f = Step(f)
<1>1. Keeping(s, S) = kept[Len(s)]
  BY DEF Keeping
<1>2. kept = Step(kept)
  <2>1. g = Step(g)
    OBVIOUS
  <2> HIDE DEF Step
  <2>2. QED
    BY <2>1
<1> HIDE DEF kept
<1>3. \A i \in 0..Len(s) : kept[i] = g[i]
  <2> DEFINE differ == {i \in 0..Len(s) : kept[i] # g[i]}
  <2> SUFFICES ASSUME differ # {} PROVE FALSE
    OBVIOUS
  <2>1. differ \subseteq Nat
    OBVIOUS
  <2>2. PICK n \in differ : \A m \in differ : n <= m
    BY <2>1, LeastNumber
  <2>3. n \in 0..Len(s) /\ kept[n] # g[n]
    BY <2>2
  <2>4. n # 0
    BY <1>2, <2>3
  <2>5. n - 1 \in 0..Len(s) /\ n - 1 \notin differ
    <3>1. n \in Nat /\ n - 1 \in 0..Len(s) /\ ~ (n <= n - 1)
      BY <2>3, <2>4
    <3>2. QED
      BY <2>2, <3>1
  <2>6. kept[n - 1] = g[n - 1]
    BY <2>5
  <2>7. kept[n] = IF s[n] \in S THEN Append(kept[n - 1], s[n]) ELSE kept[n - 1]
    BY <1>2, <2>3, <2>4
  <2>8. g[n] = IF s[n] \in S THEN Append(g[n - 1], s[n]) ELSE g[n - 1]
    BY <2>3, <2>4
  <2>9. QED
    BY <2>3, <2>6, <2>7, <2>8
<1>4. QED
  BY <1>1, <1>3

(* A sequence is what one says it is, element by element.                    *)
LEMMA SameSequence ==
  ASSUME NEW T, NEW s \in Seq(T), NEW t \in Seq(T), Len(s) = Len(t),
         \A i \in 1..Len(s) : s[i] = t[i]
  PROVE  s = t
OBVIOUS

(* Of a sequence all of whose first k elements are kept and no others        *)
(* remain the first k.                                                       *)
LEMMA KeepingTheFirst ==
  ASSUME NEW T, NEW s \in Seq(T), NEW S, NEW k \in 0..Len(s),
         \A i \in 1..Len(s) : s[i] \in S <=> i <= k
  PROVE  Keeping(s, S) = SubSeq(s, 1, k)
<1> DEFINE g == [i \in 0..Len(s) |-> SubSeq(s, 1, IF i <= k THEN i ELSE k)]
<1>1. Len(s) \in Nat /\ k \in Nat
  OBVIOUS
<1>2. ASSUME NEW i \in 1..Len(s)
      PROVE  g[i] = IF s[i] \in S THEN Append(g[i - 1], s[i]) ELSE g[i - 1]
  <2>1. CASE i <= k
    <3>1. Append(SubSeq(s, 1, i - 1), s[i]) = SubSeq(s, 1, i)
      <4>1. /\ SubSeq(s, 1, i - 1) \in Seq(T) /\ Len(SubSeq(s, 1, i - 1)) = i - 1
            /\ SubSeq(s, 1, i) \in Seq(T) /\ Len(SubSeq(s, 1, i)) = i /\ s[i] \in T
        OBVIOUS
      <4>2. \A j \in 1..(i - 1) : SubSeq(s, 1, i - 1)[j] = s[j]
        OBVIOUS
      <4>3. \A j \in 1..i : SubSeq(s, 1, i)[j] = s[j]
        OBVIOUS
      <4>4. QED
        BY <4>1, <4>2, <4>3, SameSequence
    <3>2. g[i] = SubSeq(s, 1, i) /\ s[i] \in S
      BY <1>1, <2>1
    <3>3. i - 1 \in 0..Len(s) /\ i - 1 <= k
      BY <1>1, <2>1
    <3>4. g[i - 1] = SubSeq(s, 1, i - 1)
      BY <3>3
    <3>5. QED
      BY <3>1, <3>2, <3>4
  <2>2. CASE i > k
    <3>1. s[i] \notin S /\ g[i] = SubSeq(s, 1, k) /\ i - 1 \in 0..Len(s)
      BY <1>1, <2>2
    <3>2. g[i - 1] = SubSeq(s, 1, k)
      BY <1>1, <2>2, <3>1
    <3>3. QED
      BY <3>1, <3>2
  <2>3. QED
    BY <1>1, <2>1, <2>2
<1>3. g[0] = <<>>
  BY <1>1
<1>4. g = [i \in 0..Len(s) |-> g[i]]
  OBVIOUS
<1> HIDE DEF g
<1>5. \A i \in 0..Len(s) : i # 0 => i \in 1..Len(s)
  BY <1>1
<1>6. g = [i \in 0..Len(s) |->
             IF i = 0 THEN <<>> ELSE IF s[i] \in S THEN Append(g[i - 1], s[i]) ELSE g[i - 1]]
  BY <1>2, <1>3, <1>4, <1>5
<1>7. Keeping(s, S) = g[Len(s)]
  BY <1>1, <1>6, KeepingByPrefixes
<1>8. QED
  BY <1>1, <1>7 DEF g

(* What a sequence is without its k-th element.                              *)
AllBut(s, k) == [j \in 1..(Len(s) - 1) |-> IF j < k THEN s[j] ELSE s[j + 1]]

(* And of one all of whose elements are kept but the k-th, just that.        *)
LEMMA KeepingAllButOne ==
  ASSUME NEW T, NEW s \in Seq(T), NEW S, NEW k \in 1..Len(s),
         \A i \in 1..Len(s) : s[i] \in S <=> i # k
  PROVE  Keeping(s, S) = AllBut(s, k) /\ AllBut(s, k) \in Seq(T) /\ Len(AllBut(s, k)) = Len(s) - 1
<1> DEFINE After(i) == [j \in 1..(i - 1) |-> IF j < k THEN s[j] ELSE s[j + 1]]
           g == [i \in 0..Len(s) |-> IF i < k THEN SubSeq(s, 1, i) ELSE After(i)]
<1>1. Len(s) \in Nat /\ k \in Nat
  OBVIOUS
<1>2. \A i \in k..Len(s) : After(i) \in Seq(T) /\ Len(After(i)) = i - 1
  OBVIOUS
<1>3. ASSUME NEW i \in 1..Len(s)
      PROVE  g[i] = IF s[i] \in S THEN Append(g[i - 1], s[i]) ELSE g[i - 1]
  <2>1. i \in Nat /\ i - 1 \in 0..Len(s) /\ s[i] \in T
    BY <1>1
  <2>2. CASE i <= k
    <3>1. /\ SubSeq(s, 1, i - 1) \in Seq(T) /\ Len(SubSeq(s, 1, i - 1)) = i - 1
          /\ \A j \in 1..(i - 1) : SubSeq(s, 1, i - 1)[j] = s[j]
      BY <1>1, <2>1
    <3>2. g[i - 1] = SubSeq(s, 1, i - 1)
      BY <1>1, <2>1, <2>2
    <3>3. CASE i = k
      <4>1. After(k) \in Seq(T) /\ Len(After(k)) = i - 1 /\ \A j \in 1..(i - 1) : After(k)[j] = s[j]
        BY <1>1, <1>2, <3>3
      <4>2. After(k) = SubSeq(s, 1, i - 1)
        BY <3>1, <4>1, SameSequence
      <4>3. g[i] = After(k) /\ s[i] \notin S
        BY <1>1, <3>3
      <4>4. QED
        BY <3>2, <4>2, <4>3
    <3>4. CASE i < k
      <4>1. g[i] = SubSeq(s, 1, i) /\ s[i] \in S
        BY <1>1, <3>4
      <4>2. SubSeq(s, 1, i) = Append(SubSeq(s, 1, i - 1), s[i])
        <5>1. /\ SubSeq(s, 1, i) \in Seq(T) /\ Len(SubSeq(s, 1, i)) = i
              /\ \A j \in 1..i : SubSeq(s, 1, i)[j] = s[j]
          BY <1>1, <2>1
        <5>2. QED
          BY <2>1, <3>1, <5>1, SameSequence
      <4>3. QED
        BY <3>2, <4>1, <4>2
    <3>5. QED
      BY <1>1, <2>1, <2>2, <3>3, <3>4
  <2>3. CASE i > k
    <3>1. g[i] = After(i) /\ g[i - 1] = After(i - 1) /\ s[i] \in S
      BY <1>1, <2>1, <2>3
    <3>2. /\ After(i) \in Seq(T) /\ Len(After(i)) = i - 1
          /\ After(i - 1) \in Seq(T) /\ Len(After(i - 1)) = i - 2
      BY <1>1, <1>2, <2>1, <2>3
    <3>3. \A j \in 1..(i - 1) : After(i)[j] = Append(After(i - 1), s[i])[j]
      <4> TAKE j \in 1..(i - 1)
      <4>1. CASE j = i - 1
        BY <1>1, <2>1, <2>3, <3>2, <4>1
      <4>2. CASE j < i - 1
        BY <1>1, <2>1, <2>3, <3>2, <4>2
      <4>3. QED
        BY <2>1, <4>1, <4>2
    <3>4. After(i) = Append(After(i - 1), s[i])
      <4> HIDE DEF After
      <4>1. Append(After(i - 1), s[i]) \in Seq(T) /\ Len(Append(After(i - 1), s[i])) = i - 1
        BY <2>1, <3>2
      <4>2. QED
        BY <3>2, <3>3, <4>1, SameSequence
    <3>5. QED
      BY <3>1, <3>4
  <2>4. QED
    BY <1>1, <2>1, <2>2, <2>3
<1>4. g[0] = <<>>
  BY <1>1
<1>5. g = [i \in 0..Len(s) |-> g[i]]
  OBVIOUS
<1>6. g[Len(s)] = AllBut(s, k)
  BY <1>1 DEF AllBut
<1> HIDE DEF g
<1>7. \A i \in 0..Len(s) : i # 0 => i \in 1..Len(s)
  BY <1>1
<1>8. g = [i \in 0..Len(s) |->
             IF i = 0 THEN <<>> ELSE IF s[i] \in S THEN Append(g[i - 1], s[i]) ELSE g[i - 1]]
  BY <1>3, <1>4, <1>5, <1>7
<1>9. Keeping(s, S) = g[Len(s)]
  BY <1>1, <1>8, KeepingByPrefixes
<1>10. QED
  BY <1>1, <1>2, <1>6, <1>9 DEF AllBut

-----------------------------------------------------------------------------
(* What saving and undoing do to the two records.                            *)

Steps(w) == DOMAIN Wizard[w].forms
Answers(w) == UNION {Wizard[w].forms[s].answers : s \in Steps(w)}
Entries(w) ==
  {e \in [step : Steps(w), answer : Answers(w)] : e.answer \in Wizard[w].forms[e.step].answers}

(* DataMatchesVisited of any answers and any list of steps of wizard w.      *)
Matches(w, d, v) ==
  /\ d \in Seq(Entries(w)) /\ v \in Seq(Steps(w)) /\ Len(v) = Len(d)
  /\ \A i \in 1..Len(d) : v[i] = d[i].step
  /\ \A i, j \in 1..Len(d) : d[i].step = d[j].step => i = j

(* A saved answer takes the place of the step's earlier one, and what came   *)
(* after that is gone; or it comes last.                                     *)
LEMMA SaveCuts ==
  ASSUME NEW w, Matches(w, data, visited), NEW step \in Steps(w),
         NEW a \in Wizard[w].forms[step].answers, SaveStepData(step, a)
  PROVE  \E k \in 1..(Len(data) + 1) :
           /\ k = Len(data) + 1 \/ data[k].step = step
           /\ \A i \in 1..(k - 1) : data[i].step # step
           /\ data' = Append(SubSeq(data, 1, k - 1), [step |-> step, answer |-> a])
           /\ visited' = Append(SubSeq(visited, 1, k - 1), step)
<1> DEFINE entry == [step |-> step, answer |-> a]
<1>1. /\ data \in Seq(Entries(w)) /\ visited \in Seq(Steps(w)) /\ Len(visited) = Len(data)
      /\ Len(data) \in Nat /\ entry \in Entries(w)
      /\ DOMAIN data = 1..Len(data) /\ DOMAIN visited = 1..Len(data)
  BY DEF Matches, Entries, Answers
<1>2. CASE step \notin Range(visited)
  <2>1. \A i \in 1..Len(data) : data[i].step # step
    BY <1>1, <1>2 DEF Range, Matches
  <2>2. data' = Append(data, entry) /\ visited' = Append(visited, step)
    BY <1>1, <1>2, <2>1 DEF SaveStepData, Put, Keys
  <2>3. SubSeq(data, 1, Len(data)) = data /\ SubSeq(visited, 1, Len(data)) = visited
    BY <1>1
  <2>4. QED
    BY <1>1, <2>1, <2>2, <2>3
<1>3. CASE step \in Range(visited)
  <2> DEFINE of == {i \in DOMAIN visited : visited[i] = step}
             k == Min(of)
             put == Put(data, step, a)
             abandoned == Range(SubSeq(visited, k + 1, Len(visited)))
  <2>1. k \in 1..Len(data) /\ visited[k] = step
    <3>1. of \subseteq Nat /\ of # {}
      BY <1>1, <1>3 DEF Range
    <3>2. k \in of
      BY <3>1, LeastNumber
    <3>3. QED
      BY <1>1, <3>2
  <2>2. \A i \in 1..Len(data) : data[i].step = step <=> i = k
    BY <2>1 DEF Matches
  <2>3. data' = Without(put, abandoned) /\ visited' = SubSeq(visited, 1, k)
    BY <1>3 DEF SaveStepData
  <2> HIDE DEF k
  <2>4. /\ put \in Seq(Entries(w)) /\ Len(put) = Len(data)
        /\ \A i \in 1..Len(data) : put[i] = (IF i = k THEN entry ELSE data[i])
        /\ \A i \in 1..Len(data) : put[i].step = data[i].step
    <3>1. step \in Keys(data)
      BY <1>1, <2>1, <2>2 DEF Keys
    <3>2. put = [i \in 1..Len(data) |-> IF data[i].step = step THEN entry ELSE data[i]]
      BY <1>1, <3>1 DEF Put
    <3>3. \A i \in 1..Len(data) : data[i] \in Entries(w)
      BY <1>1
    <3>4. put \in Seq(Entries(w)) /\ Len(put) = Len(data)
      BY <1>1, <3>2, <3>3
    <3>5. \A i \in 1..Len(data) : put[i] = (IF i = k THEN entry ELSE data[i])
      BY <2>2, <3>2
    <3>6. \A i \in 1..Len(data) : put[i].step = data[i].step
      BY <2>2, <3>5
    <3>7. QED
      BY <3>4, <3>5, <3>6
  <2> HIDE DEF put
  <2>5. \A i \in 1..Len(data) : data[i].step \in abandoned <=> i > k
    <3>1. \A j \in 1..(Len(data) - k) : SubSeq(visited, k + 1, Len(visited))[j] = visited[k + j]
      BY <1>1, <2>1
    <3>2. DOMAIN SubSeq(visited, k + 1, Len(visited)) = 1..(Len(data) - k)
      BY <1>1, <2>1
    <3>3. abandoned = {visited[k + j] : j \in 1..(Len(data) - k)}
      BY <3>1, <3>2 DEF Range
    <3>4. abandoned = {visited[i] : i \in (k + 1)..Len(data)}
      <4>1. \A j \in 1..(Len(data) - k) : k + j \in (k + 1)..Len(data)
        BY <1>1, <2>1
      <4>2. \A i \in (k + 1)..Len(data) : i - k \in 1..(Len(data) - k) /\ k + (i - k) = i
        BY <1>1, <2>1
      <4>3. QED
        BY <3>3, <4>1, <4>2
    <3>5. \A i \in (k + 1)..Len(data) : i \in 1..Len(data) /\ visited[i] = data[i].step
      BY <1>1, <2>1 DEF Matches
    <3>6. QED
      BY <1>1, <2>1, <3>4, <3>5 DEF Matches
  <2> HIDE DEF abandoned
  <2>6. data' = SubSeq(put, 1, k)
    <3> DEFINE left == {e \in Range(put) : e.step \notin abandoned}
    <3>1. \A i \in 1..Len(put) : put[i] \in left <=> i <= k
      BY <1>1, <2>1, <2>4, <2>5 DEF Range
    <3> HIDE DEF left
    <3>2. Keeping(put, left) = SubSeq(put, 1, k)
      BY <1>1, <2>1, <2>4, <3>1, KeepingTheFirst
    <3>3. QED
      BY <2>3, <3>2 DEF Without, left
  <2>7. data' = Append(SubSeq(data, 1, k - 1), entry)
    <3>1. /\ SubSeq(put, 1, k) \in Seq(Entries(w)) /\ Len(SubSeq(put, 1, k)) = k
          /\ \A i \in 1..k : SubSeq(put, 1, k)[i] = put[i]
      BY <1>1, <2>1, <2>4
    <3>2. /\ SubSeq(data, 1, k - 1) \in Seq(Entries(w)) /\ Len(SubSeq(data, 1, k - 1)) = k - 1
          /\ \A i \in 1..(k - 1) : SubSeq(data, 1, k - 1)[i] = data[i]
      BY <1>1, <2>1
    <3>3. \A i \in 1..k : SubSeq(put, 1, k)[i] = Append(SubSeq(data, 1, k - 1), entry)[i]
      <4> TAKE i \in 1..k
      <4>1. CASE i = k
        BY <1>1, <2>1, <2>4, <3>1, <3>2, <4>1
      <4>2. CASE i < k
        BY <1>1, <2>1, <2>4, <3>1, <3>2, <4>2
      <4>3. QED
        BY <2>1, <4>1, <4>2
    <3>4. Append(SubSeq(data, 1, k - 1), entry) \in Seq(Entries(w))
          /\ Len(Append(SubSeq(data, 1, k - 1), entry)) = k
      BY <1>1, <2>1, <3>2
    <3>5. QED
      BY <2>6, <3>1, <3>3, <3>4, SameSequence
  <2>8. visited' = Append(SubSeq(visited, 1, k - 1), step)
    <3>1. /\ SubSeq(visited, 1, k) \in Seq(Steps(w)) /\ Len(SubSeq(visited, 1, k)) = k
          /\ \A i \in 1..k : SubSeq(visited, 1, k)[i] = visited[i]
      BY <1>1, <2>1
    <3>2. /\ SubSeq(visited, 1, k - 1) \in Seq(Steps(w)) /\ Len(SubSeq(visited, 1, k - 1)) = k - 1
          /\ \A i \in 1..(k - 1) : SubSeq(visited, 1, k - 1)[i] = visited[i]
      BY <1>1, <2>1
    <3>3. \A i \in 1..k : SubSeq(visited, 1, k)[i] = Append(SubSeq(visited, 1, k - 1), step)[i]
      BY <2>1, <3>1, <3>2
    <3>4. Append(SubSeq(visited, 1, k - 1), step) \in Seq(Steps(w))
          /\ Len(Append(SubSeq(visited, 1, k - 1), step)) = k
      BY <2>1, <3>2
    <3>5. QED
      BY <2>3, <3>1, <3>3, <3>4, SameSequence
  <2>9. \A i \in 1..(k - 1) : data[i].step # step
    BY <1>1, <2>1, <2>2
  <2>10. k \in 1..(Len(data) + 1) /\ data[k].step = step
    BY <1>1, <2>1, <2>2
  <2>11. QED
    BY <2>7, <2>8, <2>9, <2>10
<1>4. QED
  BY <1>2, <1>3

(* What is undone is the step on the screen, if it was saved, in both.       *)
LEMMA UndoCuts ==
  ASSUME NEW w, Matches(w, data, visited), UndoSaveStepData
  PROVE  \/ /\ \A i \in 1..Len(data) : data[i].step # at
            /\ data' = data /\ visited' = visited
         \/ \E k \in 1..Len(data) :
              /\ data[k].step = at
              /\ data' = AllBut(data, k) /\ visited' = AllBut(visited, k)
<1>1. /\ data \in Seq(Entries(w)) /\ visited \in Seq(Steps(w)) /\ Len(visited) = Len(data)
      /\ Len(data) \in Nat /\ DOMAIN data = 1..Len(data) /\ DOMAIN visited = 1..Len(data)
      /\ \A i \in 1..Len(data) : visited[i] = data[i].step
  BY DEF Matches
<1> DEFINE keptData == {e \in Range(data) : e.step \notin {at}}
           keptSteps == Range(visited) \ {at}
<1>2. data' = Keeping(data, keptData) /\ visited' = Keeping(visited, keptSteps)
  BY DEF UndoSaveStepData, Without
<1>3. /\ \A i \in 1..Len(data) : data[i] \in keptData <=> data[i].step # at
      /\ \A i \in 1..Len(visited) : visited[i] \in keptSteps <=> data[i].step # at
  BY <1>1 DEF Range
<1> HIDE DEF keptData, keptSteps
<1>4. CASE \A i \in 1..Len(data) : data[i].step # at
  <2>1. /\ \A i \in 1..Len(data) : data[i] \in keptData <=> i <= Len(data)
        /\ \A i \in 1..Len(visited) : visited[i] \in keptSteps <=> i <= Len(visited)
    BY <1>1, <1>3, <1>4
  <2>2. Len(data) \in 0..Len(data) /\ Len(visited) \in 0..Len(visited)
    BY <1>1
  <2>3. data' = SubSeq(data, 1, Len(data)) /\ visited' = SubSeq(visited, 1, Len(visited))
    BY <1>1, <1>2, <2>1, <2>2, KeepingTheFirst
  <2>4. SubSeq(data, 1, Len(data)) = data /\ SubSeq(visited, 1, Len(visited)) = visited
    BY <1>1
  <2>5. QED
    BY <1>4, <2>3, <2>4
<1>5. ASSUME NEW k \in 1..Len(data), data[k].step = at
      PROVE  data' = AllBut(data, k) /\ visited' = AllBut(visited, k)
  <2>1. \A i \in 1..Len(data) : data[i].step # at <=> i # k
    BY <1>5 DEF Matches
  <2>2. /\ \A i \in 1..Len(data) : data[i] \in keptData <=> i # k
        /\ \A i \in 1..Len(visited) : visited[i] \in keptSteps <=> i # k
    BY <1>1, <1>3, <2>1
  <2>3. QED
    BY <1>1, <1>2, <2>2, KeepingAllButOne
<1>6. QED
  BY <1>4, <1>5

(* Cutting, appending and leaving one out preserve the match.                *)
LEMMA CutsMatch ==
  ASSUME NEW w, NEW d, NEW v, Matches(w, d, v)
  PROVE  /\ \A k \in 1..(Len(d) + 1), e \in Entries(w) :
              (\A i \in 1..(k - 1) : d[i].step # e.step)
                => Matches(w, Append(SubSeq(d, 1, k - 1), e), Append(SubSeq(v, 1, k - 1), e.step))
         /\ \A k \in 1..Len(d) : Matches(w, AllBut(d, k), AllBut(v, k))
<1>1. /\ d \in Seq(Entries(w)) /\ v \in Seq(Steps(w)) /\ Len(v) = Len(d) /\ Len(d) \in Nat
      /\ \A i \in 1..Len(d) : v[i] = d[i].step
  BY DEF Matches
<1>2. ASSUME NEW k \in 1..(Len(d) + 1), NEW e \in Entries(w), \A i \in 1..(k - 1) : d[i].step # e.step
      PROVE  Matches(w, Append(SubSeq(d, 1, k - 1), e), Append(SubSeq(v, 1, k - 1), e.step))
  <2> DEFINE dd == Append(SubSeq(d, 1, k - 1), e)
             vv == Append(SubSeq(v, 1, k - 1), e.step)
  <2>1. /\ SubSeq(d, 1, k - 1) \in Seq(Entries(w)) /\ Len(SubSeq(d, 1, k - 1)) = k - 1
        /\ \A i \in 1..(k - 1) : SubSeq(d, 1, k - 1)[i] = d[i]
    BY <1>1
  <2>2. /\ SubSeq(v, 1, k - 1) \in Seq(Steps(w)) /\ Len(SubSeq(v, 1, k - 1)) = k - 1
        /\ \A i \in 1..(k - 1) : SubSeq(v, 1, k - 1)[i] = v[i]
    BY <1>1
  <2>3. e.step \in Steps(w)
    BY DEF Entries
  <2>4. /\ dd \in Seq(Entries(w)) /\ Len(dd) = k /\ dd[k] = e
        /\ \A i \in 1..(k - 1) : dd[i] = d[i]
    BY <1>1, <2>1
  <2>5. /\ vv \in Seq(Steps(w)) /\ Len(vv) = k /\ vv[k] = e.step
        /\ \A i \in 1..(k - 1) : vv[i] = v[i]
    BY <1>1, <2>2, <2>3
  <2> HIDE DEF dd, vv
  <2>6. \A i \in 1..k : vv[i] = dd[i].step
    BY <1>1, <2>4, <2>5
  <2>7. ASSUME NEW i \in 1..k, NEW j \in 1..k, dd[i].step = dd[j].step
        PROVE  i = j
    BY <1>1, <1>2, <2>4, <2>7 DEF Matches
  <2>8. QED
    BY <1>1, <2>4, <2>5, <2>6, <2>7 DEF Matches, dd, vv
<1>3. ASSUME NEW k \in 1..Len(d)
      PROVE  Matches(w, AllBut(d, k), AllBut(v, k))
  <2>1. /\ AllBut(d, k) \in Seq(Entries(w)) /\ Len(AllBut(d, k)) = Len(d) - 1
        /\ \A i \in 1..(Len(d) - 1) : AllBut(d, k)[i] = IF i < k THEN d[i] ELSE d[i + 1]
    BY <1>1 DEF AllBut
  <2>2. /\ AllBut(v, k) \in Seq(Steps(w)) /\ Len(AllBut(v, k)) = Len(d) - 1
        /\ \A i \in 1..(Len(d) - 1) : AllBut(v, k)[i] = IF i < k THEN v[i] ELSE v[i + 1]
    BY <1>1 DEF AllBut
  <2>3. \A i \in 1..(Len(d) - 1) : AllBut(v, k)[i] = AllBut(d, k)[i].step
    BY <1>1, <2>1, <2>2
  <2>4. ASSUME NEW i \in 1..(Len(d) - 1), NEW j \in 1..(Len(d) - 1),
               AllBut(d, k)[i].step = AllBut(d, k)[j].step
        PROVE  i = j
    <3> DEFINE place(n) == IF n < k THEN n ELSE n + 1
    <3>1. /\ place(i) \in 1..Len(d) /\ place(j) \in 1..Len(d)
          /\ AllBut(d, k)[i] = d[place(i)] /\ AllBut(d, k)[j] = d[place(j)]
      BY <1>1, <2>1
    <3>2. place(i) = place(j)
      BY <2>4, <3>1 DEF Matches
    <3>3. QED
      BY <1>1, <3>2
  <2>5. QED
    BY <2>1, <2>2, <2>3, <2>4 DEF Matches
<1>4. QED
  BY <1>2, <1>3

-----------------------------------------------------------------------------
(* The tables.                                                               *)

Following(w, e) == Wizard[w].forms[e.step].next[e.answer]

(* Every answer leads to one of the wizard's steps or to the confirmation,   *)
(* every BACK rule to one of its steps.                                      *)
ClosedAt(w, t) ==
  /\ \A a \in Wizard[w].forms[t].answers : Wizard[w].forms[t].next[a] \in Steps(w) \cup {Confirmation}
  /\ \A i \in DOMAIN BackRules(w, t) : i \in Nat /\ BackRules(w, t)[i].to \in Steps(w)

(* Where t leads, the first BACK rule that applies leads back to t.          *)
RetracedFrom(w, t) ==
  \A a \in Wizard[w].forms[t].answers :
    LET s == Wizard[w].forms[t].next[a]
        rules == BackRules(w, s)
    IN /\ s # Wizard[w].first
       /\ s # Confirmation => DOMAIN rules = {1} /\ rules[1] = Goto(t)
       /\ s = Confirmation =>
            \E i \in DOMAIN rules :
              /\ rules[i].from \in {Anywhere, t} /\ rules[i].to = t
              /\ \A j \in DOMAIN rules : j < i => rules[j].from \notin {Anywhere, t}

LEMMA TargetInfraTable ==
  /\ Wizard["target_infra"].first \in Steps("target_infra") /\ Confirmation \notin Steps("target_infra")
  /\ \A t \in Steps("target_infra") : ClosedAt("target_infra", t)
  /\ \A i \in DOMAIN Wizard["target_infra"].back :
       i \in Nat /\ Wizard["target_infra"].back[i].to \in Steps("target_infra")
<1> DEFINE w == "target_infra"
<1>1. Steps(w) = {"environment_question", "create_environment", "cluster_question", "create_cluster",
                  "private_link_question", "create_private_link"}
  BY DEF Wizard, TargetInfra, Steps
<1>2. /\ Wizard[w].forms["environment_question"] = EnvironmentQuestion
      /\ Wizard[w].forms["create_environment"] = CreateEnvironment
      /\ Wizard[w].forms["cluster_question"] = ClusterQuestion
      /\ Wizard[w].forms["create_cluster"] = CreateCluster
      /\ Wizard[w].forms["private_link_question"] = PrivateLinkQuestion
      /\ Wizard[w].forms["create_private_link"] = CreatePrivateLink
      /\ Wizard[w].back = TargetInfraConfirmation /\ Wizard[w].first = "environment_question"
  BY DEF Wizard, TargetInfra
<1> HIDE DEF w
<1>3. ClosedAt(w, "environment_question")
  BY <1>1, <1>2 DEF ClosedAt, BackRules, EnvironmentQuestion, Ask, Confirmation
<1>4. ClosedAt(w, "create_environment")
  BY <1>1, <1>2 DEF ClosedAt, BackRules, CreateEnvironment, Fill, Ask, Confirmation, Goto
<1>5. ClosedAt(w, "cluster_question")
  BY <1>1, <1>2 DEF ClosedAt, BackRules, ClusterQuestion, Ask, Confirmation, Goto
<1>6. ClosedAt(w, "create_cluster")
  BY <1>1, <1>2 DEF ClosedAt, BackRules, CreateCluster, Fill, Ask, Confirmation, Goto
<1>7. ClosedAt(w, "private_link_question")
  BY <1>1, <1>2 DEF ClosedAt, BackRules, PrivateLinkQuestion, Ask, Confirmation, Goto, CameFrom
<1>8. ClosedAt(w, "create_private_link")
  BY <1>1, <1>2 DEF ClosedAt, BackRules, CreatePrivateLink, Fill, Ask, Confirmation, Goto
<1>9. \A i \in DOMAIN Wizard[w].back : i \in Nat /\ Wizard[w].back[i].to \in Steps(w)
  BY <1>1, <1>2 DEF TargetInfraConfirmation, Goto, CameFrom
<1>10. Confirmation \notin Steps(w) /\ Wizard[w].first \in Steps(w)
  BY <1>1, <1>2 DEF Confirmation
<1>11. \A t \in Steps(w) : ClosedAt(w, t)
  BY <1>1, <1>3, <1>4, <1>5, <1>6, <1>7, <1>8
<1>12. QED
  BY <1>9, <1>10, <1>11 DEF w

LEMMA MigrationInfraTable ==
  /\ Wizard["migration_infra"].first \in Steps("migration_infra")
  /\ Confirmation \notin Steps("migration_infra")
  /\ \A t \in Steps("migration_infra") :
       ClosedAt("migration_infra", t) /\ RetracedFrom("migration_infra", t)
  /\ \A i \in DOMAIN Wizard["migration_infra"].back :
       i \in Nat /\ Wizard["migration_infra"].back[i].to \in Steps("migration_infra")
<1> DEFINE w == "migration_infra"
<1>1. Steps(w) = {"confluent_cloud_endpoints_question", "public_cluster_link_inputs",
                  "private_migration_method_question", "external_outbound_cluster_linking_inputs",
                  "private_link_internet_gateway_question", "jump_cluster_networking_inputs",
                  "msk_jump_cluster_authentication_question",
                  "msk_jump_cluster_authentication_sasl_scram", "msk_jump_cluster_authentication_iam"}
  BY DEF Wizard, MigrationInfra, Steps
<1>2. /\ Wizard[w].forms["confluent_cloud_endpoints_question"] = EndpointsQuestion
      /\ Wizard[w].forms["public_cluster_link_inputs"] = PublicClusterLink
      /\ Wizard[w].forms["private_migration_method_question"] = MethodQuestion
      /\ Wizard[w].forms["external_outbound_cluster_linking_inputs"] = ExternalOutbound
      /\ Wizard[w].forms["private_link_internet_gateway_question"] = InternetGatewayQuestion
      /\ Wizard[w].forms["jump_cluster_networking_inputs"] = JumpClusterNetworking
      /\ Wizard[w].forms["msk_jump_cluster_authentication_question"] = AuthenticationQuestion
      /\ Wizard[w].forms["msk_jump_cluster_authentication_sasl_scram"] = SaslScramInputs
      /\ Wizard[w].forms["msk_jump_cluster_authentication_iam"] = IamInputs
      /\ Wizard[w].back = MigrationInfraConfirmation
      /\ Wizard[w].first = "confluent_cloud_endpoints_question"
  BY DEF Wizard, MigrationInfra
<1>3. /\ MigrationInfraConfirmation[1] = CameFrom("public_cluster_link_inputs")
      /\ MigrationInfraConfirmation[2] = CameFrom("external_outbound_cluster_linking_inputs")
      /\ MigrationInfraConfirmation[3] = CameFrom("msk_jump_cluster_authentication_sasl_scram")
      /\ MigrationInfraConfirmation[4] = CameFrom("msk_jump_cluster_authentication_iam")
      /\ DOMAIN MigrationInfraConfirmation = 1..4
  BY DEF MigrationInfraConfirmation
<1> HIDE DEF w
<1>4. /\ ClosedAt(w, "confluent_cloud_endpoints_question")
      /\ RetracedFrom(w, "confluent_cloud_endpoints_question")
  <2>1. /\ EndpointsQuestion.answers = {"public", "private"}
        /\ EndpointsQuestion.next["public"] = "public_cluster_link_inputs"
        /\ EndpointsQuestion.next["private"] = "private_migration_method_question"
    BY DEF EndpointsQuestion, Ask
  <2>2. /\ DOMAIN BackRules(w, "public_cluster_link_inputs") = {1}
        /\ BackRules(w, "public_cluster_link_inputs")[1] = Goto("confluent_cloud_endpoints_question")
    BY <1>2 DEF BackRules, PublicClusterLink, Fill, Ask, Confirmation
  <2>3. /\ DOMAIN BackRules(w, "private_migration_method_question") = {1}
        /\ BackRules(w, "private_migration_method_question")[1] = Goto("confluent_cloud_endpoints_question")
    BY <1>2 DEF BackRules, MethodQuestion, Fill, Ask, Confirmation
  <2>4. \A i \in DOMAIN BackRules(w, "confluent_cloud_endpoints_question") :
          i \in Nat /\ BackRules(w, "confluent_cloud_endpoints_question")[i].to \in Steps(w)
    BY <1>1, <1>2 DEF BackRules, EndpointsQuestion, Ask, Confirmation, Goto
  <2>5. ClosedAt(w, "confluent_cloud_endpoints_question")
    BY <1>1, <1>2, <2>1, <2>4 DEF ClosedAt
  <2>6. RetracedFrom(w, "confluent_cloud_endpoints_question")
    BY <1>2, <2>1, <2>2, <2>3 DEF RetracedFrom, Confirmation
  <2>7. QED
    BY <2>5, <2>6
<1>5. ClosedAt(w, "public_cluster_link_inputs") /\ RetracedFrom(w, "public_cluster_link_inputs")
  BY <1>1, <1>2, <1>3 DEF ClosedAt, RetracedFrom, BackRules, PublicClusterLink, Fill, Ask,
                          Confirmation, Goto, CameFrom, Anywhere
<1>6. /\ ClosedAt(w, "private_migration_method_question")
      /\ RetracedFrom(w, "private_migration_method_question")
  <2>1. /\ MethodQuestion.answers = {"external", "jump"}
        /\ MethodQuestion.next["external"] = "external_outbound_cluster_linking_inputs"
        /\ MethodQuestion.next["jump"] = "private_link_internet_gateway_question"
    BY DEF MethodQuestion, Ask
  <2>2. /\ DOMAIN BackRules(w, "external_outbound_cluster_linking_inputs") = {1}
        /\ BackRules(w, "external_outbound_cluster_linking_inputs")[1] =
             Goto("private_migration_method_question")
    BY <1>2 DEF BackRules, ExternalOutbound, Fill, Ask, Confirmation
  <2>3. /\ DOMAIN BackRules(w, "private_link_internet_gateway_question") = {1}
        /\ BackRules(w, "private_link_internet_gateway_question")[1] =
             Goto("private_migration_method_question")
    BY <1>2 DEF BackRules, InternetGatewayQuestion, Fill, Ask, Confirmation
  <2>4. \A i \in DOMAIN BackRules(w, "private_migration_method_question") :
          i \in Nat /\ BackRules(w, "private_migration_method_question")[i].to \in Steps(w)
    BY <1>1, <1>2 DEF BackRules, MethodQuestion, Ask, Confirmation, Goto
  <2>5. ClosedAt(w, "private_migration_method_question")
    BY <1>1, <1>2, <2>1, <2>4 DEF ClosedAt
  <2>6. RetracedFrom(w, "private_migration_method_question")
    BY <1>2, <2>1, <2>2, <2>3 DEF RetracedFrom, Confirmation
  <2>7. QED
    BY <2>5, <2>6
<1>7. /\ ClosedAt(w, "external_outbound_cluster_linking_inputs")
      /\ RetracedFrom(w, "external_outbound_cluster_linking_inputs")
  BY <1>1, <1>2, <1>3 DEF ClosedAt, RetracedFrom, BackRules, ExternalOutbound, Fill, Ask,
                          Confirmation, Goto, CameFrom, Anywhere
<1>8. /\ ClosedAt(w, "private_link_internet_gateway_question")
      /\ RetracedFrom(w, "private_link_internet_gateway_question")
  <2>1. /\ InternetGatewayQuestion.answers = {"yes", "no"}
        /\ InternetGatewayQuestion.next["yes"] = "jump_cluster_networking_inputs"
        /\ InternetGatewayQuestion.next["no"] = "jump_cluster_networking_inputs"
    BY DEF InternetGatewayQuestion, Ask
  <2>2. /\ DOMAIN BackRules(w, "jump_cluster_networking_inputs") = {1}
        /\ BackRules(w, "jump_cluster_networking_inputs")[1] = Goto("private_link_internet_gateway_question")
    BY <1>2 DEF BackRules, JumpClusterNetworking, Fill, Ask, Confirmation
  <2>3. \A i \in DOMAIN BackRules(w, "private_link_internet_gateway_question") :
          i \in Nat /\ BackRules(w, "private_link_internet_gateway_question")[i].to \in Steps(w)
    BY <1>1, <1>2 DEF BackRules, InternetGatewayQuestion, Ask, Confirmation, Goto
  <2>4. ClosedAt(w, "private_link_internet_gateway_question")
    BY <1>1, <1>2, <2>1, <2>3 DEF ClosedAt
  <2>5. RetracedFrom(w, "private_link_internet_gateway_question")
    BY <1>2, <2>1, <2>2 DEF RetracedFrom, Confirmation
  <2>6. QED
    BY <2>4, <2>5
<1>9. ClosedAt(w, "jump_cluster_networking_inputs") /\ RetracedFrom(w, "jump_cluster_networking_inputs")
  BY <1>1, <1>2 DEF ClosedAt, RetracedFrom, BackRules, JumpClusterNetworking, AuthenticationQuestion,
                    Fill, Ask, Confirmation, Goto
<1>10. /\ ClosedAt(w, "msk_jump_cluster_authentication_question")
       /\ RetracedFrom(w, "msk_jump_cluster_authentication_question")
  <2>1. /\ AuthenticationQuestion.answers = {"sasl_scram", "iam"}
        /\ AuthenticationQuestion.next["sasl_scram"] = "msk_jump_cluster_authentication_sasl_scram"
        /\ AuthenticationQuestion.next["iam"] = "msk_jump_cluster_authentication_iam"
    BY DEF AuthenticationQuestion, Ask
  <2>2. /\ DOMAIN BackRules(w, "msk_jump_cluster_authentication_sasl_scram") = {1}
        /\ BackRules(w, "msk_jump_cluster_authentication_sasl_scram")[1] =
             Goto("msk_jump_cluster_authentication_question")
    BY <1>2 DEF BackRules, SaslScramInputs, Fill, Ask, Confirmation
  <2>3. /\ DOMAIN BackRules(w, "msk_jump_cluster_authentication_iam") = {1}
        /\ BackRules(w, "msk_jump_cluster_authentication_iam")[1] =
             Goto("msk_jump_cluster_authentication_question")
    BY <1>2 DEF BackRules, IamInputs, Fill, Ask, Confirmation
  <2>4. \A i \in DOMAIN BackRules(w, "msk_jump_cluster_authentication_question") :
          i \in Nat /\ BackRules(w, "msk_jump_cluster_authentication_question")[i].to \in Steps(w)
    BY <1>1, <1>2 DEF BackRules, AuthenticationQuestion, Ask, Confirmation, Goto
  <2>5. ClosedAt(w, "msk_jump_cluster_authentication_question")
    BY <1>1, <1>2, <2>1, <2>4 DEF ClosedAt
  <2>6. RetracedFrom(w, "msk_jump_cluster_authentication_question")
    BY <1>2, <2>1, <2>2, <2>3 DEF RetracedFrom, Confirmation
  <2>7. QED
    BY <2>5, <2>6
<1>11. /\ ClosedAt(w, "msk_jump_cluster_authentication_sasl_scram")
       /\ RetracedFrom(w, "msk_jump_cluster_authentication_sasl_scram")
  BY <1>1, <1>2, <1>3 DEF ClosedAt, RetracedFrom, BackRules, SaslScramInputs, Fill, Ask,
                          Confirmation, Goto, CameFrom, Anywhere
<1>12. ClosedAt(w, "msk_jump_cluster_authentication_iam") /\ RetracedFrom(w, "msk_jump_cluster_authentication_iam")
  BY <1>1, <1>2, <1>3 DEF ClosedAt, RetracedFrom, BackRules, IamInputs, Fill, Ask,
                          Confirmation, Goto, CameFrom, Anywhere
<1>13. \A i \in DOMAIN Wizard[w].back : i \in Nat /\ Wizard[w].back[i].to \in Steps(w)
  BY <1>1, <1>2, <1>3 DEF CameFrom
<1>14. Confirmation \notin Steps(w) /\ Wizard[w].first \in Steps(w)
  BY <1>1, <1>2 DEF Confirmation
<1>15. \A t \in Steps(w) : ClosedAt(w, t) /\ RetracedFrom(w, t)
  BY <1>1, <1>4, <1>5, <1>6, <1>7, <1>8, <1>9, <1>10, <1>11, <1>12
<1>16. QED
  BY <1>13, <1>14, <1>15 DEF w

LEMMA ScriptTables ==
  ASSUME NEW w \in {"migrate_topics", "migrate_schemas", "migrate_acls"}
  PROVE  /\ Wizard[w].first \in Steps(w) /\ Confirmation \notin Steps(w)
         /\ \A t \in Steps(w) : ClosedAt(w, t)
         /\ \A i \in DOMAIN Wizard[w].back : i \in Nat /\ Wizard[w].back[i].to \in Steps(w)
         /\ w # "migrate_topics" => \A t \in Steps(w) : RetracedFrom(w, t)
         /\ w = "migrate_topics" => /\ \A t \in Steps(w) : BackRules(w, t) = <<>>
                                    /\ Wizard[w].back = <<Goto(Wizard[w].first)>>
<1>1. CASE w = "migrate_topics"
  BY <1>1 DEF Wizard, MirrorTopics, Steps, ClosedAt, BackRules, Ask, Fill, Goto, Confirmation, Anywhere
<1>2. CASE w = "migrate_schemas"
  <2>1. Steps(w) = {"confluent_cloud_schema_registry_url", "subject_selection"} /\ Wizard[w].first = "confluent_cloud_schema_registry_url"
    BY <1>2 DEF Wizard, SchemaRegistries, Steps
  <2>2. /\ Wizard[w].forms["confluent_cloud_schema_registry_url"].answers = Inputs
        /\ Wizard[w].forms["subject_selection"].answers = Inputs
        /\ \A a \in Inputs : /\ Wizard[w].forms["confluent_cloud_schema_registry_url"].next[a] = "subject_selection"
                           /\ Wizard[w].forms["subject_selection"].next[a] = Confirmation
    BY <1>2 DEF Wizard, SchemaRegistries, Fill, Ask
  <2>3. /\ BackRules(w, "confluent_cloud_schema_registry_url") = <<>>
        /\ BackRules(w, "subject_selection") = <<Goto("confluent_cloud_schema_registry_url")>>
        /\ BackRules(w, Confirmation) = <<Goto("subject_selection")>>
        /\ Wizard[w].back = <<Goto("subject_selection")>>
    BY <1>2 DEF Wizard, SchemaRegistries, Fill, Ask, BackRules, Confirmation
  <2>4. Confirmation \notin Steps(w)
    BY <2>1 DEF Confirmation
  <2>5. ClosedAt(w, "confluent_cloud_schema_registry_url") /\ ClosedAt(w, "subject_selection")
    BY <2>1, <2>2, <2>3 DEF ClosedAt, Goto
  <2>6. RetracedFrom(w, "confluent_cloud_schema_registry_url")
    <3>1. "subject_selection" # Wizard[w].first /\ "subject_selection" # Confirmation
      BY <2>1, <2>4
    <3>2. /\ DOMAIN BackRules(w, "subject_selection") = {1}
          /\ BackRules(w, "subject_selection")[1] = Goto("confluent_cloud_schema_registry_url")
      BY <2>3
    <3>3. \A a \in Inputs : Wizard[w].forms["confluent_cloud_schema_registry_url"].next[a] = "subject_selection"
      BY <2>2
    <3>4. QED
      BY <2>2, <3>1, <3>2, <3>3, Zenon DEF RetracedFrom
  <2>7. RetracedFrom(w, "subject_selection")
    <3>1. Confirmation # Wizard[w].first
      BY <2>1, <2>4
    <3>2. /\ DOMAIN BackRules(w, Confirmation) = {1}
          /\ BackRules(w, Confirmation)[1].from = Anywhere
          /\ BackRules(w, Confirmation)[1].to = "subject_selection"
      BY <2>3 DEF Goto
    <3>3. \E i \in DOMAIN BackRules(w, Confirmation) :
            /\ BackRules(w, Confirmation)[i].from \in {Anywhere, "subject_selection"}
            /\ BackRules(w, Confirmation)[i].to = "subject_selection"
            /\ \A j \in DOMAIN BackRules(w, Confirmation) :
                 j < i => BackRules(w, Confirmation)[j].from \notin {Anywhere, "subject_selection"}
      BY <3>2
    <3>4. \A a \in Inputs : Wizard[w].forms["subject_selection"].next[a] = Confirmation
      BY <2>2
    <3>5. QED
      BY <2>2, <3>1, <3>3, <3>4, Zenon DEF RetracedFrom
  <2>8. \A i \in DOMAIN Wizard[w].back : i \in Nat /\ Wizard[w].back[i].to \in Steps(w)
    BY <2>1, <2>3 DEF Goto
  <2>9. QED
    BY <1>2, <2>1, <2>4, <2>5, <2>6, <2>7, <2>8
<1>3. CASE w = "migrate_acls"
  <2>1. Steps(w) = {"target_cluster_inputs", "acl_principal_selection"} /\ Wizard[w].first = "target_cluster_inputs"
    BY <1>3 DEF Wizard, Acls, Steps
  <2>2. /\ Wizard[w].forms["target_cluster_inputs"].answers = Inputs
        /\ Wizard[w].forms["acl_principal_selection"].answers = Inputs
        /\ \A a \in Inputs : /\ Wizard[w].forms["target_cluster_inputs"].next[a] = "acl_principal_selection"
                           /\ Wizard[w].forms["acl_principal_selection"].next[a] = Confirmation
    BY <1>3 DEF Wizard, Acls, Fill, Ask
  <2>3. /\ BackRules(w, "target_cluster_inputs") = <<>>
        /\ BackRules(w, "acl_principal_selection") = <<Goto("target_cluster_inputs")>>
        /\ BackRules(w, Confirmation) = <<Goto("acl_principal_selection")>>
        /\ Wizard[w].back = <<Goto("acl_principal_selection")>>
    BY <1>3 DEF Wizard, Acls, Fill, Ask, BackRules, Confirmation
  <2>4. Confirmation \notin Steps(w)
    BY <2>1 DEF Confirmation
  <2>5. ClosedAt(w, "target_cluster_inputs") /\ ClosedAt(w, "acl_principal_selection")
    BY <2>1, <2>2, <2>3 DEF ClosedAt, Goto
  <2>6. RetracedFrom(w, "target_cluster_inputs")
    <3>1. "acl_principal_selection" # Wizard[w].first /\ "acl_principal_selection" # Confirmation
      BY <2>1, <2>4
    <3>2. /\ DOMAIN BackRules(w, "acl_principal_selection") = {1}
          /\ BackRules(w, "acl_principal_selection")[1] = Goto("target_cluster_inputs")
      BY <2>3
    <3>3. \A a \in Inputs : Wizard[w].forms["target_cluster_inputs"].next[a] = "acl_principal_selection"
      BY <2>2
    <3>4. QED
      BY <2>2, <3>1, <3>2, <3>3, Zenon DEF RetracedFrom
  <2>7. RetracedFrom(w, "acl_principal_selection")
    <3>1. Confirmation # Wizard[w].first
      BY <2>1, <2>4
    <3>2. /\ DOMAIN BackRules(w, Confirmation) = {1}
          /\ BackRules(w, Confirmation)[1].from = Anywhere
          /\ BackRules(w, Confirmation)[1].to = "acl_principal_selection"
      BY <2>3 DEF Goto
    <3>3. \E i \in DOMAIN BackRules(w, Confirmation) :
            /\ BackRules(w, Confirmation)[i].from \in {Anywhere, "acl_principal_selection"}
            /\ BackRules(w, Confirmation)[i].to = "acl_principal_selection"
            /\ \A j \in DOMAIN BackRules(w, Confirmation) :
                 j < i => BackRules(w, Confirmation)[j].from \notin {Anywhere, "acl_principal_selection"}
      BY <3>2
    <3>4. \A a \in Inputs : Wizard[w].forms["acl_principal_selection"].next[a] = Confirmation
      BY <2>2
    <3>5. QED
      BY <2>2, <3>1, <3>3, <3>4, Zenon DEF RetracedFrom
  <2>8. \A i \in DOMAIN Wizard[w].back : i \in Nat /\ Wizard[w].back[i].to \in Steps(w)
    BY <2>1, <2>3 DEF Goto
  <2>9. QED
    BY <1>3, <2>1, <2>4, <2>5, <2>6, <2>7, <2>8
<1>4. QED
  BY <1>1, <1>2, <1>3

(* All tables are closed, and in the orderly wizards every way there is a    *)
(* way back.                                                                 *)
LEMMA Tables ==
  ASSUME NEW w \in DOMAIN Wizard
  PROVE  /\ Wizard[w].first \in Steps(w) /\ Confirmation \notin Steps(w)
         /\ \A t \in Steps(w) : ClosedAt(w, t)
         /\ \A s \in Steps(w) \cup {Confirmation} : \A i \in DOMAIN BackRules(w, s) :
              i \in Nat /\ BackRules(w, s)[i].to \in Steps(w)
         /\ w \in OrderlyWizards => \A t \in Steps(w) : RetracedFrom(w, t)
         /\ w \in {"target_infra", "migrate_topics"} \cup OrderlyWizards
<1>1. w \in {"target_infra", "migration_infra", "migrate_topics", "migrate_schemas", "migrate_acls"}
  BY DEF Wizard
<1>2. /\ Wizard[w].first \in Steps(w) /\ Confirmation \notin Steps(w)
      /\ \A t \in Steps(w) : ClosedAt(w, t)
      /\ \A i \in DOMAIN Wizard[w].back : i \in Nat /\ Wizard[w].back[i].to \in Steps(w)
      /\ w \in OrderlyWizards => \A t \in Steps(w) : RetracedFrom(w, t)
  BY <1>1, TargetInfraTable, MigrationInfraTable, ScriptTables DEF OrderlyWizards
<1>3. ASSUME NEW s \in Steps(w) \cup {Confirmation}, NEW i \in DOMAIN BackRules(w, s)
      PROVE  i \in Nat /\ BackRules(w, s)[i].to \in Steps(w)
  <2>1. CASE s = Confirmation
    BY <1>2, <1>3, <2>1 DEF BackRules
  <2>2. CASE s # Confirmation
    BY <1>2, <1>3, <2>2 DEF ClosedAt
  <2>3. QED
    BY <2>1, <2>2
<1>4. QED
  BY <1>1, <1>2, <1>3 DEF OrderlyWizards

-----------------------------------------------------------------------------
(* The invariant of the machine.                                             *)

(* The answers are those of one way through the wizard, as far as they go.   *)
Way(w, d) ==
  /\ Len(d) > 0 => d[1].step = Wizard[w].first
  /\ \A i \in 1..(Len(d) - 1) : Following(w, d[i]) = d[i + 1].step

(* The step on the screen is the first, the one the last answer leads to, or *)
(* one the user went back to: in an orderly wizard the last that was saved.  *)
Whereabouts ==
  \/ Len(data) = 0 /\ at = Wizard[wizard].first
  \/ Len(data) > 0 /\ at = Following(wizard, data[Len(data)])
  \/ \E k \in 1..Len(data) : data[k].step = at /\ (wizard \in OrderlyWizards => k = Len(data))

(* The confirmation is reached by the last answer.                           *)
AtConfirmation ==
  at = Confirmation =>
    /\ Len(data) > 0 /\ Following(wizard, data[Len(data)]) = Confirmation
    /\ previous = data[Len(data)].step

MachineInv ==
  /\ wizard \in Offered /\ at \in Steps(wizard) \cup {Confirmation}
  /\ phase \in {"closed", "open", "sending"}
  /\ Matches(wizard, data, visited)
  /\ AtConfirmation
  /\ wizard # "target_infra" => Way(wizard, data) /\ Whereabouts

LEMMA MachineStarts ==
  ASSUME wizard \in Offered, at = Wizard[wizard].first, phase \in {"closed", "open"},
         data = <<>>, visited = <<>>
  PROVE  MachineInv
<1>1. wizard \in DOMAIN Wizard
  BY OfferedAssumption
<1>2. at \in Steps(wizard) /\ at # Confirmation
  BY <1>1, Tables
<1>3. Matches(wizard, data, visited) /\ Len(data) = 0
  BY DEF Matches
<1>4. QED
  BY <1>2, <1>3 DEF MachineInv, AtConfirmation, Way, Whereabouts

(* An answer cuts the way off at its step and goes on from there.            *)
LEMMA InvAndSubmit ==
  ASSUME MachineInv, NEW a \in Form.answers, Submit(a)
  PROVE  MachineInv'
<1> DEFINE entry == [step |-> at, answer |-> a]
<1>1. /\ wizard \in DOMAIN Wizard /\ wizard' = wizard /\ phase' = phase /\ at \in Steps(wizard)
      /\ at' = Following(wizard, entry) /\ previous' = at /\ SaveStepData(at, a)
      /\ a \in Wizard[wizard].forms[at].answers
  BY OfferedAssumption DEF MachineInv, Submit, Form, Following, SaveStepData
<1>2. PICK k \in 1..(Len(data) + 1) :
        /\ k = Len(data) + 1 \/ data[k].step = at
        /\ \A i \in 1..(k - 1) : data[i].step # at
        /\ data' = Append(SubSeq(data, 1, k - 1), entry)
        /\ visited' = Append(SubSeq(visited, 1, k - 1), at)
  BY <1>1, SaveCuts DEF MachineInv
<1>3. entry \in Entries(wizard)
  BY <1>1 DEF Entries, Answers
<1>4. Matches(wizard, data', visited')
  <2>1. entry.step = at /\ Matches(wizard, data, visited)
    BY DEF MachineInv
  <2> HIDE DEF entry
  <2>2. Matches(wizard, Append(SubSeq(data, 1, k - 1), entry),
                        Append(SubSeq(visited, 1, k - 1), entry.step))
    BY <1>2, <1>3, <2>1, CutsMatch
  <2>3. QED
    BY <1>2, <2>1, <2>2
<1>5. /\ data \in Seq(Entries(wizard)) /\ Len(data) \in Nat /\ Len(data') = k /\ data'[k] = entry
      /\ \A i \in 1..(k - 1) : data'[i] = data[i]
  BY <1>2, <1>3 DEF MachineInv, Matches
<1>6. at' \in Steps(wizard) \cup {Confirmation}
  BY <1>1, Tables DEF ClosedAt, Following
<1>7. AtConfirmation'
  BY <1>1, <1>5 DEF AtConfirmation
<1>8. Whereabouts'
  BY <1>1, <1>5 DEF Whereabouts
<1>9. ASSUME wizard # "target_infra"
      PROVE  Way(wizard, data')
  <2>1. Way(wizard, data) /\ Whereabouts
    BY <1>9 DEF MachineInv
  <2>2. k = 1 => at = Wizard[wizard].first
    <3>1. CASE Len(data) = 0
      BY <2>1, <3>1 DEF Whereabouts
    <3>2. CASE Len(data) > 0
      BY <1>2, <1>5, <2>1, <3>2 DEF Way
    <3>3. QED
      BY <1>5, <3>1, <3>2
  <2>3. k > 1 => Following(wizard, data[k - 1]) = at
    <3>1. CASE k = Len(data) + 1
      BY <1>2, <1>5, <2>1, <3>1 DEF Whereabouts
    <3>2. CASE k <= Len(data)
      <4>1. k > 1 => k - 1 \in 1..(Len(data) - 1) /\ (k - 1) + 1 = k
        BY <1>5, <3>2
      <4>2. data[k].step = at
        BY <1>2, <1>5, <3>2
      <4>3. QED
        BY <2>1, <4>1, <4>2 DEF Way
    <3>3. QED
      BY <1>5, <3>1, <3>2
  <2>4. data'[1].step = Wizard[wizard].first
    BY <1>5, <2>1, <2>2 DEF Way
  <2>5. ASSUME NEW i \in 1..(Len(data') - 1)
        PROVE  Following(wizard, data'[i]) = data'[i + 1].step
    <3>1. CASE i = k - 1
      BY <1>5, <2>3, <3>1
    <3>2. CASE i < k - 1
      BY <1>5, <2>1, <3>2 DEF Way
    <3>3. QED
      BY <1>5, <3>1, <3>2
  <2>6. QED
    BY <2>4, <2>5 DEF Way
<1>10. QED
  BY <1>1, <1>4, <1>6, <1>7, <1>8, <1>9 DEF MachineInv

(* The step a Back leads to: of an orderly wizard the last one before.       *)
LEMMA BackLeads ==
  ASSUME MachineInv
  PROVE  /\ Applicable \subseteq Nat
         /\ Applicable # {} => BackRules(wizard, at)[Min(Applicable)].to \in Steps(wizard)
         /\ \A k \in 1..Len(data) : wizard \in OrderlyWizards /\ Following(wizard, data[k]) = at
                /\ (at = Confirmation => k = Len(data))
              => /\ Applicable # {} /\ at # Wizard[wizard].first
                 /\ BackRules(wizard, at)[Min(Applicable)].to = data[k].step
<1> DEFINE rules == BackRules(wizard, at)
<1>1. wizard \in DOMAIN Wizard
  BY OfferedAssumption DEF MachineInv
<1>2. \A i \in DOMAIN rules : i \in Nat /\ rules[i].to \in Steps(wizard)
  BY <1>1, Tables DEF MachineInv
<1>3. Applicable \subseteq DOMAIN rules /\ Applicable \subseteq Nat
  BY <1>2 DEF Applicable
<1>4. Applicable # {} => Min(Applicable) \in Applicable /\ \A i \in Applicable : Min(Applicable) <= i
  BY <1>3, LeastNumber
<1>5. ASSUME NEW k \in 1..Len(data), wizard \in OrderlyWizards, Following(wizard, data[k]) = at,
             at = Confirmation => k = Len(data)
      PROVE  Applicable # {} /\ at # Wizard[wizard].first /\ rules[Min(Applicable)].to = data[k].step
  <2> DEFINE t == data[k].step
  <2>1. t \in Steps(wizard) /\ data[k].answer \in Wizard[wizard].forms[t].answers
    BY <1>5 DEF MachineInv, Matches, Entries
  <2>2. RetracedFrom(wizard, t)
    BY <1>1, <1>5, <2>1, Tables
  <2>3. at = Wizard[wizard].forms[t].next[data[k].answer]
    BY <1>5 DEF Following
  <2>4. at # Wizard[wizard].first
    BY <2>1, <2>2, <2>3 DEF RetracedFrom
  <2>5. CASE at # Confirmation
    <3>1. DOMAIN rules = {1} /\ rules[1] = Goto(t)
      BY <2>1, <2>2, <2>3, <2>5 DEF RetracedFrom
    <3>2. Applicable = {1}
      BY <3>1 DEF Applicable, Goto
    <3>3. Min(Applicable) = 1
      BY <1>4, <3>2
    <3>4. QED
      BY <2>4, <3>1, <3>2, <3>3 DEF Goto
  <2>6. CASE at = Confirmation
    <3>1. previous = t
      BY <1>5, <2>6 DEF MachineInv, AtConfirmation
    <3>2. PICK i \in DOMAIN rules :
            /\ rules[i].from \in {Anywhere, t} /\ rules[i].to = t
            /\ \A j \in DOMAIN rules : j < i => rules[j].from \notin {Anywhere, t}
      <4>1. Wizard[wizard].forms[t].next[data[k].answer] = Confirmation
        BY <2>3, <2>6
      <4>2. \E i \in DOMAIN BackRules(wizard, Confirmation) :
              /\ BackRules(wizard, Confirmation)[i].from \in {Anywhere, t}
              /\ BackRules(wizard, Confirmation)[i].to = t
              /\ \A j \in DOMAIN BackRules(wizard, Confirmation) :
                   j < i => BackRules(wizard, Confirmation)[j].from \notin {Anywhere, t}
        <5> DEFINE b == data[k].answer
        <5>1. b \in Wizard[wizard].forms[t].answers /\ Wizard[wizard].forms[t].next[b] = Confirmation
          BY <2>1, <4>1
        <5> HIDE DEF b, t
        <5>2. QED
          BY <2>2, <5>1, Zenon DEF RetracedFrom
      <4>3. QED
        BY <2>6, <4>2, Zenon
    <3>3. i \in Applicable /\ \A j \in Applicable : ~ (j < i)
      BY <3>1, <3>2 DEF Applicable
    <3>4. Min(Applicable) = i
      <4>1. /\ Min(Applicable) \in Applicable /\ Min(Applicable) <= i
            /\ Min(Applicable) \in Nat /\ i \in Nat
        BY <1>3, <1>4, <3>3
      <4>2. QED
        BY <3>3, <4>1
    <3>5. QED
      BY <2>4, <3>2, <3>3, <3>4
  <2>7. QED
    BY <2>5, <2>6
<1>6. QED
  BY <1>2, <1>3, <1>4, <1>5

(* In an orderly wizard the step the last answer leads to is a new one: had  *)
(* it been answered before, the answer before it would be of the last step.  *)
LEMMA FollowingIsNew ==
  ASSUME NEW w \in DOMAIN Wizard, w \in OrderlyWizards, NEW d, NEW v,
         Matches(w, d, v), Way(w, d), Len(d) > 0
  PROVE  \A i \in 1..Len(d) : d[i].step # Following(w, d[Len(d)])
<1> DEFINE L == Len(d)
           s == Following(w, d[L])
           rules == BackRules(w, s)
<1>1. /\ L \in Nat /\ L \in 1..L
      /\ \A i \in 1..L : /\ d[i].step \in Steps(w)
                         /\ d[i].answer \in Wizard[w].forms[d[i].step].answers
  BY DEF Matches, Entries
<1>2. ASSUME NEW i \in 1..L, Following(w, d[i]) = s
      PROVE  /\ s # Wizard[w].first
             /\ s # Confirmation => rules[1].to = d[i].step
  <2> DEFINE t == d[i].step
             a == d[i].answer
  <2>1. RetracedFrom(w, t) /\ a \in Wizard[w].forms[t].answers /\ s = Wizard[w].forms[t].next[a]
    BY <1>1, <1>2, Tables DEF Following
  <2> HIDE DEF t, a, s
  <2>2. s # Wizard[w].first /\ (s # Confirmation => rules[1] = Goto(t))
    BY <2>1, Zenon DEF RetracedFrom
  <2>3. QED
    BY <2>2 DEF Goto, t
<1>3. ASSUME NEW i \in 1..L, d[i].step = s
      PROVE  FALSE
  <2>1. s # Confirmation /\ s # Wizard[w].first
    BY <1>1, <1>2, <1>3, Tables
  <2>2. i - 1 \in 1..(L - 1) /\ i - 1 \in 1..L /\ (i - 1) + 1 = i
    BY <1>1, <1>3, <2>1 DEF Way
  <2>3. Following(w, d[i - 1]) = s
    BY <1>3, <2>2 DEF Way
  <2>4. d[i - 1].step = d[L].step
    BY <1>1, <1>2, <2>1, <2>2, <2>3
  <2>5. i - 1 = L
    BY <1>1, <2>2, <2>4 DEF Matches
  <2>6. QED
    BY <1>1, <2>2, <2>5
<1>4. QED
  BY <1>3

(* Back in an orderly wizard: the step on the screen is taken out, if it was *)
(* saved, and the one before is shown, whose answer stays as a prefill.      *)
LEMMA BackReturns ==
  ASSUME MachineInv, Back, wizard \in OrderlyWizards
  PROVE  \E n \in 1..Len(data) :
           /\ at' = data[n].step
           /\ Len(data') = n /\ \A i \in 1..n : data'[i] = data[i]
           /\ \/ n = Len(data) /\ \A i \in 1..n : data[i].step # at
              \/ n = Len(data) - 1 /\ data[n + 1].step = at
<1> DEFINE L == Len(data)
           to == BackRules(wizard, at)[Min(Applicable)].to
<1>1. /\ wizard \in DOMAIN Wizard /\ Confirmation \notin Steps(wizard) /\ wizard # "target_infra"
      /\ at # Wizard[wizard].first /\ at' = to /\ UndoSaveStepData
      /\ Matches(wizard, data, visited) /\ data \in Seq(Entries(wizard)) /\ L \in Nat
  BY OfferedAssumption, Tables DEF MachineInv, Matches, Back, BackOffered, OrderlyWizards
<1>2. Way(wizard, data) /\ Whereabouts
  BY <1>1 DEF MachineInv
<1>3. \A i \in 1..L : data[i].step \in Steps(wizard)
  BY <1>1 DEF Entries
<1>4. \A k \in 1..L : Following(wizard, data[k]) = at /\ (at = Confirmation => k = L)
                        => to = data[k].step
  BY <1>1, BackLeads
<1> HIDE DEF to
<1>5. CASE L > 0 /\ at = Following(wizard, data[L])
  <2>1. at' = data[L].step
    BY <1>1, <1>4, <1>5
  <2>2. \A i \in 1..L : data[i].step # at
    BY <1>1, <1>2, <1>5, FollowingIsNew
  <2>3. data' = data
    BY <1>1, <2>2, UndoCuts
  <2>4. QED
    BY <1>1, <1>5, <2>1, <2>2, <2>3
<1>6. CASE L > 0 /\ data[L].step = at
  <2>1. L > 1
    BY <1>1, <1>2, <1>6 DEF Way
  <2>2. at # Confirmation /\ L - 1 \in 1..(L - 1) /\ (L - 1) + 1 = L
    BY <1>1, <1>3, <1>6, <2>1
  <2>3. Following(wizard, data[L - 1]) = at
    BY <1>2, <1>6, <2>2 DEF Way
  <2>4. L - 1 \in 1..L /\ at' = data[L - 1].step
    <3>1. L - 1 \in 1..L
      BY <1>1, <2>1
    <3>2. QED
      BY <1>1, <1>4, <2>2, <2>3, <3>1
  <2>5. data' = AllBut(data, L)
    BY <1>1, <1>6, UndoCuts DEF Matches
  <2>6. Len(data') = L - 1 /\ \A i \in 1..(L - 1) : data'[i] = data[i]
    BY <1>1, <2>1, <2>5 DEF AllBut
  <2>7. \E n \in 1..L :
          /\ at' = data[n].step
          /\ Len(data') = n /\ \A i \in 1..n : data'[i] = data[i]
          /\ n = L - 1 /\ data[n + 1].step = at
    <3> DEFINE m == L - 1
    <3>1. m \in 1..L /\ m = L - 1 /\ data[m + 1].step = at
      BY <1>6, <2>2, <2>4
    <3>2. at' = data[m].step /\ Len(data') = m /\ \A i \in 1..m : data'[i] = data[i]
      BY <2>4, <2>6
    <3> HIDE DEF m
    <3>3. QED
      BY <3>1, <3>2
  <2>8. QED
    BY <2>7
<1>7. L > 0 /\ (at = Following(wizard, data[L]) \/ data[L].step = at)
  <2>1. \/ L > 0 /\ at = Following(wizard, data[L])
        \/ \E k \in 1..L : data[k].step = at /\ k = L
    BY <1>1, <1>2 DEF Whereabouts
  <2>2. (\E k \in 1..L : data[k].step = at /\ k = L) => L > 0 /\ data[L].step = at
    BY <1>1
  <2>3. QED
    BY <2>1, <2>2
<1>8. QED
  BY <1>5, <1>6, <1>7

LEMMA InvAndBack ==
  ASSUME MachineInv, Back
  PROVE  MachineInv'
<1>1. /\ wizard \in DOMAIN Wizard /\ wizard' = wizard /\ phase' = phase /\ UndoSaveStepData
      /\ at # Wizard[wizard].first /\ Applicable # {}
      /\ at' = BackRules(wizard, at)[Min(Applicable)].to
  BY OfferedAssumption DEF MachineInv, Back, BackOffered
<1>2. at' \in Steps(wizard) /\ at' # Confirmation
  BY <1>1, BackLeads, Tables
<1>3. Matches(wizard, data', visited')
  <2>1. Matches(wizard, data, visited)
    BY DEF MachineInv
  <2>2. CASE data' = data /\ visited' = visited
    BY <2>1, <2>2
  <2>3. CASE \E k \in 1..Len(data) : data' = AllBut(data, k) /\ visited' = AllBut(visited, k)
    BY <2>1, <2>3, CutsMatch
  <2>4. QED
    BY <1>1, <2>1, <2>2, <2>3, UndoCuts
<1>4. CASE wizard \in OrderlyWizards
  <2>1. PICK n \in 1..Len(data) :
          at' = data[n].step /\ Len(data') = n /\ \A i \in 1..n : data'[i] = data[i]
    BY <1>4, BackReturns
  <2>2. Way(wizard, data) /\ Len(data) \in Nat
    BY <1>4 DEF MachineInv, Matches, OrderlyWizards
  <2>3. Way(wizard, data')
    BY <2>1, <2>2 DEF Way
  <2>4. Whereabouts'
    BY <2>1, <2>2 DEF Whereabouts
  <2>5. QED
    BY <1>1, <1>2, <1>3, <2>3, <2>4 DEF MachineInv, AtConfirmation
<1>5. CASE wizard = "migrate_topics"
  <2>1. /\ \A t \in Steps(wizard) : BackRules(wizard, t) = <<>>
        /\ BackRules(wizard, Confirmation) = <<Goto(Wizard[wizard].first)>>
    BY <1>5, ScriptTables DEF BackRules
  <2>2. at = Confirmation
    BY <1>1, <2>1 DEF MachineInv, Applicable
  <2>3. at' = Wizard[wizard].first
    <3>1. Applicable = {1}
      BY <2>1, <2>2 DEF Applicable, Goto
    <3>2. Min(Applicable) = 1
      BY <3>1, LeastNumber
    <3>3. QED
      BY <1>1, <2>1, <2>2, <3>2 DEF Goto
  <2>4. /\ Way(wizard, data) /\ Len(data) > 0 /\ Len(data) \in Nat
        /\ \A i \in 1..Len(data) : data[i].step # at
    BY <1>1, <1>5, <2>2, Tables DEF MachineInv, AtConfirmation, Matches, Entries
  <2>5. data' = data
    BY <1>1, <2>4, UndoCuts DEF MachineInv
  <2>6. 1 \in 1..Len(data') /\ data'[1].step = at'
    BY <2>3, <2>4, <2>5 DEF Way
  <2>7. Whereabouts'
    BY <1>1, <1>5, <2>6 DEF Whereabouts, OrderlyWizards
  <2>8. QED
    BY <1>1, <1>2, <1>3, <2>4, <2>5, <2>7 DEF MachineInv, AtConfirmation
<1>6. CASE wizard = "target_infra"
  BY <1>1, <1>2, <1>3, <1>6 DEF MachineInv, AtConfirmation
<1>7. QED
  BY <1>1, <1>4, <1>5, <1>6, Tables

LEMMA InvAndNext == MachineInv /\ [Next]_machine => MachineInv'
<1> SUFFICES ASSUME MachineInv, [Next]_machine PROVE MachineInv'
  OBVIOUS
<1>1. ASSUME NEW w \in Offered, Open(w)
      PROVE  MachineInv'
  <2>1. /\ wizard' \in Offered /\ at' = Wizard[wizard'].first /\ phase' \in {"closed", "open"}
        /\ data' = <<>> /\ visited' = <<>>
    BY <1>1 DEF Open
  <2>2. wizard' \in DOMAIN Wizard
    BY <2>1, OfferedAssumption
  <2>3. at' \in Steps(wizard') /\ at' # Confirmation
    BY <2>1, <2>2, Tables
  <2>4. Matches(wizard', data', visited') /\ Len(data') = 0
    BY <2>1 DEF Matches
  <2>5. QED
    BY <2>1, <2>3, <2>4 DEF MachineInv, AtConfirmation, Way, Whereabouts
<1>2. CASE UNCHANGED <<wizard, at, data, visited, previous>> /\ phase' \in {"closed", "open", "sending"}
  BY <1>2 DEF MachineInv, AtConfirmation, Whereabouts
<1>3. CASE UNCHANGED machine
  BY <1>3, <1>2 DEF machine, MachineInv
<1>4. CASE Confirm \/ Fail \/ Close
  BY <1>2, <1>4 DEF Confirm, Fail, Close
<1>5. QED
  BY <1>1, <1>3, <1>4, InvAndSubmit, InvAndBack DEF Next

(* The invariant of the machine, step by step.                               *)
THEOREM MachineInvariance == Spec => []MachineInv
<1>1. Init => MachineInv
  <2> SUFFICES ASSUME Init PROVE MachineInv
    OBVIOUS
  <2>1. wizard \in Offered /\ at = Wizard[wizard].first /\ phase = "closed"
        /\ data = <<>> /\ visited = <<>>
    BY DEF Init
  <2>2. QED
    BY <2>1, MachineStarts
<1>2. QED
  BY <1>1, InvAndNext, PTL DEF Spec

-----------------------------------------------------------------------------
(* What the machine keeps.                                                   *)

(* The saved answers are those of the visited steps, each one once, whatever *)
(* submits, returns and changed answers came before (save_step_data,         *)
(* undo_save_step_data).                                                     *)
THEOREM RecordsStayInStep == Spec => []DataMatchesVisited
<1>1. MachineInv => DataMatchesVisited
  <2> SUFFICES ASSUME MachineInv PROVE DataMatchesVisited
    OBVIOUS
  <2>1. /\ data \in Seq(Entries(wizard)) /\ visited \in Seq(Steps(wizard))
        /\ Len(visited) = Len(data) /\ Len(data) \in Nat
        /\ \A i \in 1..Len(data) : visited[i] = data[i].step
        /\ \A i, j \in 1..Len(data) : data[i].step = data[j].step => i = j
    BY DEF MachineInv, Matches
  <2>2. visited = [i \in 1..Len(data) |-> visited[i]]
    BY <2>1
  <2>3. visited = [i \in DOMAIN data |-> data[i].step]
    BY <2>1, <2>2
  <2>4. IsInjective(visited)
    BY <2>1 DEF IsInjective
  <2>5. QED
    BY <2>3, <2>4 DEF DataMatchesVisited
<1>2. QED
  BY <1>1, MachineInvariance, PTL

(* On the confirmation page of every wizard but the target infrastructure's  *)
(* the answers are those of one way from the first step to the confirmation: *)
(* nothing of an abandoned branch is shown or sent.                          *)
THEOREM OneWayIsSent == Spec => []OtherRequestsFollowPath
<1>1. MachineInv => OtherRequestsFollowPath
  <2> SUFFICES ASSUME MachineInv, wizard # "target_infra", at = Confirmation
               PROVE  RequestFollowsPath
    BY DEF OtherRequestsFollowPath, RequestFollowsPath
  <2>1. /\ data \in Seq(Entries(wizard)) /\ Len(data) \in Nat /\ Len(data) > 0
        /\ Following(wizard, data[Len(data)]) = Confirmation /\ Way(wizard, data)
    BY DEF MachineInv, Matches, AtConfirmation
  <2>2. ASSUME NEW i \in DOMAIN data
        PROVE  Following(wizard, data[i]) = IF i = Len(data) THEN Confirmation ELSE data[i + 1].step
    BY <2>1 DEF Way
  <2>3. QED
    BY <2>1, <2>2 DEF RequestFollowsPath, Way, Following
<1>2. QED
  BY <1>1, MachineInvariance, PTL

(* In an orderly wizard every enabled Back button leads somewhere.           *)
THEOREM BackLeadsSomewhere == Spec => []BackAlwaysPossible
<1>1. MachineInv => BackAlwaysPossible
  <2> SUFFICES ASSUME MachineInv, wizard \in OrderlyWizards, at # Wizard[wizard].first
               PROVE  Applicable # {}
    BY DEF BackAlwaysPossible, BackOffered
  <2>1. /\ wizard \in DOMAIN Wizard /\ Len(data) \in Nat /\ Way(wizard, data) /\ Whereabouts
        /\ \A i \in 1..Len(data) : data[i].step \in Steps(wizard)
    BY OfferedAssumption DEF MachineInv, Matches, Entries, OrderlyWizards
  <2>2. CASE Len(data) > 0 /\ at = Following(wizard, data[Len(data)])
    BY <2>1, <2>2, BackLeads
  <2>3. CASE Len(data) > 0 /\ data[Len(data)].step = at
    <3>1. Len(data) > 1 /\ at # Confirmation
      BY <2>1, <2>3, Tables DEF Way
    <3>2. /\ Len(data) - 1 \in 1..(Len(data) - 1) /\ Len(data) - 1 \in 1..Len(data)
          /\ (Len(data) - 1) + 1 = Len(data)
      BY <2>1, <3>1
    <3>3. Following(wizard, data[Len(data) - 1]) = at
      BY <2>1, <2>3, <3>2 DEF Way
    <3>4. QED
      BY <3>1, <3>2, <3>3, BackLeads
  <2>4. QED
    BY <2>1, <2>2, <2>3 DEF Whereabouts
<1>2. QED
  BY <1>1, MachineInvariance, PTL

-----------------------------------------------------------------------------
(* The orderly wizards as stacks of answers.                                 *)

(* The answers of d before that of step t, all of them if t was not saved.   *)
CutAt(d, t) ==
  IF t \in Keys(d) THEN SubSeq(d, 1, Min({i \in DOMAIN d : d[i].step = t}) - 1) ELSE d

LEMMA CuttingAt ==
  ASSUME NEW w, NEW d, NEW v, Matches(w, d, v), NEW t
  PROVE  /\ (\A i \in 1..Len(d) : d[i].step # t) => CutAt(d, t) = d
         /\ \A k \in 1..Len(d) : d[k].step = t => CutAt(d, t) = SubSeq(d, 1, k - 1)
<1>1. DOMAIN d = 1..Len(d) /\ Len(d) \in Nat
  BY DEF Matches
<1>2. (\A i \in 1..Len(d) : d[i].step # t) => CutAt(d, t) = d
  BY <1>1 DEF CutAt, Keys
<1>3. ASSUME NEW k \in 1..Len(d), d[k].step = t
      PROVE  CutAt(d, t) = SubSeq(d, 1, k - 1)
  <2>1. t \in Keys(d)
    BY <1>1, <1>3 DEF Keys
  <2>2. {i \in DOMAIN d : d[i].step = t} = {k}
    BY <1>1, <1>3 DEF Matches
  <2>3. {k} \subseteq Nat /\ {k} # {}
    BY <1>1
  <2>4. Min({k}) = k
    BY <2>3, LeastNumber
  <2>5. QED
    BY <2>1, <2>2, <2>4, Zenon DEF CutAt
<1>4. QED
  BY <1>2, <1>3

(* The stack is one of the same tables.                                      *)
LEMMA SameTables == Path!Wizard = Wizard /\ Path!Confirmation = Confirmation
<1>1. Path!Confirmation = Confirmation /\ Path!Anywhere = Anywhere
  BY DEF Path!Confirmation, Confirmation, Path!Anywhere, Anywhere
<1>2. /\ \A s : Path!Goto(s) = Goto(s)
      /\ \A s : Path!CameFrom(s) = CameFrom(s)
      /\ \A n, b : Path!Ask(n, b) = Ask(n, b)
      /\ \A n, b : Path!Fill(n, b) = Fill(n, b)
  BY <1>1 DEF Path!Goto, Goto, Path!CameFrom, CameFrom, Path!Ask, Ask, Path!Fill, Fill
<1>3. Path!TargetInfra = TargetInfra
  BY <1>1, <1>2, Zenon
     DEF Path!TargetInfra, TargetInfra, Path!EnvironmentQuestion, EnvironmentQuestion,
         Path!CreateEnvironment, CreateEnvironment, Path!ClusterQuestion, ClusterQuestion,
         Path!CreateCluster, CreateCluster, Path!PrivateLinkQuestion, PrivateLinkQuestion,
         Path!CreatePrivateLink, CreatePrivateLink, Path!TargetInfraConfirmation,
         TargetInfraConfirmation
<1>4. Path!MigrationInfra = MigrationInfra
  BY <1>1, <1>2, Zenon
     DEF Path!MigrationInfra, MigrationInfra, Path!EndpointsQuestion, EndpointsQuestion,
         Path!PublicClusterLink, PublicClusterLink, Path!MethodQuestion, MethodQuestion,
         Path!ExternalOutbound, ExternalOutbound, Path!InternetGatewayQuestion,
         InternetGatewayQuestion, Path!JumpClusterNetworking, JumpClusterNetworking,
         Path!AuthenticationQuestion, AuthenticationQuestion, Path!SaslScramInputs,
         SaslScramInputs, Path!IamInputs, IamInputs, Path!MigrationInfraConfirmation,
         MigrationInfraConfirmation
<1>5. Path!MirrorTopics = MirrorTopics /\ Path!SchemaRegistries = SchemaRegistries /\ Path!Acls = Acls
  BY <1>1, <1>2, Zenon
     DEF Path!MirrorTopics, MirrorTopics, Path!SchemaRegistries, SchemaRegistries, Path!Acls, Acls
<1>6. QED
  BY <1>1, <1>3, <1>4, <1>5, Zenon DEF Path!Wizard, Wizard

(* Submitting a form is answering.                                           *)
LEMMA SubmitAnswers ==
  ASSUME MachineInv, MachineInv', wizard \in OrderlyWizards, NEW a \in Form.answers, Submit(a)
  PROVE  Before' = Append(Before, [step |-> at, answer |-> a])
<1> DEFINE entry == [step |-> at, answer |-> a]
<1>1. /\ wizard \in DOMAIN Wizard /\ wizard' = wizard /\ wizard # "target_infra" /\ at \in Steps(wizard)
      /\ at' = Following(wizard, entry) /\ SaveStepData(at, a)
      /\ a \in Wizard[wizard].forms[at].answers
  BY OfferedAssumption DEF MachineInv, Submit, Form, Following, OrderlyWizards
<1>2. PICK k \in 1..(Len(data) + 1) :
        /\ k = Len(data) + 1 \/ data[k].step = at
        /\ \A i \in 1..(k - 1) : data[i].step # at
        /\ data' = Append(SubSeq(data, 1, k - 1), entry)
  BY <1>1, SaveCuts DEF MachineInv
<1>3. /\ Matches(wizard, data, visited) /\ Matches(wizard, data', visited') /\ Way(wizard, data')
      /\ data \in Seq(Entries(wizard)) /\ Len(data) \in Nat
  BY <1>1 DEF MachineInv, Matches
<1>4. entry \in Entries(wizard)
  BY <1>1 DEF Entries, Answers
<1> HIDE DEF entry
<1>5. Len(data') = k /\ data'[k] = entry
  BY <1>2, <1>3, <1>4
<1>6. Before = SubSeq(data, 1, k - 1)
  <2>1. CASE k = Len(data) + 1
    <3>1. \A i \in 1..Len(data) : data[i].step # at
      BY <1>2, <1>3, <2>1
    <3>2. Before = data
      BY <1>3, <3>1, CuttingAt DEF Before, CutAt
    <3>3. QED
      BY <1>3, <2>1, <3>2
  <2>2. CASE k # Len(data) + 1
    <3>1. k \in 1..Len(data) /\ data[k].step = at
      BY <1>2, <1>3, <2>2
    <3>2. QED
      BY <1>3, <3>1, CuttingAt DEF Before, CutAt
  <2>3. QED
    BY <2>1, <2>2
<1>7. Before' = data'
  <2>1. \A i \in 1..Len(data') : data'[i].step # at'
    BY <1>1, <1>3, <1>5, FollowingIsNew
  <2>2. CutAt(data', at') = data'
    BY <1>3, <2>1, CuttingAt
  <2>3. QED
    BY <2>2, Zenon DEF Before, CutAt
<1>8. QED
  BY <1>2, <1>6, <1>7 DEF entry

(* Back takes back the last answer and shows its step.                       *)
LEMMA BackTakesBack ==
  ASSUME MachineInv, MachineInv', wizard \in OrderlyWizards, Back
  PROVE  /\ Before # <<>> /\ at' = Before[Len(Before)].step
         /\ Before' = SubSeq(Before, 1, Len(Before) - 1)
<1>1. wizard' = wizard /\ Matches(wizard, data, visited) /\ Matches(wizard, data', visited')
  BY DEF MachineInv, Back
<1>2. PICK n \in 1..Len(data) :
        /\ at' = data[n].step
        /\ Len(data') = n /\ \A i \in 1..n : data'[i] = data[i]
        /\ \/ n = Len(data) /\ \A i \in 1..n : data[i].step # at
           \/ n = Len(data) - 1 /\ data[n + 1].step = at
  BY BackReturns
<1>3. /\ data \in Seq(Entries(wizard)) /\ data' \in Seq(Entries(wizard)) /\ Len(data) \in Nat /\ n \in Nat
  BY <1>1 DEF Matches
<1>4. Before = SubSeq(data, 1, n)
  <2>1. CASE n = Len(data) /\ \A i \in 1..n : data[i].step # at
    <3>1. Before = data
      BY <1>1, <2>1, CuttingAt DEF Before, CutAt
    <3>2. QED
      BY <1>3, <2>1, <3>1
  <2>2. CASE n = Len(data) - 1 /\ data[n + 1].step = at
    <3>1. n + 1 \in 1..Len(data) /\ (n + 1) - 1 = n
      BY <1>3, <2>2
    <3>2. CutAt(data, at) = SubSeq(data, 1, (n + 1) - 1)
      BY <1>1, <2>2, <3>1, CuttingAt
    <3>3. QED
      BY <3>1, <3>2 DEF Before, CutAt
  <2>3. QED
    BY <1>2, <2>1, <2>2
<1>5. Before' = SubSeq(data', 1, n - 1)
  <2>1. n \in 1..Len(data') /\ data'[n].step = at'
    BY <1>2, <1>3
  <2>2. CutAt(data', at') = SubSeq(data', 1, n - 1)
    BY <1>1, <2>1, CuttingAt
  <2>3. QED
    BY <2>2, Zenon DEF Before, CutAt
<1>6. /\ Before \in Seq(Entries(wizard)) /\ Len(Before) = n
      /\ \A i \in 1..n : Before[i] = data[i]
  BY <1>3, <1>4
<1>7. Before' = SubSeq(Before, 1, n - 1)
  <2>1. /\ SubSeq(data', 1, n - 1) \in Seq(Entries(wizard)) /\ Len(SubSeq(data', 1, n - 1)) = n - 1
        /\ \A i \in 1..(n - 1) : SubSeq(data', 1, n - 1)[i] = data[i]
    BY <1>2, <1>3
  <2>2. /\ SubSeq(Before, 1, n - 1) \in Seq(Entries(wizard)) /\ Len(SubSeq(Before, 1, n - 1)) = n - 1
        /\ \A i \in 1..(n - 1) : SubSeq(Before, 1, n - 1)[i] = data[i]
    BY <1>3, <1>6
  <2>3. QED
    BY <1>5, <2>1, <2>2, SameSequence
<1>8. QED
  BY <1>2, <1>6, <1>7

(* Every step of an orderly wizard's machine is one of the stack's or none.  *)
LEMMA StepsOfThePath ==
  ASSUME MachineInv, MachineInv', [Next]_machine, wizard' \in OrderlyWizards
  PROVE  Path!Next \/ UNCHANGED <<wizard, at, Before, phase # "closed">>
<1>1. ASSUME NEW w \in Offered, Open(w) PROVE Path!Next
  <2>1. w \in DOMAIN Wizard /\ phase = "closed" /\ phase' = "open" /\ wizard' = w
        /\ at' = Wizard[w].first /\ data' = <<>>
    BY <1>1, OfferedAssumption DEF Open
  <2>2. Before' = <<>>
    BY <2>1 DEF Before, Keys
  <2>3. Path!Show(w)
    BY <2>1, <2>2, SameTables DEF Path!Show
  <2>4. QED
    BY <2>1, <2>3, SameTables DEF Path!Next
<1>2. ASSUME phase = "open", at # Confirmation, NEW a \in Form.answers, Submit(a) PROVE Path!Next
  <2>1. wizard' = wizard /\ phase' = phase /\ at' = Wizard[wizard].forms[at].next[a]
        /\ a \in Wizard[wizard].forms[at].answers
    BY <1>2 DEF Submit, Form
  <2>2. Before' = Append(Before, [step |-> at, answer |-> a])
    BY <1>2, <2>1, SubmitAnswers
  <2>3. Path!Answer(a)
    BY <1>2, <2>1, <2>2, SameTables DEF Path!Answer
  <2>4. QED
    BY <1>2, <2>1, <2>3, SameTables DEF Path!Next
<1>3. CASE Back
  <2>1. wizard' = wizard /\ phase' = phase /\ phase = "open"
    BY <1>3 DEF Back, BackOffered
  <2>2. /\ Before # <<>> /\ at' = Before[Len(Before)].step
        /\ Before' = SubSeq(Before, 1, Len(Before) - 1)
    BY <1>3, <2>1, BackTakesBack
  <2>3. Path!Return
    BY <2>1, <2>2 DEF Path!Return
  <2>4. QED
    BY <2>3 DEF Path!Next
<1>4. CASE Confirm \/ Fail
  <2>1. phase # "closed" /\ phase' # "closed" /\ UNCHANGED <<wizard, at, data>>
    BY <1>4 DEF Confirm, Fail
  <2>2. Before' = Before
    BY <2>1 DEF Before, Keys
  <2>3. QED
    BY <2>1, <2>2
<1>5. CASE Close
  <2>1. phase # "closed" /\ phase' = "closed" /\ UNCHANGED <<wizard, at, data>>
    BY <1>5 DEF Close
  <2>2. Before' = Before
    BY <2>1 DEF Before, Keys
  <2>3. Path!Leave
    BY <2>1, <2>2 DEF Path!Leave
  <2>4. QED
    BY <2>3 DEF Path!Next
<1>6. CASE UNCHANGED machine
  <2>1. Before' = Before /\ wizard' = wizard /\ at' = at /\ phase' = phase
    BY <1>6 DEF machine, Before, Keys
  <2>2. QED
    BY <2>1
<1>7. QED
  BY <1>1, <1>2, <1>3, <1>4, <1>5, <1>6 DEF Next

(* An orderly wizard with its saved answers, its visited list and its        *)
(* previousStep implements the stack of answers its user expects             *)
(* (createWizardMachine.ts, save_step_data and undo_save_step_data).         *)
THEOREM MachineIsAStack == Spec => ImplementsPath
<1>1. Init => Path!Init
  <2> SUFFICES ASSUME Init PROVE Path!Init
    OBVIOUS
  <2>1. wizard \in DOMAIN Wizard /\ at = Wizard[wizard].first /\ data = <<>> /\ phase = "closed"
    BY OfferedAssumption DEF Init
  <2>2. Before = <<>>
    BY <2>1 DEF Before, Keys
  <2>3. QED
    BY <2>1, <2>2, SameTables DEF Path!Init
<1>2. MachineInv /\ MachineInv' /\ [Next]_machine =>
        [wizard' \in OrderlyWizards => Path!Next]_<<wizard, at, Before, phase # "closed">>
  BY StepsOfThePath
<1>3. QED
  BY <1>1, <1>2, MachineInvariance, PTL DEF Spec, ImplementsPath

-----------------------------------------------------------------------------
(* The page: one machine, and requests that outlive the modal.               *)

(* Requests are told apart by their numbers; a wizard is on the screen only  *)
(* in a modal, and one that waits finds its request among those under way.   *)
PageInv ==
  /\ issued \in Nat
  /\ \A r \in requests : r.id \in 1..issued
  /\ \A r, s \in requests : r.id = s.id => r = s
  /\ phase \in {"closed", "open", "sending"}
  /\ phase # "closed" => modal # NoModal
  /\ viewer # NoView => modal = NoModal
  /\ RequestOnScreen

(* Opening a wizard shows its first step.                                    *)
LEMMA OpensOpen == ASSUME NEW w, Open(w) PROVE phase = "closed" /\ phase' = "open"
BY DEF Open

(* Closing a wizard forgets nothing but that it is open.                     *)
LEMMA ClosesClosed == ASSUME Close PROVE phase # "closed" /\ phase' = "closed"
BY DEF Close

(* The invariant, action by action.                                          *)
THEOREM Invariance == PageSpec => []PageInv
<1>1. PageInit => PageInv
  BY DEF PageInit, Init, PageInv, RequestOnScreen
<1>2. PageInv /\ [PageNext]_vars => PageInv'
  <2> SUFFICES ASSUME PageInv, [PageNext]_vars PROVE PageInv'
    OBVIOUS
  <2>1. ASSUME NEW c \in Clusters, NEW what \in Shows, OpenModal(c, what) PROVE PageInv'
    <3>1. /\ phase = "closed" /\ phase' \in {"closed", "open"}
          /\ viewer = NoView /\ viewer' = NoView /\ requests' = requests /\ issued' = issued
      BY <2>1, OpensOpen DEF OpenModal, machine, PageInv
    <3>2. modal' # NoModal
      BY <2>1, PageAssumption DEF OpenModal, NoModal
    <3>3. QED
      BY <3>1, <3>2 DEF PageInv, RequestOnScreen
  <2>2. ASSUME NEW w \in Scripts, SelectScript(w) PROVE PageInv'
    <3>1. phase' = "open" /\ modal.shows = "scripts"
      BY <2>2, OpensOpen DEF SelectScript, InSelection
    <3>2. modal # NoModal
      BY <3>1 DEF NoModal
    <3>3. QED
      BY <2>2, <3>1, <3>2 DEF SelectScript, page, PageInv, RequestOnScreen, NoModal
  <2>3. ASSUME BackToSelection PROVE PageInv'
    BY <2>3, ClosesClosed DEF BackToSelection, PageInv, RequestOnScreen
  <2>4. ASSUME CloseModal PROVE PageInv'
    <3>1. phase' = "closed"
      BY <2>4, ClosesClosed DEF CloseModal, machine
    <3>2. QED
      BY <2>4, <3>1 DEF CloseModal, PageInv, RequestOnScreen
  <2>5. ASSUME SubmitForm PROVE PageInv'
    <3>1. phase = "open" /\ phase' = "open"
      BY <2>5 DEF SubmitForm, Submit
    <3>2. QED
      BY <2>5, <3>1 DEF SubmitForm, page, PageInv, RequestOnScreen, NoModal
  <2>6. ASSUME PressBack PROVE PageInv'
    <3>1. phase = "open" /\ phase' = "open"
      BY <2>6 DEF PressBack, Back, BackOffered
    <3>2. QED
      BY <2>6, <3>1 DEF PressBack, page, PageInv, RequestOnScreen, NoModal
  <2>7. ASSUME ConfirmRequest PROVE PageInv'
    <3> DEFINE new == [id |-> issued + 1, cluster |-> modal.cluster, wizard |-> wizard, data |-> data]
    <3>1. /\ phase = "open" /\ phase' = "sending" /\ wizard' = wizard /\ data' = data
          /\ issued' = issued + 1 /\ mine' = issued + 1 /\ requests' = requests \cup {new}
          /\ modal' = modal /\ viewer' = viewer
      BY <2>7 DEF ConfirmRequest, Confirm
    <3>2. new.id = issued + 1 /\ \A r \in requests : r.id # new.id
      BY DEF PageInv
    <3>3. RequestOnScreen'
      BY <3>1 DEF RequestOnScreen
    <3>4. /\ \A r \in requests' : r.id \in 1..issued'
          /\ \A r, s \in requests' : r.id = s.id => r = s
      BY <3>1, <3>2 DEF PageInv
    <3>5. QED
      BY <3>1, <3>3, <3>4 DEF PageInv, NoModal, NoView
  <2>8. ASSUME NEW r \in requests, Succeed(r) PROVE PageInv'
    <3>1. phase' = "closed"
      BY <2>8, ClosesClosed DEF Succeed, machine
    <3>2. QED
      BY <2>8, <3>1 DEF Succeed, PageInv, RequestOnScreen
  <2>9. ASSUME NEW r \in requests, FailRequest(r) PROVE PageInv'
    <3>1. /\ requests' = requests \ {r} /\ modal' = modal /\ viewer' = viewer /\ issued' = issued
      BY <2>9 DEF FailRequest
    <3>2. CASE r.id = mine
      <4>1. phase' = "open"
        BY <2>9, <3>2 DEF FailRequest, Fail
      <4>2. phase = "sending"
        BY <2>9, <3>2 DEF FailRequest, Fail
      <4>3. QED
        BY <3>1, <4>1, <4>2 DEF PageInv, RequestOnScreen, NoModal
    <3>3. CASE r.id # mine
      <4>1. phase' = phase /\ wizard' = wizard /\ data' = data /\ mine' = mine
        BY <2>9, <3>3 DEF FailRequest, machine
      <4>2. RequestOnScreen'
        <5> DEFINE own == [id |-> mine, cluster |-> modal.cluster, wizard |-> wizard, data |-> data]
        <5>1. own # r
          BY <3>3
        <5>2. phase = "sending" => own \in requests \ {r}
          BY <5>1 DEF PageInv, RequestOnScreen
        <5>3. QED
          BY <3>1, <4>1, <5>2 DEF RequestOnScreen
      <4>3. QED
        BY <3>1, <4>1, <4>2 DEF PageInv, NoModal, NoView
    <3>4. QED
      BY <3>2, <3>3
  <2>10. ASSUME NEW c \in Clusters, NEW w \in Offered, ViewFiles(c, w) PROVE PageInv'
    <3>1. phase = "closed" /\ phase' = "closed"
      BY <2>10 DEF ViewFiles, machine, PageInv
    <3>2. QED
      BY <2>10, <3>1 DEF ViewFiles, PageInv, RequestOnScreen
  <2>11. ASSUME CloseViewer PROVE PageInv'
    <3>1. /\ phase' = phase /\ wizard' = wizard /\ data' = data /\ mine' = mine
          /\ requests' = requests /\ modal' = modal /\ issued' = issued /\ viewer' = NoView
      BY <2>11 DEF CloseViewer, machine
    <3>2. QED
      BY <3>1 DEF PageInv, RequestOnScreen, NoModal, NoView
  <2>12. CASE UNCHANGED vars
    BY <2>12 DEF vars, machine, page, PageInv, RequestOnScreen, NoModal, NoView
  <2>13. QED
    BY <2>1, <2>2, <2>3, <2>4, <2>5, <2>6, <2>7, <2>8, <2>9, <2>10, <2>11, <2>12 DEF PageNext
<1>3. QED
  BY <1>1, <1>2, PTL DEF PageSpec

(* While a wizard waits, the request it shows is under way.                  *)
THEOREM WaitsForItsOwn == PageSpec => []RequestOnScreen
<1>1. PageInv => RequestOnScreen
  BY DEF PageInv
<1>2. QED
  BY <1>1, Invariance, PTL

-----------------------------------------------------------------------------
(* The files the page keeps.                                                 *)

(* Every step of the page is a step of its wizard's machine or leaves it     *)
(* alone.                                                                    *)
LEMMA PageDrivesMachine == [PageNext]_vars => [Next]_machine
<1> SUFFICES ASSUME [PageNext]_vars PROVE [Next]_machine
  OBVIOUS
<1>1. ASSUME NEW c \in Clusters, NEW what \in Shows, OpenModal(c, what) PROVE [Next]_machine
  <2>1. CASE what = "scripts"
    BY <1>1, <2>1 DEF OpenModal
  <2>2. CASE what # "scripts"
    <3>1. what \in Offered /\ Open(what)
      BY <1>1, <2>2 DEF OpenModal, Shows
    <3>2. QED
      BY <3>1 DEF Next
  <2>3. QED
    BY <2>1, <2>2
<1>2. ASSUME NEW w \in Scripts, SelectScript(w) PROVE [Next]_machine
  BY <1>2 DEF SelectScript, Scripts, Next
<1>3. CASE BackToSelection \/ PressBack \/ ConfirmRequest \/ SubmitForm
  BY <1>3 DEF BackToSelection, PressBack, ConfirmRequest, SubmitForm, Next
<1>4. CASE CloseModal
  BY <1>4 DEF CloseModal, Next
<1>5. ASSUME NEW r \in requests, Succeed(r) \/ FailRequest(r) PROVE [Next]_machine
  <2>1. (UNCHANGED machine) \/ Close \/ Fail
    BY <1>5 DEF Succeed, FailRequest, machine
  <2>2. QED
    BY <2>1 DEF Next
<1>6. CASE CloseViewer \/ (\E c \in Clusters, w \in Offered : ViewFiles(c, w)) \/ UNCHANGED vars
  BY <1>6 DEF CloseViewer, ViewFiles, vars
<1>7. QED
  BY <1>1, <1>2, <1>3, <1>4, <1>5, <1>6 DEF PageNext

(* The page runs the wizard's machine: what holds of the machine holds on    *)
(* the page (Wizard.tsx inside MigrationFlow's modal).                       *)
THEOREM PageRunsMachine == PageSpec => Spec
<1>1. PageInit => Init
  BY DEF PageInit
<1>2. QED
  BY <1>1, PageDrivesMachine, PTL DEF PageSpec, Spec

(* One way through the wizard, from its first step to its confirmation.      *)
Complete(w, d) ==
  /\ d \in Seq(Entries(w)) /\ Len(d) > 0
  /\ w # "target_infra" => Way(w, d) /\ Following(w, d[Len(d)]) = Confirmation

(* What is asked for, and so what is kept, is complete, and the viewer shows *)
(* what is kept.                                                             *)
FilesInv ==
  /\ modal = NoModal \/ modal.cluster \in Clusters
  /\ \A r \in requests : r.cluster \in Clusters /\ r.wizard \in Offered /\ Complete(r.wizard, r.data)
  /\ DOMAIN assets = Clusters /\ \A c \in Clusters : DOMAIN assets[c] = Offered
  /\ \A c \in Clusters, w \in Offered : HasFiles(c, w) => Complete(w, assets[c][w])
  /\ viewer # NoView =>
       viewer.cluster \in Clusters /\ viewer.wizard \in Offered /\ HasFiles(viewer.cluster, viewer.wizard)

(* What a wizard on the confirmation page sends is complete.                 *)
LEMMA ConfirmsComplete ==
  ASSUME MachineInv, at = Confirmation
  PROVE  Complete(wizard, data)
BY DEF MachineInv, Matches, AtConfirmation, Complete

LEMMA FilesStep == PageInv /\ MachineInv /\ FilesInv /\ [PageNext]_vars => FilesInv'
<1> SUFFICES ASSUME PageInv, MachineInv, FilesInv, [PageNext]_vars PROVE FilesInv'
  OBVIOUS
<1>1. ASSUME UNCHANGED <<requests, assets, viewer>>, modal' = NoModal \/ modal'.cluster \in Clusters
      PROVE  FilesInv'
  BY <1>1 DEF FilesInv, HasFiles, NoModal, NoView
<1>2. ASSUME NEW c \in Clusters, NEW what \in Shows, OpenModal(c, what) PROVE FilesInv'
  BY <1>1, <1>2 DEF OpenModal
<1>3. CASE (\E w \in Scripts : SelectScript(w)) \/ BackToSelection \/ SubmitForm \/ PressBack
  <2>1. UNCHANGED <<requests, assets, viewer, modal>>
    BY <1>3 DEF SelectScript, BackToSelection, SubmitForm, PressBack, page
  <2>2. QED
    BY <1>1, <2>1 DEF FilesInv, NoModal
<1>4. CASE CloseModal
  BY <1>1, <1>4 DEF CloseModal, NoModal
<1>5. CASE ConfirmRequest
  <2> DEFINE new == [id |-> issued + 1, cluster |-> modal.cluster, wizard |-> wizard, data |-> data]
  <2>1. /\ phase = "open" /\ at = Confirmation /\ requests' = requests \cup {new}
        /\ UNCHANGED <<modal, viewer, assets>>
    BY <1>5 DEF ConfirmRequest, Confirm
  <2>2. modal # NoModal /\ modal.cluster \in Clusters /\ wizard \in Offered
    BY <2>1 DEF PageInv, FilesInv, MachineInv
  <2>3. new.cluster \in Clusters /\ new.wizard \in Offered /\ Complete(new.wizard, new.data)
    BY <2>1, <2>2, ConfirmsComplete
  <2> HIDE DEF new
  <2>4. \A r \in requests' : r.cluster \in Clusters /\ r.wizard \in Offered /\ Complete(r.wizard, r.data)
    BY <2>1, <2>3 DEF FilesInv
  <2>5. QED
    BY <2>1, <2>4 DEF FilesInv, HasFiles, NoModal, NoView
<1>6. ASSUME NEW r \in requests, Succeed(r) PROVE FilesInv'
  <2>1. /\ requests' = requests \ {r} /\ modal' = NoModal /\ viewer' = [cluster |-> r.cluster, wizard |-> r.wizard]
        /\ assets' = [assets EXCEPT ![r.cluster][r.wizard] = r.data]
    BY <1>6 DEF Succeed, StoreFiles
  <2>2. r.cluster \in Clusters /\ r.wizard \in Offered /\ Complete(r.wizard, r.data)
    BY DEF FilesInv
  <2>3. DOMAIN assets' = Clusters /\ \A c \in Clusters : DOMAIN assets'[c] = Offered
    BY <2>1, <2>2 DEF FilesInv
  <2>4. \A c \in Clusters, w \in Offered :
          assets'[c][w] = IF c = r.cluster /\ w = r.wizard THEN r.data ELSE assets[c][w]
    BY <2>1, <2>2 DEF FilesInv
  <2>5. r.data # <<>>
    BY <2>2 DEF Complete
  <2>6. \A c \in Clusters, w \in Offered : assets'[c][w] # <<>> => Complete(w, assets'[c][w])
    BY <2>2, <2>4 DEF FilesInv, HasFiles
  <2>7. /\ viewer'.cluster \in Clusters /\ viewer'.wizard \in Offered
        /\ assets'[viewer'.cluster][viewer'.wizard] # <<>>
    BY <2>1, <2>2, <2>4, <2>5
  <2>8. \A s \in requests' : s.cluster \in Clusters /\ s.wizard \in Offered /\ Complete(s.wizard, s.data)
    BY <2>1 DEF FilesInv
  <2>9. QED
    BY <2>1, <2>3, <2>6, <2>7, <2>8 DEF FilesInv, HasFiles, NoModal, NoView
<1>7. ASSUME NEW r \in requests, FailRequest(r) PROVE FilesInv'
  <2>1. requests' \subseteq requests /\ UNCHANGED <<modal, viewer, assets>>
    BY <1>7 DEF FailRequest
  <2>2. QED
    BY <2>1 DEF FilesInv, HasFiles, NoModal, NoView
<1>8. ASSUME NEW c \in Clusters, NEW w \in Offered, ViewFiles(c, w) PROVE FilesInv'
  <2>1. /\ modal' = NoModal /\ viewer' = [cluster |-> c, wizard |-> w] /\ HasFiles(c, w)
        /\ UNCHANGED <<requests, assets>>
    BY <1>8 DEF ViewFiles
  <2>2. QED
    BY <2>1 DEF FilesInv, HasFiles, NoModal, NoView
<1>9. CASE CloseViewer
  <2>1. viewer' = NoView /\ UNCHANGED <<modal, requests, assets>>
    BY <1>9 DEF CloseViewer
  <2>2. QED
    BY <2>1 DEF FilesInv, HasFiles, NoModal, NoView
<1>10. CASE UNCHANGED vars
  <2>1. UNCHANGED <<requests, assets, viewer, modal>>
    BY <1>10 DEF vars, page
  <2>2. QED
    BY <1>1, <2>1 DEF FilesInv, NoModal
<1>11. QED
  BY <1>2, <1>3, <1>4, <1>5, <1>6, <1>7, <1>8, <1>9, <1>10 DEF PageNext

THEOREM FilesInvariance == PageSpec => [](PageInv /\ MachineInv /\ FilesInv)
<1>1. PageInit => FilesInv
  <2> SUFFICES ASSUME PageInit PROVE FilesInv
    OBVIOUS
  <2>1. /\ modal = NoModal /\ viewer = NoView /\ requests = {}
        /\ assets = [c \in Clusters |-> [w \in Offered |-> <<>>]]
    BY DEF PageInit
  <2>2. QED
    BY <2>1 DEF FilesInv, HasFiles
<1>2. PageSpec => []MachineInv
  BY PageRunsMachine, MachineInvariance, PTL
<1>3. QED
  BY <1>1, <1>2, FilesStep, Invariance, PTL DEF PageSpec

(* The file viewer shows files that are there, and never beside a modal,     *)
(* whichever request was answered last (handleWizardComplete).               *)
THEOREM ViewsWhatIsThere == PageSpec => []ViewerShowsFiles
<1>1. PageInv /\ FilesInv => ViewerShowsFiles
  BY DEF PageInv, FilesInv, ViewerShowsFiles
<1>2. QED
  BY <1>1, FilesInvariance, PTL

(* The files the store keeps for a wizard, but the target infrastructure's,  *)
(* come from one way through it, also when the reply found another wizard on *)
(* the screen (setTerraformFiles).                                           *)
THEOREM KeepsWhatWasConfirmed == PageSpec => []StoredFilesConfirmed
<1>1. FilesInv => StoredFilesConfirmed
  <2> SUFFICES ASSUME FilesInv, NEW c \in Clusters, NEW w \in Offered \ {"target_infra"}, HasFiles(c, w)
               PROVE  LET d == assets[c][w] IN
                      /\ d[1].step = Wizard[w].first
                      /\ \A i \in DOMAIN d :
                           /\ d[i].step \in DOMAIN Wizard[w].forms
                           /\ Wizard[w].forms[d[i].step].next[d[i].answer]
                                = IF i = Len(d) THEN Confirmation ELSE d[i + 1].step
    BY Zenon DEF StoredFilesConfirmed
  <2> DEFINE d == assets[c][w]
  <2>1. /\ d \in Seq(Entries(w)) /\ Len(d) > 0 /\ Len(d) \in Nat
        /\ Way(w, d) /\ Following(w, d[Len(d)]) = Confirmation
    BY DEF FilesInv, Complete
  <2> HIDE DEF d
  <2>2. ASSUME NEW i \in DOMAIN d
        PROVE  /\ d[i].step \in Steps(w)
               /\ Following(w, d[i]) = IF i = Len(d) THEN Confirmation ELSE d[i + 1].step
    BY <2>1 DEF Way, Entries
  <2>3. d[1].step = Wizard[w].first
    BY <2>1 DEF Way
  <2>4. QED
    BY <2>2, <2>3 DEF Following, Steps, d
<1>2. QED
  BY <1>1, FilesInvariance, PTL
-----------------------------------------------------------------------------
(* The target infrastructure wizard. Its Back can lead to the cluster        *)
(* question from anywhere, so that its answers need not be one way; but they *)
(* are still in the order of the table, and the only turning is from an      *)
(* environment to the cluster question.                                      *)

Rank == [environment_question |-> 1, create_environment |-> 2, cluster_question |-> 3,
         create_cluster |-> 4, private_link_question |-> 5, create_private_link |-> 6]

Onward(e, s) ==
  \/ s = Following("target_infra", e)
  \/ e.step = "create_environment" /\ s = "cluster_question"

TargetWay(d) ==
  /\ Len(d) > 0 /\ d[1].step = "environment_question"
  /\ \A i \in 1..(Len(d) - 1) : Onward(d[i], d[i + 1].step)
  /\ \A i, j \in 1..Len(d) : i < j => Rank[d[i].step] < Rank[d[j].step]

(* Where step s can be shown after the last answer e, coming from step p.    *)
Shown(e, s, p) ==
  /\ \/ Onward(e, s) \/ e.step = s
     \/ s = "cluster_question" /\ e.step = "create_cluster"
  /\ s = "private_link_question" /\ p \in {"create_environment", "create_cluster"} => e.step = p

(* On the first question, which starts everything anew, older answers may    *)
(* have lost theirs.                                                         *)
TargetInv ==
  wizard = "target_infra" =>
    IF at = "environment_question" THEN Len(data) > 0 => data[1].step = at
    ELSE TargetWay(data) /\ Shown(data[Len(data)], at, previous)

(* The table, answer by answer.                                              *)
LEMMA TargetAnswers ==
  ASSUME NEW e \in Entries("target_infra")
  PROVE  LET s == Following("target_infra", e) IN
         \/ e.step = "environment_question" /\ e.answer = "yes" /\ s = "create_environment"
         \/ e.step = "environment_question" /\ e.answer = "no" /\ s = "cluster_question"
         \/ e.step = "create_environment" /\ e.answer \in Inputs /\ s = "private_link_question"
         \/ e.step = "cluster_question" /\ e.answer = "yes" /\ s = "create_cluster"
         \/ e.step = "cluster_question" /\ e.answer = "no" /\ s = Confirmation
         \/ e.step = "create_cluster" /\ e.answer \in Inputs /\ s = "private_link_question"
         \/ e.step = "private_link_question" /\ e.answer = "yes" /\ s = "create_private_link"
         \/ e.step = "private_link_question" /\ e.answer = "no" /\ s = Confirmation
         \/ e.step = "create_private_link" /\ e.answer \in Inputs /\ s = Confirmation
<1> DEFINE w == "target_infra"
<1>1. Steps(w) = {"environment_question", "create_environment", "cluster_question", "create_cluster",
                  "private_link_question", "create_private_link"}
  BY DEF Wizard, TargetInfra, Steps
<1>2. /\ Wizard[w].forms["environment_question"] = EnvironmentQuestion
      /\ Wizard[w].forms["create_environment"] = CreateEnvironment
      /\ Wizard[w].forms["cluster_question"] = ClusterQuestion
      /\ Wizard[w].forms["create_cluster"] = CreateCluster
      /\ Wizard[w].forms["private_link_question"] = PrivateLinkQuestion
      /\ Wizard[w].forms["create_private_link"] = CreatePrivateLink
  BY DEF Wizard, TargetInfra
<1>3. e.step \in Steps(w) /\ e.answer \in Wizard[w].forms[e.step].answers
  BY DEF Entries
<1> HIDE DEF w
<1>4. /\ EnvironmentQuestion.answers = {"yes", "no"}
      /\ EnvironmentQuestion.next["yes"] = "create_environment"
      /\ EnvironmentQuestion.next["no"] = "cluster_question"
  BY DEF EnvironmentQuestion, Ask
<1>5. CreateEnvironment.answers = Inputs /\ \A a \in Inputs : CreateEnvironment.next[a] = "private_link_question"
  BY DEF CreateEnvironment, Fill, Ask
<1>6. /\ ClusterQuestion.answers = {"yes", "no"}
      /\ ClusterQuestion.next["yes"] = "create_cluster"
      /\ ClusterQuestion.next["no"] = Confirmation
  BY DEF ClusterQuestion, Ask
<1>7. CreateCluster.answers = Inputs /\ \A a \in Inputs : CreateCluster.next[a] = "private_link_question"
  BY DEF CreateCluster, Fill, Ask
<1>8. /\ PrivateLinkQuestion.answers = {"yes", "no"}
      /\ PrivateLinkQuestion.next["yes"] = "create_private_link"
      /\ PrivateLinkQuestion.next["no"] = Confirmation
  BY DEF PrivateLinkQuestion, Ask
<1>9. CreatePrivateLink.answers = Inputs /\ \A a \in Inputs : CreatePrivateLink.next[a] = Confirmation
  BY DEF CreatePrivateLink, Fill, Ask
<1>10. QED
  BY <1>1, <1>2, <1>3, <1>4, <1>5, <1>6, <1>7, <1>8, <1>9 DEF Following, w

(* Where one gets from an answer comes later in the order.                   *)
LEMMA OnwardIsLater ==
  ASSUME NEW e \in Entries("target_infra"), NEW s, Onward(e, s)
  PROVE  /\ s # Confirmation => s \in DOMAIN Rank /\ Rank[e.step] < Rank[s]
         /\ e.step \in DOMAIN Rank /\ s # "environment_question"
         /\ s = "create_cluster" => e.step = "cluster_question"
         /\ s = "private_link_question" => e.step \in {"create_environment", "create_cluster"}
         /\ s = "create_private_link" => e.step = "private_link_question"
         /\ s = Confirmation =>
              e.step \in {"cluster_question", "private_link_question", "create_private_link"}
<1>1. /\ DOMAIN Rank = {"environment_question", "create_environment", "cluster_question",
                       "create_cluster", "private_link_question", "create_private_link"}
      /\ Rank["environment_question"] = 1 /\ Rank["create_environment"] = 2
      /\ Rank["cluster_question"] = 3 /\ Rank["create_cluster"] = 4
      /\ Rank["private_link_question"] = 5 /\ Rank["create_private_link"] = 6
  BY DEF Rank
<1>2. CASE e.step = "create_environment" /\ s = "cluster_question"
  BY <1>1, <1>2 DEF Confirmation
<1>3. CASE s = Following("target_infra", e)
  BY <1>1, <1>3, TargetAnswers DEF Confirmation
<1>4. QED
  BY <1>2, <1>3 DEF Onward

(* An answer goes on from its step.                                          *)
LEMMA TargetAndSubmit ==
  ASSUME MachineInv, TargetInv, wizard = "target_infra", NEW a \in Form.answers, Submit(a)
  PROVE  TargetInv'
<1> DEFINE entry == [step |-> at, answer |-> a]
           L == Len(data)
<1>1. /\ wizard' = wizard /\ at \in Steps(wizard) /\ previous' = at
      /\ at' = Following("target_infra", entry) /\ SaveStepData(at, a)
      /\ a \in Wizard[wizard].forms[at].answers
  BY DEF MachineInv, Submit, Form, Following, SaveStepData
<1>2. PICK k \in 1..(L + 1) :
        /\ k = L + 1 \/ data[k].step = at
        /\ \A i \in 1..(k - 1) : data[i].step # at
        /\ data' = Append(SubSeq(data, 1, k - 1), entry)
  BY <1>1, SaveCuts DEF MachineInv
<1>3. entry \in Entries("target_infra") /\ entry.step = at
  BY <1>1 DEF Entries, Answers
<1> HIDE DEF entry
<1>4. /\ data \in Seq(Entries("target_infra")) /\ L \in Nat /\ Len(data') = k /\ data'[k] = entry
      /\ \A i \in 1..(k - 1) : data'[i] = data[i]
      /\ \A i \in 1..L : data[i] \in Entries("target_infra")
  BY <1>2, <1>3 DEF MachineInv, Matches
<1>5. Onward(entry, at')
  BY <1>1 DEF Onward
<1>6. at' # "environment_question"
  BY <1>3, <1>5, OnwardIsLater
<1>7. Shown(data'[Len(data')], at', previous')
  BY <1>1, <1>3, <1>4, <1>5 DEF Shown
<1>8. CASE at = "environment_question"
  <2>1. k = 1
    BY <1>2, <1>4, <1>8 DEF TargetInv
  <2>2. TargetWay(data')
    BY <1>3, <1>4, <1>8, <2>1 DEF TargetWay
  <2>3. QED
    BY <1>1, <1>6, <1>7, <2>2 DEF TargetInv
<1>9. CASE at # "environment_question"
  <2>1. TargetWay(data) /\ Shown(data[L], at, previous)
    BY <1>9 DEF TargetInv
  <2>2. k > 1
    BY <1>2, <1>4, <1>9, <2>1 DEF TargetWay
  <2>3. Onward(data[k - 1], at)
    <3>1. CASE k <= L
      <4>1. k - 1 \in 1..(L - 1) /\ (k - 1) + 1 = k /\ data[k].step = at
        BY <1>2, <1>4, <2>2, <3>1
      <4>2. QED
        BY <2>1, <4>1 DEF TargetWay
    <3>2. CASE k = L + 1
      <4>1. L \in 1..(k - 1) /\ k - 1 = L
        BY <1>4, <2>2, <3>2
      <4>2. data[L].step # at
        BY <1>2, <4>1
      <4>3. ASSUME at = "cluster_question", data[L].step = "create_cluster"
            PROVE  FALSE
        <5>1. L - 1 \in 1..(L - 1) /\ L - 1 \in 1..(k - 1) /\ (L - 1) + 1 = L /\ L - 1 \in 1..L
          BY <1>4, <2>1, <4>1, <4>3 DEF TargetWay
        <5>2. Onward(data[L - 1], "create_cluster")
          BY <2>1, <4>3, <5>1 DEF TargetWay
        <5>3. data[L - 1].step = "cluster_question"
          BY <1>4, <5>1, <5>2, OnwardIsLater
        <5>4. QED
          BY <1>2, <4>3, <5>1, <5>3
      <4>4. QED
        BY <2>1, <4>1, <4>2, <4>3 DEF Shown
    <3>3. QED
      BY <1>4, <3>1, <3>2
  <2>4. k - 1 \in 1..L /\ k - 1 \in 1..(k - 1)
    BY <1>4, <2>2
  <2>5. Rank[data[k - 1].step] < Rank[at]
    BY <1>1, <1>4, <2>3, <2>4, TargetInfraTable, OnwardIsLater
  <2>6. ASSUME NEW i \in 1..(k - 1) PROVE Rank[data[i].step] < Rank[at]
    <3>1. i \in 1..L /\ k - 1 \in 1..L /\ (i = k - 1 \/ i < k - 1)
      BY <1>4, <2>4
    <3>2. i < k - 1 => Rank[data[i].step] < Rank[data[k - 1].step]
      BY <2>1, <3>1 DEF TargetWay
    <3>3. /\ Rank[data[i].step] \in Int /\ Rank[data[k - 1].step] \in Int /\ Rank[at] \in Int
      <4>1. \A s \in Steps("target_infra") : Rank[s] \in Int
        BY DEF Rank, Steps, Wizard, TargetInfra
      <4>2. data[i].step \in Steps("target_infra") /\ data[k - 1].step \in Steps("target_infra")
        BY <1>4, <3>1 DEF Entries
      <4>3. QED
        BY <1>1, <4>1, <4>2
    <3>4. QED
      BY <2>5, <3>1, <3>2, <3>3
  <2>7. ASSUME NEW i \in 1..k, NEW j \in 1..k, i < j
        PROVE  Rank[data'[i].step] < Rank[data'[j].step]
    <3>1. i \in 1..(k - 1) /\ data'[i] = data[i]
      BY <1>4, <2>7
    <3>2. CASE j = k
      BY <1>3, <1>4, <2>6, <3>1, <3>2
    <3>3. CASE j < k
      <4>1. i \in 1..L /\ j \in 1..L /\ data'[j] = data[j]
        BY <1>4, <3>1, <3>3
      <4>2. QED
        BY <2>1, <2>7, <3>1, <4>1 DEF TargetWay
    <3>4. QED
      BY <3>2, <3>3
  <2>8. ASSUME NEW i \in 1..(k - 1)
        PROVE  Onward(data'[i], data'[i + 1].step)
    <3>1. CASE i = k - 1
      BY <1>3, <1>4, <2>3, <2>4, <3>1
    <3>2. CASE i < k - 1
      <4>1. i \in 1..(L - 1) /\ data'[i] = data[i] /\ data'[i + 1] = data[i + 1]
        BY <1>4, <3>2
      <4>2. QED
        BY <2>1, <4>1 DEF TargetWay
    <3>3. QED
      BY <3>1, <3>2
  <2>9. data'[1].step = "environment_question"
    BY <1>4, <2>1, <2>2 DEF TargetWay
  <2>10. TargetWay(data')
    BY <1>4, <2>2, <2>7, <2>8, <2>9 DEF TargetWay
  <2>11. QED
    BY <1>1, <1>6, <1>7, <2>10 DEF TargetInv
<1>10. QED
  BY <1>8, <1>9

(* Where Back leads from each step.                                          *)
LEMMA TargetBack ==
  ASSUME MachineInv, wizard = "target_infra", Back
  PROVE  /\ at \in {"create_environment", "cluster_question"} => at' = "environment_question"
         /\ at = "create_cluster" => at' = "cluster_question"
         /\ at = "private_link_question" =>
              at' = IF previous \in {"create_environment", "create_cluster"} THEN previous
                    ELSE "cluster_question"
         /\ at = "create_private_link" => at' = "private_link_question"
         /\ at = Confirmation =>
              at' = IF previous \in {"create_private_link", "private_link_question"} THEN previous
                    ELSE "cluster_question"
<1> DEFINE rules == BackRules("target_infra", at)
<1>1. /\ at' = rules[Min(Applicable)].to
      /\ Applicable = {i \in DOMAIN rules : rules[i].from \in {Anywhere, previous}}
      /\ Applicable \subseteq Nat /\ Applicable # {}
  BY BackLeads DEF Back, Applicable
<1>2. Min(Applicable) \in Applicable /\ \A i \in Applicable : Min(Applicable) <= i
  BY <1>1, LeastNumber
<1>3. /\ Wizard["target_infra"].forms["create_environment"] = CreateEnvironment
      /\ Wizard["target_infra"].forms["cluster_question"] = ClusterQuestion
      /\ Wizard["target_infra"].forms["create_cluster"] = CreateCluster
      /\ Wizard["target_infra"].forms["private_link_question"] = PrivateLinkQuestion
      /\ Wizard["target_infra"].forms["create_private_link"] = CreatePrivateLink
      /\ Wizard["target_infra"].back = TargetInfraConfirmation
  BY DEF Wizard, TargetInfra
<1>4. /\ at = "create_environment" => rules = <<Goto("environment_question")>>
      /\ at = "cluster_question" => rules = <<Goto("environment_question")>>
      /\ at = "create_cluster" => rules = <<Goto("cluster_question")>>
      /\ at = "create_private_link" => rules = <<Goto("private_link_question")>>
      /\ at = "private_link_question" =>
           rules = <<CameFrom("create_environment"), CameFrom("create_cluster"), Goto("cluster_question")>>
      /\ at = Confirmation =>
           rules = <<CameFrom("create_private_link"), CameFrom("private_link_question"),
                     Goto("cluster_question")>>
  BY <1>3 DEF BackRules, CreateEnvironment, ClusterQuestion, CreateCluster, CreatePrivateLink,
              PrivateLinkQuestion, TargetInfraConfirmation, Fill, Ask, Confirmation
<1> HIDE DEF rules
<1>5. ASSUME NEW s, rules = <<Goto(s)>>
      PROVE  at' = s
  <2>1. DOMAIN rules = {1} /\ rules[1].to = s
    BY <1>5 DEF Goto
  <2>2. Min(Applicable) = 1
    BY <1>1, <1>2, <2>1
  <2>3. QED
    BY <1>1, <2>1, <2>2
<1>6. ASSUME NEW s, NEW t, NEW u, rules = <<CameFrom(s), CameFrom(t), Goto(u)>>,
             s # t, Anywhere \notin {s, t}
      PROVE  at' = IF previous \in {s, t} THEN previous ELSE u
  <2>1. /\ DOMAIN rules = {1, 2, 3}
        /\ rules[1].from = s /\ rules[1].to = s /\ rules[2].from = t /\ rules[2].to = t
        /\ rules[3].from = Anywhere /\ rules[3].to = u
    BY <1>6 DEF CameFrom, Goto
  <2>2. /\ 1 \in Applicable <=> previous = s
        /\ 2 \in Applicable <=> previous = t
        /\ 3 \in Applicable
        /\ Applicable \subseteq {1, 2, 3}
    BY <1>1, <1>6, <2>1
  <2>3. CASE previous = s
    <3>1. 1 \in Applicable
      BY <2>2, <2>3
    <3>2. Min(Applicable) \in {1, 2, 3} /\ Min(Applicable) <= 1
      BY <1>2, <2>2, <3>1
    <3>3. Min(Applicable) = 1
      BY <3>2
    <3>4. QED
      BY <1>1, <2>1, <2>3, <3>3
  <2>4. CASE previous = t
    <3>1. 1 \notin Applicable /\ 2 \in Applicable
      BY <1>6, <2>2, <2>4
    <3>2. Min(Applicable) \in {1, 2, 3} /\ Min(Applicable) # 1 /\ Min(Applicable) <= 2
      BY <1>2, <2>2, <3>1
    <3>3. Min(Applicable) = 2
      BY <3>2
    <3>4. QED
      BY <1>1, <2>1, <2>4, <3>3
  <2>5. CASE previous \notin {s, t}
    <3>1. Min(Applicable) = 3
      BY <1>2, <2>2, <2>5
    <3>2. QED
      BY <1>1, <2>1, <2>5, <3>1
  <2>6. QED
    BY <2>3, <2>4, <2>5
<1>7. at = "private_link_question" =>
        at' = IF previous \in {"create_environment", "create_cluster"} THEN previous
              ELSE "cluster_question"
  BY <1>4, <1>6 DEF Anywhere
<1>8. at = Confirmation =>
        at' = IF previous \in {"create_private_link", "private_link_question"} THEN previous
              ELSE "cluster_question"
  BY <1>4, <1>6 DEF Anywhere
<1>9. QED
  BY <1>4, <1>5, <1>7, <1>8

(* Back shows the step of the last answer that is left, the first question,  *)
(* or the cluster question after an environment or a cluster.                *)
LEMMA TargetAndBack ==
  ASSUME MachineInv, TargetInv, wizard = "target_infra", Back
  PROVE  TargetInv'
<1> DEFINE L == Len(data)
<1>1. /\ wizard' = wizard /\ at \in Steps("target_infra") \cup {Confirmation}
      /\ at # "environment_question" /\ UndoSaveStepData /\ previous' = at
      /\ Matches(wizard, data, visited)
  BY DEF MachineInv, Back, BackOffered, UndoSaveStepData, Wizard, TargetInfra
<1>2. /\ data \in Seq(Entries("target_infra")) /\ L \in Nat
      /\ \A i \in 1..L : data[i] \in Entries("target_infra") /\ data[i].step \in Steps("target_infra")
  BY <1>1 DEF Matches, Entries
<1>3. TargetWay(data) /\ Shown(data[L], at, previous) /\ L \in 1..L /\ L > 0
  BY <1>1, <1>2 DEF TargetInv, TargetWay
<1>4. \/ \A i \in 1..L : data[i].step # at /\ data' = data
      \/ \E k \in 1..L : data[k].step = at /\ data' = AllBut(data, k)
  BY <1>1, UndoCuts
<1>5. Steps("target_infra") = DOMAIN Rank /\ Confirmation \notin DOMAIN Rank
      /\ \A s \in DOMAIN Rank : Rank[s] \in Int
  BY DEF Steps, Wizard, TargetInfra, Rank, Confirmation
<1>6. CASE at' = "environment_question"
  <2>1. CASE data' = data
    BY <1>1, <1>3, <1>6, <2>1 DEF TargetInv, TargetWay
  <2>2. CASE \E k \in 1..L : data[k].step = at /\ data' = AllBut(data, k)
    <3>1. PICK k \in 1..L : data[k].step = at /\ data' = AllBut(data, k)
      BY <2>2
    <3>2. k # 1
      BY <1>1, <1>3, <3>1 DEF TargetWay
    <3>3. data'[1] = data[1]
      BY <1>2, <3>1, <3>2 DEF AllBut
    <3>4. QED
      BY <1>1, <1>3, <1>6, <3>3 DEF TargetInv, TargetWay
  <2>3. QED
    BY <1>3, <1>4, <2>1, <2>2
<1>7. ASSUME NEW e \in Entries("target_infra"), Onward(e, at), at' # "environment_question",
             at = "private_link_question" /\ previous \in {"create_environment", "create_cluster"}
               => e.step = previous,
             at = Confirmation => previous = e.step
      PROVE  Shown(e, at', previous')
  <2>1. at \in {"create_cluster", "private_link_question", "create_private_link", Confirmation}
    BY <1>1, <1>5, <1>7, TargetBack DEF Rank
  <2>2. \/ at' = e.step
        \/ at' = "cluster_question" /\ e.step \in {"create_environment", "create_cluster"}
    <3>1. CASE at \in {"create_cluster", "create_private_link"}
      BY <1>7, <3>1, OnwardIsLater, TargetBack
    <3>2. CASE at = "private_link_question"
      BY <1>7, <3>2, OnwardIsLater, TargetBack
    <3>3. CASE at = Confirmation
      <4>1. e.step \in {"cluster_question", "private_link_question", "create_private_link"}
        BY <1>7, <3>3, OnwardIsLater
      <4>2. at' = IF e.step \in {"create_private_link", "private_link_question"} THEN e.step
                  ELSE "cluster_question"
        BY <1>7, <3>3, TargetBack
      <4>3. QED
        BY <4>1, <4>2
    <3>4. QED
      BY <2>1, <3>1, <3>2, <3>3
  <2>3. at' = "private_link_question" => at \notin {"create_environment", "create_cluster"}
    BY <2>1, TargetBack
  <2>4. QED
    BY <1>1, <2>2, <2>3 DEF Shown, Onward
<1>8. CASE at' # "environment_question" /\ Onward(data[L], at)
  <2>1. \A i \in 1..L : data[i].step # at
    <3>1. at \in DOMAIN Rank => Rank[data[L].step] < Rank[at]
      BY <1>2, <1>3, <1>5, <1>8, OnwardIsLater
    <3>2. ASSUME NEW i \in 1..L, data[i].step = at PROVE FALSE
      <4>1. at \in DOMAIN Rank /\ data[L].step \in DOMAIN Rank
        BY <1>2, <1>3, <1>5, <3>2
      <4>2. i # L => Rank[at] < Rank[data[L].step]
        BY <1>2, <1>3, <3>2 DEF TargetWay
      <4>3. i = L => data[L].step = at
        BY <3>2
      <4>4. QED
        BY <1>5, <3>1, <4>1, <4>2, <4>3
    <3>3. QED
      BY <3>2
  <2>2. data' = data
    BY <1>3, <1>4, <2>1
  <2>3. at = "private_link_question" /\ previous \in {"create_environment", "create_cluster"}
          => data[L].step = previous
    BY <1>3 DEF Shown
  <2>4. at = Confirmation => previous = data[L].step
    BY DEF MachineInv, AtConfirmation
  <2>5. Shown(data[L], at', previous')
    BY <1>2, <1>3, <1>7, <1>8, <2>3, <2>4
  <2>6. QED
    BY <1>1, <1>3, <1>8, <2>2, <2>5 DEF TargetInv
<1>9. CASE at' # "environment_question" /\ data[L].step = at
  <2>1. data' = AllBut(data, L)
    BY <1>1, <1>3, <1>4, <1>9 DEF Matches
  <2>2. L > 1
    BY <1>1, <1>2, <1>3, <1>9 DEF TargetWay
  <2> DEFINE n == L - 1
  <2>3. n \in Nat /\ n > 0 /\ n \in 1..L /\ n \in 1..(L - 1) /\ n + 1 = L
    BY <1>2, <2>2
  <2> HIDE DEF n
  <2>4. Len(data') = n /\ \A i \in 1..n : data'[i] = data[i]
    BY <1>2, <2>1, <2>3 DEF AllBut, n
  <2>5. Onward(data[n], at)
    BY <1>3, <1>9, <2>3 DEF TargetWay
  <2>6. TargetWay(data')
    BY <1>2, <1>3, <2>3, <2>4 DEF TargetWay
  <2>7. data[n] \in Entries("target_infra") /\ data'[n] = data[n]
    BY <1>2, <2>3, <2>4
  <2>8. /\ at # Confirmation
        /\ ~ (at = "private_link_question" /\ previous \in {"create_environment", "create_cluster"})
    BY <1>2, <1>3, <1>5, <1>9 DEF Shown
  <2>9. Shown(data[n], at', previous')
    BY <1>7, <1>9, <2>5, <2>7, <2>8
  <2>10. QED
    BY <1>1, <1>9, <2>4, <2>6, <2>7, <2>9 DEF TargetInv
<1>10. at = "cluster_question" => at' = "environment_question"
  BY TargetBack
<1>11. QED
  BY <1>3, <1>6, <1>8, <1>9, <1>10 DEF Shown

(* The invariant of the target infrastructure wizard, step by step.          *)
LEMMA TargetAndNext == MachineInv /\ TargetInv /\ [Next]_machine => TargetInv'
<1> SUFFICES ASSUME MachineInv, TargetInv, [Next]_machine PROVE TargetInv'
  OBVIOUS
<1>1. ASSUME NEW w \in Offered, Open(w)
      PROVE  TargetInv'
  <2>1. wizard' = w /\ at' = Wizard[w].first /\ data' = <<>>
    BY <1>1 DEF Open
  <2>2. w = "target_infra" => Wizard[w].first = "environment_question"
    BY DEF Wizard, TargetInfra
  <2>3. QED
    BY <2>1, <2>2 DEF TargetInv
<1>2. CASE UNCHANGED <<wizard, at, data, visited, previous>>
  BY <1>2 DEF TargetInv
<1>3. CASE UNCHANGED machine \/ Confirm \/ Fail \/ Close
  BY <1>2, <1>3 DEF machine, Confirm, Fail, Close
<1>4. ASSUME NEW a \in Form.answers, Submit(a)
      PROVE  TargetInv'
  BY <1>4, TargetAndSubmit DEF TargetInv, Submit
<1>5. ASSUME Back
      PROVE  TargetInv'
  BY <1>5, TargetAndBack DEF TargetInv, Back
<1>6. QED
  BY <1>1, <1>3, <1>4, <1>5 DEF Next

-----------------------------------------------------------------------------
(* What the target infrastructure wizard sends.                              *)

(* A set of numbers up to n that is not empty has a greatest element.        *)
LEMMA GreatestNumber ==
  ASSUME NEW n \in Nat, NEW S \in SUBSET (1..n), S # {}
  PROVE  Max(S) \in S
<1> DEFINE T == {n - m : m \in S}
<1>1. T \subseteq Nat /\ T # {}
  <2>1. PICK m \in S : TRUE
    OBVIOUS
  <2>2. \A k \in S : n - k \in Nat
    OBVIOUS
  <2>3. n - m \in T
    BY <2>1
  <2>4. QED
    BY <2>2, <2>3
<1>2. PICK t \in T : \A u \in T : t <= u
  BY <1>1, LeastNumber
<1>3. PICK m \in S : t = n - m
  BY <1>2
<1>4. \A k \in S : k <= m
  <2> TAKE k \in S
  <2>1. n - m <= n - k /\ m \in Nat /\ k \in Nat
    BY <1>2, <1>3
  <2>2. QED
    BY <2>1
<1>5. QED
  BY <1>4 DEF Max

(* The cluster of a request is one a form was filled with, or none; and it   *)
(* is one when a form with cluster fields was submitted.                     *)
LEMMA LastFillingIsOne ==
  ASSUME NEW d \in Seq(Entries("target_infra")), NEW types
  PROVE  /\ LastFilling(d, types) \in {NoCluster} \cup {Cluster[a] : a \in Inputs}
         /\ types = AnyType /\ Keys(d) \cap ClusterForms # {}
              => LastFilling(d, types) \in {Cluster[a] : a \in Inputs}
<1>1. Len(d) \in Nat /\ DOMAIN d = 1..Len(d) /\ \A i \in 1..Len(d) : d[i] \in Entries("target_infra")
  OBVIOUS
<1>2. \A i \in 1..Len(d) : d[i].step \in ClusterForms => d[i].answer \in Inputs
  BY <1>1, TargetAnswers DEF ClusterForms
<1>3. Fillings(d, types) \subseteq 1..Len(d) /\ \A i \in Fillings(d, types) : d[i].answer \in Inputs
  BY <1>1, <1>2 DEF Fillings
<1>4. Fillings(d, types) # {} => LastFilling(d, types) \in {Cluster[a] : a \in Inputs}
  <2> SUFFICES ASSUME Fillings(d, types) # {}
               PROVE  LastFilling(d, types) \in {Cluster[a] : a \in Inputs}
    OBVIOUS
  <2>1. Max(Fillings(d, types)) \in Fillings(d, types)
    BY <1>1, <1>3, GreatestNumber
  <2>2. QED
    BY <1>3, <2>1 DEF LastFilling
<1>5. Fillings(d, types) = {} => LastFilling(d, types) = NoCluster
  BY DEF LastFilling
<1>6. types = AnyType /\ Keys(d) \cap ClusterForms # {} => Fillings(d, types) # {}
  <2> SUFFICES ASSUME types = AnyType, NEW i \in DOMAIN d, d[i].step \in ClusterForms
               PROVE  i \in Fillings(d, types)
    BY DEF Keys
  <2>1. Cluster[d[i].answer].cluster_type \in AnyType
    BY <1>1, <1>2, FillingAssumption DEF AnyType
  <2>2. QED
    BY <2>1 DEF Fillings
<1>7. QED
  BY <1>4, <1>5, <1>6

(* A question that leads to a form is answered with the form.                *)
LEMMA FormsAreFilled ==
  ASSUME NEW d \in Seq(Entries("target_infra")), TargetWay(d),
         Following("target_infra", d[Len(d)]) = Confirmation
  PROVE  /\ Answered(d, "environment_question", "yes") => "create_environment" \in Keys(d)
         /\ Answered(d, "cluster_question", "yes") => "create_cluster" \in Keys(d)
         /\ Answered(d, "private_link_question", "yes") => "create_private_link" \in Keys(d)
<1>1. Len(d) \in Nat /\ DOMAIN d = 1..Len(d) /\ \A i \in 1..Len(d) : d[i] \in Entries("target_infra")
  OBVIOUS
<1>2. ASSUME NEW i \in DOMAIN d, Following("target_infra", d[i]) # Confirmation,
             d[i].step # "create_environment"
      PROVE  Following("target_infra", d[i]) \in Keys(d)
  <2>1. i \in 1..(Len(d) - 1) /\ i + 1 \in DOMAIN d
    BY <1>1, <1>2
  <2>2. d[i + 1].step = Following("target_infra", d[i])
    BY <1>2, <2>1 DEF TargetWay, Onward
  <2>3. QED
    BY <2>1, <2>2 DEF Keys
<1>3. ASSUME NEW s, NEW f, s # "create_environment", f # Confirmation, Answered(d, s, "yes"),
             \A e \in Entries("target_infra") :
                e.step = s /\ e.answer = "yes" => Following("target_infra", e) = f
      PROVE  f \in Keys(d)
  BY <1>1, <1>2, <1>3 DEF Answered
<1>4. \A e \in Entries("target_infra") :
        /\ e.step = "environment_question" /\ e.answer = "yes"
             => Following("target_infra", e) = "create_environment"
        /\ e.step = "cluster_question" /\ e.answer = "yes"
             => Following("target_infra", e) = "create_cluster"
        /\ e.step = "private_link_question" /\ e.answer = "yes"
             => Following("target_infra", e) = "create_private_link"
  BY TargetAnswers
<1>5. QED
  BY <1>3, <1>4 DEF Confirmation

(* What every body the wizard sends has in it.                               *)
TargetSent(r) ==
  /\ r \in Target!Request
  /\ Target!CreatesCluster(r) => "cluster_name" \in r.given /\ r.cluster_type # ""
  /\ r.needs_environment => "environment_name" \in r.given
  /\ r.needs_cluster => "environment_id" \in r.given
  /\ r.needs_private_link => {"vpc_id", "subnet_cidr_ranges"} \subseteq r.given

LEMMA TargetSends ==
  ASSUME NEW d \in Seq(Entries("target_infra")), TargetWay(d),
         Following("target_infra", d[Len(d)]) = Confirmation
  PROVE  TargetSent(TargetRequest(d))
<1> DEFINE r == TargetRequest(d)
<1>1. /\ r.needs_environment = Answered(d, "environment_question", "yes")
      /\ r.needs_cluster = Answered(d, "cluster_question", "yes")
      /\ r.needs_private_link = Answered(d, "private_link_question", "yes")
      /\ r.cluster_type = LastFilling(d, AnyType).cluster_type
      /\ r.given = When("create_environment" \in Keys(d), {"environment_name", "cluster_name"})
             \cup When("create_cluster" \in Keys(d), {"environment_id", "cluster_name"})
             \cup When("create_private_link" \in Keys(d), {"vpc_id", "subnet_cidr_ranges"})
  BY Zenon DEF TargetRequest
<1>2. \A f \in {NoCluster} \cup {Cluster[a] : a \in Inputs} :
        /\ f.cluster_type \in ClusterTypes /\ f.prevent_destroy \in BOOLEAN
        /\ f.cluster_availability \in Target!Availabilities /\ f.cluster_cku \in Nat
  <2>1. /\ NoCluster.cluster_type \in ClusterTypes /\ NoCluster.prevent_destroy \in BOOLEAN
        /\ NoCluster.cluster_availability \in Target!Availabilities
        /\ NoCluster.cluster_cku \in Nat
    BY FillingAssumption DEF NoCluster, Target!Availabilities
  <2>2. ASSUME NEW a \in Inputs
        PROVE  /\ Cluster[a].cluster_type \in ClusterTypes /\ Cluster[a].prevent_destroy \in BOOLEAN
               /\ Cluster[a].cluster_availability \in Target!Availabilities
               /\ Cluster[a].cluster_cku \in Nat
    BY FillingAssumption
  <2>3. QED
    BY <2>1, <2>2
<1>3. r \in Target!Request
  <2>1. r.given \subseteq Target!Fields
    BY <1>1 DEF When, Target!Fields
  <2>2. /\ Answered(d, "environment_question", "yes") \in BOOLEAN
        /\ Answered(d, "cluster_question", "yes") \in BOOLEAN
        /\ Answered(d, "private_link_question", "yes") \in BOOLEAN
    BY DEF Answered
  <2>3. /\ LastFilling(d, AnyType).cluster_type \in ClusterTypes
        /\ LastFilling(d, AnyType).prevent_destroy \in BOOLEAN
        /\ LastFilling(d, {"dedicated"}).cluster_availability \in Target!Availabilities
        /\ LastFilling(d, {"dedicated"}).cluster_cku \in Nat
    BY <1>2, LastFillingIsOne
  <2>4. QED
    BY <1>1, <2>1, <2>2, <2>3 DEF TargetRequest, Target!Request
<1>4. /\ r.needs_environment => "create_environment" \in Keys(d)
      /\ r.needs_cluster => "create_cluster" \in Keys(d)
      /\ r.needs_private_link => "create_private_link" \in Keys(d)
  BY <1>1, FormsAreFilled
<1> HIDE DEF r
<1>5. Target!CreatesCluster(r) => Keys(d) \cap ClusterForms # {}
  BY <1>4 DEF Target!CreatesCluster, ClusterForms
<1>6. Target!CreatesCluster(r) => r.cluster_type # ""
  <2>1. \A a \in Inputs : Cluster[a].cluster_type # ""
    BY FillingAssumption
  <2>2. QED
    BY <1>1, <1>5, <2>1, LastFillingIsOne
<1>7. TargetSent(r)
  BY <1>1, <1>3, <1>4, <1>6 DEF TargetSent, When, Target!CreatesCluster
<1>8. QED
  BY <1>7 DEF r

(* The defaults the server fills in take nothing away.                       *)
LEMMA DefaultsKeep ==
  ASSUME NEW r, TargetSent(r)
  PROVE  LET s == Target!WithDefaults(r) IN
         /\ TargetSent(s) /\ Target!CreatesCluster(s) = Target!CreatesCluster(r)
         /\ Target!Dedicated(s) => s.cluster_availability # ""
<1>1. CASE ~Target!Dedicated(r)
  BY <1>1 DEF Target!WithDefaults
<1>2. CASE Target!Dedicated(r)
  <2> DEFINE s == Target!WithDefaults(r)
  <2>1. r \in Target!Request
    BY DEF TargetSent
  <2>2. /\ s \in Target!Request /\ s.given = r.given /\ s.cluster_type = r.cluster_type
        /\ s.needs_environment = r.needs_environment /\ s.needs_cluster = r.needs_cluster
        /\ s.needs_private_link = r.needs_private_link
        /\ s.cluster_availability # ""
    BY <1>2, <2>1 DEF Target!WithDefaults, Target!Request, Target!Availabilities
  <2> HIDE DEF s
  <2>3. TargetSent(s) /\ Target!CreatesCluster(s) = Target!CreatesCluster(r)
    BY <2>2 DEF TargetSent, Target!CreatesCluster
  <2>4. QED
    BY <2>2, <2>3 DEF s
<1>3. QED
  BY <1>1, <1>2

-----------------------------------------------------------------------------
(* What is proved of the two generators holds for the requests of the        *)
(* wizards. It is cited from the modules of the two commands, whose state    *)
(* and command lines are of no use here.                                     *)

TP == INSTANCE TargetInfra_proofs WITH
        Flags <- {}, MaxRuns <- 1, phase <- "idle", flags <- 0, request <- 0, left <- <<>>,
        disk <- 0, run <- 0
MP == INSTANCE MigrationInfra_proofs WITH
        Flags <- {}, MaxRuns <- 1, Clusters <- {}, phase <- "idle", flags <- 0, request <- 0,
        left <- <<>>, disk <- 0, run <- 0, hosts <- 0, cluster <- 0

(* The assumptions of those modules.                                         *)
LEMMA Assumed == TP!FlagsAssumption /\ TP!ClusterTypesAssumption /\ MP!CommandAssumption
<1>1. TP!FlagsAssumption
  BY DEF TP!FlagsAssumption
<1>2. TP!ClusterTypesAssumption
  BY FillingAssumption DEF TP!ClusterTypesAssumption
<1>3. MP!CommandAssumption
  BY DEF MP!CommandAssumption
<1>4. QED
  BY <1>1, <1>2, <1>3

(* The generators are the same ones there: first the target project's.       *)
LEMMA SameTargetRequest == TP!Request = Target!Request
BY Zenon
  DEF TP!Request, Target!Request, TP!Availabilities, Target!Availabilities, TP!Fields,
    Target!Fields

LEMMA SameTargetProject ==
  ASSUME NEW r
  PROVE  TP!GenerateTerraformFiles(r) = Target!GenerateTerraformFiles(r)
BY Zenon
  DEF TP!GenerateTerraformFiles, Target!GenerateTerraformFiles, TP!RootVariables,
    Target!RootVariables, TP!Providers, Target!Providers, TP!Values, Target!Values,
    TP!RootOutputs, Target!RootOutputs, TP!Modules, Target!Modules, TP!Call, Target!Call,
    TP!ConfluentCloud, Target!ConfluentCloud, TP!PrivateLink, Target!PrivateLink,
    TP!TargetClusterProviderVariables, Target!TargetClusterProviderVariables,
    TP!ConfluentCloudVariables, Target!ConfluentCloudVariables, TP!PrivateLinkInputs,
    Target!PrivateLinkInputs, TP!Block, Target!Block, TP!Credentials, Target!Credentials,
    TP!HasValue, Target!HasValue, TP!ConfluentCloudOutputNames,
    Target!ConfluentCloudOutputNames, TP!NetworkOutputs, Target!NetworkOutputs, TP!When,
    Target!When, TP!PrivateLinkFromCloud, Target!PrivateLinkFromCloud, TP!ConfluentCloudMain,
    Target!ConfluentCloudMain, TP!ConfluentCloudOutputs, Target!ConfluentCloudOutputs,
    TP!PrivateLinkVariables, Target!PrivateLinkVariables, TP!Dedicated, Target!Dedicated,
    TP!DedicatedPrivateLinkMain, Target!DedicatedPrivateLinkMain,
    TP!EnterprisePrivateLinkMain, Target!EnterprisePrivateLinkMain, TP!CreatesCluster,
    Target!CreatesCluster, TP!Fields, Target!Fields, TP!PlainOutputs, Target!PlainOutputs,
    TP!CreatesNetwork, Target!CreatesNetwork, TP!Environment, Target!Environment,
    TP!SchemaRegistry, Target!SchemaRegistry, TP!Network, Target!Network, TP!KafkaCluster,
    Target!KafkaCluster, TP!Access, Target!Access, TP!Endpoint, Target!Endpoint

LEMMA SameTargetChecks ==
  ASSUME NEW p
  PROVE  /\ TP!Coherent(p) <=> Target!Coherent(p)
         /\ TP!NoModuleCycle(p) <=> Target!NoModuleCycle(p)
         /\ \A m : TP!NoCycle(m) <=> Target!NoCycle(m)
BY Zenon
  DEF TP!Coherent, Target!Coherent, TP!NoModuleCycle, Target!NoModuleCycle, TP!NoCycle,
    Target!NoCycle, TP!Defined, Target!Defined, TP!BlocksResolve, Target!BlocksResolve,
    TP!OutputsResolve, Target!OutputsResolve, TP!OneBlockPerName, Target!OneBlockPerName,
    TP!CallMatches, Target!CallMatches

(* Then the migration project's.                                             *)
LEMMA SameMigrationRequest == MP!Request = Migration!Request
BY Zenon
  DEF MP!Request, Migration!Request, MP!Fields, Migration!Fields

LEMMA SameMigrationProject ==
  ASSUME NEW r
  PROVE  MP!GenerateTerraformModules(r) = Migration!GenerateTerraformModules(r)
BY Zenon
  DEF MP!GenerateTerraformModules, Migration!GenerateTerraformModules, MP!RootVariables,
    Migration!RootVariables, MP!RootMain, Migration!RootMain, MP!Values, Migration!Values,
    MP!Calls, Migration!Calls, MP!ModulesOf, Migration!ModulesOf, MP!ProviderVariables,
    Migration!ProviderVariables, MP!When, Migration!When, MP!Public, Migration!Public,
    MP!ClusterLinkVariables, Migration!ClusterLinkVariables, MP!Jump, Migration!Jump,
    MP!NetworkingVariables, Migration!NetworkingVariables, MP!JumpClusterVariables,
    Migration!JumpClusterVariables, MP!External, Migration!External,
    MP!MskPrivateClusterLinkVariables, Migration!MskPrivateClusterLinkVariables,
    MP!ExternalOutboundVariables, Migration!ExternalOutboundVariables, MP!AwsProvider,
    Migration!AwsProvider, MP!ConfluentProvider, Migration!ConfluentProvider,
    MP!MskPrivateLinkModule, Migration!MskPrivateLinkModule, MP!FieldOf, Migration!FieldOf,
    MP!Call, Migration!Call, MP!SetupHostFromModules, Migration!SetupHostFromModules,
    MP!JumpClusterFromModules, Migration!JumpClusterFromModules, MP!Module, Migration!Module,
    MP!ClusterLinkMain, Migration!ClusterLinkMain, MP!NoOutputs, Migration!NoOutputs,
    MP!SetupHostMain, Migration!SetupHostMain, MP!JumpClusterMain, Migration!JumpClusterMain,
    MP!JumpClusterOutputs, Migration!JumpClusterOutputs, MP!NetworkingMain,
    Migration!NetworkingMain, MP!NetworkingOutputs, Migration!NetworkingOutputs,
    MP!ExternalOutboundMain, Migration!ExternalOutboundMain, MP!CloudCredentials,
    Migration!CloudCredentials, MP!MskCredentials, Migration!MskCredentials,
    MP!ClusterCredentials, Migration!ClusterCredentials, MP!Scram, Migration!Scram,
    MP!TargetCredentials, Migration!TargetCredentials, MP!Block, Migration!Block, MP!AmiData,
    Migration!AmiData, MP!UserDataInstance, Migration!UserDataInstance, MP!JumpInstances,
    Migration!JumpInstances, MP!InternetGateway, Migration!InternetGateway, MP!SecurityGroup,
    Migration!SecurityGroup, MP!Subnet, Migration!Subnet, MP!PublicRouteTable,
    Migration!PublicRouteTable, MP!Association, Migration!Association, MP!RouteTable,
    Migration!RouteTable, MP!IngressRules, Migration!IngressRules, MP!SshKey,
    Migration!SshKey

LEMMA SameTemplates ==
  ASSUME NEW r
  PROVE  MP!Templates(r) = Migration!Templates(r)
BY Zenon
  DEF MP!Templates, Migration!Templates, MP!Public, Migration!Public, MP!Jump,
    Migration!Jump, MP!SetupHostTemplate, Migration!SetupHostTemplate, MP!JumpTemplate,
    Migration!JumpTemplate, MP!ExternalOutboundTemplate, Migration!ExternalOutboundTemplate,
    MP!JumpTemplateNames, Migration!JumpTemplateNames, MP!Scram, Migration!Scram,
    MP!TargetCredentials, Migration!TargetCredentials, MP!MskCredentials,
    Migration!MskCredentials, MP!When, Migration!When

LEMMA SameMigrationChecks ==
  ASSUME NEW p
  PROVE  /\ MP!Coherent(p) <=> Migration!Coherent(p)
         /\ MP!NoModuleCycle(p) <=> Migration!NoModuleCycle(p)
BY Zenon
  DEF MP!Coherent, Migration!Coherent, MP!NoModuleCycle, Migration!NoModuleCycle, MP!Defined,
    Migration!Defined, MP!BlocksResolve, Migration!BlocksResolve, MP!OutputsResolve,
    Migration!OutputsResolve, MP!OneBlockPerName, Migration!OneBlockPerName, MP!CallMatches,
    Migration!CallMatches

LEMMA SameOrder == ASSUME NEW m PROVE MP!Orderable(m) <=> Migration!Orderable(m)
BY Zenon
  DEF MP!Orderable, Migration!Orderable, MP!Cardinality, Migration!Cardinality

LEMMA SameMigrationJudgement ==
  ASSUME NEW r
  PROVE  /\ MP!CoherentMigration(r) <=> Migration!CoherentMigration(r)
         /\ MP!OrderedMigration(r) <=> Migration!OrderedMigration(r)
<1> DEFINE p == Migration!GenerateTerraformModules(r)
<1>1. MP!CoherentMigration(r) <=> MP!Coherent(p) /\ \A t \in Migration!Templates(r) : t.used \subseteq t.passed
  BY SameMigrationProject, SameTemplates, Zenon DEF MP!CoherentMigration
<1>2. MP!OrderedMigration(r) <=> MP!NoModuleCycle(p) /\ \A m \in DOMAIN p.modules : MP!Orderable(p.modules[m])
  BY SameMigrationProject, Zenon DEF MP!OrderedMigration
<1>3. Migration!CoherentMigration(r) <=>
        Migration!Coherent(p) /\ \A t \in Migration!Templates(r) : t.used \subseteq t.passed
  BY Zenon DEF Migration!CoherentMigration
<1>4. Migration!OrderedMigration(r) <=>
        Migration!NoModuleCycle(p) /\ \A m \in DOMAIN p.modules : Migration!Orderable(p.modules[m])
  BY Zenon DEF Migration!OrderedMigration
<1> HIDE DEF p
<1>5. QED
  BY <1>1, <1>2, <1>3, <1>4, SameMigrationChecks, SameOrder

LEMMA SamePrompts ==
  ASSUME NEW r
  PROVE  /\ MP!Prompted(r) = Migration!Prompted(r)
         /\ MP!ReadmeCredentials(r) = Migration!ReadmeCredentials(r)
         /\ MP!Secrets = Migration!Secrets
<1>1. MP!Prompted(r) = Migration!Prompted(r)
  BY Zenon
  DEF MP!Prompted, Migration!Prompted, MP!RootVariables, Migration!RootVariables, MP!Values,
    Migration!Values, MP!ProviderVariables, Migration!ProviderVariables, MP!When,
    Migration!When, MP!Public, Migration!Public, MP!ClusterLinkVariables,
    Migration!ClusterLinkVariables, MP!Jump, Migration!Jump, MP!NetworkingVariables,
    Migration!NetworkingVariables, MP!JumpClusterVariables, Migration!JumpClusterVariables,
    MP!External, Migration!External, MP!MskPrivateClusterLinkVariables,
    Migration!MskPrivateClusterLinkVariables, MP!ExternalOutboundVariables,
    Migration!ExternalOutboundVariables, MP!FieldOf, Migration!FieldOf, MP!CloudCredentials,
    Migration!CloudCredentials, MP!MskCredentials, Migration!MskCredentials,
    MP!ClusterCredentials, Migration!ClusterCredentials, MP!Scram, Migration!Scram,
    MP!TargetCredentials, Migration!TargetCredentials
<1>2. MP!ReadmeCredentials(r) = Migration!ReadmeCredentials(r) /\ MP!Secrets = Migration!Secrets
  BY Zenon
  DEF MP!ReadmeCredentials, Migration!ReadmeCredentials, MP!Secrets, Migration!Secrets,
    MP!CloudCredentials, Migration!CloudCredentials, MP!ClusterCredentials,
    Migration!ClusterCredentials, MP!When, Migration!When, MP!Scram, Migration!Scram,
    MP!MskCredentials, Migration!MskCredentials, MP!TargetCredentials,
    Migration!TargetCredentials
<1>3. QED
  BY <1>1, <1>2

-----------------------------------------------------------------------------
(* What the server makes of the bodies the wizards send.                     *)

(* A target request that asks for a cluster is accepted; its project is      *)
(* coherent and nothing in it waits for itself.                              *)
LEMMA TargetIsServed ==
  ASSUME NEW r, TargetSent(r), Target!CreatesCluster(r)
  PROVE  LET p == Target!GenerateTerraformFiles(r) IN
         /\ Target!Accepts(r)
         /\ Target!Coherent(p) /\ Target!NoModuleCycle(p)
         /\ \A m \in DOMAIN p.modules : Target!NoCycle(p.modules[m])
<1> DEFINE p == Target!GenerateTerraformFiles(r)
<1>1. r \in TP!Request
  BY SameTargetRequest DEF TargetSent
<1>2. TP!CreatesCluster(r)
  BY DEF TP!CreatesCluster, Target!CreatesCluster
<1>3. TP!Coherent(TP!GenerateTerraformFiles(r))
  BY <1>1, <1>2, Assumed, TP!GeneratedProjectIsCoherent
<1>4. /\ TP!NoModuleCycle(TP!GenerateTerraformFiles(r))
      /\ \A m \in DOMAIN TP!GenerateTerraformFiles(r).modules :
            TP!NoCycle(TP!GenerateTerraformFiles(r).modules[m])
  BY <1>1, Assumed, TP!GeneratedProjectHasNoCycle
<1>5. TP!GenerateTerraformFiles(r) = p
  BY SameTargetProject
<1>6. Target!Accepts(r)
  BY DEF TargetSent, Target!Accepts
<1> HIDE DEF p
<1>7. /\ Target!Coherent(p) /\ Target!NoModuleCycle(p)
      /\ \A m \in DOMAIN p.modules : Target!NoCycle(p.modules[m])
  BY <1>3, <1>4, <1>5, SameTargetChecks
<1>8. QED
  BY <1>6, <1>7 DEF p

(* Every variable of its project has a value but the credentials, the region *)
(* and those of a private link that was not asked for.                       *)
LEMMA TargetPrompts ==
  ASSUME NEW r, TargetSent(r), Target!CreatesCluster(r),
         Target!Dedicated(r) => r.cluster_availability # ""
  PROVE  Target!Prompted(r) \subseteq
           Target!Credentials \cup {"aws_region"}
           \cup When(~r.needs_private_link, {"vpc_id", "subnet_cidr_ranges"})
<1> SUFFICES ASSUME NEW v \in Target!Prompted(r),
                    v \notin Target!Credentials, v # "aws_region",
                    r.needs_private_link \/ v \notin {"vpc_id", "subnet_cidr_ranges"}
             PROVE  FALSE
  <2>1. r.needs_private_link \in BOOLEAN
    BY DEF TargetSent, Target!Request
  <2>2. QED
    BY <2>1 DEF When
<1>1. v \in Target!RootVariables(r) /\ ~Target!HasValue(r, v)
  BY DEF Target!Prompted, Target!Values
<1>2. \/ v = "environment_name" /\ r.needs_environment
      \/ v = "environment_id" /\ ~r.needs_environment
      \/ v \in {"cluster_name", "cluster_type"}
      \/ v \in {"cluster_availability", "cluster_cku"} /\ Target!Dedicated(r)
      \/ v \in {"vpc_id", "subnet_cidr_ranges"} /\ r.needs_private_link
  BY <1>1 DEF Target!RootVariables, Target!TargetClusterProviderVariables,
              Target!ConfluentCloudVariables, Target!PrivateLinkInputs, Target!When
<1>3. CASE v \in Target!Fields
  <2>1. v \notin r.given
    BY <1>1, <1>3 DEF Target!HasValue, Target!Fields
  <2>2. r.needs_environment \/ r.needs_cluster
    BY DEF Target!CreatesCluster
  <2>3. QED
    BY <1>2, <1>3, <2>1, <2>2 DEF TargetSent, Target!Fields
<1>4. CASE v \notin Target!Fields
  <2>1. \/ v \in {"cluster_type", "cluster_cku"}
        \/ v = "cluster_availability" /\ Target!Dedicated(r)
    BY <1>2, <1>4 DEF Target!Fields
  <2>2. Target!HasValue(r, v)
    BY <1>4, <2>1 DEF Target!HasValue, TargetSent
  <2>3. QED
    BY <1>1, <2>2
<1>5. QED
  BY <1>3, <1>4

(* What every body of the migration wizard has in it: the fields of the kind *)
(* of project it asks for.                                                   *)
MigrationSent(r) ==
  /\ r \in Migration!Request /\ MP!Supplied(r)
  /\ Migration!External(r) => "target_environment_id" \in r.given

(* It is accepted, unless it asks for jump clusters without storage.         *)
LEMMA MigrationIsAccepted ==
  ASSUME NEW r, MigrationSent(r), ~Migration!Accepts(r)
  PROVE  Migration!Jump(r) /\ r.jump_cluster_broker_storage <= 0
<1>1. MP!Supplied(r)
  BY DEF MigrationSent
<1>2. ~Migration!Public(r)
  <2> SUFFICES ASSUME Migration!Public(r) PROVE FALSE
    OBVIOUS
  <2>1. ~Migration!ValidateClusterLink(r)
    BY DEF Migration!Accepts, Migration!Public, Migration!Jump
  <2>2. MP!Public(r)
    BY DEF Migration!Public, MP!Public
  <2>3. QED
    BY <1>1, <2>1, <2>2 DEF MP!Supplied, MP!LinkFields, Migration!ValidateClusterLink
<1>3. Migration!Jump(r)
  <2> SUFFICES ASSUME ~Migration!Jump(r) PROVE FALSE
    OBVIOUS
  <2>1. ~Migration!ValidatePrivateClusterLink(r)
    BY <1>2 DEF Migration!Accepts
  <2>2. MP!External(r) /\ Migration!External(r)
    BY <1>2 DEF Migration!Public, Migration!Jump, Migration!External, MP!External
  <2>3. QED
    BY <1>1, <2>1, <2>2
    DEF MigrationSent, MP!Supplied, MP!LinkFields, Migration!ValidatePrivateClusterLink
<1>4. ~Migration!ValidatePrivateLink(r)
  BY <1>2, <1>3 DEF Migration!Accepts
<1>5. MP!Jump(r) /\ (MP!Scram(r) => r.msk_jump_cluster_auth_type # "")
  BY <1>3 DEF Migration!Jump, MP!Jump, MP!Scram
<1>6. r.jump_cluster_broker_storage \in Int
  BY DEF MigrationSent, Migration!Request
<1>7. ~(r.jump_cluster_broker_storage > 0)
  BY <1>1, <1>4, <1>5 DEF MP!Supplied, MP!LinkFields, Migration!ValidatePrivateLink
<1>8. QED
  BY <1>3, <1>6, <1>7

(* Its project is coherent and ordered, and only secrets are missing.        *)
LEMMA MigrationIsServed ==
  ASSUME NEW r, MigrationSent(r)
  PROVE  /\ Migration!CoherentMigration(r) /\ Migration!OrderedMigration(r)
         /\ Migration!Prompted(r) \subseteq Migration!Secrets
         /\ Migration!Jump(r) => Migration!Prompted(r) = Migration!ReadmeCredentials(r)
<1>1. r \in MP!Request /\ MP!Supplied(r)
  BY SameMigrationRequest DEF MigrationSent
<1>2. MP!Authenticated(r)
  BY <1>1 DEF MP!Authenticated, MP!Supplied, MP!Scram
<1>3. MP!CoherentMigration(r)
  BY <1>1, <1>2, Assumed, MP!GeneratedMigrationIsCoherent
<1>4. MP!OrderedMigration(r)
  BY <1>1, <1>2, Assumed, MP!GeneratedMigrationIsOrdered
<1>5. MP!AsksForSecrets(r)
  BY <1>1, Assumed, MP!SuppliedAsksForSecrets
<1>6. (MP!Jump(r) <=> Migration!Jump(r)) /\ (MP!External(r) <=> Migration!External(r))
  BY DEF MP!Jump, Migration!Jump, MP!External, Migration!External
<1>7. MP!Prompted(r) \subseteq MP!Secrets
  BY <1>5, <1>6 DEF MP!AsksForSecrets, MP!When, MigrationSent
<1>8. MP!Jump(r) => MP!Prompted(r) = MP!ReadmeCredentials(r)
  BY <1>5 DEF MP!AsksForSecrets
<1>9. QED
  BY <1>3, <1>4, <1>6, <1>7, <1>8, SameMigrationJudgement, SamePrompts

-----------------------------------------------------------------------------
(* What the migration infrastructure wizard sends.                           *)

(* The table, answer by answer.                                              *)
LEMMA MigrationAnswers ==
  ASSUME NEW e \in Entries("migration_infra")
  PROVE  LET s == Following("migration_infra", e) IN
         \/ /\ e.step = "confluent_cloud_endpoints_question"
            /\ \/ e.answer = "public" /\ s = "public_cluster_link_inputs"
               \/ e.answer = "private" /\ s = "private_migration_method_question"
         \/ /\ e.step = "private_migration_method_question"
            /\ \/ e.answer = "external" /\ s = "external_outbound_cluster_linking_inputs"
               \/ e.answer = "jump" /\ s = "private_link_internet_gateway_question"
         \/ /\ e.step = "private_link_internet_gateway_question"
            /\ s = "jump_cluster_networking_inputs"
         \/ /\ e.step = "jump_cluster_networking_inputs" /\ e.answer \in Inputs
            /\ s = "msk_jump_cluster_authentication_question"
         \/ /\ e.step = "msk_jump_cluster_authentication_question"
            /\ \/ e.answer = "sasl_scram" /\ s = "msk_jump_cluster_authentication_sasl_scram"
               \/ e.answer = "iam" /\ s = "msk_jump_cluster_authentication_iam"
         \/ /\ e.step \in {"public_cluster_link_inputs", "external_outbound_cluster_linking_inputs",
                           "msk_jump_cluster_authentication_sasl_scram",
                           "msk_jump_cluster_authentication_iam"}
            /\ s = Confirmation
<1> DEFINE w == "migration_infra"
<1>1. Steps(w) = {"confluent_cloud_endpoints_question", "public_cluster_link_inputs",
                  "private_migration_method_question", "external_outbound_cluster_linking_inputs",
                  "private_link_internet_gateway_question", "jump_cluster_networking_inputs",
                  "msk_jump_cluster_authentication_question",
                  "msk_jump_cluster_authentication_sasl_scram",
                  "msk_jump_cluster_authentication_iam"}
  BY DEF Wizard, MigrationInfra, Steps
<1>2. /\ Wizard[w].forms["confluent_cloud_endpoints_question"] = EndpointsQuestion
      /\ Wizard[w].forms["public_cluster_link_inputs"] = PublicClusterLink
      /\ Wizard[w].forms["private_migration_method_question"] = MethodQuestion
      /\ Wizard[w].forms["external_outbound_cluster_linking_inputs"] = ExternalOutbound
      /\ Wizard[w].forms["private_link_internet_gateway_question"] = InternetGatewayQuestion
      /\ Wizard[w].forms["jump_cluster_networking_inputs"] = JumpClusterNetworking
      /\ Wizard[w].forms["msk_jump_cluster_authentication_question"] = AuthenticationQuestion
      /\ Wizard[w].forms["msk_jump_cluster_authentication_sasl_scram"] = SaslScramInputs
      /\ Wizard[w].forms["msk_jump_cluster_authentication_iam"] = IamInputs
  BY DEF Wizard, MigrationInfra
<1>3. e.step \in Steps(w) /\ e.answer \in Wizard[w].forms[e.step].answers
  BY DEF Entries
<1> HIDE DEF w
<1>4. /\ EndpointsQuestion.answers = {"public", "private"}
      /\ EndpointsQuestion.next["public"] = "public_cluster_link_inputs"
      /\ EndpointsQuestion.next["private"] = "private_migration_method_question"
  BY DEF EndpointsQuestion, Ask
<1>5. /\ MethodQuestion.answers = {"external", "jump"}
      /\ MethodQuestion.next["external"] = "external_outbound_cluster_linking_inputs"
      /\ MethodQuestion.next["jump"] = "private_link_internet_gateway_question"
  BY DEF MethodQuestion, Ask
<1>6. /\ InternetGatewayQuestion.answers = {"yes", "no"}
      /\ InternetGatewayQuestion.next["yes"] = "jump_cluster_networking_inputs"
      /\ InternetGatewayQuestion.next["no"] = "jump_cluster_networking_inputs"
  BY DEF InternetGatewayQuestion, Ask
<1>7. /\ JumpClusterNetworking.answers = Inputs
      /\ \A a \in Inputs : JumpClusterNetworking.next[a] = "msk_jump_cluster_authentication_question"
  BY DEF JumpClusterNetworking, Fill, Ask
<1>8. /\ AuthenticationQuestion.answers = {"sasl_scram", "iam"}
      /\ AuthenticationQuestion.next["sasl_scram"] = "msk_jump_cluster_authentication_sasl_scram"
      /\ AuthenticationQuestion.next["iam"] = "msk_jump_cluster_authentication_iam"
  BY DEF AuthenticationQuestion, Ask
<1>9. \A form \in {PublicClusterLink, ExternalOutbound, SaslScramInputs, IamInputs} :
         form.answers = Inputs /\ \A a \in Inputs : form.next[a] = Confirmation
  BY DEF PublicClusterLink, ExternalOutbound, SaslScramInputs, IamInputs, Fill, Ask
<1>10. QED
  BY <1>1, <1>2, <1>3, <1>4, <1>5, <1>6, <1>7, <1>8, <1>9 DEF Following, w

(* The answers of one way through the wizard, to its confirmation.           *)
MigrationWay(d) ==
  /\ d \in Seq(Entries("migration_infra")) /\ Len(d) > 0
  /\ Way("migration_infra", d)
  /\ Following("migration_infra", d[Len(d)]) = Confirmation
  /\ \A i, j \in 1..Len(d) : d[i].step = d[j].step => i = j

(* On such a way every question was answered in one way and led to the form  *)
(* of its answer.                                                            *)
LEMMA MigrationForms ==
  ASSUME NEW d, MigrationWay(d)
  PROVE  LET Has(s) == s \in Keys(d) IN
         /\ Has("public_cluster_link_inputs") \/ ~Answered(d, "confluent_cloud_endpoints_question", "public")
         /\ \/ Answered(d, "confluent_cloud_endpoints_question", "public")
            \/ Answered(d, "private_migration_method_question", "jump")
            \/ Has("external_outbound_cluster_linking_inputs")
         /\ Answered(d, "private_migration_method_question", "jump") =>
              /\ Has("jump_cluster_networking_inputs")
              /\ LET scram == Answered(d, "msk_jump_cluster_authentication_question", "sasl_scram")
                     iam == Answered(d, "msk_jump_cluster_authentication_question", "iam")
                 IN /\ scram \/ iam
                    /\ scram => Has("msk_jump_cluster_authentication_sasl_scram")
                    /\ iam => Has("msk_jump_cluster_authentication_iam")
         /\ ~ (/\ Answered(d, "msk_jump_cluster_authentication_question", "sasl_scram")
               /\ Answered(d, "msk_jump_cluster_authentication_question", "iam"))
<1> DEFINE w == "migration_infra"
<1>1. /\ Len(d) \in Nat /\ DOMAIN d = 1..Len(d) /\ 1 \in DOMAIN d
      /\ \A i \in DOMAIN d : d[i] \in Entries(w)
      /\ d[1].step = "confluent_cloud_endpoints_question"
  <2>1. Wizard[w].first = "confluent_cloud_endpoints_question"
    BY DEF Wizard, MigrationInfra
  <2>2. QED
    BY <2>1 DEF MigrationWay, Way
<1>2. ASSUME NEW i \in DOMAIN d, Following(w, d[i]) # Confirmation
      PROVE  Following(w, d[i]) \in Keys(d)
  <2>1. i \in 1..(Len(d) - 1) /\ i + 1 \in DOMAIN d
    BY <1>1, <1>2 DEF MigrationWay
  <2>2. d[i + 1].step = Following(w, d[i])
    BY <2>1 DEF MigrationWay, Way
  <2>3. QED
    BY <2>1, <2>2 DEF Keys
<1>3. ASSUME NEW s, NEW a, NEW f, f # Confirmation, Answered(d, s, a),
             \A e \in Entries(w) : e.step = s /\ e.answer = a => Following(w, e) = f
      PROVE  f \in Keys(d)
  BY <1>1, <1>2, <1>3 DEF Answered
<1>4. ASSUME NEW s \in Keys(d), NEW f, f # Confirmation,
             \A e \in Entries(w) : e.step = s => Following(w, e) = f
      PROVE  f \in Keys(d)
  BY <1>1, <1>2, <1>4 DEF Keys
<1>5. ASSUME NEW s \in Keys(d), NEW a, NEW b,
             \A e \in Entries(w) : e.step = s => e.answer \in {a, b}
      PROVE  Answered(d, s, a) \/ Answered(d, s, b)
  BY <1>1, <1>5 DEF Keys, Answered
<1>6. "confluent_cloud_endpoints_question" \in Keys(d)
  BY <1>1 DEF Keys
<1>7. \A e \in Entries(w) :
        /\ e.step = "confluent_cloud_endpoints_question" => e.answer \in {"public", "private"}
        /\ e.step = "confluent_cloud_endpoints_question" /\ e.answer = "public"
             => Following(w, e) = "public_cluster_link_inputs"
        /\ e.step = "confluent_cloud_endpoints_question" /\ e.answer = "private"
             => Following(w, e) = "private_migration_method_question"
        /\ e.step = "private_migration_method_question" => e.answer \in {"external", "jump"}
        /\ e.step = "private_migration_method_question" /\ e.answer = "external"
             => Following(w, e) = "external_outbound_cluster_linking_inputs"
        /\ e.step = "private_migration_method_question" /\ e.answer = "jump"
             => Following(w, e) = "private_link_internet_gateway_question"
        /\ e.step = "private_link_internet_gateway_question"
             => Following(w, e) = "jump_cluster_networking_inputs"
        /\ e.step = "jump_cluster_networking_inputs"
             => Following(w, e) = "msk_jump_cluster_authentication_question"
        /\ e.step = "msk_jump_cluster_authentication_question" => e.answer \in {"sasl_scram", "iam"}
        /\ e.step = "msk_jump_cluster_authentication_question" /\ e.answer = "sasl_scram"
             => Following(w, e) = "msk_jump_cluster_authentication_sasl_scram"
        /\ e.step = "msk_jump_cluster_authentication_question" /\ e.answer = "iam"
             => Following(w, e) = "msk_jump_cluster_authentication_iam"
  BY MigrationAnswers
<1>8. /\ Answered(d, "confluent_cloud_endpoints_question", "public") => "public_cluster_link_inputs" \in Keys(d)
      /\ \/ Answered(d, "confluent_cloud_endpoints_question", "public")
         \/ "private_migration_method_question" \in Keys(d)
  BY <1>3, <1>5, <1>6, <1>7 DEF Confirmation
<1>9. "private_migration_method_question" \in Keys(d) =>
        \/ Answered(d, "private_migration_method_question", "jump")
        \/ "external_outbound_cluster_linking_inputs" \in Keys(d)
  <2>1. "private_migration_method_question" \in Keys(d) =>
          \/ Answered(d, "private_migration_method_question", "external")
          \/ Answered(d, "private_migration_method_question", "jump")
    BY <1>5, <1>7
  <2>2. Answered(d, "private_migration_method_question", "external")
          => "external_outbound_cluster_linking_inputs" \in Keys(d)
    BY <1>3, <1>7 DEF Confirmation
  <2>3. QED
    BY <2>1, <2>2
<1>10. Answered(d, "private_migration_method_question", "jump") =>
         /\ "private_link_internet_gateway_question" \in Keys(d)
         /\ "jump_cluster_networking_inputs" \in Keys(d)
         /\ "msk_jump_cluster_authentication_question" \in Keys(d)
  BY <1>3, <1>4, <1>7 DEF Confirmation
<1>11. /\ Answered(d, "msk_jump_cluster_authentication_question", "sasl_scram")
            => "msk_jump_cluster_authentication_sasl_scram" \in Keys(d)
       /\ Answered(d, "msk_jump_cluster_authentication_question", "iam")
            => "msk_jump_cluster_authentication_iam" \in Keys(d)
       /\ "msk_jump_cluster_authentication_question" \in Keys(d) =>
            \/ Answered(d, "msk_jump_cluster_authentication_question", "sasl_scram")
            \/ Answered(d, "msk_jump_cluster_authentication_question", "iam")
  BY <1>3, <1>5, <1>7 DEF Confirmation
<1>12. ASSUME NEW s, Answered(d, s, "sasl_scram"), Answered(d, s, "iam")
       PROVE  FALSE
  <2>1. PICK i \in DOMAIN d : d[i].step = s /\ d[i].answer = "sasl_scram"
    BY <1>12 DEF Answered
  <2>2. PICK j \in DOMAIN d : d[j].step = s /\ d[j].answer = "iam"
    BY <1>12 DEF Answered
  <2>3. QED
    BY <1>1, <2>1, <2>2 DEF MigrationWay
<1>13. QED
  BY <1>8, <1>9, <1>10, <1>11, <1>12

(* What those forms require is what the project of that kind needs.          *)
LEMMA MigrationSends ==
  ASSUME NEW d, MigrationWay(d)
  PROVE  MigrationSent(MigrationRequest(d))
<1> DEFINE r == MigrationRequest(d)
           auth == "msk_jump_cluster_authentication_question"
<1>1. /\ r.has_public_msk_brokers = Answered(d, "confluent_cloud_endpoints_question", "public")
      /\ r.use_jump_clusters = Answered(d, "private_migration_method_question", "jump")
      /\ r.has_existing_internet_gateway = Answered(d, "private_link_internet_gateway_question", "yes")
      /\ r.given = UNION {FormFields[step] : step \in Keys(d) \cap DOMAIN FormFields}
  BY Zenon DEF MigrationRequest
<1>2. ~ (Answered(d, auth, "sasl_scram") /\ Answered(d, auth, "iam"))
  BY MigrationForms
<1>3. /\ Answered(d, auth, "sasl_scram") => r.msk_jump_cluster_auth_type = "sasl_scram"
      /\ Answered(d, auth, "iam") => r.msk_jump_cluster_auth_type = "iam"
      /\ r.msk_jump_cluster_auth_type \in {"", "sasl_scram", "iam"}
  BY <1>2 DEF MigrationRequest
<1>4. r.jump_cluster_broker_storage \in Int
  <2> DEFINE networking == "jump_cluster_networking_inputs"
             i == CHOOSE i \in DOMAIN d : d[i].step = networking
  <2>1. CASE networking \in Keys(d)
    <3>1. i \in DOMAIN d /\ d[i].step = networking
      BY <2>1 DEF Keys
    <3>2. d[i] \in Entries("migration_infra")
      BY <3>1 DEF MigrationWay
    <3>3. d[i].answer \in Inputs
      BY <3>1, <3>2, MigrationAnswers
    <3>4. r.jump_cluster_broker_storage = Storage[d[i].answer]
      BY <2>1 DEF MigrationRequest
    <3>5. QED
      BY <3>3, <3>4, FillingAssumption
  <2>2. CASE networking \notin Keys(d)
    BY <2>2 DEF MigrationRequest
  <2>3. QED
    BY <2>1, <2>2
<1>5. \A s \in DOMAIN FormFields : FormFields[s] \subseteq Migration!Fields
  BY DEF FormFields, LinkFields, JumpFields, Migration!Fields
<1>6. r \in Migration!Request
  <2>1. r.given \subseteq Migration!Fields
    BY <1>1, <1>5
  <2>2. /\ Answered(d, "confluent_cloud_endpoints_question", "public") \in BOOLEAN
        /\ Answered(d, "private_migration_method_question", "jump") \in BOOLEAN
        /\ Answered(d, "private_link_internet_gateway_question", "yes") \in BOOLEAN
    BY DEF Answered
  <2>3. PICK a, b, c, t, n, g :
          r = [has_public_msk_brokers |-> a, use_jump_clusters |-> b,
               has_existing_internet_gateway |-> c, msk_jump_cluster_auth_type |-> t,
               jump_cluster_broker_storage |-> n, given |-> g]
    BY Zenon DEF MigrationRequest
  <2> HIDE DEF r
  <2>4. QED
    BY <1>1, <1>3, <1>4, <2>1, <2>2, <2>3 DEF Migration!Request
<1>7. \A s \in Keys(d) : s \in DOMAIN FormFields => FormFields[s] \subseteq r.given
  BY <1>1
<1> HIDE DEF r
<1>8. MP!Public(r) => LinkFields \cup {"msk_sasl_scram_bootstrap_servers"} \subseteq r.given
  <2>1. MP!Public(r) => "public_cluster_link_inputs" \in Keys(d)
    BY <1>1, MigrationForms DEF MP!Public
  <2>2. QED
    BY <1>7, <2>1 DEF FormFields
<1>9. MP!External(r) =>
        LinkFields \cup {"target_environment_id", "ext_outbound_subnet_id", "vpc_id", "msk_region",
                      "ext_outbound_security_group_id", "msk_sasl_scram_bootstrap_servers",
                      "aws_kafka_brokers"} \subseteq r.given
  <2>1. MP!External(r) => "external_outbound_cluster_linking_inputs" \in Keys(d)
    BY <1>1, MigrationForms DEF MP!External
  <2>2. QED
    BY <1>7, <2>1 DEF FormFields
<1>10. MP!Jump(r) =>
         /\ {"vpc_id", "existing_private_link_vpce_id", "jump_cluster_instance_type",
             "jump_cluster_broker_subnet_cidr", "jump_cluster_setup_host_subnet_cidr"} \subseteq r.given
         /\ JumpFields \subseteq r.given
         /\ MP!Scram(r) => "msk_sasl_scram_bootstrap_servers" \in r.given
         /\ ~MP!Scram(r) =>
              /\ r.msk_jump_cluster_auth_type = "iam"
              /\ {"msk_sasl_iam_bootstrap_servers", "jump_cluster_iam_auth_role_name"} \subseteq r.given
  <2> SUFFICES ASSUME MP!Jump(r)
               PROVE  /\ {"vpc_id", "existing_private_link_vpce_id", "jump_cluster_instance_type",
                          "jump_cluster_broker_subnet_cidr",
                          "jump_cluster_setup_host_subnet_cidr"} \subseteq r.given
                      /\ JumpFields \subseteq r.given
                      /\ MP!Scram(r) => "msk_sasl_scram_bootstrap_servers" \in r.given
                      /\ ~MP!Scram(r) =>
                           /\ r.msk_jump_cluster_auth_type = "iam"
                           /\ {"msk_sasl_iam_bootstrap_servers",
                               "jump_cluster_iam_auth_role_name"} \subseteq r.given
    OBVIOUS
  <2>1. Answered(d, "private_migration_method_question", "jump")
    BY <1>1 DEF MP!Jump
  <2>2. /\ "jump_cluster_networking_inputs" \in Keys(d)
        /\ Answered(d, auth, "sasl_scram") \/ Answered(d, auth, "iam")
        /\ Answered(d, auth, "sasl_scram") => "msk_jump_cluster_authentication_sasl_scram" \in Keys(d)
        /\ Answered(d, auth, "iam") => "msk_jump_cluster_authentication_iam" \in Keys(d)
    BY <2>1, MigrationForms
  <2>3. CASE Answered(d, auth, "sasl_scram")
    BY <1>3, <1>7, <2>2, <2>3 DEF FormFields, MP!Scram
  <2>4. CASE Answered(d, auth, "iam")
    BY <1>3, <1>7, <2>2, <2>4 DEF FormFields, MP!Scram
  <2>5. QED
    BY <2>2, <2>3, <2>4
<1>11. r.given \subseteq MP!Fields
  BY <1>6 DEF Migration!Request, Migration!Fields, MP!Fields
<1>12. MP!Supplied(r)
  BY <1>8, <1>9, <1>10, <1>11 DEF MP!Supplied, MP!LinkFields, LinkFields, JumpFields
<1>13. MP!External(r) <=> Migration!External(r)
  BY DEF MP!External, Migration!External
<1>14. MigrationSent(r)
  BY <1>6, <1>9, <1>12, <1>13 DEF MigrationSent
<1>15. QED
  BY <1>14 DEF r

-----------------------------------------------------------------------------
(* The wizards and the server.                                               *)

(* What was posted came from a way to the confirmation of its wizard; what   *)
(* was generated passed the checks, with the defaults filled in; what was    *)
(* refused did not pass them.                                                *)
Sent ==
  \/ request.wizard = "target_infra" /\ TargetSent(request.body)
  \/ request.wizard = "migration_infra" /\ MigrationSent(request.body)

Judged ==
  /\ Generated /\ ForTarget =>
       /\ Target!CreatesCluster(request.body)
       /\ Target!Dedicated(request.body) => request.body.cluster_availability # ""
  /\ reply = "refused" =>
       IF ForTarget THEN ~Target!Accepts(request.body) ELSE ~Migration!Accepts(request.body)

InfraInv ==
  /\ reply \in {"none", "waiting", "refused", "generated"}
  /\ request = [wizard |-> request.wizard, body |-> request.body]
  /\ reply # "none" => Sent
  /\ Judged

(* The server's steps leave the machine alone, the others are steps of it.   *)
LEMMA InfraRunsMachine == [InfraNext]_infraVars => [Next]_machine
<1> SUFFICES ASSUME InfraNext PROVE [Next]_machine
  BY DEF infraVars
<1>1. CASE Use
  BY <1>1 DEF Use, Next
<1>2. CASE Post
  BY <1>2 DEF Post, Next
<1>3. CASE HandleTargetClusterAssets \/ HandleMigrationAssets
  BY <1>3 DEF HandleTargetClusterAssets, HandleMigrationAssets
<1>4. CASE Lose
  BY <1>4 DEF Lose, Next
<1>5. QED
  BY <1>1, <1>2, <1>3, <1>4 DEF InfraNext

(* The wizards with their server run the machine: what holds of the machine  *)
(* holds here.                                                               *)
THEOREM WizardsRunMachine == InfraSpec => Spec
<1>1. InfraInit => Init
  BY DEF InfraInit
<1>2. QED
  BY <1>1, InfraRunsMachine, PTL DEF InfraSpec, Spec

(* The confirmed answers of either wizard are a way to its confirmation.     *)
LEMMA ConfirmedIsSent ==
  ASSUME MachineInv, TargetInv, Confirm
  PROVE  /\ wizard = "target_infra" => TargetSent(TargetRequest(data))
         /\ wizard = "migration_infra" => MigrationSent(MigrationRequest(data))
<1>1. /\ at = Confirmation /\ Len(data) > 0 /\ data \in Seq(Entries(wizard))
      /\ Following(wizard, data[Len(data)]) = Confirmation
      /\ \A i, j \in 1..Len(data) : data[i].step = data[j].step => i = j
      /\ wizard # "target_infra" => Way(wizard, data)
  BY DEF Confirm, MachineInv, AtConfirmation, Matches
<1>2. CASE wizard = "target_infra"
  <2>1. TargetWay(data)
    BY <1>1, <1>2 DEF TargetInv, Confirmation
  <2>2. QED
    BY <1>1, <1>2, <2>1, TargetSends
<1>3. CASE wizard = "migration_infra"
  <2>1. MigrationWay(data)
    BY <1>1, <1>3 DEF MigrationWay
  <2>2. QED
    BY <1>3, <2>1, MigrationSends
<1>4. QED
  BY <1>2, <1>3

(* The invariant of the requests, step by step.                              *)
LEMMA InfraStep == MachineInv /\ TargetInv /\ InfraInv /\ [InfraNext]_infraVars => InfraInv'
<1> SUFFICES ASSUME MachineInv, TargetInv, InfraInv, [InfraNext]_infraVars
             PROVE  InfraInv'
  OBVIOUS
<1>1. CASE UNCHANGED <<request, reply>>
  BY <1>1 DEF InfraInv, Sent, Judged, Generated, ForTarget
<1>2. CASE Post
  <2>1. /\ request' = [wizard |-> wizard, body |-> IF wizard = "target_infra" THEN TargetRequest(data)
                                                     ELSE MigrationRequest(data)]
        /\ reply' = "waiting" /\ wizard \in {"target_infra", "migration_infra"} /\ Confirm
    BY <1>2 DEF Post, RequestOf, Endpoints
  <2>2. Sent'
    BY <2>1, ConfirmedIsSent DEF Sent
  <2>3. QED
    BY <2>1, <2>2 DEF InfraInv, Judged, Generated, ForTarget
<1>3. CASE HandleTargetClusterAssets
  <2>1. /\ reply = "waiting" /\ request.wizard = "target_infra" /\ TargetSent(request.body)
        /\ request = [wizard |-> request.wizard, body |-> request.body]
    BY <1>3 DEF HandleTargetClusterAssets, InfraInv, Sent
  <2>2. CASE Target!Accepts(request.body)
    <3> DEFINE body == Target!WithDefaults(request.body)
    <3>1. /\ reply' = "generated" /\ request' = [request EXCEPT !.body = body]
      BY <1>3, <2>2 DEF HandleTargetClusterAssets
    <3>2. /\ TargetSent(body) /\ Target!CreatesCluster(body)
          /\ Target!Dedicated(body) => body.cluster_availability # ""
      BY <2>1, <2>2, DefaultsKeep DEF Target!Accepts
    <3> HIDE DEF body
    <3>3. request' = [wizard |-> "target_infra", body |-> body]
      BY <2>1, <3>1
    <3>4. request'.wizard = "target_infra" /\ request'.body = body
      BY <3>3
    <3>5. QED
      BY <3>1, <3>2, <3>3, <3>4 DEF InfraInv, Sent, Judged, Generated, ForTarget
  <2>3. CASE ~Target!Accepts(request.body)
    <3>1. reply' = "refused" /\ UNCHANGED request
      BY <1>3, <2>3 DEF HandleTargetClusterAssets
    <3>2. QED
      BY <2>1, <2>3, <3>1 DEF InfraInv, Sent, Judged, Generated, ForTarget
  <2>4. QED
    BY <2>2, <2>3
<1>4. CASE HandleMigrationAssets
  <2>1. /\ reply = "waiting" /\ request.wizard = "migration_infra" /\ UNCHANGED request
        /\ reply' = IF Migration!Accepts(request.body) THEN "generated" ELSE "refused"
    BY <1>4 DEF HandleMigrationAssets
  <2>2. reply' \in {"generated", "refused"} /\ (reply' = "refused" => ~Migration!Accepts(request.body))
    BY <2>1
  <2>3. QED
    BY <2>1, <2>2 DEF InfraInv, Sent, Judged, Generated, ForTarget
<1>5. QED
  BY <1>1, <1>2, <1>3, <1>4 DEF InfraNext, infraVars, Use, Lose

(* All three invariants hold of the wizards with their server.               *)
THEOREM InfraInvariance == InfraSpec => [](MachineInv /\ TargetInv /\ InfraInv)
<1>1. InfraInit => MachineInv /\ TargetInv /\ InfraInv
  <2> SUFFICES ASSUME InfraInit PROVE MachineInv /\ TargetInv /\ InfraInv
    OBVIOUS
  <2>1. MachineInv
    BY MachineStarts DEF InfraInit, Init
  <2>2. TargetInv
    <3>1. Wizard["target_infra"].first = "environment_question"
      BY DEF Wizard, TargetInfra
    <3>2. QED
      BY <3>1 DEF TargetInv, InfraInit, Init
  <2>3. InfraInv
    BY DEF InfraInit, RequestOf, InfraInv, Judged, Generated
  <2>4. QED
    BY <2>1, <2>2, <2>3
<1>2. MachineInv /\ TargetInv /\ InfraInv /\ [InfraNext]_infraVars
        => (MachineInv /\ TargetInv /\ InfraInv)'
  BY InfraRunsMachine, InvAndNext, TargetAndNext, InfraStep
<1>3. QED
  BY <1>1, <1>2, PTL DEF InfraSpec

(* Whatever way the user took through a wizard, a request is refused only    *)
(* where nothing was asked for, and what is generated is coherent and leaves *)
(* no answer out.                                                            *)
THEOREM WizardsAreServed == InfraSpec => []RequestsAreServed
<1>1. InfraInv => RequestsAreServed
  <2> SUFFICES ASSUME InfraInv PROVE RequestsAreServed
    OBVIOUS
  <2>1. RefusedOnlyIfNothingAsked
    BY TargetIsServed, MigrationIsAccepted
    DEF InfraInv, Sent, Judged, ForTarget, RefusedOnlyIfNothingAsked
  <2>2. GeneratedIsCoherent
    BY TargetIsServed, MigrationIsServed
    DEF InfraInv, Sent, Judged, ForTarget, Generated, GeneratedIsCoherent
  <2>3. AnsweredNotAskedAgain
    BY TargetPrompts, MigrationIsServed
    DEF InfraInv, Sent, Judged, ForTarget, Generated, AnsweredNotAskedAgain
  <2>4. QED
    BY <2>1, <2>2, <2>3 DEF RequestsAreServed
<1>2. QED
  BY <1>1, InfraInvariance, PTL
=============================================================================
