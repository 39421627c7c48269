---------------------------- MODULE ListTheorems ----------------------------
(***************************************************************************)
(* Lists without repetitions, as GDB's queues and tables are.              *)
(***************************************************************************)
EXTENDS Integers, Sequences, SequencesExt, SequenceTheorems, TLAPS

\* A sequence followed by another with no member in common.
LEMMA ConcatFacts ==
  ASSUME NEW S, NEW s1 \in Seq(S), NEW s2 \in Seq(S)
  PROVE  /\ s1 \o s2 \in Seq(S)
         /\ ToSet(s1 \o s2) = ToSet(s1) \cup ToSet(s2)
         /\ IsInjective(s1) /\ IsInjective(s2) /\ ToSet(s1) \cap ToSet(s2) = {}
              => IsInjective(s1 \o s2)
<1> DEFINE s == s1 \o s2
           n1 == Len(s1)
           n2 == Len(s2)
<1>1. /\ n1 \in Nat /\ n2 \in Nat
      /\ s \in Seq(S) /\ Len(s) = n1 + n2
      /\ DOMAIN s = 1..(n1 + n2) /\ DOMAIN s1 = 1..n1 /\ DOMAIN s2 = 1..n2
      /\ \A i \in 1..(n1 + n2) : s[i] = IF i <= n1 THEN s1[i] ELSE s2[i - n1]
  BY ConcatProperties, LenProperties
<1> HIDE DEF s, n1, n2
<1>2. \A i \in 1..n1 : s[i] = s1[i] /\ i \in 1..(n1 + n2)
  BY <1>1
<1>3. \A i \in 1..n2 : s[n1 + i] = s2[i] /\ n1 + i \in 1..(n1 + n2)
  BY <1>1
<1>4. \A i \in 1..(n1 + n2) : i \in 1..n1 \/ (i - n1 \in 1..n2 /\ i = n1 + (i - n1))
  BY <1>1
<1>5. ToSet(s) = {s[i] : i \in 1..(n1 + n2)} /\ ToSet(s1) = {s1[i] : i \in 1..n1}
      /\ ToSet(s2) = {s2[i] : i \in 1..n2}
  BY <1>1 DEF ToSet, n1, n2
<1>6. ToSet(s) = ToSet(s1) \cup ToSet(s2)
  <2>1. ASSUME NEW i \in 1..(n1 + n2) PROVE s[i] \in ToSet(s1) \cup ToSet(s2)
    BY <1>2, <1>3, <1>4, <1>5
  <2>2. ASSUME NEW i \in 1..n1 PROVE s1[i] \in ToSet(s)
    BY <1>2, <1>5
  <2>3. ASSUME NEW i \in 1..n2 PROVE s2[i] \in ToSet(s)
    BY <1>3, <1>5
  <2> QED BY <1>5, <2>1, <2>2, <2>3
<1>7. ASSUME IsInjective(s1), IsInjective(s2), ToSet(s1) \cap ToSet(s2) = {},
             NEW i \in 1..(n1 + n2), NEW j \in 1..(n1 + n2), s[i] = s[j]
      PROVE  i = j
  <2>1. CASE i \in 1..n1 /\ j \in 1..n1
    BY <1>1, <1>2, <1>7, <2>1 DEF IsInjective
  <2>2. CASE i - n1 \in 1..n2 /\ j - n1 \in 1..n2
    <3>1. s2[i - n1] = s2[j - n1]
      BY <1>1, <1>3, <1>4, <1>7, <2>2
    <3>2. i - n1 = j - n1
      BY <1>1, <1>7, <2>2, <3>1 DEF IsInjective
    <3> QED BY <1>1, <3>2
  <2>3. CASE i \in 1..n1 /\ j - n1 \in 1..n2
    <3>1. s[i] \in ToSet(s1) /\ s[j] \in ToSet(s2)
      BY <1>1, <1>2, <1>3, <1>5, <2>3
    <3> QED BY <1>7, <3>1
  <2>4. CASE j \in 1..n1 /\ i - n1 \in 1..n2
    <3>1. s[j] \in ToSet(s1) /\ s[i] \in ToSet(s2)
      BY <1>1, <1>2, <1>3, <1>5, <2>4
    <3> QED BY <1>7, <3>1
  <2> QED BY <1>4, <2>1, <2>2, <2>3, <2>4
<1> QED BY <1>1, <1>6, <1>7 DEF s, IsInjective

\* A sequence is one over any set that has its members.
LEMMA RangeFacts ==
  ASSUME NEW S, NEW s \in Seq(S)
  PROVE  /\ \A T : ToSet(s) \subseteq T => s \in Seq(T)
         /\ ToSet(s) \subseteq S
         /\ Len(s) \in Nat
         /\ DOMAIN s = 1..Len(s)
         /\ \A i \in 1..Len(s) : s[i] \in ToSet(s)
         /\ \A x \in ToSet(s) : \E i \in 1..Len(s) : s[i] = x
<1>1. Len(s) \in Nat /\ DOMAIN s = 1..Len(s) /\ s \in [1..Len(s) -> S]
  BY LenProperties
<1>2. ToSet(s) = {s[i] : i \in 1..Len(s)}
  BY <1>1 DEF ToSet
<1>3. ASSUME NEW T, ToSet(s) \subseteq T PROVE s \in Seq(T)
  <2>1. s \in [1..Len(s) -> T]
    BY <1>1, <1>2, <1>3
  <2> QED BY <1>1, <2>1, SeqDef
<1> QED BY <1>1, <1>2, <1>3

\* Adding an element that is not in the list.
LEMMA AppendFacts ==
  ASSUME NEW S, NEW s \in Seq(S), NEW e \in S
  PROVE  /\ Append(s, e) \in Seq(S)
         /\ ToSet(Append(s, e)) = ToSet(s) \cup {e}
         /\ IsInjective(s) /\ e \notin ToSet(s) => IsInjective(Append(s, e))
<1>1. Append(s, e) = s \o <<e>> /\ <<e>> \in Seq(S)
  OBVIOUS
<1>2. ToSet(<<e>>) = {e} /\ IsInjective(<<e>>)
  BY DEF ToSet, IsInjective
<1> DEFINE s2 == <<e>>
<1> HIDE DEF s2
<1>3. /\ s \o s2 \in Seq(S) /\ ToSet(s \o s2) = ToSet(s) \cup ToSet(s2)
      /\ IsInjective(s) /\ IsInjective(s2) /\ ToSet(s) \cap ToSet(s2) = {}
           => IsInjective(s \o s2)
  <2>1. s2 \in Seq(S)
    BY <1>1 DEF s2
  <2> QED BY <2>1, ConcatFacts
<1>4. ToSet(s2) = {e} /\ IsInjective(s2) /\ Append(s, e) = s \o s2
  BY <1>1, <1>2 DEF s2
<1> QED BY <1>3, <1>4

\* Removing the element at place k.
LEMMA RemoveAtFacts ==
  ASSUME NEW S, NEW s \in Seq(S), IsInjective(s), NEW k \in 1..Len(s), NEW e, e = s[k]
  PROVE  /\ RemoveAt(s, k) \in Seq(S)
         /\ IsInjective(RemoveAt(s, k))
         /\ ToSet(RemoveAt(s, k)) = ToSet(s) \ {e}
<1> DEFINE s1 == SubSeq(s, 1, k - 1)
           s2 == SubSeq(s, k + 1, Len(s))
           n == Len(s)
<1>1. RemoveAt(s, k) = s1 \o s2
  BY DEF RemoveAt
<1>2. n \in Nat /\ DOMAIN s = 1..n /\ ToSet(s) = {s[i] : i \in 1..n}
  BY RangeFacts DEF ToSet
<1>3. k \in 1..n /\ s[k] = e
  BY <1>2
<1>f. \A i \in 1..n : s[i] \in S
  BY ElementOfSeq
<1> HIDE DEF n
<1>4. /\ s1 \in Seq(S) /\ Len(s1) = k - 1
      /\ \A i \in 1..(k - 1) : s1[i] = s[i]
  <2>1. \A i \in 1..(k - 1) : s[i] \in S
    BY <1>f, <1>2, <1>3
  <2>2. 1 \in Int /\ k - 1 \in Int /\ (k - 1) - 1 + 1 = k - 1
    BY <1>2, <1>3
  <2>3. /\ s1 \in Seq(S)
        /\ Len(s1) = IF 1 <= k - 1 THEN (k - 1) - 1 + 1 ELSE 0
        /\ \A i \in 1..((k - 1) - 1 + 1) : s1[i] = s[1 + i - 1]
    BY <2>1, <2>2, SubSeqProperties
  <2> QED BY <1>2, <1>3, <2>3
<1>5. /\ s2 \in Seq(S) /\ Len(s2) = n - k
      /\ \A i \in 1..(n - k) : s2[i] = s[k + i]
  <2>1. \A i \in (k + 1)..n : s[i] \in S
    BY <1>f, <1>2, <1>3
  <2>2. k + 1 \in Int /\ n \in Int
    BY <1>2, <1>3
  <2>3. /\ s2 \in Seq(S)
        /\ Len(s2) = IF k + 1 <= n THEN n - (k + 1) + 1 ELSE 0
        /\ \A i \in 1..(n - (k + 1) + 1) : s2[i] = s[(k + 1) + i - 1]
    BY <2>1, <2>2, SubSeqProperties DEF n
  <2> QED BY <1>2, <1>3, <2>3
<1> HIDE DEF s1, s2
<1>6. /\ DOMAIN s1 = 1..(k - 1) /\ ToSet(s1) = {s[i] : i \in 1..(k - 1)}
      /\ DOMAIN s2 = 1..(n - k) /\ ToSet(s2) = {s[k + i] : i \in 1..(n - k)}
  <2>1. DOMAIN s1 = 1..(k - 1) /\ DOMAIN s2 = 1..(n - k)
    BY <1>4, <1>5, RangeFacts
  <2>2. ToSet(s1) = {s1[i] : i \in 1..(k - 1)} /\ ToSet(s2) = {s2[i] : i \in 1..(n - k)}
    BY <2>1 DEF ToSet
  <2>3. ToSet(s1) = {s[i] : i \in 1..(k - 1)}
    BY <1>4, <2>2
  <2>4. ToSet(s2) = {s[k + i] : i \in 1..(n - k)}
    BY <1>5, <2>2
  <2> QED BY <2>1, <2>3, <2>4
<1>7. \A i, j \in 1..n : s[i] = s[j] => i = j
  BY <1>2 DEF IsInjective
<1>8. /\ \A i \in 1..(k - 1) : i \in 1..n /\ i # k
      /\ \A i \in 1..(n - k) : k + i \in 1..n /\ k + i # k
  BY <1>2, <1>3
<1>9. IsInjective(s1)
  BY <1>4, <1>6, <1>7, <1>8 DEF IsInjective
<1>10. IsInjective(s2)
  <2> SUFFICES ASSUME NEW i \in 1..(n - k), NEW j \in 1..(n - k), s2[i] = s2[j]
               PROVE  i = j
    BY <1>6 DEF IsInjective
  <2>1. k + i = k + j
    BY <1>5, <1>7, <1>8
  <2> QED BY <1>2, <1>3, <2>1
<1>11. ToSet(s1) \cap ToSet(s2) = {}
  <2> SUFFICES ASSUME NEW i \in 1..(k - 1), NEW j \in 1..(n - k), s[i] = s[k + j]
               PROVE  FALSE
    BY <1>6
  <2>1. i = k + j
    BY <1>7, <1>8
  <2> QED BY <1>2, <1>3, <2>1
<1>12. ToSet(s1) \cup ToSet(s2) = ToSet(s) \ {e}
  <2>1. ASSUME NEW i \in 1..n, i # k PROVE s[i] \in ToSet(s1) \cup ToSet(s2)
    <3>1. CASE i \in 1..(k - 1)
      BY <1>6, <3>1
    <3>2. CASE i - k \in 1..(n - k)
      <4>1. k + (i - k) = i
        BY <1>2, <1>3
      <4> QED BY <1>6, <3>2, <4>1
    <3> QED BY <1>2, <1>3, <2>1, <3>1, <3>2
  <2>2. ASSUME NEW x \in ToSet(s) \ {e} PROVE x \in ToSet(s1) \cup ToSet(s2)
    BY <1>2, <1>3, <2>1
  <2>3. ASSUME NEW x \in ToSet(s1) \cup ToSet(s2) PROVE x \in ToSet(s) \ {e}
    BY <1>2, <1>3, <1>6, <1>7, <1>8
  <2> QED BY <2>2, <2>3
<1> QED BY <1>1, <1>4, <1>5, <1>9, <1>10, <1>11, <1>12, ConcatFacts

\* The empty list.
LEMMA EmptyFacts == ToSet(<<>>) = {} /\ IsInjective(<<>>) /\ \A S : <<>> \in Seq(S)
<1>1. DOMAIN <<>> = {} /\ \A S : <<>> \in Seq(S)
  OBVIOUS
<1> QED BY <1>1 DEF ToSet, IsInjective
=============================================================================
