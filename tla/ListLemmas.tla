----------------------------- MODULE ListLemmas -----------------------------
(* What the operations on a list of waiters do to the set of its members:   *)
(* used for the generation queue and for the line of questions.  Further    *)
(* down, induction over a length, finite sets listed in an order, sums and  *)
(* other folds, and lists of lists put behind each other.                   *)
EXTENDS Integers, Sequences, SequencesExt, SequenceTheorems, FiniteSetTheorems, WellFoundedInduction, TLAPS

\* InsertAt shifts the tail of the list by one place.
LEMMA InsertAtElements ==
    ASSUME NEW S, NEW s \in Seq(S), NEW e \in S, NEW i \in 1..Len(s) + 1
    PROVE  /\ InsertAt(s, i, e) \in Seq(S)
           /\ Len(InsertAt(s, i, e)) = Len(s) + 1
           /\ \A j \in 1..Len(s) + 1 :
                InsertAt(s, i, e)[j] = IF j < i THEN s[j] ELSE IF j = i THEN e ELSE s[j - 1]
<1> DEFINE a == SubSeq(s, 1, i - 1)
           b == SubSeq(s, i, Len(s))
<1>1. Len(s) \in Nat /\ i \in Int /\ \A j \in 1..Len(s) : s[j] \in S
  BY ElementOfSeq, LenProperties
<1>2. /\ a \in Seq(S) /\ Len(a) = i - 1
      /\ \A j \in 1..i - 1 : a[j] = s[j]
  <2>1. \A j \in 1..i - 1 : s[j] \in S  BY <1>1
  <2>2. /\ a \in Seq(S) /\ Len(a) = IF 1 <= i - 1 THEN i - 1 - 1 + 1 ELSE 0
        /\ \A j \in 1..i - 1 - 1 + 1 : a[j] = s[1 + j - 1]
    BY <1>1, <2>1, SubSeqProperties
  <2> QED  BY <1>1, <2>2
<1>3. /\ b \in Seq(S) /\ Len(b) = Len(s) - i + 1
      /\ \A j \in 1..Len(s) - i + 1 : b[j] = s[i + j - 1]
  <2>1. \A j \in i..Len(s) : s[j] \in S  BY <1>1
  <2>2. /\ b \in Seq(S) /\ Len(b) = IF i <= Len(s) THEN Len(s) - i + 1 ELSE 0
        /\ \A j \in 1..Len(s) - i + 1 : b[j] = s[i + j - 1]
    BY <1>1, <2>1, SubSeqProperties
  <2> QED  BY <1>1, <2>2
<1> HIDE DEF a, b
<1>4. <<e>> \in Seq(S) /\ Len(<<e>>) = 1 /\ <<e>>[1] = e
  OBVIOUS
<1>5. /\ a \o <<e>> \in Seq(S) /\ Len(a \o <<e>>) = i
      /\ \A j \in 1..i : (a \o <<e>>)[j] = IF j <= i - 1 THEN a[j] ELSE <<e>>[j - (i - 1)]
  <2>1. /\ a \o <<e>> \in Seq(S) /\ Len(a \o <<e>>) = i - 1 + 1
        /\ \A j \in 1..i - 1 + 1 :
             (a \o <<e>>)[j] = IF j <= i - 1 THEN a[j] ELSE <<e>>[j - (i - 1)]
    <3>1. /\ a \o <<e>> \in Seq(S) /\ Len(a \o <<e>>) = Len(a) + Len(<<e>>)
          /\ \A j \in 1..Len(a) + Len(<<e>>) :
                (a \o <<e>>)[j] = IF j <= Len(a) THEN a[j] ELSE <<e>>[j - Len(a)]
      <4>1. a \in Seq(S) /\ <<e>> \in Seq(S)  BY <1>2, <1>4
      <4> HIDE DEF a
      <4> QED  BY <4>1, ConcatProperties
    <3>2. Len(a) = i - 1 /\ Len(<<e>>) = 1  BY <1>2, <1>4
    <3> QED  BY <3>1, <3>2, Zenon
  <2>2. i - 1 + 1 = i  BY <1>1
  <2> QED  BY <2>1, <2>2, Zenon
<1>6. /\ (a \o <<e>>) \o b \in Seq(S) /\ Len((a \o <<e>>) \o b) = i + (Len(s) - i + 1)
      /\ \A j \in 1..i + (Len(s) - i + 1) :
            ((a \o <<e>>) \o b)[j] = IF j <= i THEN (a \o <<e>>)[j] ELSE b[j - i]
  BY <1>3, <1>5, ConcatProperties
<1>7. InsertAt(s, i, e) = (a \o <<e>>) \o b
  BY DEF InsertAt, a, b
<1>8. ASSUME NEW j \in 1..Len(s) + 1
      PROVE  ((a \o <<e>>) \o b)[j] = IF j < i THEN s[j] ELSE IF j = i THEN e ELSE s[j - 1]
  <2>0. j \in 1..i + (Len(s) - i + 1)  BY <1>1
  <2>1. CASE j < i
    <3>1. j \in 1..i /\ j <= i /\ j <= i - 1 /\ j \in 1..i - 1  BY <1>1, <2>1
    <3>2. ((a \o <<e>>) \o b)[j] = (a \o <<e>>)[j]  BY <1>6, <2>0, <3>1
    <3>3. (a \o <<e>>)[j] = a[j]  BY <1>5, <3>1
    <3> QED  BY <1>2, <2>1, <3>1, <3>2, <3>3
  <2>2. CASE j = i
    <3>1. j \in 1..i /\ j <= i /\ ~(j <= i - 1) /\ j - (i - 1) = 1 /\ ~(j < i)
      BY <1>1, <2>2
    <3>2. ((a \o <<e>>) \o b)[j] = (a \o <<e>>)[j]  BY <1>6, <2>0, <3>1
    <3>3. (a \o <<e>>)[j] = <<e>>[1]  BY <1>5, <3>1
    <3> QED  BY <1>4, <2>2, <3>1, <3>2, <3>3
  <2>3. CASE j > i
    <3>1. j - i \in 1..Len(s) - i + 1 /\ i + (j - i) - 1 = j - 1  BY <1>1, <2>3
    <3>2. b[j - i] = s[j - 1]  BY <1>3, <3>1
    <3>3. ~(j <= i) /\ ~(j < i) /\ j # i  BY <1>1, <2>3
    <3>4. ((a \o <<e>>) \o b)[j] = b[j - i]  BY <1>6, <2>0, <3>3
    <3> QED  BY <3>2, <3>3, <3>4
  <2>4. j < i \/ j = i \/ j > i  BY <1>1
  <2> QED  BY <2>1, <2>2, <2>3, <2>4
<1> QED  BY <1>1, <1>6, <1>7, <1>8

\* bisect.insort adds one waiter, and only that one.
LEMMA InsertAtRange ==
    ASSUME NEW S, NEW s \in Seq(S), NEW e \in S, NEW i \in 1..Len(s) + 1
    PROVE  /\ Range(InsertAt(s, i, e)) = Range(s) \cup {e}
           /\ IsInjective(s) /\ e \notin Range(s) => IsInjective(InsertAt(s, i, e))
<1> DEFINE t == InsertAt(s, i, e)
<1>1. /\ t \in Seq(S) /\ Len(t) = Len(s) + 1
      /\ \A j \in 1..Len(s) + 1 :
            t[j] = IF j < i THEN s[j] ELSE IF j = i THEN e ELSE s[j - 1]
  BY InsertAtElements
<1> HIDE DEF t
<1>2. DOMAIN s = 1..Len(s) /\ DOMAIN t = 1..Len(s) + 1 /\ Len(s) \in Nat
  BY <1>1
<1>3. Range(t) \subseteq Range(s) \cup {e}
  <2>1. ASSUME NEW j \in 1..Len(s) + 1 PROVE t[j] \in Range(s) \cup {e}
    <3>1. CASE j < i
      <4>1. t[j] = s[j] /\ j \in DOMAIN s  BY <1>1, <1>2, <3>1
      <4> QED  BY <4>1 DEF Range
    <3>2. CASE j = i  BY <1>1, <3>2
    <3>3. CASE j > i
      <4>1. t[j] = s[j - 1] /\ j - 1 \in DOMAIN s  BY <1>1, <1>2, <3>3
      <4> QED  BY <4>1 DEF Range
    <3> QED  BY <1>2, <3>1, <3>2, <3>3
  <2> QED  BY <1>2, <2>1 DEF Range
<1>4. ASSUME NEW j \in 1..Len(s) PROVE s[j] \in Range(t)
  <2>1. CASE j < i
    <3>1. t[j] = s[j] /\ j \in DOMAIN t  BY <1>1, <1>2, <2>1
    <3> QED  BY <3>1 DEF Range
  <2>2. CASE ~(j < i)
    <3>1. t[j + 1] = s[j] /\ j + 1 \in DOMAIN t  BY <1>1, <1>2, <2>2
    <3> QED  BY <3>1 DEF Range
  <2> QED  BY <2>1, <2>2
<1>5. e \in Range(t)
  <2>1. t[i] = e /\ i \in DOMAIN t  BY <1>1, <1>2
  <2> QED  BY <2>1 DEF Range
<1>6. Range(t) = Range(s) \cup {e}
  BY <1>2, <1>3, <1>4, <1>5 DEF Range
<1>7. ASSUME IsInjective(s), e \notin Range(s) PROVE IsInjective(t)
  <2>1. \A j, k \in 1..Len(s) : s[j] = s[k] => j = k
    BY <1>2, <1>7 DEF IsInjective
  <2>2. \A j \in 1..Len(s) : s[j] # e
    BY <1>2, <1>7 DEF Range
  <2>3. ASSUME NEW j \in 1..Len(s) + 1, NEW k \in 1..Len(s) + 1, t[j] = t[k]
        PROVE  j = k
    BY <1>1, <1>2, <2>1, <2>2, <2>3
  <2> QED  BY <1>2, <2>3 DEF IsInjective
<1> QED  BY <1>6, <1>7 DEF t

\* RemoveAt shifts the tail of the list back.
LEMMA RemoveAtElements ==
    ASSUME NEW S, NEW s \in Seq(S), NEW i \in 1..Len(s)
    PROVE  /\ RemoveAt(s, i) \in Seq(S)
           /\ Len(RemoveAt(s, i)) = Len(s) - 1
           /\ \A j \in 1..Len(s) - 1 : RemoveAt(s, i)[j] = IF j < i THEN s[j] ELSE s[j + 1]
<1> DEFINE a == SubSeq(s, 1, i - 1)
           b == SubSeq(s, i + 1, Len(s))
<1>1. Len(s) \in Nat /\ i \in Int /\ \A j \in 1..Len(s) : s[j] \in S
  BY ElementOfSeq, LenProperties
<1>2. /\ a \in Seq(S) /\ Len(a) = i - 1
      /\ \A j \in 1..i - 1 : a[j] = s[j]
  <2>1. \A j \in 1..i - 1 : s[j] \in S  BY <1>1
  <2>2. /\ a \in Seq(S) /\ Len(a) = IF 1 <= i - 1 THEN i - 1 - 1 + 1 ELSE 0
        /\ \A j \in 1..i - 1 - 1 + 1 : a[j] = s[1 + j - 1]
    BY <1>1, <2>1, SubSeqProperties
  <2> QED  BY <1>1, <2>2
<1>3. /\ b \in Seq(S) /\ Len(b) = Len(s) - i
      /\ \A j \in 1..Len(s) - i : b[j] = s[i + j]
  <2>1. \A j \in i + 1..Len(s) : s[j] \in S  BY <1>1
  <2>2. /\ b \in Seq(S)
        /\ Len(b) = IF i + 1 <= Len(s) THEN Len(s) - (i + 1) + 1 ELSE 0
        /\ \A j \in 1..Len(s) - (i + 1) + 1 : b[j] = s[i + 1 + j - 1]
    BY <1>1, <2>1, SubSeqProperties
  <2> QED  BY <1>1, <2>2
<1> HIDE DEF a, b
<1>4. /\ a \o b \in Seq(S) /\ Len(a \o b) = i - 1 + (Len(s) - i)
      /\ \A j \in 1..i - 1 + (Len(s) - i) :
            (a \o b)[j] = IF j <= i - 1 THEN a[j] ELSE b[j - (i - 1)]
  <2>1. /\ a \o b \in Seq(S) /\ Len(a \o b) = Len(a) + Len(b)
        /\ \A j \in 1..Len(a) + Len(b) :
              (a \o b)[j] = IF j <= Len(a) THEN a[j] ELSE b[j - Len(a)]
    <3>1. a \in Seq(S) /\ b \in Seq(S)  BY <1>2, <1>3
    <3> QED  BY <3>1, ConcatProperties
  <2>2. Len(a) = i - 1 /\ Len(b) = Len(s) - i  BY <1>2, <1>3
  <2> QED  BY <2>1, <2>2, Zenon
<1>5. RemoveAt(s, i) = a \o b
  BY DEF RemoveAt, a, b
<1>6. ASSUME NEW j \in 1..Len(s) - 1
      PROVE  (a \o b)[j] = IF j < i THEN s[j] ELSE s[j + 1]
  <2>1. CASE j < i  BY <1>1, <1>2, <1>4, <2>1
  <2>2. CASE ~(j < i)
    <3>1. j - (i - 1) \in 1..Len(s) - i /\ i + (j - (i - 1)) = j + 1  BY <1>1, <2>2
    <3>2. b[j - (i - 1)] = s[j + 1]  BY <1>3, <3>1
    <3> QED  BY <1>1, <1>4, <2>2, <3>2
  <2> QED  BY <2>1, <2>2
<1> QED  BY <1>1, <1>4, <1>5, <1>6

\* Removing one place of a list without repetitions removes one waiter.
LEMMA RemoveAtRange ==
    ASSUME NEW S, NEW s \in Seq(S), NEW i \in 1..Len(s), IsInjective(s)
    PROVE  /\ RemoveAt(s, i) \in Seq(S)
           /\ Range(RemoveAt(s, i)) = Range(s) \ {s[i]}
           /\ IsInjective(RemoveAt(s, i))
<1> DEFINE t == RemoveAt(s, i)
<1>1. /\ t \in Seq(S) /\ Len(t) = Len(s) - 1
      /\ \A j \in 1..Len(s) - 1 : t[j] = IF j < i THEN s[j] ELSE s[j + 1]
  <2> HIDE DEF t
  <2> QED  BY RemoveAtElements DEF t
<1> HIDE DEF t
<1>2. DOMAIN s = 1..Len(s) /\ DOMAIN t = 1..Len(s) - 1 /\ Len(s) \in Nat
  BY <1>1
<1>3. \A j, k \in 1..Len(s) : s[j] = s[k] => j = k
  BY <1>2 DEF IsInjective
<1>4. ASSUME NEW j \in 1..Len(s) - 1 PROVE t[j] \in Range(s) \ {s[i]}
  <2>1. CASE j < i
    <3>1. t[j] = s[j] /\ j \in 1..Len(s) /\ j # i  BY <1>1, <1>2, <2>1
    <3> QED  BY <1>2, <1>3, <3>1 DEF Range
  <2>2. CASE ~(j < i)
    <3>1. t[j] = s[j + 1] /\ j + 1 \in 1..Len(s) /\ j + 1 # i  BY <1>1, <1>2, <2>2
    <3> QED  BY <1>2, <1>3, <3>1 DEF Range
  <2> QED  BY <2>1, <2>2
<1>5. ASSUME NEW j \in 1..Len(s), j # i PROVE s[j] \in Range(t)
  <2>1. CASE j < i
    <3>1. t[j] = s[j] /\ j \in DOMAIN t  BY <1>1, <1>2, <2>1
    <3> QED  BY <3>1 DEF Range
  <2>2. CASE j > i
    <3>1. t[j - 1] = s[j] /\ j - 1 \in DOMAIN t  BY <1>1, <1>2, <2>2
    <3> QED  BY <3>1 DEF Range
  <2> QED  BY <1>5, <2>1, <2>2
<1>6. Range(t) = Range(s) \ {s[i]}
  <2>1. Range(t) \subseteq Range(s) \ {s[i]}  BY <1>2, <1>4 DEF Range
  <2>2. Range(s) \ {s[i]} \subseteq Range(t)  BY <1>2, <1>5 DEF Range
  <2> QED  BY <2>1, <2>2
<1>7. \A j, k \in 1..Len(s) - 1 : t[j] = t[k] => j = k
  BY <1>1, <1>2, <1>3
<1> QED  BY <1>1, <1>2, <1>6, <1>7 DEF t, IsInjective

\* Serving the head of the list removes one waiter.
LEMMA TailRange ==
    ASSUME NEW S, NEW s \in Seq(S), s # <<>>, IsInjective(s)
    PROVE  /\ Tail(s) \in Seq(S)
           /\ Head(s) \in Range(s) /\ Head(s) \in S
           /\ Range(Tail(s)) = Range(s) \ {Head(s)}
           /\ IsInjective(Tail(s))
<1>1. Len(s) \in Nat /\ Len(s) > 0 /\ Head(s) = s[1] /\ 1 \in DOMAIN s
  OBVIOUS
<1>2. Tail(s) = RemoveAt(s, 1)
  <2>1. SubSeq(s, 1, 0) = <<>>  BY SubSeqEmpty
  <2>2. Tail(s) = SubSeq(s, 2, Len(s))  BY <1>1, TailIsSubSeq
  <2>3. <<>> \o Tail(s) = Tail(s)  BY <1>1, ConcatEmptySeq
  <2> QED  BY <2>1, <2>2, <2>3 DEF RemoveAt
<1>3. /\ Tail(s) \in Seq(S) /\ IsInjective(Tail(s))
      /\ Range(Tail(s)) = Range(s) \ {s[1]}
  <2>1. 1 \in 1..Len(s)  BY <1>1
  <2>2. /\ RemoveAt(s, 1) \in Seq(S) /\ IsInjective(RemoveAt(s, 1))
        /\ Range(RemoveAt(s, 1)) = Range(s) \ {s[1]}
    BY <2>1, RemoveAtRange, ZenonT(60)
  <2> QED  BY <1>2, <2>2, ZenonT(60)
<1>4. s[1] \in Range(s) /\ s[1] \in S
  BY <1>1, LenProperties DEF Range
<1> QED  BY <1>1, <1>3, <1>4

\* A newcomer at the end of the list is added, and only that one.
LEMMA AppendRange ==
    ASSUME NEW S, NEW s \in Seq(S), NEW e \in S, IsInjective(s), e \notin Range(s)
    PROVE  /\ Append(s, e) \in Seq(S) /\ Range(Append(s, e)) = Range(s) \cup {e}
           /\ IsInjective(Append(s, e))
<1>1. /\ Append(s, e) \in Seq(S) /\ Len(Append(s, e)) = Len(s) + 1 /\ Len(s) \in Nat
      /\ DOMAIN Append(s, e) = 1..Len(s) + 1 /\ DOMAIN s = 1..Len(s)
      /\ Append(s, e)[Len(s) + 1] = e /\ \A j \in 1..Len(s) : Append(s, e)[j] = s[j]
  BY AppendProperties, LenProperties
<1>2. Range(Append(s, e)) = Range(s) \cup {e}
  <2>1. \A j \in 1..Len(s) + 1 : j \in 1..Len(s) \/ j = Len(s) + 1
    BY <1>1
  <2>2. Len(s) + 1 \in 1..Len(s) + 1 /\ \A j \in 1..Len(s) : j \in 1..Len(s) + 1
    BY <1>1
  <2> QED  BY <1>1, <2>1, <2>2 DEF Range
<1>3. \A j \in 1..Len(s) : s[j] # e
  BY <1>1 DEF Range
<1>4. \A j, k \in 1..Len(s) + 1 : Append(s, e)[j] = Append(s, e)[k] => j = k
  <2>1. \A j, k \in 1..Len(s) : s[j] = s[k] => j = k
    BY <1>1 DEF IsInjective
  <2>2. \A j \in 1..Len(s) + 1 : j \in 1..Len(s) \/ j = Len(s) + 1
    BY <1>1
  <2> QED  BY <1>1, <1>3, <2>1, <2>2
<1> QED  BY <1>1, <1>2, <1>4 DEF IsInjective

\* What is left of a list stands in the order it stood in.
InOrderOf(t, s) ==
    \A i, j \in DOMAIN t : i < j => \E k, l \in DOMAIN s : k < l /\ t[i] = s[k] /\ t[j] = s[l]

LEMMA RemoveAtOrder ==
    ASSUME NEW S, NEW s \in Seq(S), NEW p \in 1..Len(s)
    PROVE  InOrderOf(RemoveAt(s, p), s)
<1> DEFINE t == RemoveAt(s, p)
<1>1. /\ t \in Seq(S) /\ Len(t) = Len(s) - 1
      /\ \A j \in 1..Len(s) - 1 : t[j] = IF j < p THEN s[j] ELSE s[j + 1]
  <2> HIDE DEF t
  <2> QED  BY RemoveAtElements DEF t
<1> HIDE DEF t
<1>2. DOMAIN s = 1..Len(s) /\ DOMAIN t = 1..Len(s) - 1 /\ Len(s) \in Nat
  BY <1>1
<1>3. ASSUME NEW i \in 1..Len(s) - 1, NEW j \in 1..Len(s) - 1, i < j
      PROVE  \E k, l \in 1..Len(s) : k < l /\ t[i] = s[k] /\ t[j] = s[l]
  <2>1. CASE j < p
    <3>1. i \in 1..Len(s) /\ j \in 1..Len(s) /\ t[i] = s[i] /\ t[j] = s[j]
      BY <1>1, <1>2, <1>3, <2>1
    <3> QED  BY <1>3, <3>1
  <2>2. CASE i < p /\ ~(j < p)
    <3>1. i \in 1..Len(s) /\ j + 1 \in 1..Len(s) /\ i < j + 1 /\ t[i] = s[i] /\ t[j] = s[j + 1]
      BY <1>1, <1>2, <1>3, <2>2
    <3> QED  BY <3>1
  <2>3. CASE ~(i < p) /\ ~(j < p)
    <3>1. /\ i + 1 \in 1..Len(s) /\ j + 1 \in 1..Len(s) /\ i + 1 < j + 1
          /\ t[i] = s[i + 1] /\ t[j] = s[j + 1]
      BY <1>1, <1>2, <1>3, <2>3
    <3> QED  BY <3>1
  <2> QED  BY <1>2, <1>3, <2>1, <2>2, <2>3
<1>4. ASSUME NEW i \in DOMAIN t, NEW j \in DOMAIN t, i < j
      PROVE  \E k, l \in DOMAIN s : k < l /\ t[i] = s[k] /\ t[j] = s[l]
  <2>1. i \in 1..Len(s) - 1 /\ j \in 1..Len(s) - 1
    BY <1>2
  <2>2. \E k, l \in 1..Len(s) : k < l /\ t[i] = s[k] /\ t[j] = s[l]
    BY <1>3, <1>4, <2>1
  <2> QED  BY <1>2, <2>2
<1>5. InOrderOf(t, s)
  BY <1>4 DEF InOrderOf
<1> QED  BY <1>5 DEF t

LEMMA TailOrder ==
    ASSUME NEW S, NEW s \in Seq(S), s # <<>>
    PROVE  InOrderOf(Tail(s), s)
<1>1. /\ Tail(s) \in Seq(S) /\ Len(Tail(s)) = Len(s) - 1 /\ Len(s) \in Nat /\ Len(s) > 0
      /\ \A i \in 1..Len(Tail(s)) : Tail(s)[i] = s[i + 1]
  BY HeadTailProperties, LenProperties
<1>2. DOMAIN s = 1..Len(s) /\ DOMAIN Tail(s) = 1..Len(s) - 1
  BY <1>1
<1>3. ASSUME NEW i \in 1..Len(s) - 1, NEW j \in 1..Len(s) - 1, i < j
      PROVE  \E k, l \in 1..Len(s) : k < l /\ Tail(s)[i] = s[k] /\ Tail(s)[j] = s[l]
  <2>1. i + 1 \in 1..Len(s) /\ j + 1 \in 1..Len(s) /\ i + 1 < j + 1
    BY <1>1, <1>3
  <2>2. Tail(s)[i] = s[i + 1] /\ Tail(s)[j] = s[j + 1]
    BY <1>1, <1>3
  <2> QED  BY <2>1, <2>2
<1> QED  BY <1>2, <1>3 DEF InOrderOf

\* Removing an element of a list without repetitions removes just that.
LEMMA RemoveFirstRange ==
    ASSUME NEW S, NEW s \in Seq(S), NEW e, IsInjective(s)
    PROVE  /\ RemoveFirst(s, e) \in Seq(S)
           /\ Range(RemoveFirst(s, e)) = Range(s) \ {e}
           /\ IsInjective(RemoveFirst(s, e))
<1>1. DOMAIN s = 1..Len(s)
  BY LenProperties
<1>2. CASE \E i \in 1..Len(s) : s[i] = e
  <2>1. PICK i \in 1..Len(s) : s[i] = e
    BY <1>2
  <2>2. {k \in 1..Len(s) : s[k] = e} = {i}
    BY <1>1, <2>1 DEF IsInjective
  <2>3. Min({i}) = i
    BY DEF Min
  <2>4. RemoveFirst(s, e) = RemoveAt(s, i)
    BY <1>2, <2>2, <2>3 DEF RemoveFirst, SelectInSeq
  <2>5. /\ RemoveAt(s, i) \in Seq(S) /\ Range(RemoveAt(s, i)) = Range(s) \ {s[i]}
        /\ IsInjective(RemoveAt(s, i))
    BY RemoveAtRange, ZenonT(60)
  <2> QED  BY <2>1, <2>4, <2>5
<1>3. CASE ~\E i \in 1..Len(s) : s[i] = e
  <2>1. e \notin Range(s)
    BY <1>1, <1>3 DEF Range
  <2>2. RemoveFirst(s, e) = s
    BY <1>3 DEF RemoveFirst
  <2> QED  BY <2>1, <2>2
<1> QED  BY <1>2, <1>3

\* The end of a list that is longer than the bound.
LEMMA LastOnes ==
    ASSUME NEW S, NEW s \in Seq(S), IsInjective(s), NEW n \in Nat \ {0}, Len(s) > n
    PROVE  LET t == SubSeq(s, Len(s) - n + 1, Len(s))
           IN  t \in Seq(S) /\ Len(t) = n /\ IsInjective(t)
<1> DEFINE m == Len(s) - n + 1
           t == SubSeq(s, m, Len(s))
<1>1. Len(s) \in Nat /\ m \in Int /\ m >= 1 /\ m <= Len(s) /\ DOMAIN s = 1..Len(s)
  BY LenProperties
<1>2. \A i \in m..Len(s) : s[i] \in S
  BY <1>1, ElementOfSeq
<1> HIDE DEF m
<1>3. /\ SubSeq(s, m, Len(s)) \in Seq(S)
      /\ Len(SubSeq(s, m, Len(s))) = IF m <= Len(s) THEN Len(s) - m + 1 ELSE 0
      /\ \A i \in 1..Len(s) - m + 1 : SubSeq(s, m, Len(s))[i] = s[m + i - 1]
  BY <1>1, <1>2, SubSeqProperties
<1> HIDE DEF t
<1>4. t \in Seq(S) /\ Len(t) = Len(s) - m + 1 /\ \A i \in 1..Len(s) - m + 1 : t[i] = s[m + i - 1]
  BY <1>1, <1>3 DEF t
<1>5. Len(t) = n
  BY <1>1, <1>4 DEF m
<1>6. IsInjective(t)
  <2>1. DOMAIN t = 1..Len(s) - m + 1
    BY <1>4, LenProperties
  <2>2. ASSUME NEW i \in 1..Len(s) - m + 1, NEW j \in 1..Len(s) - m + 1, t[i] = t[j] PROVE i = j
    <3>1. s[m + i - 1] = s[m + j - 1] /\ m + i - 1 \in 1..Len(s) /\ m + j - 1 \in 1..Len(s)
      BY <1>1, <1>4, <2>2
    <3>2. m + i - 1 = m + j - 1
      BY <1>1, <3>1 DEF IsInjective
    <3> QED  BY <1>1, <3>2
  <2> QED  BY <2>1, <2>2 DEF IsInjective
<1> QED  BY <1>4, <1>5, <1>6 DEF t, m

---------------------------------------------------------------------------
(* Induction over numbers, and sequences put one after the other.          *)

\* A function on the numbers up to n is a sequence.
LEMMA SequenceOf ==
    ASSUME NEW S, NEW n \in Nat, NEW f \in [1 .. n -> S]
    PROVE  f \in Seq(S) /\ Len(f) = n
<1>1. f \in Seq(S)  BY SeqDef
<1>2. Len(f) \in Nat /\ DOMAIN f = 1 .. Len(f)  BY <1>1, LenProperties
<1> QED  BY <1>1, <1>2

\* A set of at most one element, as a sequence.
LEMMA SetToSeqOfFew ==
    /\ SetToSeq({}) = <<>>
    /\ \A t : /\ SetToSeq({t}) \in Seq({t}) /\ Len(SetToSeq({t})) = 1
              /\ SetToSeq({t})[1] = t
<1>1. SetToSeq({}) = <<>>
  <2>1. Cardinality({}) = 0 /\ 1 .. 0 = {}  BY FS_EmptySet
  <2> DEFINE e == [x \in {} |-> x]
  <2>2. e \in [1 .. 0 -> {}] /\ IsInjective(e)  BY <2>1 DEF IsInjective
  <2>3. SetToSeq({}) = CHOOSE f \in [1 .. 0 -> {}] : IsInjective(f)  BY <2>1 DEF SetToSeq
  <2>4. SetToSeq({}) \in [1 .. 0 -> {}]  BY <2>2, <2>3
  <2>5. SetToSeq({}) \in Seq({}) /\ Len(SetToSeq({})) = 0  BY <2>4, SequenceOf
  <2> QED  BY <2>5, EmptySeq
<1>2. ASSUME NEW t
      PROVE  /\ SetToSeq({t}) \in Seq({t}) /\ Len(SetToSeq({t})) = 1
             /\ SetToSeq({t})[1] = t
  <2>1. Cardinality({t}) = 1 /\ 1 .. 1 = {1}  BY FS_Singleton
  <2> DEFINE e == [x \in 1 .. 1 |-> t]
  <2>2. e \in [1 .. 1 -> {t}] /\ IsInjective(e)  BY <2>1 DEF IsInjective
  <2>3. SetToSeq({t}) = CHOOSE f \in [1 .. 1 -> {t}] : IsInjective(f)  BY <2>1 DEF SetToSeq
  <2>4. SetToSeq({t}) \in [1 .. 1 -> {t}]  BY <2>2, <2>3
  <2>5. SetToSeq({t}) \in Seq({t}) /\ Len(SetToSeq({t})) = 1  BY <2>4, SequenceOf
  <2> QED  BY <2>4, <2>5
<1> QED  BY <1>1, <1>2

\* Induction up to a bound, for a set of numbers.
LEMMA UpTo ==
    ASSUME NEW n \in Nat, NEW G, 0 \in G, \A m \in 0 .. n - 1 : m \in G => m + 1 \in G
    PROVE  \A m \in 0 .. n : m \in G
<1> DEFINE Rest(m) == m + 1 .. n
           T == {Rest(m) : m \in {m \in 0 .. n : \A k \in 0 .. m : k \in G}}
<1>1. IsWellFoundedOn(StrictSubsetOrdering(1 .. n), FiniteSubsetsOf(1 .. n))
  BY FS_StrictSubsetOrderingWellFounded
<1>2. T \subseteq FiniteSubsetsOf(1 .. n) /\ T # {}
  <2>1. \A m \in 0 .. n : Rest(m) \subseteq 1 .. n /\ IsFiniteSet(Rest(m))
    BY FS_Interval
  <2>2. T \subseteq FiniteSubsetsOf(1 .. n)  BY <2>1 DEF FiniteSubsetsOf
  <2>3. 0 \in {m \in 0 .. n : \A k \in 0 .. m : k \in G}  OBVIOUS
  <2>4. Rest(0) \in T  BY <2>3
  <2> QED  BY <2>2, <2>4
<1> HIDE DEF T
<1>3. PICK U \in T : \A V \in T : ~(<<V, U>> \in StrictSubsetOrdering(1 .. n))
  BY <1>1, <1>2, WFMin
<1>4. PICK m \in 0 .. n : U = Rest(m) /\ \A k \in 0 .. m : k \in G
  BY <1>3 DEF T
<1>5. m = n
  <2> SUFFICES ASSUME m # n PROVE FALSE  OBVIOUS
  <2>1. m \in 0 .. n - 1 /\ m + 1 \in 0 .. n  BY <1>4
  <2>2. \A k \in 0 .. m + 1 : k \in G  BY <1>4, <2>1
  <2>3. Rest(m + 1) \in T  BY <2>1, <2>2 DEF T
  <2>4. Rest(m + 1) \subseteq Rest(m) /\ m + 1 \in Rest(m) /\ m + 1 \notin Rest(m + 1)
    BY <2>1
  <2>5. Rest(m) \in FiniteSubsetsOf(1 .. n) /\ Rest(m + 1) \in FiniteSubsetsOf(1 .. n)
    BY <1>2, <1>3, <1>4, <2>3
  <2> HIDE DEF Rest
  <2>6. <<Rest(m + 1), Rest(m)>> \in StrictSubsetOrdering(1 .. n)
    BY <2>4, <2>5 DEF StrictSubsetOrdering, FiniteSubsetsOf
  <2> QED  BY <1>3, <1>4, <2>3, <2>6
<1> QED  BY <1>4, <1>5

\* FlattenSeq puts the sequences one after the other.
Joined(seqs, f, m) == \A i \in 1 .. m : f[i] = IF i = 1 THEN seqs[i] ELSE f[i - 1] \o seqs[i]

LEMMA Flattening ==
    ASSUME NEW S, NEW seqs \in Seq(Seq(S)), seqs # <<>>
    PROVE  \E f \in [1 .. Len(seqs) -> Seq(S)] : Joined(seqs, f, Len(seqs)) /\ FlattenSeq(seqs) = f[Len(seqs)]
<1> DEFINE n == Len(seqs)
           flatten == CHOOSE flatten : flatten = [i \in 1 .. n |-> IF i = 1 THEN seqs[i] ELSE flatten[i - 1] \o seqs[i]]
           G == {m \in 0 .. n : \E f \in [1 .. m -> Seq(S)] : Joined(seqs, f, m)}
<1>1. n \in Nat \ {0} /\ \A i \in 1 .. n : seqs[i] \in Seq(S)
  BY EmptySeq, LenProperties, ElementOfSeq
<1>2. FlattenSeq(seqs) = flatten[n]
  BY <1>1 DEF FlattenSeq
<1> HIDE DEF n
<1>3. 0 \in G
  <2> DEFINE f == [i \in 1 .. 0 |-> <<>>]
  <2>1. f \in [1 .. 0 -> Seq(S)] /\ Joined(seqs, f, 0)
    <3>1. 1 .. 0 = {}  OBVIOUS
    <3> QED  BY <3>1 DEF Joined
  <2> HIDE DEF f
  <2>2. \E g \in [1 .. 0 -> Seq(S)] : Joined(seqs, g, 0)  BY <2>1
  <2>3. 0 \in 0 .. n  BY <1>1
  <2> QED  BY <2>2, <2>3
<1>4. ASSUME NEW m \in 0 .. n - 1, m \in G PROVE m + 1 \in G
  <2>1. PICK f \in [1 .. m -> Seq(S)] : Joined(seqs, f, m)  BY <1>4
  <2> DEFINE e == IF m + 1 = 1 THEN seqs[m + 1] ELSE f[m] \o seqs[m + 1]
             g == [i \in 1 .. m + 1 |-> IF i = m + 1 THEN e ELSE f[i]]
  <2>2. e \in Seq(S)
    <3>1. seqs[m + 1] \in Seq(S)  BY <1>1
    <3>2. m # 0 => f[m] \in Seq(S)  OBVIOUS
    <3> QED  BY <3>1, <3>2, ConcatProperties
  <2> HIDE DEF e
  <2>3. g \in [1 .. m + 1 -> Seq(S)]  BY <1>1, <2>2
  <2>4. ASSUME NEW i \in 1 .. m + 1
        PROVE  g[i] = IF i = 1 THEN seqs[i] ELSE g[i - 1] \o seqs[i]
    <3>1. CASE i = m + 1
      <4>1. g[i] = e  BY <3>1
      <4>2. i # 1 => g[i - 1] = f[m]  BY <3>1
      <4> QED  BY <3>1, <4>1, <4>2 DEF e
    <3>2. CASE i # m + 1
      <4>1. i \in 1 .. m /\ g[i] = f[i]  BY <3>2
      <4>2. i # 1 => g[i - 1] = f[i - 1]  BY <4>1
      <4> HIDE DEF g
      <4> QED  BY <2>1, <4>1, <4>2 DEF Joined
    <3> QED  BY <3>1, <3>2
  <2> HIDE DEF g
  <2>5. Joined(seqs, g, m + 1)  BY <2>4 DEF Joined
  <2>6. m + 1 \in 0 .. n  BY <1>1
  <2> QED  BY <2>3, <2>5, <2>6
<1> HIDE DEF G
<1>5. n \in G
  <2>1. \A m \in 0 .. n - 1 : m \in G => m + 1 \in G  BY <1>4
  <2>2. \A m \in 0 .. n : m \in G  BY <1>1, <1>3, <2>1, UpTo
  <2> QED  BY <1>1, <2>2
<1>6. PICK f \in [1 .. n -> Seq(S)] : Joined(seqs, f, n)  BY <1>5 DEF G
<1>7. f = [i \in 1 .. n |-> IF i = 1 THEN seqs[i] ELSE f[i - 1] \o seqs[i]]
  BY <1>6 DEF Joined
<1>8. flatten = [i \in 1 .. n |-> IF i = 1 THEN seqs[i] ELSE flatten[i - 1] \o seqs[i]]
  BY <1>7
<1> HIDE DEF flatten
<1>9. \A i \in 1 .. n : flatten[i] = IF i = 1 THEN seqs[i] ELSE flatten[i - 1] \o seqs[i]
  BY <1>8
<1> DEFINE H == {m \in 0 .. n : m = 0 \/ flatten[m] = f[m]}
<1>10. \A m \in 0 .. n : m \in H
  <2>1. 0 \in H  BY <1>1
  <2>2. ASSUME NEW m \in 0 .. n - 1, m \in H PROVE m + 1 \in H
    <3>1. m + 1 \in 1 .. n /\ (m + 1) - 1 = m /\ (m + 1 # 1 => m # 0)  BY <1>1
    <3>2. flatten[m + 1] = IF m + 1 = 1 THEN seqs[m + 1] ELSE flatten[m] \o seqs[m + 1]
      BY <1>9, <3>1
    <3>3. f[m + 1] = IF m + 1 = 1 THEN seqs[m + 1] ELSE f[m] \o seqs[m + 1]
      BY <1>6, <3>1 DEF Joined
    <3>4. m = 0 \/ flatten[m] = f[m]  BY <2>2
    <3>5. flatten[m + 1] = f[m + 1]  BY <3>1, <3>2, <3>3, <3>4
    <3>6. m + 1 \in 0 .. n  BY <1>1
    <3> QED  BY <3>5, <3>6
  <2> HIDE DEF H
  <2> QED  BY <1>1, <2>1, <2>2, UpTo
<1>11. flatten[n] = f[n]  BY <1>1, <1>10
<1> QED  BY <1>2, <1>6, <1>11 DEF n

\* Its length, given the lengths of all that comes before each.
LEMMA FlattenLength ==
    ASSUME NEW S, NEW seqs \in Seq(Seq(S)), NEW C,
           \A i \in 0 .. Len(seqs) : C[i] \in Nat, C[0] = 0,
           \A i \in 1 .. Len(seqs) : C[i] = C[i - 1] + Len(seqs[i])
    PROVE  FlattenSeq(seqs) \in Seq(S) /\ Len(FlattenSeq(seqs)) = C[Len(seqs)]
<1>0. Len(seqs) \in Nat /\ \A i \in 1 .. Len(seqs) : seqs[i] \in Seq(S)
  BY LenProperties, ElementOfSeq
<1>1. CASE seqs = <<>>
  <2>1. Len(seqs) = 0 /\ <<>> \in Seq(S)  BY <1>1, EmptySeq
  <2>2. FlattenSeq(seqs) = <<>>  BY <1>1, <2>1 DEF FlattenSeq
  <2> QED  BY <1>1, <2>1, <2>2
<1>2. CASE seqs # <<>>
  <2>1. PICK n \in Nat : n = Len(seqs) /\ n # 0  BY <1>0, <1>2, EmptySeq
  <2>2. PICK f \in [1 .. n -> Seq(S)] : Joined(seqs, f, n) /\ FlattenSeq(seqs) = f[n]
    BY <1>2, <2>1, Flattening
  <2> DEFINE G == {m \in 0 .. n : m = 0 \/ Len(f[m]) = C[m]}
  <2>3. 0 \in G  BY <2>1
  <2>4. ASSUME NEW m \in 0 .. n - 1, m \in G PROVE m + 1 \in G
    <3>1. m + 1 \in 1 .. n /\ (m + 1) - 1 = m /\ m + 1 \in 0 .. n  BY <2>1
    <3>2. f[m + 1] = IF m + 1 = 1 THEN seqs[m + 1] ELSE f[m] \o seqs[m + 1]
      BY <2>2, <3>1 DEF Joined
    <3>3. C[m + 1] = C[m] + Len(seqs[m + 1]) /\ C[m] \in Nat /\ Len(seqs[m + 1]) \in Nat
      BY <1>0, <2>1, <3>1, LenProperties
    <3>4. CASE m = 0
      BY <3>1, <3>2, <3>3, <3>4
    <3>5. CASE m # 0
      <4>1. f[m] \in Seq(S) /\ seqs[m + 1] \in Seq(S) /\ m + 1 # 1
        <5>1. m \in 1 .. n /\ m + 1 # 1  BY <2>1, <3>5
        <5>2. f[m] \in Seq(S)  BY <5>1
        <5>3. seqs[m + 1] \in Seq(S)  BY <1>0, <2>1, <3>1
        <5> QED  BY <5>1, <5>2, <5>3
      <4>2. Len(f[m] \o seqs[m + 1]) = Len(f[m]) + Len(seqs[m + 1])  BY <4>1, ConcatProperties
      <4>3. Len(f[m]) = C[m]  BY <2>4, <3>5
      <4> QED  BY <3>1, <3>2, <3>3, <4>1, <4>2, <4>3
    <3> QED  BY <3>4, <3>5
  <2>5. \A m \in 0 .. n : m \in G
    <3> HIDE DEF G
    <3> QED  BY <2>1, <2>3, <2>4, UpTo
  <2>6. Len(f[n]) = C[n] /\ f[n] \in Seq(S)  BY <2>1, <2>5
  <2> QED  BY <2>1, <2>2, <2>6
<1> QED  BY <1>1, <1>2

\* What is put together of sequences over a set is one.
LEMMA FlattenType ==
    ASSUME NEW S, NEW seqs \in Seq(Seq(S))
    PROVE  FlattenSeq(seqs) \in Seq(S)
<1>1. CASE seqs = <<>>
  <2>1. Len(seqs) = 0 /\ <<>> \in Seq(S)  BY <1>1, EmptySeq
  <2>2. FlattenSeq(seqs) = <<>>  BY <1>1, <2>1 DEF FlattenSeq
  <2> QED  BY <2>1, <2>2
<1>2. CASE seqs # <<>>
  <2>1. PICK n \in Nat : n = Len(seqs) /\ n # 0  BY <1>2, EmptySeq
  <2>2. PICK f \in [1 .. n -> Seq(S)] : Joined(seqs, f, n) /\ FlattenSeq(seqs) = f[n]
    BY <1>2, <2>1, Flattening
  <2> QED  BY <2>1, <2>2
<1> QED  BY <1>1, <1>2

\* One more sequence is put after the others.
LEMMA FlattenAppend ==
    ASSUME NEW S, NEW seqs \in Seq(Seq(S)), NEW s \in Seq(S)
    PROVE  FlattenSeq(Append(seqs, s)) = FlattenSeq(seqs) \o s
<1> DEFINE n == Len(seqs)
           more == Append(seqs, s)
<1>1. /\ n \in Nat /\ more \in Seq(Seq(S)) /\ Len(more) = n + 1 /\ more # <<>>
      /\ more[n + 1] = s /\ \A i \in 1 .. n : more[i] = seqs[i]
  BY LenProperties, AppendProperties, EmptySeq
<1> HIDE DEF more
<1>2. PICK g \in [1 .. Len(more) -> Seq(S)] : Joined(more, g, Len(more)) /\ FlattenSeq(more) = g[Len(more)]
  BY <1>1, Flattening
<1>3. n + 1 \in 1 .. n + 1 /\ g[n + 1] = IF n + 1 = 1 THEN more[n + 1] ELSE g[(n + 1) - 1] \o more[n + 1]
  <2>1. Len(more) = n + 1  BY <1>1
  <2>2. \A i \in 1 .. n + 1 : g[i] = IF i = 1 THEN more[i] ELSE g[i - 1] \o more[i]
    BY <1>2, <2>1 DEF Joined
  <2>3. n + 1 \in 1 .. n + 1  BY <1>1
  <2> HIDE DEF n
  <2> QED  BY <2>2, <2>3
<1>4. CASE seqs = <<>>
  <2>1. n = 0 /\ Len(seqs) = 0  BY <1>4, EmptySeq
  <2>2. FlattenSeq(seqs) = <<>>  BY <1>4, <2>1 DEF FlattenSeq
  <2>3. <<>> \o s = s  BY ConcatEmptySeq
  <2>4. FlattenSeq(more) = s  BY <1>1, <1>2, <1>3, <2>1
  <2> QED  BY <2>2, <2>3, <2>4 DEF more
<1>5. CASE seqs # <<>>
  <2>1. n # 0  BY <1>5, EmptySeq, LenProperties
  <2>2. PICK f \in [1 .. n -> Seq(S)] : Joined(seqs, f, n) /\ FlattenSeq(seqs) = f[n]
    BY <1>5, Flattening
  <2> DEFINE G == {m \in 0 .. n : m = 0 \/ f[m] = g[m]}
  <2> HIDE DEF n
  <2>3. 0 \in G
    <3>1. 0 \in 0 .. n  BY <1>1
    <3> QED  BY <3>1
  <2>4. ASSUME NEW m \in 0 .. n - 1, m \in G PROVE m + 1 \in G
    <3>1. m + 1 \in 1 .. n /\ m + 1 \in 1 .. n + 1 /\ (m + 1) - 1 = m /\ m + 1 \in 0 .. n /\ (m + 1 # 1 => m # 0)
      BY <1>1
    <3>2. f[m + 1] = IF m + 1 = 1 THEN seqs[m + 1] ELSE f[m] \o seqs[m + 1]
      BY <2>2, <3>1 DEF Joined
    <3>3. g[m + 1] = IF m + 1 = 1 THEN more[m + 1] ELSE g[m] \o more[m + 1]
      BY <1>1, <1>2, <3>1 DEF Joined
    <3>4. more[m + 1] = seqs[m + 1] /\ (m = 0 \/ f[m] = g[m])  BY <1>1, <2>4, <3>1
    <3> QED  BY <3>1, <3>2, <3>3, <3>4
  <2>5. \A m \in 0 .. n - 1 : m \in G => m + 1 \in G  BY <2>4
  <2> HIDE DEF G
  <2>6. \A m \in 0 .. n : m \in G  BY <1>1, <2>3, <2>5, UpTo
  <2>7. n \in 0 .. n /\ n + 1 # 1 /\ (n + 1) - 1 = n  BY <1>1, <2>1
  <2>8. f[n] = g[n]  BY <2>1, <2>6, <2>7 DEF G
  <2>9. FlattenSeq(more) = g[n] \o s  BY <1>1, <1>2, <1>3, <2>7
  <2> QED  BY <2>2, <2>8, <2>9 DEF more
<1> QED  BY <1>4, <1>5

LEMMA OneOf == \A S : \A e \in S : <<e>> \in Seq(S)
OBVIOUS

---------------------------------------------------------------------------
(* Sets listed in an order.                                                *)

\* Finitely many things that are ordered have a last one, ...
LEMMA LastExists ==
    ASSUME NEW S, IsFiniteSet(S), NEW R,
           \A x, y \in S : x = y \/ <<x, y>> \in R \/ <<y, x>> \in R,
           \A x, y, z \in S : <<x, y>> \in R /\ <<y, z>> \in R => <<x, z>> \in R
    PROVE  \A U \in SUBSET S : U # {} => \E x \in U : \A y \in U : y = x \/ <<y, x>> \in R
<1> DEFINE HasLast(U) == \E x \in U : \A y \in U : y = x \/ <<y, x>> \in R
           G == {m \in 0 .. Cardinality(S) : \A U \in SUBSET S : Cardinality(U) = m /\ U # {} => HasLast(U)}
<1>1. Cardinality(S) \in Nat /\ \A U \in SUBSET S : IsFiniteSet(U) /\ Cardinality(U) \in 0 .. Cardinality(S)
  BY FS_CardinalityType, FS_Subset
<1>2. 0 \in G
  <2>1. \A U \in SUBSET S : Cardinality(U) = 0 => U = {}  BY <1>1, FS_EmptySet
  <2> QED  BY <1>1, <2>1
<1>3. ASSUME NEW m \in 0 .. Cardinality(S) - 1, m \in G PROVE m + 1 \in G
  <2>1. ASSUME NEW U \in SUBSET S, Cardinality(U) = m + 1 PROVE HasLast(U)
    <3>1. U # {}  BY <1>1, <2>1, FS_EmptySet
    <3>2. PICK u \in U : TRUE  BY <3>1
    <3>3. Cardinality(U \ {u}) = m /\ U \ {u} \in SUBSET S
      <4>1. Cardinality(U \ {u}) = Cardinality(U) - 1  BY <1>1, <3>2, FS_RemoveElement
      <4> QED  BY <1>1, <2>1, <4>1
    <3>4. CASE U \ {u} = {}
      <4>1. \A y \in U : y = u  BY <3>4
      <4> QED  BY <4>1
    <3>5. CASE U \ {u} # {}
      <4>1. HasLast(U \ {u})  BY <1>3, <3>3, <3>5
      <4>2. PICK x \in U \ {u} : \A y \in U \ {u} : y = x \/ <<y, x>> \in R  BY <4>1
      <4>3. x \in S /\ u \in S  BY <3>2, <4>2
      <4>4. CASE <<u, x>> \in R
        <5>1. \A y \in U : y = x \/ <<y, x>> \in R  BY <4>2, <4>4
        <5> QED  BY <5>1
      <4>5. CASE <<x, u>> \in R
        <5>1. \A y \in U : y = u \/ <<y, u>> \in R  BY <4>2, <4>3, <4>5
        <5> QED  BY <3>2, <5>1
      <4> QED  BY <4>2, <4>3, <4>4, <4>5
    <3> QED  BY <3>4, <3>5
  <2> HIDE DEF HasLast
  <2>2. m + 1 \in 0 .. Cardinality(S)  BY <1>1
  <2> QED  BY <2>1, <2>2
<1> HIDE DEF HasLast
<1>4. \A m \in 0 .. Cardinality(S) : m \in G
  <2> HIDE DEF G
  <2> QED  BY <1>1, <1>2, <1>3, UpTo
<1>5. \A U \in SUBSET S : U # {} => HasLast(U)
  BY <1>1, <1>4
<1> QED  BY <1>5 DEF HasLast

Ascending(e, n, R) == \A i, j \in 1 .. n : i < j => <<e[i], e[j]>> \in R

\* ... and can be listed in their order.
LEMMA OrderExists ==
    ASSUME NEW S, IsFiniteSet(S), NEW R,
           \A x, y \in S : x = y \/ <<x, y>> \in R \/ <<y, x>> \in R,
           \A x, y, z \in S : <<x, y>> \in R /\ <<y, z>> \in R => <<x, z>> \in R
    PROVE  \E e \in [1 .. Cardinality(S) -> S] : Ascending(e, Cardinality(S), R)
<1> DEFINE Listed(U, m) == \E e \in [1 .. m -> U] : Ascending(e, m, R)
           G == {m \in 0 .. Cardinality(S) : \A U \in SUBSET S : Cardinality(U) = m => Listed(U, m)}
<1>1. Cardinality(S) \in Nat /\ \A U \in SUBSET S : IsFiniteSet(U) /\ Cardinality(U) \in 0 .. Cardinality(S)
  BY FS_CardinalityType, FS_Subset
<1>2. 0 \in G
  <2>1. ASSUME NEW U \in SUBSET S PROVE Listed(U, 0)
    <3> DEFINE e == [i \in 1 .. 0 |-> CHOOSE x \in U : TRUE]
    <3>1. e \in [1 .. 0 -> U] /\ Ascending(e, 0, R)
      <4>1. 1 .. 0 = {}  OBVIOUS
      <4> QED  BY <4>1 DEF Ascending
    <3> HIDE DEF e
    <3> QED  BY <3>1
  <2> HIDE DEF Listed
  <2> QED  BY <1>1, <2>1
<1>3. ASSUME NEW m \in 0 .. Cardinality(S) - 1, m \in G PROVE m + 1 \in G
  <2>1. ASSUME NEW U \in SUBSET S, Cardinality(U) = m + 1 PROVE Listed(U, m + 1)
    <3>1. U # {}  BY <1>1, <2>1, FS_EmptySet
    <3>2. PICK x \in U : \A y \in U : y = x \/ <<y, x>> \in R  BY <3>1, LastExists
    <3>3. Cardinality(U \ {x}) = m /\ U \ {x} \in SUBSET S
      <4>1. Cardinality(U \ {x}) = Cardinality(U) - 1  BY <1>1, <3>2, FS_RemoveElement
      <4> QED  BY <1>1, <2>1, <4>1
    <3>4. PICK e \in [1 .. m -> U \ {x}] : Ascending(e, m, R)  BY <1>3, <3>3
    <3> DEFINE g == [i \in 1 .. m + 1 |-> IF i = m + 1 THEN x ELSE e[i]]
    <3>5. \A i \in 1 .. m + 1 : i = m + 1 \/ i \in 1 .. m  OBVIOUS
    <3>6. g \in [1 .. m + 1 -> U]  BY <3>4, <3>5
    <3>7. ASSUME NEW i \in 1 .. m + 1, NEW j \in 1 .. m + 1, i < j PROVE <<g[i], g[j]>> \in R
      <4>1. i \in 1 .. m /\ g[i] = e[i]  BY <3>7
      <4>2. CASE j = m + 1
        <5>1. g[j] = x /\ e[i] \in U /\ e[i] # x  BY <3>4, <4>1, <4>2
        <5> QED  BY <3>2, <4>1, <5>1
      <4>3. CASE j # m + 1
        <5>1. j \in 1 .. m /\ g[j] = e[j]  BY <3>5, <4>3
        <5> HIDE DEF g
        <5> QED  BY <3>4, <3>7, <4>1, <5>1 DEF Ascending
      <4> QED  BY <4>2, <4>3
    <3> HIDE DEF g
    <3>8. Ascending(g, m + 1, R)  BY <3>7 DEF Ascending
    <3> QED  BY <3>6, <3>8
  <2> HIDE DEF Listed
  <2>2. m + 1 \in 0 .. Cardinality(S)  BY <1>1
  <2> QED  BY <2>1, <2>2
<1> HIDE DEF Listed
<1>4. \A m \in 0 .. Cardinality(S) : m \in G
  <2> HIDE DEF G
  <2> QED  BY <1>1, <1>2, <1>3, UpTo
<1>5. Listed(S, Cardinality(S))
  BY <1>1, <1>4
<1> QED  BY <1>5 DEF Listed

\* A list in a strict order holds every element once.
LEMMA AscendingIsOnto ==
    ASSUME NEW S, IsFiniteSet(S), NEW R, \A x \in S : <<x, x>> \notin R
    PROVE  \A e \in [1 .. Cardinality(S) -> S] : Ascending(e, Cardinality(S), R) =>
             /\ \A i, j \in 1 .. Cardinality(S) : e[i] = e[j] => i = j
             /\ \A x \in S : \E i \in 1 .. Cardinality(S) : e[i] = x
<1> TAKE e \in [1 .. Cardinality(S) -> S]
<1> HAVE Ascending(e, Cardinality(S), R)
<1>1. PICK n \in Nat : n = Cardinality(S)  BY FS_CardinalityType
<1>2. ASSUME NEW i \in 1 .. n, NEW j \in 1 .. n, e[i] = e[j] PROVE i = j
  <2>1. e[i] \in S  BY <1>1
  <2>2. ~(i < j) /\ ~(j < i)  BY <1>1, <1>2, <2>1 DEF Ascending
  <2> QED  BY <2>2
<1>3. e \in Injection(1 .. n, S)  BY <1>1, <1>2 DEF Injection, IsInjective
<1>4. Cardinality(1 .. n) = n  BY FS_Interval
<1>5. e \in Surjection(1 .. n, S)  BY <1>1, <1>3, <1>4, FS_Injection
<1> QED  BY <1>1, <1>2, <1>5 DEF Surjection

\* Every rank of a finite set in a strict order is some element's.
LEMMA RankExists ==
    ASSUME NEW S, IsFiniteSet(S), NEW R, \A x \in S : <<x, x>> \notin R,
           \A x, y \in S : x = y \/ <<x, y>> \in R \/ <<y, x>> \in R,
           \A x, y, z \in S : <<x, y>> \in R /\ <<y, z>> \in R => <<x, z>> \in R
    PROVE  \A n \in 1 .. Cardinality(S) : \E x \in S : Cardinality({y \in S : <<y, x>> \in R}) = n - 1
<1>1. PICK m \in Nat : m = Cardinality(S)  BY FS_CardinalityType
<1>2. PICK e \in [1 .. m -> S] : Ascending(e, m, R)  BY <1>1, OrderExists
<1>3. /\ \A i, j \in 1 .. m : e[i] = e[j] => i = j
      /\ \A x \in S : \E i \in 1 .. m : e[i] = x
  BY <1>1, <1>2, AscendingIsOnto
<1>4. ASSUME NEW n \in 1 .. m PROVE \E x \in S : Cardinality({y \in S : <<y, x>> \in R}) = n - 1
  <2> DEFINE T == {y \in S : <<y, e[n]>> \in R}
             g == [i \in 1 .. n - 1 |-> e[i]]
  <2>1. e[n] \in S /\ \A i \in 1 .. n - 1 : i \in 1 .. m /\ i < n  BY <1>1, <1>2
  <2>2. \A i \in 1 .. n - 1 : e[i] \in T  BY <1>2, <2>1 DEF Ascending
  <2>3. ASSUME NEW y \in T PROVE \E i \in 1 .. n - 1 : e[i] = y
    <3>1. PICK i \in 1 .. m : e[i] = y  BY <1>3
    <3>2. CASE i < n
      <4>1. i \in 1 .. n - 1  BY <1>1, <3>2
      <4> QED  BY <3>1, <4>1
    <3>3. CASE i = n  BY <2>1, <3>1, <3>3
    <3>4. CASE n < i
      <4>1. <<e[n], y>> \in R  BY <1>2, <3>1, <3>4 DEF Ascending
      <4>2. <<y, e[n]>> \in R /\ y \in S  OBVIOUS
      <4> QED  BY <2>1, <4>1, <4>2
    <3> QED  BY <1>1, <3>2, <3>3, <3>4
  <2> HIDE DEF T
  <2>4. g \in [1 .. n - 1 -> T] /\ \A i \in 1 .. n - 1 : g[i] = e[i]  BY <2>2
  <2> HIDE DEF g
  <2>5. \A i, j \in 1 .. n - 1 : g[i] = g[j] => i = j  BY <1>3, <2>1, <2>4
  <2>6. \A y \in T : \E i \in 1 .. n - 1 : g[i] = y  BY <2>3, <2>4
  <2>7. g \in Bijection(1 .. n - 1, T)  BY <2>4, <2>5, <2>6 DEF Bijection, Injection, Surjection, IsInjective
  <2>8. IsFiniteSet(1 .. n - 1) /\ Cardinality(1 .. n - 1) = n - 1
    <3>1. PICK k \in Nat : k = n - 1  BY <1>1
    <3>2. 1 \in Int /\ k \in Int  OBVIOUS
    <3>3. /\ IsFiniteSet(1 .. k)
          /\ Cardinality(1 .. k) = IF 1 > k THEN 0 ELSE k - 1 + 1
      BY <3>2, FS_Interval
    <3>4. (IF 1 > k THEN 0 ELSE k - 1 + 1) = k  BY <3>1
    <3> QED  BY <3>1, <3>3, <3>4
  <2>9. ExistsBijection(1 .. n - 1, T)  BY <2>7 DEF ExistsBijection
  <2>10. Cardinality(T) = n - 1  BY <2>8, <2>9, FS_Bijection
  <2> QED  BY <2>1, <2>10 DEF T
<1> QED  BY <1>1, <1>4

\* The largest of the numbers up to m + 1 that hold m + 1.
LEMMA LargestOf ==
    ASSUME NEW m \in Nat, NEW u \in SUBSET (1 .. m + 1), m + 1 \in u
    PROVE  Max(u) = m + 1
<1>1. \A y \in u : m + 1 >= y  OBVIOUS
<1>2. \A x \in u : (\A y \in u : x >= y) => x = m + 1  OBVIOUS
<1> QED  BY <1>1, <1>2 DEF Max

\* A set of numbers has a largest one.
LEMMA LargestIn ==
    ASSUME NEW n \in Nat, NEW u \in SUBSET (1 .. n), u # {}
    PROVE  Max(u) \in u
<1> DEFINE G == {m \in 0 .. n : \A v \in SUBSET (1 .. m) : v # {} => Max(v) \in v}
<1>1. 0 \in G
  <2>1. 1 .. 0 = {} /\ 0 \in 0 .. n  OBVIOUS
  <2> QED  BY <2>1
<1>2. ASSUME NEW m \in 0 .. n - 1, m \in G PROVE m + 1 \in G
  <2>1. m \in Nat /\ m + 1 \in 0 .. n  OBVIOUS
  <2>2. ASSUME NEW v \in SUBSET (1 .. m + 1), v # {} PROVE Max(v) \in v
    <3>1. CASE m + 1 \in v  BY <2>1, <3>1, LargestOf
    <3>2. CASE m + 1 \notin v
      <4>1. v \in SUBSET (1 .. m)  BY <2>1, <3>2
      <4> QED  BY <1>2, <2>2, <4>1
    <3> QED  BY <3>1, <3>2
  <2> QED  BY <2>1, <2>2
<1>3. \A m \in 0 .. n - 1 : m \in G => m + 1 \in G  BY <1>2
<1> HIDE DEF G
<1>4. \A m \in 0 .. n : m \in G  BY <1>1, <1>3, UpTo
<1>5. n \in 0 .. n  OBVIOUS
<1> QED  BY <1>4, <1>5 DEF G

\* A fold over the places 1 to n, taken from the last one: g gives what each place
\* makes of what the places before it made.
FoldsUp(f, n, base, g) ==
    \A u \in SUBSET (1 .. n) : f[u] = IF u = {} THEN base ELSE g[<<f[u \ {Max(u)}], Max(u)>>]

\* There is such a fold.
LEMMA FoldExists ==
    ASSUME NEW T, NEW base \in T, NEW n \in Nat, NEW g \in [T \X (1 .. n) -> T]
    PROVE  \E f \in [SUBSET (1 .. n) -> T] : FoldsUp(f, n, base, g)
<1> DEFINE G == {m \in 0 .. n : \E f \in [SUBSET (1 .. m) -> T] : FoldsUp(f, m, base, g)}
<1>1. 0 \in G
  <2>1. 1 .. 0 = {}  OBVIOUS
  <2> DEFINE f == [u \in SUBSET (1 .. 0) |-> base]
  <2>2. f \in [SUBSET (1 .. 0) -> T]  OBVIOUS
  <2>3. FoldsUp(f, 0, base, g)  BY <2>1 DEF FoldsUp
  <2>4. 0 \in 0 .. n  OBVIOUS
  <2> QED  BY <2>2, <2>3, <2>4
<1>2. ASSUME NEW m \in 0 .. n - 1, m \in G PROVE m + 1 \in G
  <2>1. PICK f \in [SUBSET (1 .. m) -> T] : FoldsUp(f, m, base, g)  BY <1>2
  <2>2. m \in Nat /\ m + 1 \in 1 .. n /\ m + 1 \in 0 .. n  OBVIOUS
  <2> DEFINE h == [u \in SUBSET (1 .. m + 1) |->
                     IF m + 1 \in u THEN g[<<f[u \ {m + 1}], m + 1>>] ELSE f[u]]
  <2>3. \A u \in SUBSET (1 .. m + 1) :
          /\ m + 1 \in u => u \ {m + 1} \in SUBSET (1 .. m)
          /\ m + 1 \notin u => u \in SUBSET (1 .. m)
    BY <2>2
  <2>4. h \in [SUBSET (1 .. m + 1) -> T]
    <3>1. ASSUME NEW u \in SUBSET (1 .. m + 1), m + 1 \in u PROVE g[<<f[u \ {m + 1}], m + 1>>] \in T
      BY <2>2, <2>3, <3>1
    <3>2. ASSUME NEW u \in SUBSET (1 .. m + 1), m + 1 \notin u PROVE f[u] \in T
      BY <2>3, <3>2
    <3> QED  BY <3>1, <3>2
  <2>5. \A u \in SUBSET (1 .. m + 1) : h[u] = IF m + 1 \in u THEN g[<<f[u \ {m + 1}], m + 1>>] ELSE f[u]
    OBVIOUS
  <2> HIDE DEF h
  <2>6. ASSUME NEW u \in SUBSET (1 .. m + 1)
        PROVE  h[u] = IF u = {} THEN base ELSE g[<<h[u \ {Max(u)}], Max(u)>>]
    <3>1. CASE m + 1 \in u
      <4>1. Max(u) = m + 1  BY <2>2, <3>1, LargestOf
      <4>2. u \ {m + 1} \in SUBSET (1 .. m + 1) /\ m + 1 \notin u \ {m + 1}  OBVIOUS
      <4>3. h[u \ {m + 1}] = f[u \ {m + 1}]  BY <2>5, <4>2
      <4> QED  BY <2>5, <3>1, <4>1, <4>3
    <3>2. CASE m + 1 \notin u
      <4>1. u \in SUBSET (1 .. m)  BY <2>3, <3>2
      <4>2. f[u] = IF u = {} THEN base ELSE g[<<f[u \ {Max(u)}], Max(u)>>]  BY <2>1, <4>1 DEF FoldsUp
      <4>3. u \ {Max(u)} \in SUBSET (1 .. m + 1) /\ m + 1 \notin u \ {Max(u)}  BY <3>2
      <4>4. h[u] = f[u] /\ h[u \ {Max(u)}] = f[u \ {Max(u)}]  BY <2>5, <3>2, <4>3
      <4> QED  BY <4>2, <4>4
    <3> QED  BY <3>1, <3>2
  <2>7. FoldsUp(h, m + 1, base, g)  BY <2>6 DEF FoldsUp
  <2> QED  BY <2>2, <2>4, <2>7
<1>3. \A m \in 0 .. n - 1 : m \in G => m + 1 \in G  BY <1>2
<1> HIDE DEF G
<1>4. \A m \in 0 .. n : m \in G  BY <1>1, <1>3, UpTo
<1>5. n \in 0 .. n  OBVIOUS
<1> QED  BY <1>4, <1>5 DEF G

\* What it makes of the first k places.
LEMMA FoldSteps ==
    ASSUME NEW n \in Nat, NEW base, NEW g, NEW f, FoldsUp(f, n, base, g)
    PROVE  f[1 .. 0] = base /\ \A k \in 1 .. n : f[1 .. k] = g[<<f[1 .. k - 1], k>>]
<1>1. 1 .. 0 = {} /\ {} \in SUBSET (1 .. n)  OBVIOUS
<1>2. f[1 .. 0] = base  BY <1>1 DEF FoldsUp
<1>3. ASSUME NEW k \in 1 .. n PROVE f[1 .. k] = g[<<f[1 .. k - 1], k>>]
  <2>0. PICK m \in Nat : k = m + 1 /\ m + 1 \in 1 .. n
    <3>1. k - 1 \in Nat /\ k = (k - 1) + 1  OBVIOUS
    <3> QED  BY <3>1
  <2>1. 1 .. m + 1 \in SUBSET (1 .. m + 1) /\ m + 1 \in 1 .. m + 1 /\ 1 .. m + 1 \in SUBSET (1 .. n)  BY <2>0
  <2>2. Max(1 .. m + 1) = m + 1  BY <2>1, LargestOf
  <2>3. (1 .. m + 1) \ {m + 1} = 1 .. m /\ 1 .. m + 1 # {} /\ m = k - 1  BY <2>0, <2>1
  <2>4. f[1 .. m + 1] = g[<<f[(1 .. m + 1) \ {m + 1}], m + 1>>]  BY <2>1, <2>2, <2>3 DEF FoldsUp
  <2> QED  BY <2>0, <2>3, <2>4
<1> QED  BY <1>2, <1>3

\* What a sum of numbers is made of.
LEMMA SumSteps ==
    ASSUME NEW s \in Seq(Int)
    PROVE  \E c \in [0 .. Len(s) -> Int] :
              c[0] = 0 /\ (\A k \in 1 .. Len(s) : c[k] = c[k - 1] + s[k]) /\ FoldLeft(+, 0, s) = c[Len(s)]
<1> DEFINE D == DOMAIN s
           IsIter(i) == i = [u \in SUBSET D |-> IF u = {} THEN 0 ELSE LET x == Max(u) IN i[u \ {x}] + s[x]]
           iter == CHOOSE i : IsIter(i)
           n == Len(s)
           g == [p \in Int \X (1 .. n) |-> p[1] + s[p[2]]]
<1>1. FoldLeft(+, 0, s) = iter[D]
  BY Zenon DEF FoldLeft, MapThenFoldSet
<1>2. n \in Nat /\ D = 1 .. n /\ \A k \in 1 .. n : s[k] \in Int  BY LenProperties, ElementOfSeq
<1>3. g \in [Int \X (1 .. n) -> Int]  BY <1>2
<1>4. \A v \in Int, k \in 1 .. n : g[<<v, k>>] = v + s[k]  OBVIOUS
<1> HIDE DEF g, n
<1>0. 0 \in Int  OBVIOUS
<1>5. PICK f \in [SUBSET (1 .. n) -> Int] : FoldsUp(f, n, 0, g)  BY <1>0, <1>2, <1>3, FoldExists
<1>6. IsIter(f)
  <2>1. f = [u \in SUBSET D |-> f[u]]  BY <1>2
  <2>2. ASSUME NEW u \in SUBSET D PROVE f[u] = IF u = {} THEN 0 ELSE LET x == Max(u) IN f[u \ {x}] + s[x]
    <3>1. CASE u = {}  BY <1>2, <1>5, <3>1 DEF FoldsUp
    <3>2. CASE u # {}
      <4>1. f[u] = g[<<f[u \ {Max(u)}], Max(u)>>]  BY <1>2, <1>5, <3>2 DEF FoldsUp
      <4>2. f[u \ {Max(u)}] \in Int  BY <1>2, <1>5
      <4>3. Max(u) \in 1 .. n  BY <1>2, <3>2, LargestIn
      <4> QED  BY <1>4, <3>2, <4>1, <4>2, <4>3
    <3> QED  BY <3>1, <3>2
  <2> QED  BY <2>1, <2>2, Zenon
<1>7. IsIter(iter)  BY <1>6, Zenon
<1> HIDE DEF iter
<1>8. \A u \in SUBSET (1 .. n) : iter[u] = IF u = {} THEN 0 ELSE iter[u \ {Max(u)}] + s[Max(u)]
  BY <1>2, <1>7
<1>9. iter[1 .. 0] = 0 /\ \A k \in 1 .. n : iter[1 .. k] = iter[1 .. k - 1] + s[k]
  <2>1. 1 .. 0 = {} /\ {} \in SUBSET (1 .. n)  OBVIOUS
  <2>2. iter[1 .. 0] = 0  BY <1>8, <2>1
  <2>3. ASSUME NEW k \in 1 .. n PROVE iter[1 .. k] = iter[1 .. k - 1] + s[k]
    <3>0. PICK m \in Nat : k = m + 1 /\ m + 1 \in 1 .. n
      <4>1. k - 1 \in Nat /\ k = (k - 1) + 1  BY <1>2
      <4> QED  BY <4>1
    <3>1. 1 .. m + 1 \in SUBSET (1 .. m + 1) /\ m + 1 \in 1 .. m + 1 /\ 1 .. m + 1 \in SUBSET (1 .. n)  BY <1>2, <3>0
    <3>2. Max(1 .. m + 1) = m + 1  BY <3>1, LargestOf
    <3>3. (1 .. m + 1) \ {m + 1} = 1 .. m /\ 1 .. m + 1 # {} /\ m = k - 1  BY <3>0, <3>1
    <3>4. iter[1 .. m + 1] = iter[(1 .. m + 1) \ {m + 1}] + s[m + 1]  BY <1>8, <3>1, <3>2, <3>3
    <3> QED  BY <3>0, <3>3, <3>4
  <2> QED  BY <2>2, <2>3
<1> DEFINE c == [k \in 0 .. n |-> iter[1 .. k]]
<1>10. \A k \in 0 .. n : iter[1 .. k] \in Int
  <2> DEFINE G == {k \in 0 .. n : iter[1 .. k] \in Int}
  <2>1. 0 \in G  BY <1>2, <1>9
  <2>2. ASSUME NEW k \in 0 .. n - 1, k \in G PROVE k + 1 \in G
    <3>1. k + 1 \in 1 .. n /\ (k + 1) - 1 = k /\ k + 1 \in 0 .. n  BY <1>2
    <3>2. iter[1 .. k + 1] = iter[1 .. k] + s[k + 1]  BY <1>9, <3>1
    <3> QED  BY <1>2, <2>2, <3>1, <3>2
  <2>3. \A k \in 0 .. n - 1 : k \in G => k + 1 \in G  BY <2>2
  <2> HIDE DEF G
  <2>4. \A k \in 0 .. n : k \in G  BY <1>2, <2>1, <2>3, UpTo
  <2> QED  BY <2>4 DEF G
<1>11. c \in [0 .. n -> Int] /\ \A k \in 0 .. n : c[k] = iter[1 .. k]  BY <1>10
<1> HIDE DEF c
<1>12. c[0] = 0 /\ \A k \in 1 .. n : c[k] = c[k - 1] + s[k]
  <2>1. 0 \in 0 .. n /\ \A k \in 1 .. n : k \in 0 .. n /\ k - 1 \in 0 .. n  BY <1>2
  <2> QED  BY <1>9, <1>11, <2>1
<1>13. FoldLeft(+, 0, s) = c[n]
  <2>1. n \in 0 .. n  BY <1>2
  <2>2. c[n] = iter[D]  BY <1>2, <1>11, <2>1
  <2> QED  BY <1>1, <2>2, Zenon
<1> QED  BY <1>11, <1>12, <1>13, Zenon DEF n

\* What one more number adds to a sum.
LEMMA SumAppend ==
    ASSUME NEW s \in Seq(Int), NEW x \in Int
    PROVE  /\ FoldLeft(+, 0, s) \in Int
           /\ FoldLeft(+, 0, Append(s, x)) = FoldLeft(+, 0, s) + x
<1> DEFINE t == Append(s, x)
           n == Len(s)
<1>1. /\ n \in Nat /\ t \in Seq(Int) /\ Len(t) = n + 1 /\ t[n + 1] = x
      /\ \A k \in 1 .. n : t[k] = s[k]
  BY LenProperties, AppendProperties
<1> HIDE DEF t
<1>2. PICK c \in [0 .. n -> Int] :
        c[0] = 0 /\ (\A k \in 1 .. n : c[k] = c[k - 1] + s[k]) /\ FoldLeft(+, 0, s) = c[n]
  BY SumSteps
<1>3. PICK d \in [0 .. n + 1 -> Int] :
        d[0] = 0 /\ (\A k \in 1 .. n + 1 : d[k] = d[k - 1] + t[k]) /\ FoldLeft(+, 0, t) = d[n + 1]
  BY <1>1, SumSteps, Zenon
<1> HIDE DEF n
<1>4. \A k \in 1 .. n : k \in 1 .. n + 1  BY <1>1
<1>5. \A k \in 1 .. n : d[k] = d[k - 1] + t[k]  BY <1>3, <1>4, Zenon
<1> DEFINE G == {k \in 0 .. n : c[k] = d[k]}
<1>6. 0 \in G
  <2>1. 0 \in 0 .. n  BY <1>1
  <2> QED  BY <1>2, <1>3, <2>1
<1>7. ASSUME NEW k \in 0 .. n - 1, k \in G PROVE k + 1 \in G
  <2>1. k + 1 \in 1 .. n /\ (k + 1) - 1 = k /\ k + 1 \in 0 .. n  BY <1>1
  <2>2. c[k + 1] = c[k] + s[k + 1] /\ d[k + 1] = d[k] + t[k + 1] /\ s[k + 1] = t[k + 1]  BY <1>1, <1>2, <1>5, <2>1
  <2> QED  BY <1>7, <2>1, <2>2
<1>8. \A k \in 0 .. n - 1 : k \in G => k + 1 \in G  BY <1>7
<1>9. \A k \in 0 .. n : c[k] = d[k]
  <2> HIDE DEF G
  <2>1. \A k \in 0 .. n : k \in G  BY <1>1, <1>6, <1>8, UpTo
  <2> QED  BY <2>1 DEF G
<1>10. n \in 0 .. n /\ n + 1 \in 1 .. n + 1 /\ (n + 1) - 1 = n  BY <1>1
<1>11. d[n + 1] = c[n] + x  BY <1>1, <1>3, <1>9, <1>10
<1>12. c[n] \in Int  BY <1>2, <1>10
<1> QED  BY <1>2, <1>3, <1>11, <1>12, Zenon DEF t

\* The sum of nothing.
LEMMA NoSum == FoldLeft(+, 0, <<>>) = 0
<1>1. <<>> \in Seq(Int) /\ Len(<<>>) = 0  BY EmptySeq
<1>2. PICK c \in [0 .. Len(<<>>) -> Int] : c[0] = 0 /\ FoldLeft(+, 0, <<>>) = c[Len(<<>>)]
  BY <1>1, SumSteps, Zenon
<1> QED  BY <1>1, <1>2, Zenon

\* What is in the lists of a set is in those of a larger one.
LEMMA SeqWider == \A S, R : S \subseteq R => Seq(S) \subseteq Seq(R)
<1> TAKE S, R
<1> HAVE S \subseteq R
<1> SUFFICES ASSUME NEW s \in Seq(S) PROVE s \in Seq(R)  OBVIOUS
<1>1. Len(s) \in Nat /\ \A i \in 1 .. Len(s) : s[i] \in R  BY LenProperties, ElementOfSeq
<1>2. s \in [1 .. Len(s) -> R]  BY <1>1, LenProperties
<1> QED  BY <1>1, <1>2, SequenceOf

\* A list one element at a time.
LEMMA PrefixGrows ==
    ASSUME NEW S, NEW s \in Seq(S)
    PROVE  /\ SubSeq(s, 1, 0) = <<>> /\ SubSeq(s, 1, Len(s)) = s
           /\ \A m \in 0 .. Len(s) : SubSeq(s, 1, m) \in Seq(S)
           /\ \A m \in 0 .. Len(s) - 1 : SubSeq(s, 1, m + 1) = Append(SubSeq(s, 1, m), s[m + 1]) /\ s[m + 1] \in S
<1>1. PICK n \in Nat : n = Len(s) /\ \A i \in 1 .. n : s[i] \in S  BY LenProperties, ElementOfSeq
<1>2. SubSeq(s, 1, 0) = <<>>  BY SubSeqEmpty
<1>3. SubSeq(s, 1, n) = s  BY <1>1, SubSeqFull
<1>4. ASSUME NEW m \in 0 .. n PROVE SubSeq(s, 1, m) \in Seq(S)
  <2>1. m \in Int /\ 1 \in Int /\ \A i \in 1 .. m : s[i] \in S  BY <1>1
  <2> QED  BY <2>1, SubSeqProperties
<1>5. ASSUME NEW m \in 0 .. n - 1
      PROVE  SubSeq(s, 1, m + 1) = Append(SubSeq(s, 1, m), s[m + 1]) /\ s[m + 1] \in S
  <2>1. PICK k \in 1 .. n : k = m + 1 /\ k - 1 = m /\ m \in 0 .. n
    <3>1. m + 1 \in 1 .. n /\ (m + 1) - 1 = m /\ m \in 0 .. n  BY <1>1
    <3> QED  BY <3>1
  <2>2. s[k] \in S  BY <1>1
  <2>3. SubSeq(s, 1, k) = SubSeq(s, 1, k - 1) \o <<s[k]>>
    <3>1. 1 \in 1 .. Len(s) /\ k \in 1 .. Len(s)  BY <1>1, <2>1
    <3> QED  BY <3>1, SubSeqRecursiveSecond
  <2>4. Append(SubSeq(s, 1, m), s[k]) = SubSeq(s, 1, m) \o <<s[k]>>  BY <1>4, <2>1, <2>2, AppendIsConcat
  <2> QED  BY <2>1, <2>2, <2>3, <2>4
<1> QED  BY <1>1, <1>2, <1>3, <1>4, <1>5

LEMMA PrefixStep ==
    ASSUME NEW S, NEW s \in Seq(S), NEW m \in 0 .. Len(s) - 1
    PROVE  \E p \in Seq(S), e \in S :
              p = SubSeq(s, 1, m) /\ SubSeq(s, 1, m + 1) = Append(p, e) /\ e = s[m + 1]
<1>1. m \in 0 .. Len(s)  BY LenProperties
<1> QED  BY <1>1, PrefixGrows

\* A list that is not empty is all but its last, and its last.
LEMMA FrontAndLast ==
    ASSUME NEW S, NEW s \in Seq(S), s # <<>>
    PROVE  Front(s) \in Seq(S) /\ Last(s) \in S /\ s = Append(Front(s), Last(s))
<1>1. PICK m \in Nat : Len(s) = m + 1 /\ m \in 0 .. Len(s) - 1 /\ m \in 0 .. Len(s) /\ Len(s) - 1 = m
  <2>1. Len(s) \in Nat /\ Len(s) # 0  BY LenProperties, EmptySeq
  <2>2. PICK n \in Nat : n = Len(s) /\ n # 0  BY <2>1
  <2>3. n - 1 \in Nat /\ n = (n - 1) + 1 /\ n - 1 \in 0 .. n - 1 /\ n - 1 \in 0 .. n  BY <2>2
  <2> QED  BY <2>2, <2>3
<1>2. Front(s) = SubSeq(s, 1, m) /\ Last(s) = s[m + 1]  BY <1>1 DEF Front, Last
<1>3. s = SubSeq(s, 1, m + 1)  BY <1>1, PrefixGrows
<1> QED  BY <1>1, <1>2, <1>3, PrefixGrows

LEMMA ConcatInAnyOrder == \A S : \A x, y, z \in Seq(S) : (x \o y) \o z = x \o (y \o z)
BY ConcatAssociative

Associates(S) == \A x, y, z \in Seq(S) : (x \o y) \o z = x \o (y \o z)
LEMMA ListsAssociate == \A S : Associates(S)
BY ConcatInAnyOrder DEF Associates

LEMMA FlattenNone == FlattenSeq(<<>>) = <<>>
<1>1. <<>> \in Seq({}) /\ Len(<<>>) = 0  BY EmptySeq
<1> QED  BY <1>1 DEF FlattenSeq

\* Two lists of lists one after the other.
LEMMA FlattenConcat ==
    ASSUME NEW S, NEW a \in Seq(Seq(S)), NEW b \in Seq(Seq(S))
    PROVE  FlattenSeq(a \o b) = FlattenSeq(a) \o FlattenSeq(b)
<1> DEFINE R == Seq(S)
           G == {m \in 0 .. Len(b) : FlattenSeq(a \o SubSeq(b, 1, m)) = FlattenSeq(a) \o FlattenSeq(SubSeq(b, 1, m))}
<1>0. Len(b) \in Nat /\ a \in Seq(R) /\ b \in Seq(R)  BY LenProperties
<1>f. \A x \in Seq(R) : FlattenSeq(x) \in R  BY FlattenType
<1>t. Associates(S)  BY ListsAssociate
<1>a. \A x \in Seq(R), y \in R : FlattenSeq(Append(x, y)) = FlattenSeq(x) \o y  BY FlattenAppend
<1>s. Associates(R)  BY ListsAssociate
<1>n. \A x \in R : x \o <<>> = x  BY ConcatEmptySeq
<1> HIDE DEF R
<1>1. 0 \in G
  <2>1. a \o <<>> = a /\ SubSeq(b, 1, 0) = <<>>  BY <1>0, ConcatEmptySeq, PrefixGrows
  <2>2. FlattenSeq(a) \o <<>> = FlattenSeq(a)  BY <1>0, <1>f, <1>n
  <2>3. FlattenSeq(a \o SubSeq(b, 1, 0)) = FlattenSeq(a) \o FlattenSeq(SubSeq(b, 1, 0))
    BY <2>1, <2>2, FlattenNone, Zenon
  <2> QED  BY <1>0, <2>3
<1>2. ASSUME NEW m \in 0 .. Len(b) - 1, m \in G PROVE m + 1 \in G
  <2>0. \E p \in Seq(R), e \in R : p = SubSeq(b, 1, m) /\ SubSeq(b, 1, m + 1) = Append(p, e) /\ e = b[m + 1]
    <3> HIDE DEF G
    <3> QED  BY <1>0, PrefixStep
  <2>1. PICK p \in Seq(R), e \in R : p = SubSeq(b, 1, m) /\ SubSeq(b, 1, m + 1) = Append(p, e)
    BY <2>0
  <2>2. a \o Append(p, e) = Append(a \o p, e) /\ a \o p \in Seq(R)
    <3>1. a \o p \in Seq(R)  BY <1>0, ConcatProperties
    <3>2. <<e>> \in Seq(R)  BY OneOf
    <3>3. Append(p, e) = p \o <<e>> /\ Append(a \o p, e) = (a \o p) \o <<e>>  BY <3>1, AppendIsConcat
    <3>4. (a \o p) \o <<e>> = a \o (p \o <<e>>)  BY <1>0, <1>s, <3>2 DEF Associates
    <3> QED  BY <3>1, <3>3, <3>4
  <2>3. FlattenSeq(Append(a \o p, e)) = FlattenSeq(a \o p) \o e  BY <1>a, <2>2
  <2>4. FlattenSeq(Append(p, e)) = FlattenSeq(p) \o e  BY <1>a
  <2>5. (FlattenSeq(a) \o FlattenSeq(p)) \o e = FlattenSeq(a) \o (FlattenSeq(p) \o e)
    <3>1. FlattenSeq(a) \in R /\ FlattenSeq(p) \in R  BY <1>0, <1>f
    <3> QED  BY <1>t, <3>1 DEF Associates, R
  <2>6. FlattenSeq(a \o p) = FlattenSeq(a) \o FlattenSeq(p)  BY <1>2, <2>1
  <2>7. FlattenSeq(a \o SubSeq(b, 1, m + 1)) = FlattenSeq(a) \o FlattenSeq(SubSeq(b, 1, m + 1))
    BY <2>1, <2>2, <2>3, <2>4, <2>5, <2>6
  <2>8. m + 1 \in 0 .. Len(b)  BY <1>0
  <2> QED  BY <2>7, <2>8
<1>3. \A m \in 0 .. Len(b) - 1 : m \in G => m + 1 \in G  BY <1>2
<1> HIDE DEF G
<1>4. Len(b) \in G
  <2>1. \A m \in 0 .. Len(b) : m \in G  BY <1>0, <1>1, <1>3, UpTo
  <2>2. Len(b) \in 0 .. Len(b)  BY <1>0
  <2> QED  BY <2>1, <2>2
<1>5. SubSeq(b, 1, Len(b)) = b  BY <1>0, PrefixGrows
<1> QED  BY <1>4, <1>5 DEF G

\* Lists of lists of lists, flattened from either end.
LEMMA FlattenTwice ==
    ASSUME NEW S, NEW n \in Nat, NEW sss \in [1 .. n -> Seq(Seq(S))]
    PROVE  FlattenSeq(FlattenSeq(sss)) = FlattenSeq([i \in 1 .. n |-> FlattenSeq(sss[i])])
<1> DEFINE each == [i \in 1 .. n |-> FlattenSeq(sss[i])]
           G == {m \in 0 .. n : FlattenSeq(FlattenSeq(SubSeq(sss, 1, m))) = FlattenSeq(SubSeq(each, 1, m))}
<1>1. each \in [1 .. n -> Seq(S)]  BY FlattenType
<1>2. /\ each \in Seq(Seq(S)) /\ Len(each) = n
      /\ sss \in Seq(Seq(Seq(S))) /\ Len(sss) = n
  <2> HIDE DEF each
  <2> QED  BY <1>1, SequenceOf
<1>3. \A i \in 1 .. n : each[i] = FlattenSeq(sss[i])  OBVIOUS
<1> HIDE DEF each
<1>4. 0 \in G
  <2>1. SubSeq(sss, 1, 0) = <<>> /\ SubSeq(each, 1, 0) = <<>>  BY <1>2, PrefixGrows
  <2>2. 0 \in 0 .. n  OBVIOUS
  <2> QED  BY <2>1, <2>2, FlattenNone
<1>5. ASSUME NEW m \in 0 .. n - 1, m \in G PROVE m + 1 \in G
  <2>1. m \in 0 .. n /\ m + 1 \in 0 .. n /\ m + 1 \in 1 .. n  OBVIOUS
  <2>2. PICK p \in Seq(Seq(Seq(S))), e \in Seq(Seq(S)) :
           p = SubSeq(sss, 1, m) /\ SubSeq(sss, 1, m + 1) = Append(p, e) /\ e = sss[m + 1]
    <3> DEFINE R == Seq(Seq(S))
    <3>1. sss \in Seq(R) /\ m \in 0 .. Len(sss) - 1  BY <1>2
    <3> HIDE DEF R
    <3>2. \E p \in Seq(R), e \in R : p = SubSeq(sss, 1, m) /\ SubSeq(sss, 1, m + 1) = Append(p, e) /\ e = sss[m + 1]
      BY <3>1, PrefixStep
    <3> QED  BY <3>2 DEF R
  <2>3. PICK q \in Seq(Seq(S)), d \in Seq(S) :
           q = SubSeq(each, 1, m) /\ SubSeq(each, 1, m + 1) = Append(q, d) /\ d = FlattenSeq(e)
    <3>1. SubSeq(each, 1, m) \in Seq(Seq(S)) /\ each[m + 1] \in Seq(S)
          /\ SubSeq(each, 1, m + 1) = Append(SubSeq(each, 1, m), each[m + 1])
      BY <1>2, <2>1, PrefixGrows
    <3> QED  BY <1>3, <2>1, <2>2, <3>1
  <2>4. FlattenSeq(Append(p, e)) = FlattenSeq(p) \o e /\ FlattenSeq(p) \in Seq(Seq(S))  BY FlattenAppend, FlattenType
  <2>5. FlattenSeq(FlattenSeq(p) \o e) = FlattenSeq(FlattenSeq(p)) \o FlattenSeq(e)  BY <2>4, FlattenConcat
  <2>6. FlattenSeq(Append(q, d)) = FlattenSeq(q) \o d  BY FlattenAppend
  <2>7. FlattenSeq(FlattenSeq(p)) = FlattenSeq(q)  BY <1>5, <2>2, <2>3
  <2>8. FlattenSeq(FlattenSeq(SubSeq(sss, 1, m + 1))) = FlattenSeq(SubSeq(each, 1, m + 1))
    BY <2>2, <2>3, <2>4, <2>5, <2>6, <2>7
  <2> QED  BY <2>1, <2>8
<1>6. \A m \in 0 .. n - 1 : m \in G => m + 1 \in G  BY <1>5
<1> HIDE DEF G
<1>7. n \in G
  <2>1. \A m \in 0 .. n : m \in G  BY <1>4, <1>6, UpTo
  <2> QED  BY <2>1
<1>8. SubSeq(sss, 1, n) = sss /\ SubSeq(each, 1, n) = each  BY <1>2, PrefixGrows
<1> QED  BY <1>7, <1>8 DEF G, each

\* What is in one of the lists is in all of them.
LEMMA FlattenSome ==
    ASSUME NEW S, NEW n \in Nat, NEW seqs \in [1 .. n -> Seq(S)], NEW i \in 1 .. n, seqs[i] # <<>>
    PROVE  FlattenSeq(seqs) # <<>>
<1> DEFINE G == {m \in 0 .. n : i <= m => FlattenSeq(SubSeq(seqs, 1, m)) # <<>>}
<1>1. seqs \in Seq(Seq(S)) /\ Len(seqs) = n  BY SequenceOf
<1>2. 0 \in G  OBVIOUS
<1>3. ASSUME NEW m \in 0 .. n - 1, m \in G PROVE m + 1 \in G
  <2>1. m \in 0 .. n /\ m + 1 \in 0 .. n /\ m + 1 \in 1 .. n /\ m \in Nat  OBVIOUS
  <2>2. PICK p \in Seq(Seq(S)), e \in Seq(S) :
           p = SubSeq(seqs, 1, m) /\ SubSeq(seqs, 1, m + 1) = Append(p, e) /\ e = seqs[m + 1]
    BY <1>1, <2>1, PrefixGrows
  <2>3. FlattenSeq(Append(p, e)) = FlattenSeq(p) \o e /\ FlattenSeq(p) \in Seq(S)  BY FlattenAppend, FlattenType
  <2>4. FlattenSeq(p) \o e = <<>> => FlattenSeq(p) = <<>> /\ e = <<>>  BY <2>3, ConcatEqualIffEmpty
  <2>5. i <= m + 1 => i <= m \/ i = m + 1  BY <2>1
  <2>6. i <= m => FlattenSeq(p) # <<>>  BY <1>3, <2>2
  <2>7. i <= m + 1 => FlattenSeq(SubSeq(seqs, 1, m + 1)) # <<>>  BY <2>2, <2>3, <2>4, <2>5, <2>6
  <2> QED  BY <2>1, <2>7
<1>4. \A m \in 0 .. n - 1 : m \in G => m + 1 \in G  BY <1>3
<1> HIDE DEF G
<1>5. n \in G
  <2>1. \A m \in 0 .. n : m \in G  BY <1>2, <1>4, UpTo
  <2> QED  BY <2>1
<1>6. SubSeq(seqs, 1, n) = seqs /\ i <= n  BY <1>1, PrefixGrows
<1> QED  BY <1>5, <1>6 DEF G

\* Each piece goes behind the others, or behind the last one of them.
PutTogether(S, c, pieces, n) ==
    /\ n \in Nat /\ pieces \in [1 .. n -> Seq(S)] /\ c \in [0 .. n -> Seq(Seq(S))] /\ c[0] = <<>>
    /\ \A k \in 1 .. n : \/ c[k] = Append(c[k - 1], pieces[k])
                         \/ c[k - 1] # <<>> /\ c[k] = Front(c[k - 1]) \o <<Last(c[k - 1]) \o pieces[k]>>

LEMMA PiecesStay ==
    ASSUME NEW S, NEW n, NEW pieces, NEW c, PutTogether(S, c, pieces, n)
    PROVE  FlattenSeq(c[n]) = FlattenSeq(pieces)
<1> DEFINE G == {m \in 0 .. n : FlattenSeq(c[m]) = FlattenSeq(SubSeq(pieces, 1, m))}
<1>0. n \in Nat /\ pieces \in [1 .. n -> Seq(S)] /\ c \in [0 .. n -> Seq(Seq(S))]  BY DEF PutTogether
<1>1. pieces \in Seq(Seq(S)) /\ Len(pieces) = n  BY <1>0, SequenceOf
<1>a. Associates(S)  BY ListsAssociate
<1>b. \A x, y \in Seq(S) : x \o y \in Seq(S)  BY ConcatProperties
<1>2. 0 \in G
  <2>1. SubSeq(pieces, 1, 0) = <<>> /\ 0 \in 0 .. n  BY <1>0, <1>1, PrefixGrows
  <2> QED  BY <2>1 DEF PutTogether
<1>3. ASSUME NEW m \in 0 .. n - 1, m \in G PROVE m + 1 \in G
  <2>1. m \in 0 .. n /\ m + 1 \in 0 .. n /\ m + 1 \in 1 .. n /\ (m + 1) - 1 = m  BY <1>0
  <2>2. PICK p \in Seq(Seq(S)), e \in Seq(S) :
           p = SubSeq(pieces, 1, m) /\ SubSeq(pieces, 1, m + 1) = Append(p, e) /\ e = pieces[m + 1]
    BY <1>1, <2>1, PrefixGrows
  <2>3. PICK v \in Seq(Seq(S)) : v = c[m]  BY <1>0, <2>1
  <2>4. FlattenSeq(Append(p, e)) = FlattenSeq(p) \o e  BY FlattenAppend
  <2>5. FlattenSeq(v) = FlattenSeq(p)  BY <1>3, <2>2, <2>3
  <2>6. FlattenSeq(c[m + 1]) = FlattenSeq(v) \o e
    <3>1. CASE c[m + 1] = Append(v, e)  BY <3>1, FlattenAppend
    <3>2. CASE v # <<>> /\ c[m + 1] = Front(v) \o <<Last(v) \o e>>
      <4>1. PICK f \in Seq(Seq(S)), l \in Seq(S) : f = Front(v) /\ l = Last(v) /\ v = Append(f, l)
        <5> DEFINE R == Seq(S)
        <5>1. v \in Seq(R) /\ v # <<>>  BY <3>2
        <5> HIDE DEF R
        <5>2. Front(v) \in Seq(R) /\ Last(v) \in R /\ v = Append(Front(v), Last(v))  BY <5>1, FrontAndLast
        <5> QED  BY <5>2 DEF R
      <4>2. l \o e \in Seq(S)  BY <1>b
      <4>3. f \o <<l \o e>> = Append(f, l \o e)  BY <4>2, AppendIsConcat
      <4>4. FlattenSeq(Append(f, l \o e)) = FlattenSeq(f) \o (l \o e)  BY <4>2, FlattenAppend
      <4>5. FlattenSeq(v) = FlattenSeq(f) \o l /\ FlattenSeq(f) \in Seq(S)  BY <4>1, FlattenAppend, FlattenType
      <4>6. (FlattenSeq(f) \o l) \o e = FlattenSeq(f) \o (l \o e)  BY <1>a, <4>1, <4>5 DEF Associates
      <4> QED  BY <3>2, <4>1, <4>3, <4>4, <4>5, <4>6
    <3> QED  BY <2>1, <2>2, <2>3, <3>1, <3>2 DEF PutTogether
  <2>7. FlattenSeq(c[m + 1]) = FlattenSeq(SubSeq(pieces, 1, m + 1))  BY <2>2, <2>4, <2>5, <2>6
  <2> QED  BY <2>1, <2>7
<1>4. \A m \in 0 .. n - 1 : m \in G => m + 1 \in G  BY <1>3
<1> HIDE DEF G
<1>5. n \in G
  <2>1. \A m \in 0 .. n : m \in G  BY <1>0, <1>2, <1>4, UpTo
  <2> QED  BY <1>0, <2>1
<1>6. SubSeq(pieces, 1, n) = pieces  BY <1>1, PrefixGrows
<1> QED  BY <1>5, <1>6 DEF G

\* Singletons.
LEMMA FlattenOnes ==
    ASSUME NEW S, NEW n \in Nat, NEW s \in [1 .. n -> S]
    PROVE  FlattenSeq([i \in 1 .. n |-> <<s[i]>>]) = s
<1> DEFINE ones == [i \in 1 .. n |-> <<s[i]>>]
           G == {m \in 0 .. n : FlattenSeq(SubSeq(ones, 1, m)) = SubSeq(s, 1, m)}
<1>1. ones \in [1 .. n -> Seq(S)] /\ \A i \in 1 .. n : ones[i] = <<s[i]>>  BY OneOf
<1> HIDE DEF ones
<1>2. ones \in Seq(Seq(S)) /\ Len(ones) = n /\ s \in Seq(S) /\ Len(s) = n  BY <1>1, SequenceOf
<1>3. 0 \in G
  <2>1. SubSeq(ones, 1, 0) = <<>> /\ SubSeq(s, 1, 0) = <<>> /\ 0 \in 0 .. n  BY <1>2, PrefixGrows
  <2> QED  BY <2>1, FlattenNone
<1>4. ASSUME NEW m \in 0 .. n - 1, m \in G PROVE m + 1 \in G
  <2>1. m \in 0 .. n /\ m + 1 \in 0 .. n /\ m + 1 \in 1 .. n  OBVIOUS
  <2>2. PICK p \in Seq(Seq(S)), e \in Seq(S) :
           p = SubSeq(ones, 1, m) /\ SubSeq(ones, 1, m + 1) = Append(p, e) /\ e = ones[m + 1]
    <3> DEFINE R == Seq(S)
    <3>1. ones \in Seq(R) /\ m \in 0 .. Len(ones) - 1  BY <1>2
    <3> HIDE DEF R, G
    <3>2. \E p \in Seq(R), e \in R : p = SubSeq(ones, 1, m) /\ SubSeq(ones, 1, m + 1) = Append(p, e) /\ e = ones[m + 1]
      BY <3>1, PrefixStep
    <3> QED  BY <3>2 DEF R
  <2>3. PICK q \in Seq(S), d \in S : q = SubSeq(s, 1, m) /\ SubSeq(s, 1, m + 1) = Append(q, d) /\ d = s[m + 1]
    BY <1>2, PrefixStep
  <2>4. FlattenSeq(Append(p, e)) = FlattenSeq(p) \o e  BY FlattenAppend
  <2>5. Append(q, d) = q \o <<d>>  BY AppendIsConcat
  <2>6. e = <<d>> /\ FlattenSeq(p) = q  BY <1>1, <1>4, <2>1, <2>2, <2>3
  <2>7. FlattenSeq(SubSeq(ones, 1, m + 1)) = SubSeq(s, 1, m + 1)  BY <2>2, <2>3, <2>4, <2>5, <2>6
  <2> QED  BY <2>1, <2>7
<1>5. \A m \in 0 .. n - 1 : m \in G => m + 1 \in G  BY <1>4
<1> HIDE DEF G
<1>6. n \in G
  <2>1. \A m \in 0 .. n : m \in G  BY <1>3, <1>5, UpTo
  <2> QED  BY <2>1
<1>7. SubSeq(ones, 1, n) = ones /\ SubSeq(s, 1, n) = s  BY <1>2, PrefixGrows
<1> QED  BY <1>6, <1>7 DEF G, ones

\* A set of places has a first one.
LEMMA SmallestIn ==
    ASSUME NEW n \in Nat, NEW u \in SUBSET (1 .. n), u # {}
    PROVE  Min(u) \in u
<1> DEFINE G == {m \in 0 .. n : \A v \in SUBSET (1 .. n) : (\E x \in v : x <= m) => Min(v) \in v}
<1>1. 0 \in G  OBVIOUS
<1>2. ASSUME NEW m \in 0 .. n - 1, m \in G PROVE m + 1 \in G
  <2>1. m \in Nat /\ m + 1 \in 0 .. n  OBVIOUS
  <2>2. ASSUME NEW v \in SUBSET (1 .. n), NEW x \in v, x <= m + 1 PROVE Min(v) \in v
    <3>1. CASE \E y \in v : y <= m  BY <1>2, <3>1
    <3>2. CASE ~\E y \in v : y <= m
      <4>1. \A y \in v : y \in Nat /\ y >= m + 1  BY <2>1, <3>2
      <4>2. x = m + 1  BY <2>1, <2>2, <4>1
      <4>3. \A y \in v : x <= y  BY <4>1, <4>2
      <4> QED  BY <4>3, Zenon DEF Min
    <3> QED  BY <3>1, <3>2
  <2> QED  BY <2>1, <2>2
<1>3. \A m \in 0 .. n - 1 : m \in G => m + 1 \in G  BY <1>2
<1> HIDE DEF G
<1>4. \A m \in 0 .. n : m \in G  BY <1>1, <1>3, UpTo
<1>5. n \in G  BY <1>4
<1>6. \E x \in u : x \in 1 .. n  OBVIOUS
<1> QED  BY <1>5, <1>6 DEF G

\* What is taken off when a fold goes one place back.
LEMMA OnePlaceBack ==
    ASSUME NEW n \in Nat, NEW m \in 0 .. n - 1
    PROVE  /\ 1 .. m + 1 \in SUBSET (1 .. n) /\ 1 .. m + 1 # {} /\ m + 1 \in 1 .. n
           /\ Max(1 .. m + 1) = m + 1 /\ (1 .. m + 1) \ {m + 1} = 1 .. m
<1>1. m \in Nat /\ m + 1 \in 1 .. n /\ m + 1 \in 1 .. m + 1  OBVIOUS
<1>2. 1 .. m + 1 \in SUBSET (1 .. m + 1)  OBVIOUS
<1>3. Max(1 .. m + 1) = m + 1  BY <1>1, <1>2, LargestOf
<1>4. (1 .. m + 1) \ {m + 1} = 1 .. m  BY <1>1
<1>5. 1 .. m + 1 \in SUBSET (1 .. n)  BY <1>1
<1> QED  BY <1>1, <1>3, <1>4, <1>5

\* The values a fold goes through, as long as they are in T.
StepsBy(iter, n, T, base, g) ==
    /\ iter[1 .. 0] = base
    /\ \A m \in 0 .. n - 1 : iter[1 .. m] \in T => iter[1 .. m + 1] = g[<<iter[1 .. m], m + 1>>]

ChainOf(c, n, base, g) == c[0] = base /\ \A k \in 1 .. n : c[k] = g[<<c[k - 1], k>>]
HasChain(iter, n, T, base, g) == \E c \in [0 .. n -> T] : ChainOf(c, n, base, g) /\ c[n] = iter[1 .. n]

LEMMA FoldChain ==
    ASSUME NEW T, NEW base \in T, NEW n \in Nat, NEW g \in [T \X (1 .. n) -> T], NEW iter,
           StepsBy(iter, n, T, base, g)
    PROVE  HasChain(iter, n, T, base, g)
<1> DEFINE G == {m \in 0 .. n : iter[1 .. m] \in T}
           c == [k \in 0 .. n |-> iter[1 .. k]]
<1>1. 0 \in G  BY DEF StepsBy
<1>2. \A m \in 0 .. n - 1 : m + 1 \in 0 .. n /\ m + 1 \in 1 .. n  OBVIOUS
<1>3. \A m \in 0 .. n - 1 : m \in G => m + 1 \in G  BY <1>2 DEF StepsBy
<1> HIDE DEF G
<1>4. \A m \in 0 .. n : m \in G  BY <1>1, <1>3, UpTo
<1>5. c \in [0 .. n -> T] /\ \A k \in 0 .. n : c[k] = iter[1 .. k]  BY <1>4 DEF G
<1> HIDE DEF c
<1>6. ASSUME NEW k \in 1 .. n PROVE c[k] = g[<<c[k - 1], k>>]
  <2>1. PICK m \in 0 .. n - 1 : k = m + 1 /\ k - 1 = m /\ m \in 0 .. n /\ m + 1 \in 0 .. n
    <3>1. k - 1 \in 0 .. n - 1 /\ k = (k - 1) + 1 /\ k - 1 \in 0 .. n /\ (k - 1) + 1 \in 0 .. n  OBVIOUS
    <3> QED  BY <3>1
  <2>2. c[m] \in T /\ c[m] = iter[1 .. m]  BY <1>5, <2>1
  <2>3. iter[1 .. m + 1] = g[<<iter[1 .. m], m + 1>>]  BY <2>2 DEF StepsBy
  <2>4. c[m + 1] = iter[1 .. m + 1]  BY <1>5, <2>1
  <2> QED  BY <2>1, <2>2, <2>3, <2>4
<1>7. 0 \in 0 .. n /\ n \in 0 .. n  OBVIOUS
<1>8. c[0] = base  BY <1>5, <1>7 DEF StepsBy
<1>9. ChainOf(c, n, base, g)  BY <1>6, <1>8 DEF ChainOf
<1> QED  BY <1>5, <1>7, <1>9 DEF HasChain

\* R is a strict and total order of S.
LinesUp(R, S) ==
    /\ \A x \in S : <<x, x>> \notin R
    /\ \A x, y \in S : x = y \/ <<x, y>> \in R \/ <<y, x>> \in R
    /\ \A x, y, z \in S : <<x, y>> \in R /\ <<y, z>> \in R => <<x, z>> \in R

\* The one before which R has k - 1 of S.
PlaceIn(R, S, k) == CHOOSE x \in S : Cardinality({y \in S : <<y, x>> \in R}) = k - 1

LEMMA PlaceExists ==
    ASSUME NEW S, IsFiniteSet(S), NEW R, LinesUp(R, S)
    PROVE  \A k \in 1 .. Cardinality(S) : PlaceIn(R, S, k) \in S
<1>1. \A x \in S : <<x, x>> \notin R  BY DEF LinesUp
<1>2. \A x, y \in S : x = y \/ <<x, y>> \in R \/ <<y, x>> \in R  BY DEF LinesUp
<1>3. \A x, y, z \in S : <<x, y>> \in R /\ <<y, z>> \in R => <<x, z>> \in R  BY DEF LinesUp
<1>4. \A k \in 1 .. Cardinality(S) : \E x \in S : Cardinality({y \in S : <<y, x>> \in R}) = k - 1
  BY <1>1, <1>2, <1>3, RankExists
<1> QED  BY <1>4, Zenon DEF PlaceIn

=============================================================================
