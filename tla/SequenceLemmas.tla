--------------------------- MODULE SequenceLemmas ---------------------------
(***************************************************************************)
(* What the queues of the project do to the set of their elements and to   *)
(* the order in which these stand.  ToSet and IsInjective are those of     *)
(* SequencesExt: IsInjective says that no element occurs twice.            *)
(***************************************************************************)
EXTENDS Naturals, SequencesExt, SequenceTheorems, TLAPS

\* An empty sequence has no elements.
LEMMA EmptyElements == ToSet(<<>>) = {} /\ IsInjective(<<>>)
  BY DEF ToSet, IsInjective

\* The elements of a sequence are those at its positions.
LEMMA SeqElements ==
    ASSUME NEW S, NEW s \in Seq(S)
    PROVE  /\ DOMAIN s = 1..Len(s)
           /\ ToSet(s) \subseteq S
           /\ \A i \in 1..Len(s) : s[i] \in ToSet(s)
           /\ \A e \in ToSet(s) : \E i \in 1..Len(s) : e = s[i]
           /\ s # <<>> => Head(s) \in ToSet(s) /\ Head(s) = s[1]
           /\ ToSet(s) = {} => s = <<>>
  <1>1. DOMAIN s = 1..Len(s) /\ Len(s) \in Nat /\ \A i \in 1..Len(s) : s[i] \in S
    BY LenProperties, ElementOfSeq
  <1>2. s # <<>> => 1 \in 1..Len(s) /\ Head(s) = s[1]
    BY EmptySeq
  <1>3. \A i \in 1..Len(s) : s[i] \in ToSet(s)
    BY <1>1 DEF ToSet
  <1>4. \A e \in ToSet(s) : \E i \in 1..Len(s) : e = s[i]
    BY <1>1 DEF ToSet
  <1> QED
    BY <1>1, <1>2, <1>3, <1>4

\* push at the back
LEMMA AppendElements ==
    ASSUME NEW S, NEW s \in Seq(S), NEW e \in S
    PROVE  /\ Append(s, e) \in Seq(S)
           /\ ToSet(Append(s, e)) = ToSet(s) \cup {e}
           /\ IsInjective(s) /\ e \notin ToSet(s) => IsInjective(Append(s, e))
  <1> DEFINE t == Append(s, e)
  <1>1. /\ t \in Seq(S) /\ Len(t) = Len(s) + 1 /\ t[Len(s) + 1] = e
        /\ \A i \in 1..Len(s) : t[i] = s[i]
        /\ DOMAIN s = 1..Len(s) /\ DOMAIN t = 1..(Len(s) + 1) /\ Len(s) \in Nat
    BY AppendProperties, LenProperties
  <1> HIDE DEF t
  <1>2. ToSet(t) = ToSet(s) \cup {e}
    <2>1. ASSUME NEW x \in ToSet(t) PROVE x \in ToSet(s) \cup {e}
      BY <1>1 DEF ToSet
    <2>2. ASSUME NEW x \in ToSet(s) \cup {e} PROVE x \in ToSet(t)
      BY <1>1 DEF ToSet
    <2> QED
      BY <2>1, <2>2
  <1>3. ASSUME IsInjective(s), e \notin ToSet(s) PROVE IsInjective(t)
    <2> SUFFICES ASSUME NEW i \in 1..(Len(s) + 1), NEW j \in 1..(Len(s) + 1), t[i] = t[j]
                 PROVE  i = j
      BY <1>1 DEF IsInjective
    <2>1. \A k \in 1..Len(s) : s[k] # e
      BY <1>1, <1>3 DEF ToSet
    <2> QED
      BY <1>1, <1>3, <2>1 DEF IsInjective
  <1> QED
    BY <1>1, <1>2, <1>3 DEF t

\* pop at the front
LEMMA TailElements ==
    ASSUME NEW S, NEW s \in Seq(S), s # <<>>
    PROVE  /\ Tail(s) \in Seq(S) /\ Head(s) \in S
           /\ ToSet(s) = ToSet(Tail(s)) \cup {Head(s)}
           /\ IsInjective(s) => IsInjective(Tail(s)) /\ Head(s) \notin ToSet(Tail(s))
  <1> DEFINE t == Tail(s)
  <1>1. /\ t \in Seq(S) /\ Len(t) = Len(s) - 1 /\ Head(s) \in S /\ Head(s) = s[1]
        /\ \A i \in 1..(Len(s) - 1) : t[i] = s[i + 1]
        /\ DOMAIN s = 1..Len(s) /\ DOMAIN t = 1..(Len(s) - 1)
        /\ Len(s) \in Nat /\ Len(s) >= 1
    BY HeadTailProperties, LenProperties, EmptySeq
  <1> HIDE DEF t
  <1>2. ToSet(s) = ToSet(t) \cup {Head(s)}
    <2>1. ASSUME NEW x \in ToSet(s) PROVE x \in ToSet(t) \cup {Head(s)}
      <3>1. PICK i \in 1..Len(s) : x = s[i]
        BY <1>1 DEF ToSet
      <3>2. CASE i # 1
        <4>1. i - 1 \in 1..(Len(s) - 1) /\ t[i - 1] = s[(i - 1) + 1]
          BY <1>1, <3>2
        <4> QED
          BY <1>1, <3>1, <4>1 DEF ToSet
      <3> QED
        BY <1>1, <3>1, <3>2
    <2>2. ASSUME NEW x \in ToSet(t) \cup {Head(s)} PROVE x \in ToSet(s)
      BY <1>1 DEF ToSet
    <2> QED
      BY <2>1, <2>2
  <1>3. ASSUME IsInjective(s) PROVE IsInjective(t) /\ Head(s) \notin ToSet(t)
    <2>1. \A i, j \in 1..(Len(s) - 1) : t[i] = t[j] => i = j
      <3> SUFFICES ASSUME NEW i \in 1..(Len(s) - 1), NEW j \in 1..(Len(s) - 1), t[i] = t[j]
                   PROVE  i = j
        OBVIOUS
      <3>1. i + 1 \in DOMAIN s /\ j + 1 \in DOMAIN s /\ s[i + 1] = s[j + 1]
        BY <1>1
      <3>2. i + 1 = j + 1
        BY <1>3, <3>1 DEF IsInjective
      <3> QED
        BY <1>1, <3>2
    <2>2. ASSUME NEW i \in 1..(Len(s) - 1), t[i] = s[1] PROVE FALSE
      <3>1. i + 1 \in DOMAIN s /\ 1 \in DOMAIN s /\ s[i + 1] = s[1]
        BY <1>1, <2>2
      <3>2. i + 1 = 1
        BY <1>3, <3>1 DEF IsInjective
      <3> QED
        BY <1>1, <3>2
    <2> QED
      BY <1>1, <2>1, <2>2 DEF IsInjective, ToSet
  <1> QED
    BY <1>1, <1>2, <1>3 DEF t

\* one sequence behind another
LEMMA ConcatElements ==
    ASSUME NEW S, NEW s \in Seq(S), NEW t \in Seq(S)
    PROVE  /\ s \o t \in Seq(S)
           /\ ToSet(s \o t) = ToSet(s) \cup ToSet(t)
           /\ IsInjective(s \o t) <=> /\ IsInjective(s) /\ IsInjective(t)
                                      /\ ToSet(s) \cap ToSet(t) = {}
  <1> DEFINE u == s \o t
  <1>1. /\ u \in Seq(S) /\ Len(u) = Len(s) + Len(t)
        /\ \A i \in 1..Len(s) : u[i] = s[i]
        /\ \A i \in 1..Len(t) : u[i + Len(s)] = t[i]
        /\ \A i \in 1..Len(u) : ~(i <= Len(s)) => i - Len(s) \in 1..Len(t) /\ u[i] = t[i - Len(s)]
        /\ DOMAIN s = 1..Len(s) /\ DOMAIN t = 1..Len(t) /\ DOMAIN u = 1..Len(u)
        /\ Len(s) \in Nat /\ Len(t) \in Nat
    BY ConcatProperties, LenProperties
  <1> HIDE DEF u
  <1>2. ToSet(u) = ToSet(s) \cup ToSet(t)
    <2>1. ASSUME NEW x \in ToSet(u) PROVE x \in ToSet(s) \cup ToSet(t)
      <3>1. PICK i \in 1..Len(u) : x = u[i]
        BY <1>1 DEF ToSet
      <3>2. CASE i <= Len(s)
        <4>1. i \in DOMAIN s /\ x = s[i]
          BY <1>1, <3>1, <3>2
        <4> QED
          BY <4>1 DEF ToSet
      <3>3. CASE ~(i <= Len(s))
        <4>1. i - Len(s) \in DOMAIN t /\ x = t[i - Len(s)]
          BY <1>1, <3>1, <3>3
        <4> QED
          BY <4>1 DEF ToSet
      <3> QED
        BY <3>2, <3>3
    <2>2. ASSUME NEW x \in ToSet(s) \cup ToSet(t) PROVE x \in ToSet(u)
      <3>1. CASE x \in ToSet(s)
        BY <1>1, <3>1 DEF ToSet
      <3>2. CASE x \in ToSet(t)
        <4>1. PICK i \in 1..Len(t) : x = t[i]
          BY <1>1, <3>2 DEF ToSet
        <4>2. i + Len(s) \in DOMAIN u /\ u[i + Len(s)] = x
          BY <1>1, <4>1
        <4> QED
          BY <4>2 DEF ToSet
      <3> QED
        BY <2>2, <3>1, <3>2
    <2> QED
      BY <2>1, <2>2
  <1>3. ASSUME IsInjective(u)
        PROVE  IsInjective(s) /\ IsInjective(t) /\ ToSet(s) \cap ToSet(t) = {}
    <2>1. IsInjective(s)
      BY <1>1, <1>3 DEF IsInjective
    <2>2. IsInjective(t)
      <3> SUFFICES ASSUME NEW i \in 1..Len(t), NEW j \in 1..Len(t), t[i] = t[j]
                   PROVE  i = j
        BY <1>1 DEF IsInjective
      <3>1. i + Len(s) \in DOMAIN u /\ j + Len(s) \in DOMAIN u
        BY <1>1
      <3>2. u[i + Len(s)] = u[j + Len(s)]
        BY <1>1
      <3>3. i + Len(s) = j + Len(s)
        BY <1>3, <3>1, <3>2 DEF IsInjective
      <3> QED
        BY <1>1, <3>3
    <2>3. ASSUME NEW i \in 1..Len(s), NEW j \in 1..Len(t), s[i] = t[j] PROVE FALSE
      <3>1. i \in DOMAIN u /\ j + Len(s) \in DOMAIN u /\ u[i] = u[j + Len(s)]
        BY <1>1, <2>3
      <3>2. i = j + Len(s)
        BY <1>3, <3>1 DEF IsInjective
      <3> QED
        BY <1>1, <3>2
    <2> QED
      BY <1>1, <2>1, <2>2, <2>3 DEF ToSet
  <1>4. ASSUME IsInjective(s), IsInjective(t), ToSet(s) \cap ToSet(t) = {}
        PROVE  IsInjective(u)
    <2> SUFFICES ASSUME NEW i \in 1..Len(u), NEW j \in 1..Len(u), u[i] = u[j]
                 PROVE  i = j
      BY <1>1 DEF IsInjective
    <2>1. \A k \in 1..Len(s), l \in 1..Len(t) : s[k] # t[l]
      BY <1>1, <1>4 DEF ToSet
    <2>2. CASE i <= Len(s) /\ j <= Len(s)
      BY <1>1, <1>4, <2>2 DEF IsInjective
    <2>3. CASE ~(i <= Len(s)) /\ ~(j <= Len(s))
      <3>1. /\ i - Len(s) \in DOMAIN t /\ j - Len(s) \in DOMAIN t
            /\ t[i - Len(s)] = t[j - Len(s)]
        BY <1>1, <2>3
      <3>2. i - Len(s) = j - Len(s)
        BY <1>4, <3>1 DEF IsInjective
      <3> QED
        BY <1>1, <3>2
    <2>4. CASE i <= Len(s) /\ ~(j <= Len(s))
      BY <1>1, <2>1, <2>4
    <2>5. CASE ~(i <= Len(s)) /\ j <= Len(s)
      BY <1>1, <2>1, <2>5
    <2> QED
      BY <2>2, <2>3, <2>4, <2>5
  <1> QED
    BY <1>1, <1>2, <1>3, <1>4 DEF u

\* a prefix has the same elements at its positions
LEMMA PrefixElements ==
    ASSUME NEW S, NEW s \in Seq(S), NEW t \in Seq(S)
    PROVE  IsPrefix(s, t) <=> Len(s) <= Len(t) /\ \A i \in 1..Len(s) : s[i] = t[i]
  <1>1. Len(s) \in Nat /\ Len(t) \in Nat /\ SubSeq(s, 1, Len(s)) = s
    BY LenProperties, SubSeqFull
  <1> SUFFICES ASSUME Len(s) <= Len(t)
               PROVE  s = SubSeq(t, 1, Len(s)) <=> \A i \in 1..Len(s) : s[i] = t[i]
    BY <1>1 DEF IsPrefix
  <1>2. /\ SubSeq(t, 1, Len(s)) \in Seq(S) /\ Len(SubSeq(t, 1, Len(s))) = Len(s)
        /\ \A i \in 1..Len(s) : SubSeq(t, 1, Len(s))[i] = t[i]
    BY <1>1
  <1> QED
    BY <1>1, <1>2, SeqEqual

\* A push at the back leaves what was cut from a sequence, and a cut that went to
\* the end grows by the new element.
LEMMA AppendSubSeq ==
    ASSUME NEW S, NEW s \in Seq(S), NEW e \in S, NEW m \in 1..(Len(s) + 1)
    PROVE  /\ \A n \in 0..Len(s) : SubSeq(Append(s, e), m, n) = SubSeq(s, m, n)
           /\ SubSeq(Append(s, e), m, Len(s) + 1) = Append(SubSeq(s, m, Len(s)), e)
  <1> DEFINE t == Append(s, e)
  <1>1. /\ t \in Seq(S) /\ Len(t) = Len(s) + 1 /\ Len(s) \in Nat
        /\ t[Len(s) + 1] = e /\ \A i \in 1..Len(s) : t[i] = s[i]
        /\ \A i \in 1..Len(s) : s[i] \in S
    BY AppendProperties, LenProperties, ElementOfSeq
  <1> HIDE DEF t
  <1>2. ASSUME NEW n \in 0..Len(s) PROVE SubSeq(t, m, n) = SubSeq(s, m, n)
    <2>1. /\ SubSeq(t, m, n) \in Seq(S) /\ SubSeq(s, m, n) \in Seq(S)
          /\ Len(SubSeq(t, m, n)) = Len(SubSeq(s, m, n))
          /\ Len(SubSeq(s, m, n)) = IF m <= n THEN n - m + 1 ELSE 0
          /\ \A i \in 1..(n - m + 1) : /\ SubSeq(t, m, n)[i] = t[m + i - 1]
                                       /\ SubSeq(s, m, n)[i] = s[m + i - 1]
      BY <1>1, SubSeqProperties
    <2>2. \A i \in 1..Len(SubSeq(s, m, n)) : SubSeq(t, m, n)[i] = SubSeq(s, m, n)[i]
      BY <1>1, <2>1
    <2> QED
      BY <2>1, <2>2, SeqEqual
  <1>3. SubSeq(t, m, Len(s) + 1) = Append(SubSeq(s, m, Len(s)), e)
    <2> DEFINE a == SubSeq(t, m, Len(s) + 1)
               b == SubSeq(s, m, Len(s))
               c == Append(b, e)
    <2>1. /\ a \in Seq(S) /\ b \in Seq(S) /\ Len(a) = Len(s) - m + 2 /\ Len(b) = Len(s) - m + 1
          /\ \A i \in 1..(Len(s) - m + 2) : a[i] = t[m + i - 1]
          /\ \A i \in 1..(Len(s) - m + 1) : b[i] = s[m + i - 1]
      BY <1>1, SubSeqProperties
    <2> HIDE DEF a, b
    <2>2. /\ c \in Seq(S) /\ Len(c) = Len(b) + 1 /\ c[Len(b) + 1] = e
          /\ \A i \in 1..Len(b) : c[i] = b[i]
      BY <2>1, AppendProperties
    <2> HIDE DEF c
    <2>3. \A i \in 1..Len(a) : a[i] = c[i]
      <3> SUFFICES ASSUME NEW i \in 1..Len(a) PROVE a[i] = c[i]
        OBVIOUS
      <3>1. CASE i = Len(b) + 1
        <4>1. m + i - 1 = Len(s) + 1
          BY <1>1, <2>1, <3>1
        <4> QED
          BY <1>1, <2>1, <2>2, <3>1, <4>1
      <3>2. CASE i \in 1..Len(b)
        <4>1. m + i - 1 \in 1..Len(s)
          BY <1>1, <2>1, <3>2
        <4> QED
          BY <1>1, <2>1, <2>2, <3>2, <4>1
      <3> QED
        BY <1>1, <2>1, <3>1, <3>2
    <2>4. a = c
      BY <1>1, <2>1, <2>2, <2>3, SeqEqual
    <2> QED
      BY <2>4 DEF a, b, c
  <1> QED
    BY <1>2, <1>3 DEF t

\* an element taken out of the middle
LEMMA RemoveAtElements ==
    ASSUME NEW S, NEW s \in Seq(S), NEW k \in 1..Len(s)
    PROVE  /\ RemoveAt(s, k) \in Seq(S) /\ Len(RemoveAt(s, k)) = Len(s) - 1
           /\ \A i \in 1..(Len(s) - 1) : RemoveAt(s, k)[i] = IF i < k THEN s[i] ELSE s[i + 1]
  <1> DEFINE a == SubSeq(s, 1, k - 1)
             b == SubSeq(s, k + 1, Len(s))
             c == a \o b
  <1>1. Len(s) \in Nat /\ \A i \in 1..Len(s) : s[i] \in S
    BY LenProperties, ElementOfSeq
  <1>2. /\ a \in Seq(S) /\ Len(a) = k - 1 /\ \A i \in 1..(k - 1) : a[i] = s[i]
        /\ b \in Seq(S) /\ Len(b) = Len(s) - k
        /\ \A i \in 1..(Len(s) - k) : b[i] = s[k + 1 + i - 1]
    BY <1>1, SubSeqProperties
  <1> HIDE DEF a, b
  <1>3. /\ c \in Seq(S) /\ Len(c) = Len(s) - 1
        /\ \A i \in 1..(Len(s) - 1) : c[i] = IF i < k THEN a[i] ELSE b[i - (k - 1)]
    <2>1. /\ c \in Seq(S) /\ Len(c) = Len(a) + Len(b)
          /\ \A i \in 1..(Len(a) + Len(b)) : c[i] = IF i <= Len(a) THEN a[i] ELSE b[i - Len(a)]
      BY <1>2, ConcatProperties
    <2> HIDE DEF c
    <2>2. Len(a) + Len(b) = Len(s) - 1 /\ k \in Nat
      BY <1>1, <1>2
    <2>3. ASSUME NEW i \in 1..(Len(s) - 1)
          PROVE  c[i] = IF i < k THEN a[i] ELSE b[i - (k - 1)]
      <3>1. c[i] = IF i <= k - 1 THEN a[i] ELSE b[i - (k - 1)]
        BY <1>2, <2>1, <2>2
      <3> QED
        BY <2>2, <3>1
    <2> QED
      BY <2>1, <2>2, <2>3
  <1> HIDE DEF c
  <1>4. ASSUME NEW i \in 1..(Len(s) - 1) PROVE c[i] = IF i < k THEN s[i] ELSE s[i + 1]
    <2>1. CASE i < k
      BY <1>1, <1>2, <1>3, <2>1
    <2>2. CASE ~(i < k)
      <3>1. i - (k - 1) \in 1..(Len(s) - k) /\ k + 1 + (i - (k - 1)) - 1 = i + 1
        BY <1>1, <2>2
      <3> QED
        BY <1>2, <1>3, <2>2, <3>1
    <2> QED
      BY <2>1, <2>2
  <1> QED
    BY <1>3, <1>4 DEF RemoveAt, a, b, c
=============================================================================
