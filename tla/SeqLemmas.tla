------------------------------- MODULE SeqLemmas ------------------------------
(***************************************************************************)
(* Facts about the sequences that stand for files, queues and tables: what *)
(* appending, dropping and concatenating does to the set of their elements *)
(* and to how often one of them occurs.                                    *)
(***************************************************************************)
EXTENDS Integers, Sequences, FiniteSets, SequencesExt, FiniteSetTheorems, TLAPS

(***************************************************************************)
(* Sequences with the same elements in the same places are the same.       *)
(***************************************************************************)
LEMMA SameSeq ==
  ASSUME NEW S, NEW s \in Seq(S), NEW t \in Seq(S), Len(s) = Len(t),
         \A i \in 1..Len(s) : s[i] = t[i]
  PROVE  s = t
OBVIOUS

(***************************************************************************)
(* A suffix of a sequence.                                                 *)
(***************************************************************************)
LEMMA SeqFacts ==
  ASSUME NEW S, NEW s \in Seq(S), NEW p \in 0..Len(s)
  PROVE  /\ SubSeq(s, p + 1, Len(s)) \in Seq(S)
         /\ Len(SubSeq(s, p + 1, Len(s))) = Len(s) - p
         /\ \A i \in 1..Len(s) - p : SubSeq(s, p + 1, Len(s))[i] = s[p + i]
  OBVIOUS

(***************************************************************************)
(* The elements of a sequence are those at its positions.                  *)
(***************************************************************************)
LEMMA ToSetElements ==
  ASSUME NEW S, NEW s \in Seq(S)
  PROVE  /\ ToSet(s) = {s[i] : i \in 1..Len(s)}
         /\ ToSet(s) \subseteq S
         /\ \A i \in 1..Len(s) : s[i] \in ToSet(s)
BY DEF ToSet

(***************************************************************************)
(* An empty file, queue or table holds nothing.                            *)
(***************************************************************************)
LEMMA ToSetEmpty == ToSet(<<>>) = {}
BY DEF ToSet

(***************************************************************************)
(* A suffix holds nothing that the sequence does not.                      *)
(***************************************************************************)
LEMMA ToSetSuffix ==
  ASSUME NEW S, NEW s \in Seq(S), NEW p \in 0..Len(s)
  PROVE  ToSet(SubSeq(s, p + 1, Len(s))) \subseteq ToSet(s)
<1> DEFINE u == SubSeq(s, p + 1, Len(s))
<1>1. /\ u \in Seq(S) /\ Len(u) = Len(s) - p /\ Len(s) \in Nat /\ p \in Nat
      /\ \A i \in 1..Len(s) - p : u[i] = s[p + i]
  BY SeqFacts
<1> HIDE DEF u
<1>2. \A i \in 1..Len(s) - p : p + i \in 1..Len(s)
  BY <1>1
<1>3. \A i \in 1..Len(s) : s[i] \in ToSet(s)
  BY ToSetElements
<1>4. ToSet(u) = {u[i] : i \in 1..Len(u)}
  BY <1>1, ToSetElements
<1>5. ToSet(u) \subseteq ToSet(s)
  BY <1>1, <1>2, <1>3, <1>4
<1> QED BY <1>5 DEF u

(***************************************************************************)
(* Reading one element further: the suffix loses its head.                 *)
(***************************************************************************)
LEMMA SuffixTail ==
  ASSUME NEW S, NEW s \in Seq(S), NEW p \in 0..Len(s), p < Len(s)
  PROVE  /\ SubSeq(s, p + 1, Len(s)) # <<>>
         /\ Head(SubSeq(s, p + 1, Len(s))) = s[p + 1]
         /\ Tail(SubSeq(s, p + 1, Len(s))) = SubSeq(s, (p + 1) + 1, Len(s))
<1> DEFINE u == SubSeq(s, p + 1, Len(s))
           v == SubSeq(s, (p + 1) + 1, Len(s))
<1>0. p + 1 \in 0..Len(s) /\ Len(s) \in Nat /\ p \in Nat
  OBVIOUS
<1>1. /\ u \in Seq(S) /\ Len(u) = Len(s) - p
      /\ \A i \in 1..Len(s) - p : u[i] = s[p + i]
  BY SeqFacts
<1>2. /\ v \in Seq(S) /\ Len(v) = Len(s) - (p + 1)
      /\ \A i \in 1..Len(s) - (p + 1) : v[i] = s[(p + 1) + i]
  BY <1>0, SeqFacts
<1> HIDE DEF u, v
<1>3. u # <<>> /\ Head(u) = s[p + 1]
  BY <1>0, <1>1
<1>4. Tail(u) \in Seq(S) /\ Len(Tail(u)) = Len(v)
  BY <1>0, <1>1, <1>2, <1>3
<1>5. ASSUME NEW i \in 1..Len(v) PROVE Tail(u)[i] = v[i]
  <2>1. Tail(u)[i] = u[i + 1]
    BY <1>0, <1>1, <1>2, <1>3
  <2>2. i + 1 \in 1..Len(s) - p /\ p + (i + 1) = (p + 1) + i
    BY <1>0, <1>2
  <2>3. u[i + 1] = s[p + (i + 1)]
    BY <1>1, <2>2
  <2>4. v[i] = s[(p + 1) + i]
    BY <1>2
  <2> QED BY <2>1, <2>2, <2>3, <2>4
<1>6. Tail(u) = v
  BY <1>2, <1>4, <1>5, SameSeq, Zenon
<1> QED BY <1>3, <1>6 DEF u, v

(***************************************************************************)
(* Appending adds exactly the appended element to a sequence's range.      *)
(***************************************************************************)
LEMMA ToSetAppend ==
  ASSUME NEW S, NEW s \in Seq(S), NEW e \in S
  PROVE  ToSet(Append(s, e)) = ToSet(s) \cup {e}
<1>1. /\ Len(Append(s, e)) = Len(s) + 1 /\ Len(s) \in Nat
      /\ DOMAIN Append(s, e) = 1..Len(s) + 1 /\ DOMAIN s = 1..Len(s)
      /\ \A i \in 1..Len(s) : Append(s, e)[i] = s[i]
      /\ Append(s, e)[Len(s) + 1] = e
  OBVIOUS
<1>2. \A i \in 1..Len(s) + 1 : i \in 1..Len(s) \/ i = Len(s) + 1
  BY <1>1
<1>3. ToSet(Append(s, e)) \subseteq ToSet(s) \cup {e}
  BY <1>1, <1>2 DEF ToSet
<1>4. ToSet(s) \cup {e} \subseteq ToSet(Append(s, e))
  <2>1. \A i \in 1..Len(s) : i \in 1..Len(s) + 1
    BY <1>1
  <2>2. Len(s) + 1 \in 1..Len(s) + 1
    BY <1>1
  <2> QED BY <1>1, <2>1, <2>2 DEF ToSet
<1> QED BY <1>3, <1>4

(***************************************************************************)
(* Dropping the first element takes at most that one from the range.       *)
(***************************************************************************)
LEMMA ToSetTail ==
  ASSUME NEW S, NEW s \in Seq(S), s # <<>>
  PROVE  /\ ToSet(s) = {Head(s)} \cup ToSet(Tail(s))
         /\ Tail(s) \in Seq(S) /\ Head(s) \in S
<1>1. /\ Len(Tail(s)) = Len(s) - 1 /\ Len(s) \in Nat \ {0}
      /\ Tail(s) \in Seq(S) /\ Head(s) = s[1] /\ Head(s) \in S
      /\ \A i \in 1..Len(s) - 1 : Tail(s)[i] = s[i + 1]
  OBVIOUS
<1>2. /\ DOMAIN Tail(s) = 1..Len(s) - 1 /\ DOMAIN s = 1..Len(s)
  BY <1>1
<1>3. \A i \in 1..Len(s) : i = 1 \/ (i - 1 \in 1..Len(s) - 1 /\ s[i] = Tail(s)[i - 1])
  BY <1>1
<1>4. \A i \in 1..Len(s) - 1 : i + 1 \in 1..Len(s)
  BY <1>1
<1>5. ToSet(s) \subseteq {Head(s)} \cup ToSet(Tail(s))
  <2>1. ASSUME NEW i \in 1..Len(s) PROVE s[i] \in {Head(s)} \cup ToSet(Tail(s))
    <3>1. CASE i = 1
      BY <1>1, <3>1
    <3>2. CASE i - 1 \in 1..Len(s) - 1 /\ s[i] = Tail(s)[i - 1]
      BY <1>2, <3>2 DEF ToSet
    <3> QED BY <1>3, <3>1, <3>2
  <2> QED BY <1>2, <2>1 DEF ToSet
<1>6. {Head(s)} \cup ToSet(Tail(s)) \subseteq ToSet(s)
  <2>1. 1 \in 1..Len(s)
    BY <1>1
  <2> QED BY <1>1, <1>2, <1>4, <2>1 DEF ToSet
<1> QED BY <1>1, <1>5, <1>6

(***************************************************************************)
(* Replacing one element of a sequence leaves the others.                  *)
(***************************************************************************)
LEMMA Update ==
  ASSUME NEW S, NEW s \in Seq(S), NEW k \in 1..Len(s), NEW v \in S
  PROVE  /\ [s EXCEPT ![k] = v] \in Seq(S)
         /\ Len([s EXCEPT ![k] = v]) = Len(s)
         /\ [s EXCEPT ![k] = v][k] = v
         /\ \A m \in 1..Len(s) : m # k => [s EXCEPT ![k] = v][m] = s[m]
OBVIOUS

(***************************************************************************)
(* What appending leaves and adds, position by position.                   *)
(***************************************************************************)
LEMMA AppendFacts ==
  ASSUME NEW S, NEW s \in Seq(S), NEW e \in S
  PROVE  /\ Append(s, e) \in Seq(S) /\ Len(s) \in Nat
         /\ Len(Append(s, e)) = Len(s) + 1 /\ DOMAIN Append(s, e) = 1..Len(s) + 1
         /\ DOMAIN s = 1..Len(s)
         /\ \A k \in 1..Len(s) : Append(s, e)[k] = s[k]
         /\ Append(s, e)[Len(s) + 1] = e
         /\ \A k \in DOMAIN Append(s, e) : k \in 1..Len(s) \/ k = Len(s) + 1
OBVIOUS

(***************************************************************************)
(* Taking the first line off a queue is neither nothing nor an append.     *)
(***************************************************************************)
LEMMA TailDiffers ==
  ASSUME NEW S, NEW s \in Seq(S), s # <<>>
  PROVE  Tail(s) # s /\ \A e \in S : Tail(s) # Append(s, e)
<1>1. Len(s) \in Nat /\ Len(s) > 0 /\ Len(Tail(s)) = Len(s) - 1
  OBVIOUS
<1>2. ASSUME NEW e \in S PROVE Len(Append(s, e)) = Len(s) + 1
  OBVIOUS
<1>3. Len(s) - 1 # Len(s) /\ Len(s) - 1 # Len(s) + 1
  <2>1. \A n \in Nat : n - 1 # n /\ n - 1 # n + 1
    OBVIOUS
  <2> QED BY <1>1, <2>1, Zenon
<1>4. Tail(s) # s
  BY <1>1, <1>3, Zenon
<1>5. ASSUME NEW e \in S PROVE Tail(s) # Append(s, e)
  <2>1. Len(Append(s, e)) = Len(s) + 1
    BY <1>2
  <2>2. Len(Tail(s)) # Len(Append(s, e))
    BY <1>1, <1>3, <2>1
  <2> QED BY <2>2, Zenon
<1> QED BY <1>4, <1>5

(***************************************************************************)
(* A sequence without repetitions stays one when another element is        *)
(* appended.                                                               *)
(***************************************************************************)
LEMMA AppendDistinct ==
  ASSUME NEW S, NEW s \in Seq(S), NEW e \in S, IsInjective(s), e \notin ToSet(s)
  PROVE  IsInjective(Append(s, e))
<1> DEFINE t == Append(s, e)
           n == Len(s) + 1
<1>1. /\ DOMAIN t = 1..n /\ DOMAIN s = 1..Len(s) /\ t[n] = e
      /\ \A k \in 1..Len(s) : t[k] = s[k]
      /\ \A k \in DOMAIN t : k \in 1..Len(s) \/ k = n
  BY AppendFacts
<1>2. \A k \in 1..Len(s) : s[k] # e
  BY ToSetElements
<1> HIDE DEF t, n
<1>3. ASSUME NEW j \in DOMAIN t, NEW k \in DOMAIN t, t[j] = t[k] PROVE j = k
  <2>1. CASE j \in 1..Len(s) /\ k \in 1..Len(s)
    BY <1>1, <1>3, <2>1 DEF IsInjective
  <2>2. CASE j = n \/ k = n
    BY <1>1, <1>2, <1>3, <2>2
  <2> QED BY <1>1, <2>1, <2>2
<1>4. IsInjective(t)
  BY <1>3 DEF IsInjective
<1> QED BY <1>4 DEF t

(***************************************************************************)
(* The first element of a sequence without repetitions is not in the rest. *)
(***************************************************************************)
LEMMA TailDistinct ==
  ASSUME NEW S, NEW s \in Seq(S), s # <<>>, IsInjective(s)
  PROVE  IsInjective(Tail(s)) /\ Head(s) \notin ToSet(Tail(s))
<1> DEFINE t == Tail(s)
<1>1. Len(s) \in Nat /\ Len(s) > 0 /\ t \in Seq(S) /\ Len(t) = Len(s) - 1 /\ Head(s) = s[1]
  OBVIOUS
<1>2. DOMAIN t = 1..Len(t) /\ DOMAIN s = 1..Len(s)
  BY <1>1
<1>3. \A k \in 1..Len(t) : t[k] = s[k + 1] /\ k + 1 \in 1..Len(s) /\ k + 1 # 1
  BY <1>1
<1>4. 1 \in 1..Len(s)
  BY <1>1
<1> HIDE DEF t
<1>5. ASSUME NEW j \in DOMAIN t, NEW k \in DOMAIN t, t[j] = t[k] PROVE j = k
  <2>1. j + 1 = k + 1
    BY <1>2, <1>3, <1>5 DEF IsInjective
  <2>2. j \in Int /\ k \in Int
    BY <1>1, <1>2
  <2> QED BY <2>1, <2>2
<1>6. \A k \in 1..Len(t) : t[k] # s[1]
  BY <1>2, <1>3, <1>4 DEF IsInjective
<1>7. Head(s) \notin ToSet(t)
  BY <1>1, <1>6, ToSetElements
<1>8. IsInjective(t)
  BY <1>5 DEF IsInjective
<1> QED BY <1>7, <1>8 DEF t

(***************************************************************************)
(* The orders SetToSeqs gives a finite set are sequences that have each of *)
(* its elements once.                                                      *)
(***************************************************************************)
LEMMA SetToSeqsFacts ==
  ASSUME NEW S, IsFiniteSet(S), NEW s \in SetToSeqs(S)
  PROVE  s \in Seq(S) /\ ToSet(s) = S /\ IsInjective(s)
<1> DEFINE n == Cardinality(S)
<1>1. n \in Nat
  BY FS_CardinalityType
<1>2. s \in [1..n -> S] /\ \A j, k \in 1..n : j # k => s[j] # s[k]
  BY DEF SetToSeqs
<1>3. IsFiniteSet(1..n) /\ Cardinality(1..n) = n
  BY <1>1, FS_Interval
<1> HIDE DEF n
<1>4. s \in Seq(S) /\ Len(s) = n /\ DOMAIN s = 1..n
  BY <1>1, <1>2
<1>5. s \in Injection(1..n, S)
  BY <1>2 DEF Injection, IsInjective
<1>6. s \in Surjection(1..n, S)
  BY <1>3, <1>5, FS_Injection DEF n
<1>7. ToSet(s) = S
  BY <1>2, <1>4, <1>6 DEF ToSet, Surjection
<1> QED BY <1>4, <1>5, <1>7 DEF Injection

(***************************************************************************)
(* Two sequences without repetition and with nothing in common, one after  *)
(* the other, do not repeat anything either.                               *)
(***************************************************************************)
LEMMA ConcatDistinct ==
  ASSUME NEW S, NEW s \in Seq(S), NEW t \in Seq(S),
         IsInjective(s), IsInjective(t), ToSet(s) \cap ToSet(t) = {}
  PROVE  /\ s \o t \in Seq(S) /\ Len(s \o t) = Len(s) + Len(t)
         /\ \A j \in 1..Len(s) : (s \o t)[j] = s[j]
         /\ IsInjective(s \o t)
<1> DEFINE c == s \o t
<1>1. /\ c \in Seq(S) /\ Len(c) = Len(s) + Len(t) /\ Len(s) \in Nat /\ Len(t) \in Nat
      /\ \A j \in 1..Len(s) : c[j] = s[j]
      /\ \A j \in 1..Len(s) + Len(t) : j > Len(s) => c[j] = t[j - Len(s)]
  OBVIOUS
<1>2. \A j \in 1..Len(s) + Len(t) : j \in 1..Len(s) \/ (j > Len(s) /\ j - Len(s) \in 1..Len(t))
  BY <1>1
<1>3. /\ \A j \in 1..Len(t) : t[j] \in ToSet(t)
      /\ \A j \in 1..Len(s) : s[j] \in ToSet(s)
  BY ToSetElements
<1>0. /\ DOMAIN s = 1..Len(s) /\ DOMAIN t = 1..Len(t) /\ DOMAIN c = 1..Len(s) + Len(t)
  BY <1>1
<1> HIDE DEF c
<1>4. ASSUME NEW j \in 1..Len(s) + Len(t), NEW k \in 1..Len(s) + Len(t), c[j] = c[k]
      PROVE  j = k
  <2>1. CASE j \in 1..Len(s) /\ k \in 1..Len(s)
    BY <1>0, <1>1, <1>4, <2>1 DEF IsInjective
  <2>2. CASE j > Len(s) /\ k > Len(s)
    <3>1. /\ j - Len(s) \in 1..Len(t) /\ k - Len(s) \in 1..Len(t)
          /\ t[j - Len(s)] = t[k - Len(s)]
      BY <1>1, <1>2, <1>4, <2>2
    <3>2. j - Len(s) = k - Len(s)
      BY <1>0, <3>1 DEF IsInjective
    <3>3. j \in Int /\ k \in Int /\ Len(s) \in Int
      BY <1>1
    <3> QED BY <3>2, <3>3
  <2>3. CASE j \in 1..Len(s) /\ k > Len(s)
    <3>1. c[j] \in ToSet(s)
      BY <1>1, <1>3, <2>3
    <3>2. k - Len(s) \in 1..Len(t) /\ c[k] = t[k - Len(s)]
      BY <1>1, <1>2, <2>3
    <3> QED BY <1>3, <1>4, <3>1, <3>2
  <2>4. CASE k \in 1..Len(s) /\ j > Len(s)
    <3>1. c[k] \in ToSet(s)
      BY <1>1, <1>3, <2>4
    <3>2. j - Len(s) \in 1..Len(t) /\ c[j] = t[j - Len(s)]
      BY <1>1, <1>2, <2>4
    <3> QED BY <1>3, <1>4, <3>1, <3>2
  <2> QED BY <1>2, <2>1, <2>2, <2>3, <2>4
<1>5. IsInjective(c)
  BY <1>0, <1>4 DEF IsInjective
<1> QED BY <1>1, <1>5 DEF c

(***************************************************************************)
(* Of a position of a concatenation, one of its parts has the element.     *)
(***************************************************************************)
LEMMA ToSetConcat ==
  ASSUME NEW S, NEW s \in Seq(S), NEW t \in Seq(S)
  PROVE  ToSet(s \o t) = ToSet(s) \cup ToSet(t)
<1>1. /\ Len(s \o t) = Len(s) + Len(t) /\ Len(s) \in Nat /\ Len(t) \in Nat
      /\ DOMAIN (s \o t) = 1..Len(s) + Len(t)
      /\ DOMAIN s = 1..Len(s) /\ DOMAIN t = 1..Len(t)
      /\ \A i \in 1..Len(s) + Len(t) :
           (s \o t)[i] = IF i <= Len(s) THEN s[i] ELSE t[i - Len(s)]
  OBVIOUS
<1>2. ToSet(s \o t) \subseteq ToSet(s) \cup ToSet(t)
  <2>1. ASSUME NEW i \in 1..Len(s) + Len(t)
        PROVE  (s \o t)[i] \in ToSet(s) \cup ToSet(t)
    <3>1. CASE i <= Len(s)
      <4>1. i \in 1..Len(s) /\ (s \o t)[i] = s[i]
        BY <1>1, <3>1
      <4> QED BY <1>1, <4>1 DEF ToSet
    <3>2. CASE i > Len(s)
      <4>1. i - Len(s) \in 1..Len(t) /\ (s \o t)[i] = t[i - Len(s)]
        BY <1>1, <3>2
      <4> QED BY <1>1, <4>1 DEF ToSet
    <3> QED BY <1>1, <3>1, <3>2
  <2> QED BY <1>1, <2>1 DEF ToSet
<1>3. ASSUME NEW i \in 1..Len(s) PROVE s[i] \in ToSet(s \o t)
  <2>1. i \in 1..Len(s) + Len(t) /\ (s \o t)[i] = s[i]
    BY <1>1
  <2> QED BY <1>1, <2>1 DEF ToSet
<1>4. ASSUME NEW i \in 1..Len(t) PROVE t[i] \in ToSet(s \o t)
  <2>1. /\ i + Len(s) \in 1..Len(s) + Len(t)
        /\ (s \o t)[i + Len(s)] = t[i]
    <3>1. i + Len(s) \in 1..Len(s) + Len(t) /\ ~(i + Len(s) <= Len(s))
          /\ (i + Len(s)) - Len(s) = i
      BY <1>1
    <3> QED BY <1>1, <3>1
  <2> QED BY <1>1, <2>1 DEF ToSet
<1> QED BY <1>1, <1>2, <1>3, <1>4 DEF ToSet

(***************************************************************************)
(* A concatenation, position by position.                                  *)
(***************************************************************************)
LEMMA ConcatFacts ==
  ASSUME NEW S, NEW s \in Seq(S), NEW t \in Seq(S)
  PROVE  /\ s \o t \in Seq(S) /\ Len(s) \in Nat /\ Len(t) \in Nat
         /\ Len(s \o t) = Len(s) + Len(t)
         /\ \A i \in 1..Len(s) + Len(t) :
              (s \o t)[i] = IF i <= Len(s) THEN s[i] ELSE t[i - Len(s)]
OBVIOUS

(* Two queues, one behind the other, are two others. *)
SameTogether(g, v, b, w) == g \o v = b \o w

(***************************************************************************)
(* Moving the first elements of a queue behind those of the one in front   *)
(* of it leaves the two together as they were.                             *)
(***************************************************************************)
LEMMA ConcatMoved ==
  ASSUME NEW S, NEW b \in Seq(S), NEW w \in Seq(S), NEW n \in 1..Len(w)
  PROVE  /\ b \o SubSeq(w, 1, n) \in Seq(S)
         /\ SubSeq(w, n + 1, Len(w)) \in Seq(S)
         /\ Len(b \o SubSeq(w, 1, n)) = Len(b) + n
         /\ SameTogether(b \o SubSeq(w, 1, n), SubSeq(w, n + 1, Len(w)), b, w)
<1> DEFINE u == SubSeq(w, 1, n)
           v == SubSeq(w, n + 1, Len(w))
           g == b \o u
<1>0. n \in Nat /\ Len(w) \in Nat /\ n <= Len(w) /\ Len(b) \in Nat /\ n \in 0..Len(w)
  OBVIOUS
<1>1. u \in Seq(S) /\ Len(u) = n /\ \A i \in 1..n : u[i] = w[i]
  OBVIOUS
<1>2. v \in Seq(S) /\ Len(v) = Len(w) - n /\ \A i \in 1..Len(w) - n : v[i] = w[n + i]
  BY <1>0, SeqFacts
<1> HIDE DEF u, v
<1>3. /\ g \in Seq(S) /\ Len(g) = Len(b) + n
      /\ \A i \in 1..Len(b) + n : g[i] = IF i <= Len(b) THEN b[i] ELSE u[i - Len(b)]
  <2>1. /\ g \in Seq(S) /\ Len(g) = Len(b) + Len(u)
        /\ \A i \in 1..Len(b) + Len(u) : g[i] = IF i <= Len(b) THEN b[i] ELSE u[i - Len(b)]
    BY <1>1, ConcatFacts, Zenon
  <2> QED BY <1>1, <2>1, Zenon
<1> HIDE DEF g
<1>4. /\ g \o v \in Seq(S) /\ Len(g \o v) = Len(b) + Len(w)
      /\ \A i \in 1..Len(b) + Len(w) :
           (g \o v)[i] = IF i <= Len(b) + n THEN g[i] ELSE v[i - (Len(b) + n)]
  <2>1. (Len(b) + n) + (Len(w) - n) = Len(b) + Len(w)
    BY <1>0
  <2>2. /\ g \o v \in Seq(S) /\ Len(g \o v) = Len(g) + Len(v)
        /\ \A i \in 1..Len(g) + Len(v) :
             (g \o v)[i] = IF i <= Len(g) THEN g[i] ELSE v[i - Len(g)]
    BY <1>2, <1>3, ConcatFacts, Zenon
  <2>3. Len(g) + Len(v) = Len(b) + Len(w)
    BY <1>2, <1>3, <2>1
  <2> QED BY <1>3, <2>2, <2>3, Zenon
<1>5. /\ b \o w \in Seq(S) /\ Len(b \o w) = Len(b) + Len(w)
      /\ \A i \in 1..Len(b) + Len(w) :
           (b \o w)[i] = IF i <= Len(b) THEN b[i] ELSE w[i - Len(b)]
  BY <1>0
<1>6. ASSUME NEW i \in 1..Len(b) + Len(w) PROVE (g \o v)[i] = (b \o w)[i]
  <2>1. CASE i <= Len(b)
    <3>1. i \in 1..Len(b) + n /\ i <= Len(b) + n
      BY <1>0, <2>1
    <3> QED BY <1>3, <1>4, <1>5, <2>1, <3>1
  <2>2. CASE ~(i <= Len(b)) /\ i <= Len(b) + n
    <3>1. i \in 1..Len(b) + n /\ i - Len(b) \in 1..n
      BY <1>0, <2>2
    <3> QED BY <1>1, <1>3, <1>4, <1>5, <2>2, <3>1
  <2>3. CASE ~(i <= Len(b) + n)
    <3>1. /\ i - (Len(b) + n) \in 1..Len(w) - n /\ n + (i - (Len(b) + n)) = i - Len(b)
          /\ ~(i <= Len(b))
      BY <1>0, <2>3
    <3>2. (g \o v)[i] = v[i - (Len(b) + n)]
      BY <1>4, <2>3
    <3>3. v[i - (Len(b) + n)] = w[n + (i - (Len(b) + n))]
      BY <1>2, <3>1
    <3>4. (b \o w)[i] = w[i - Len(b)]
      BY <1>5, <3>1
    <3> QED BY <3>1, <3>2, <3>3, <3>4
  <2> QED BY <2>1, <2>2, <2>3
<1>7. g \o v = b \o w
  BY <1>4, <1>5, <1>6, SameSeq
<1> QED BY <1>2, <1>3, <1>7 DEF u, v, g, SameTogether

(***************************************************************************)
(* Appending to the second of two queues appends to both together.         *)
(***************************************************************************)
LEMMA ConcatAppend ==
  ASSUME NEW S, NEW b \in Seq(S), NEW w \in Seq(S), NEW p \in S
  PROVE  b \o Append(w, p) = Append(b \o w, p)
<1> DEFINE x == Append(w, p)
           s == b \o w
<1>0. Len(b) \in Nat /\ Len(w) \in Nat
  OBVIOUS
<1>1. /\ x \in Seq(S) /\ Len(x) = Len(w) + 1
      /\ \A i \in 1..Len(w) : x[i] = w[i]
      /\ x[Len(w) + 1] = p
  BY AppendFacts
<1>2. /\ s \in Seq(S) /\ Len(s) = Len(b) + Len(w)
      /\ \A i \in 1..Len(b) + Len(w) : s[i] = IF i <= Len(b) THEN b[i] ELSE w[i - Len(b)]
  BY <1>0
<1> HIDE DEF x, s
<1>3. /\ b \o x \in Seq(S) /\ Len(b \o x) = Len(b) + Len(w) + 1
      /\ \A i \in 1..Len(b) + Len(w) + 1 :
           (b \o x)[i] = IF i <= Len(b) THEN b[i] ELSE x[i - Len(b)]
  BY <1>0, <1>1
<1>4. /\ Append(s, p) \in Seq(S) /\ Len(Append(s, p)) = Len(b) + Len(w) + 1
      /\ \A i \in 1..Len(b) + Len(w) : Append(s, p)[i] = s[i]
      /\ Append(s, p)[Len(b) + Len(w) + 1] = p
  BY <1>2, AppendFacts
<1>5. ASSUME NEW i \in 1..Len(b) + Len(w) + 1 PROVE (b \o x)[i] = Append(s, p)[i]
  <2>1. CASE i <= Len(b)
    <3>1. i \in 1..Len(b) + Len(w)
      BY <1>0, <2>1
    <3> QED BY <1>2, <1>3, <1>4, <2>1, <3>1
  <2>2. CASE ~(i <= Len(b)) /\ i <= Len(b) + Len(w)
    <3>1. i \in 1..Len(b) + Len(w) /\ i - Len(b) \in 1..Len(w)
      BY <1>0, <2>2
    <3> QED BY <1>1, <1>2, <1>3, <1>4, <2>2, <3>1
  <2>3. CASE ~(i <= Len(b) + Len(w))
    <3>1. i = Len(b) + Len(w) + 1 /\ i - Len(b) = Len(w) + 1 /\ ~(i <= Len(b))
      BY <1>0, <2>3
    <3> QED BY <1>1, <1>3, <1>4, <3>1
  <2> QED BY <2>1, <2>2, <2>3
<1>6. b \o x = Append(s, p)
  BY <1>3, <1>4, <1>5, SameSeq
<1> QED BY <1>6 DEF x, s

(***************************************************************************)
(* Dropping elements of the first of two queues drops them from both       *)
(* together.                                                               *)
(***************************************************************************)
LEMMA ConcatSuffix ==
  ASSUME NEW S, NEW g \in Seq(S), NEW v \in Seq(S), NEW m \in 0..Len(g)
  PROVE  /\ m \in 0..Len(g \o v)
         /\ SubSeq(g, m + 1, Len(g)) \o v = SubSeq(g \o v, m + 1, Len(g \o v))
<1> DEFINE s == g \o v
           u == SubSeq(g, m + 1, Len(g))
           t == SubSeq(s, m + 1, Len(s))
<1>0. m \in Nat /\ m <= Len(g) /\ Len(g) \in Nat /\ Len(v) \in Nat
  OBVIOUS
<1>1. /\ s \in Seq(S) /\ Len(s) = Len(g) + Len(v)
      /\ \A i \in 1..Len(g) + Len(v) : s[i] = IF i <= Len(g) THEN g[i] ELSE v[i - Len(g)]
  BY <1>0
<1>2. /\ u \in Seq(S) /\ Len(u) = Len(g) - m
      /\ \A i \in 1..Len(g) - m : u[i] = g[m + i]
  BY SeqFacts
<1> HIDE DEF s, u
<1>3. m \in 0..Len(s)
  BY <1>0, <1>1
<1>4. /\ t \in Seq(S) /\ Len(t) = Len(s) - m
      /\ \A i \in 1..Len(s) - m : t[i] = s[m + i]
  BY <1>1, <1>3, SeqFacts
<1> HIDE DEF t
<1>5. /\ u \o v \in Seq(S) /\ Len(u \o v) = (Len(g) - m) + Len(v)
      /\ \A i \in 1..(Len(g) - m) + Len(v) :
           (u \o v)[i] = IF i <= Len(g) - m THEN u[i] ELSE v[i - (Len(g) - m)]
  <2>1. /\ u \o v \in Seq(S) /\ Len(u \o v) = Len(u) + Len(v)
        /\ \A i \in 1..Len(u) + Len(v) :
             (u \o v)[i] = IF i <= Len(u) THEN u[i] ELSE v[i - Len(u)]
    BY <1>2, ConcatFacts, Zenon
  <2> QED BY <1>2, <2>1, Zenon
<1>6. Len(u \o v) = Len(t) /\ Len(s) - m = (Len(g) - m) + Len(v)
  BY <1>0, <1>1, <1>4, <1>5
<1>7. ASSUME NEW i \in 1..(Len(g) - m) + Len(v) PROVE (u \o v)[i] = t[i]
  <2>0. t[i] = s[m + i] /\ m + i \in 1..Len(g) + Len(v)
    <3>1. i \in 1..Len(s) - m
      BY <1>6, Zenon
    <3>2. t[i] = s[m + i]
      BY <1>4, <3>1, Zenon
    <3>3. m + i \in 1..Len(g) + Len(v)
      BY <1>0
    <3> QED BY <3>2, <3>3
  <2>1. CASE i <= Len(g) - m
    <3>1. m + i <= Len(g) /\ i \in 1..Len(g) - m
      BY <1>0, <2>1
    <3> QED BY <1>1, <1>2, <1>5, <2>0, <2>1, <3>1
  <2>2. CASE ~(i <= Len(g) - m)
    <3>1. ~(m + i <= Len(g)) /\ i - (Len(g) - m) = (m + i) - Len(g)
      BY <1>0, <2>2
    <3>2. (u \o v)[i] = v[i - (Len(g) - m)]
      BY <1>5, <2>2
    <3>3. s[m + i] = v[(m + i) - Len(g)]
      BY <1>1, <2>0, <3>1
    <3> QED BY <2>0, <3>1, <3>2, <3>3
  <2> QED BY <2>1, <2>2
<1>8. u \o v = t
  BY <1>4, <1>5, <1>6, <1>7, SameSeq
<1> QED BY <1>3, <1>8 DEF u, t, s

(***************************************************************************)
(* All of a sequence, cut out of it.                                       *)
(***************************************************************************)
LEMMA WholeSeq ==
  ASSUME NEW S, NEW s \in Seq(S)
  PROVE  SubSeq(s, 1, Len(s)) = s
<1> DEFINE u == SubSeq(s, 1, Len(s))
<1>1. u \in Seq(S) /\ Len(u) = Len(s) /\ \A i \in 1..Len(s) : u[i] = s[i]
  OBVIOUS
<1> HIDE DEF u
<1>2. u = s
  BY <1>1, SameSeq
<1> QED BY <1>2 DEF u

-------------------------------------------------------------------------------
(* How often r occurs in s. *)
Occurrences(s, r) == Cardinality({i \in DOMAIN s : s[i] = r})

(***************************************************************************)
(* A record occurs a number of times, and no time where it is not.         *)
(***************************************************************************)
LEMMA OccurrencesNat ==
  ASSUME NEW S, NEW s \in Seq(S), NEW r
  PROVE  /\ IsFiniteSet({i \in DOMAIN s : s[i] = r})
         /\ Occurrences(s, r) \in Nat
         /\ r \notin ToSet(s) => Occurrences(s, r) = 0
         /\ r \in ToSet(s) => Occurrences(s, r) > 0
<1> DEFINE At == {i \in DOMAIN s : s[i] = r}
<1>1. IsFiniteSet(1..Len(s)) /\ DOMAIN s = 1..Len(s)
  <2>1. Len(s) \in Int /\ DOMAIN s = 1..Len(s)
    OBVIOUS
  <2> QED BY <2>1, FS_Interval
<1>2. IsFiniteSet(At)
  BY <1>1, FS_Subset
<1>3. Cardinality(At) \in Nat
  BY <1>2, FS_CardinalityType
<1>4. r \notin ToSet(s) => At = {}
  BY DEF ToSet
<1>5. r \in ToSet(s) => At # {}
  BY DEF ToSet
<1>6. Cardinality(At) = 0 <=> At = {}
  BY <1>2, FS_EmptySet
<1> QED BY <1>2, <1>3, <1>4, <1>5, <1>6 DEF Occurrences

(***************************************************************************)
(* Nothing occurs in an empty file, queue or table.                        *)
(***************************************************************************)
LEMMA OccurrencesEmpty ==
  ASSUME NEW r
  PROVE  Occurrences(<<>>, r) = 0
<1>1. {i \in DOMAIN <<>> : <<>>[i] = r} = {}
  OBVIOUS
<1> QED BY <1>1, FS_EmptySet DEF Occurrences

(***************************************************************************)
(* Appending a record adds one occurrence of it and of no other.           *)
(***************************************************************************)
LEMMA OccurrencesAppend ==
  ASSUME NEW S, NEW s \in Seq(S), NEW e \in S, NEW r
  PROVE  Occurrences(Append(s, e), r) =
           IF e = r THEN Occurrences(s, r) + 1 ELSE Occurrences(s, r)
<1> DEFINE n == Len(s) + 1
           Old == {i \in DOMAIN s : s[i] = r}
           New == {i \in DOMAIN Append(s, e) : Append(s, e)[i] = r}
<1>1. /\ DOMAIN s = 1..Len(s) /\ DOMAIN Append(s, e) = 1..n /\ Len(s) \in Nat
      /\ \A i \in 1..Len(s) : Append(s, e)[i] = s[i]
      /\ Append(s, e)[n] = e
  OBVIOUS
<1>2. n \notin 1..Len(s) /\ 1..n = 1..Len(s) \cup {n}
  BY <1>1
<1>3. IsFiniteSet(Old) /\ n \notin Old
  BY <1>1, <1>2, OccurrencesNat
<1> HIDE DEF n
<1>4. CASE e = r
  <2>1. New = Old \cup {n}
    BY <1>1, <1>2, <1>4
  <2>2. Cardinality(New) = Cardinality(Old) + 1
    BY <1>3, <2>1, FS_AddElement
  <2> QED BY <1>4, <2>2 DEF Occurrences
<1>5. CASE e # r
  <2>1. New = Old
    BY <1>1, <1>2, <1>5
  <2> QED BY <1>5, <2>1 DEF Occurrences
<1> QED BY <1>4, <1>5

(***************************************************************************)
(* Dropping the first record takes one occurrence of it and of no other.   *)
(***************************************************************************)
LEMMA OccurrencesTail ==
  ASSUME NEW S, NEW s \in Seq(S), s # <<>>, NEW r
  PROVE  Occurrences(Tail(s), r) =
           IF Head(s) = r THEN Occurrences(s, r) - 1 ELSE Occurrences(s, r)
<1> DEFINE All == {i \in DOMAIN s : s[i] = r}
           Rest == {i \in DOMAIN Tail(s) : Tail(s)[i] = r}
           Later == All \ {1}
           f == [i \in Rest |-> i + 1]
<1>1. /\ Len(s) \in Nat \ {0} /\ Head(s) = s[1] /\ Tail(s) \in Seq(S)
      /\ DOMAIN s = 1..Len(s) /\ DOMAIN Tail(s) = 1..Len(s) - 1
      /\ \A i \in 1..Len(s) - 1 : Tail(s)[i] = s[i + 1]
  <2>1. Len(s) \in Nat \ {0} /\ Head(s) = s[1] /\ Tail(s) \in Seq(S)
    OBVIOUS
  <2>2. DOMAIN s = 1..Len(s) /\ DOMAIN Tail(s) = 1..Len(s) - 1
    OBVIOUS
  <2>3. \A i \in 1..Len(s) - 1 : Tail(s)[i] = s[i + 1]
    OBVIOUS
  <2> QED BY <2>1, <2>2, <2>3, Zenon
<1>2. IsFiniteSet(All) /\ IsFiniteSet(Rest)
  <2>1. IsFiniteSet(All)
    BY OccurrencesNat, Zenon
  <2>2. IsFiniteSet(Rest)
    BY <1>1, OccurrencesNat, Zenon
  <2> QED BY <2>1, <2>2
<1>3. f \in Bijection(Rest, Later)
  <2>1. \A i \in Rest : i + 1 \in Later
    BY <1>1
  <2>2. f \in [Rest -> Later]
    BY <2>1
  <2>3. \A a, b \in Rest : f[a] = f[b] => a = b
    BY <1>1
  <2>4. \A j \in Later : j - 1 \in Rest /\ f[j - 1] = j
    BY <1>1
  <2>5. f \in Injection(Rest, Later)
    BY <2>2, <2>3 DEF Injection, IsInjective
  <2>6. f \in Surjection(Rest, Later)
    BY <2>2, <2>4 DEF Surjection
  <2> QED BY <2>5, <2>6 DEF Bijection
<1>4. Cardinality(Later) = Cardinality(Rest)
  <2>1. ExistsBijection(Rest, Later)
    BY <1>3 DEF ExistsBijection
  <2> QED BY <1>2, <2>1, FS_Bijection
<1>5. Cardinality(Later) = IF 1 \in All THEN Cardinality(All) - 1 ELSE Cardinality(All)
  BY <1>2, FS_RemoveElement
<1>6. 1 \in All <=> Head(s) = r
  BY <1>1
<1> QED BY <1>4, <1>5, <1>6 DEF Occurrences
===============================================================================
