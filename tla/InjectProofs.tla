----------------------------- MODULE InjectProofs -----------------------------
(***************************************************************************)
(* Proofs about Inject for every number of processes, labels and execs,    *)
(* every size of the buffers and every edit of the environment a program   *)
(* makes that does not write the library's own entries.                    *)
(***************************************************************************)
EXTENDS Inject, SeqLemmas

(* At most one attribute of s is a label, *)
OneLabel(s) ==
  \A i, j \in DOMAIN s :
    s[i].key = "procwatch.label" /\ s[j].key = "procwatch.label" => i = j

(* each such attribute names l, *)
LabelIs(s, l) == \A i \in DOMAIN s : s[i].key = "procwatch.label" => s[i] = LabelAttr(l)

(* and there is one. *)
NamesLabel(s, l) ==
  \E i \in DOMAIN s :
    s[i] = LabelAttr(l) /\ \A j \in DOMAIN s : s[j].key = "procwatch.label" => i = j

(* The key k is there and holds v only. *)
PidIs(s, k, v) == HasKey(s, k) /\ \A j \in DOMAIN s : s[j].key = k => s[j].val = v

(* s and t have the same attributes under keys other than k. *)
SameBut(s, t, k) ==
  /\ \A j \in DOMAIN t : t[j].key # k => j \in DOMAIN s /\ t[j] = s[j]
  /\ \A j \in DOMAIN s : s[j].key # k => j \in DOMAIN t /\ t[j] = s[j]

(* The labels of t are labels of s, the agents of t agents of s. *)
FewerLabels(s, t) ==
  \A j \in DOMAIN t : t[j].key = "procwatch.label" => j \in DOMAIN s /\ t[j] = s[j]
FewerAgents(s, t) == \A j \in DOMAIN t : t[j] = "agent" => j \in DOMAIN s /\ s[j] = "agent"

(* The list l has the agent at most once. *)
OneAgent(l) == \A i, j \in DOMAIN l : l[i] = "agent" /\ l[j] = "agent" => i = j

Entries == {"app", "agent"}
Agents(e) == \A k \in AgentKeys : OneAgent(List(e, k))

Label(e) == Value(e, "PROCWATCH_LABEL")
SameNeeded(e, f) == \A k \in Needed : Value(f, k) = Value(e, k)

-------------------------------------------------------------------------------
(***************************************************************************)
(* set_resource_attr wants a list in which the key holds the value and     *)
(* nothing else is changed.                                                *)
(***************************************************************************)
LEMMA WithAttrFacts ==
  ASSUME NEW s \in Seq(Attr), NEW k \in IdKeys, NEW v \in Procs
  PROVE  /\ WithAttr(s, k, v) \in Seq(Attr)
         /\ SameBut(s, WithAttr(s, k, v), k)
         /\ PidIs(WithAttr(s, k, v), k, v)
<1> DEFINE a == [key |-> k, val |-> v]
           n == Len(s)
           t == WithAttr(s, k, v)
<1>1. n \in Nat /\ DOMAIN s = 1..n /\ \A j \in 1..n : s[j] \in Attr
  OBVIOUS
<1>2. a \in Attr /\ a.key = k /\ a.val = v
  BY DEF Attr
<1>3. CASE HasKey(s, k)
  <2> DEFINE r == [j \in DOMAIN s |-> IF s[j].key = k THEN a ELSE s[j]]
  <2>1. t = r
    BY <1>3 DEF WithAttr
  <2>2. r \in [1..n -> Attr]
    BY <1>1, <1>2
  <2>3. r \in Seq(Attr) /\ DOMAIN r = 1..n
    <3> HIDE DEF r, a
    <3> QED BY <1>1, <2>2
  <2>4. \A j \in 1..n : r[j] = IF s[j].key = k THEN a ELSE s[j]
    BY <1>1
  <2> HIDE DEF r, a
  <2>5. SameBut(s, r, k)
    BY <1>1, <1>2, <2>3, <2>4 DEF SameBut
  <2>6. PidIs(r, k, v)
    BY <1>1, <1>2, <1>3, <2>3, <2>4 DEF PidIs, HasKey
  <2> QED BY <2>1, <2>3, <2>5, <2>6
<1>4. CASE ~HasKey(s, k)
  <2> DEFINE r == Append(s, a)
  <2>1. t = r
    BY <1>4 DEF WithAttr
  <2>2. /\ r \in Seq(Attr) /\ DOMAIN r = 1..n + 1 /\ r[n + 1] = a
        /\ \A j \in 1..n : r[j] = s[j]
    <3> HIDE DEF a
    <3> QED BY <1>2, AppendFacts
  <2> HIDE DEF r, a
  <2>3. \A j \in 1..n + 1 : j \in 1..n \/ j = n + 1
    BY <1>1
  <2>4. n + 1 \in 1..n + 1 /\ \A j \in 1..n : j \in 1..n + 1
    BY <1>1
  <2> HIDE DEF n
  <2>5. \A j \in 1..n : s[j].key # k
    BY <1>1, <1>4 DEF HasKey
  <2>6. SameBut(s, r, k)
    BY <1>1, <1>2, <2>2, <2>3, <2>4 DEF SameBut
  <2>7. PidIs(r, k, v)
    BY <1>2, <2>2, <2>3, <2>4, <2>5 DEF PidIs, HasKey
  <2> QED BY <2>1, <2>2, <2>6, <2>7
<1> QED BY <1>3, <1>4

(***************************************************************************)
(* pw_attach_label_to_otel wants a list that names the label, where none   *)
(* is named yet.                                                           *)
(***************************************************************************)
LEMMA WithLabelFacts ==
  ASSUME NEW s \in Seq(Attr), NEW l \in Labels
  PROVE  /\ WithLabel(s, l) \in Seq(Attr)
         /\ OneLabel(s) => OneLabel(WithLabel(s, l))
         /\ LabelIs(s, l) => LabelIs(WithLabel(s, l), l)
         /\ OneLabel(s) /\ LabelIs(s, l) /\ ~HasKey(WithLabel(s, l), "xprocwatch.label")
              => NamesLabel(WithLabel(s, l), l)
<1> DEFINE a == LabelAttr(l)
           n == Len(s)
           t == WithLabel(s, l)
<1>1. n \in Nat /\ DOMAIN s = 1..n
  OBVIOUS
<1>2. a \in Attr /\ a.key = "procwatch.label"
  BY DEF Attr, LabelAttr
<1>3. CASE HasKey(s, "procwatch.label") \/ HasKey(s, "xprocwatch.label")
  <2>1. t = s
    BY <1>3 DEF WithLabel
  <2>2. OneLabel(s) /\ LabelIs(s, l) /\ HasKey(s, "procwatch.label") => NamesLabel(s, l)
    BY DEF OneLabel, LabelIs, HasKey, NamesLabel
  <2> QED BY <1>3, <2>1, <2>2
<1>4. CASE ~(HasKey(s, "procwatch.label") \/ HasKey(s, "xprocwatch.label"))
  <2> DEFINE r == Append(s, a)
  <2>1. t = r
    BY <1>4 DEF WithLabel
  <2>2. /\ r \in Seq(Attr) /\ DOMAIN r = 1..n + 1 /\ r[n + 1] = a
        /\ \A j \in 1..n : r[j] = s[j]
    <3> HIDE DEF a
    <3> QED BY <1>2, AppendFacts
  <2> HIDE DEF r, a
  <2>3. \A j \in 1..n + 1 : j \in 1..n \/ j = n + 1
    BY <1>1
  <2>4. n + 1 \in 1..n + 1
    BY <1>1
  <2> HIDE DEF n
  <2>5. \A j \in 1..n : s[j].key # "procwatch.label"
    BY <1>1, <1>4 DEF HasKey
  <2>6. \A j \in DOMAIN r : r[j].key = "procwatch.label" => j = n + 1
    BY <2>2, <2>3, <2>5
  <2>7. OneLabel(r)
    BY <2>6 DEF OneLabel
  <2>8. LabelIs(r, l)
    BY <2>2, <2>6 DEF LabelIs, a
  <2>9. NamesLabel(r, l)
    BY <2>2, <2>4, <2>6 DEF NamesLabel, a
  <2> QED BY <2>1, <2>2, <2>7, <2>8, <2>9
<1> QED BY <1>3, <1>4

(***************************************************************************)
(* What a change under one key leaves alone.                               *)
(***************************************************************************)
LEMMA SameButFacts ==
  ASSUME NEW s, NEW t, NEW k \in IdKeys, SameBut(s, t, k), NEW l, NEW v
  PROVE  /\ OneLabel(s) => OneLabel(t)
         /\ LabelIs(s, l) => LabelIs(t, l)
         /\ NamesLabel(s, l) => NamesLabel(t, l)
         /\ HasKey(s, "xprocwatch.label") => HasKey(t, "xprocwatch.label")
         /\ \A x \in IdKeys : x # k /\ PidIs(s, x, v) => PidIs(t, x, v)
<1>1. k # "procwatch.label" /\ k # "xprocwatch.label"
  BY DEF IdKeys
<1>2. OneLabel(s) => OneLabel(t)
  BY <1>1 DEF OneLabel, SameBut
<1>3. LabelIs(s, l) => LabelIs(t, l)
  BY <1>1 DEF LabelIs, SameBut
<1>4. NamesLabel(s, l) => NamesLabel(t, l)
  <2> SUFFICES ASSUME NamesLabel(s, l) PROVE NamesLabel(t, l)
    OBVIOUS
  <2>1. PICK i \in DOMAIN s :
          s[i] = LabelAttr(l) /\ \A j \in DOMAIN s : s[j].key = "procwatch.label" => i = j
    BY DEF NamesLabel
  <2>2. s[i].key = "procwatch.label"
    BY <2>1 DEF LabelAttr
  <2>3. i \in DOMAIN t /\ t[i] = s[i]
    BY <1>1, <2>2 DEF SameBut
  <2>4. \A j \in DOMAIN t : t[j].key = "procwatch.label" => i = j
    BY <1>1, <2>1 DEF SameBut
  <2> QED BY <2>1, <2>3, <2>4 DEF NamesLabel
<1>5. HasKey(s, "xprocwatch.label") => HasKey(t, "xprocwatch.label")
  BY <1>1 DEF HasKey, SameBut
<1>6. ASSUME NEW x \in IdKeys, x # k, PidIs(s, x, v) PROVE PidIs(t, x, v)
  BY <1>6 DEF PidIs, HasKey, SameBut
<1> QED BY <1>2, <1>3, <1>4, <1>5, <1>6

(***************************************************************************)
(* pw_apply_common: labels stay as they should be, and if all three lists  *)
(* fit, both keys hold the pid and the label is named.                     *)
(***************************************************************************)
LEMMA ApplyCommonFacts ==
  ASSUME NEW s \in Seq(Attr), NEW l \in Labels, NEW p \in Procs, NEW t, t = ApplyCommon(s, l, p)
  PROVE  /\ t \in Seq(Attr)
         /\ OneLabel(s) => OneLabel(t)
         /\ LabelIs(s, l) => LabelIs(t, l)
         /\ Roomy(s, l, p) => \A k \in IdKeys : PidIs(t, k, p)
         /\ Roomy(s, l, p) /\ OneLabel(s) /\ LabelIs(s, l) /\ ~HasKey(t, "xprocwatch.label")
              => NamesLabel(t, l)
<1> DEFINE k1 == "procwatch.pid_key"
           k2 == "service.instance.id"
           s1 == AttachLabel(s, l)
           s2 == SetResourceAttr(s1, k1, p)
           w1 == WithLabel(s, l)
           w2 == WithAttr(w1, k1, p)
           w3 == WithAttr(w2, k2, p)
<1>k. k1 \in IdKeys /\ k2 \in IdKeys /\ \A k \in IdKeys : k = k1 \/ k = k2
  BY DEF IdKeys
<1>1. s1 \in {s, w1} /\ s2 \in {s1, WithAttr(s1, k1, p)} /\ t \in {s2, WithAttr(s2, k2, p)}
  BY DEF AttachLabel, SetResourceAttr, ApplyCommon, Write
<1>2. /\ w1 \in Seq(Attr)
      /\ OneLabel(s) => OneLabel(w1)
      /\ LabelIs(s, l) => LabelIs(w1, l)
      /\ OneLabel(s) /\ LabelIs(s, l) /\ ~HasKey(w1, "xprocwatch.label") => NamesLabel(w1, l)
  BY WithLabelFacts
<1>3. ASSUME NEW x \in Seq(Attr), NEW k \in IdKeys
      PROVE  /\ WithAttr(x, k, p) \in Seq(Attr)
             /\ OneLabel(x) => OneLabel(WithAttr(x, k, p))
             /\ LabelIs(x, l) => LabelIs(WithAttr(x, k, p), l)
  <2> DEFINE y == WithAttr(x, k, p)
  <2>1. y \in Seq(Attr) /\ SameBut(x, y, k)
    BY WithAttrFacts
  <2> HIDE DEF y
  <2>2. (OneLabel(x) => OneLabel(y)) /\ (LabelIs(x, l) => LabelIs(y, l))
    BY <2>1, SameButFacts, Zenon
  <2> QED BY <2>1, <2>2 DEF y
<1>4. Roomy(s, l, p) => t = w3
  <2> SUFFICES ASSUME Roomy(s, l, p) PROVE t = w3
    OBVIOUS
  <2>1. Size(w1) <= Room /\ Size(w2) <= Room /\ Size(w3) <= Room
    BY DEF Roomy
  <2>2. \A x, new : Size(new) <= Room => Write(x, new) = new
    BY DEF Write
  <2>3. s1 = w1
    BY <2>1, <2>2, Zenon DEF AttachLabel
  <2>4. s2 = w2
    BY <2>1, <2>2, <2>3, Zenon DEF SetResourceAttr
  <2>5. t = SetResourceAttr(s2, k2, p)
    BY DEF ApplyCommon
  <2> QED BY <2>1, <2>2, <2>4, <2>5, Zenon DEF SetResourceAttr
<1>5. t \in Seq(Attr) /\ (OneLabel(s) => OneLabel(t)) /\ (LabelIs(s, l) => LabelIs(t, l))
  <2>1. s1 \in Seq(Attr) /\ (OneLabel(s) => OneLabel(s1)) /\ (LabelIs(s, l) => LabelIs(s1, l))
    <3> HIDE DEF s1, w1
    <3> QED BY <1>1, <1>2
  <2>2. s2 \in Seq(Attr) /\ (OneLabel(s) => OneLabel(s2)) /\ (LabelIs(s, l) => LabelIs(s2, l))
    <3> HIDE DEF s1, s2
    <3> QED BY <1>1, <1>3, <1>k, <2>1
  <2> HIDE DEF s1, s2
  <2> QED BY <1>1, <1>3, <1>k, <2>2
<1> HIDE DEF s1, s2, w1
<1>6. w2 \in Seq(Attr) /\ SameBut(w1, w2, k1) /\ PidIs(w2, k1, p)
  BY <1>2, <1>k, WithAttrFacts
<1> HIDE DEF w2
<1>7. SameBut(w2, w3, k2) /\ PidIs(w3, k2, p)
  BY <1>6, <1>k, WithAttrFacts
<1> HIDE DEF w3
<1>8. PidIs(w3, k1, p)
  BY <1>6, <1>7, <1>k, SameButFacts
<1>9. ASSUME OneLabel(s), LabelIs(s, l), ~HasKey(w3, "xprocwatch.label") PROVE NamesLabel(w3, l)
  <2>1. ~HasKey(w1, "xprocwatch.label")
    BY <1>6, <1>7, <1>9, <1>k, SameButFacts
  <2>2. NamesLabel(w1, l)
    BY <1>2, <1>9, <2>1
  <2>3. NamesLabel(w2, l)
    BY <1>6, <1>k, <2>2, SameButFacts
  <2> QED BY <1>7, <1>k, <2>3, SameButFacts
<1> HIDE DEF k1, k2
<1> QED BY <1>4, <1>5, <1>7, <1>8, <1>9, <1>k

-------------------------------------------------------------------------------
(***************************************************************************)
(* pw_env_append and pw_env_prepend add the agent to a list without it.    *)
(***************************************************************************)
LEMMA EnvAddFacts ==
  ASSUME NEW l \in Seq(Entries), NEW r, r = Append(l, "agent") \/ r = <<"agent">> \o l
  PROVE  /\ EnvAdd(l, r) \in Seq(Entries)
         /\ OneAgent(l) => OneAgent(EnvAdd(l, r))
<1> DEFINE n == Len(l)
<1>1. n \in Nat /\ DOMAIN l = 1..n
  OBVIOUS
<1>2. "agent" \in Entries /\ <<"agent">> \in Seq(Entries)
  BY DEF Entries
<1>3. CASE EnvAdd(l, r) = l
  BY <1>3
<1>4. CASE EnvAdd(l, r) # l
  <2>1. EnvAdd(l, r) = r
    BY <1>4 DEF EnvAdd
  <2>2. \A j \in 1..n : l[j] # "agent"
    BY <1>4 DEF EnvAdd, Contains
  <2>3. \E m : r \in Seq(Entries) /\ \A j \in DOMAIN r : r[j] = "agent" => j = m
    <3>1. CASE r = Append(l, "agent")
      <4>1. /\ r \in Seq(Entries)
            /\ \A j \in 1..n : r[j] = l[j]
            /\ \A j \in DOMAIN r : j \in 1..n \/ j = n + 1
        BY <1>2, <3>1, AppendFacts
      <4>2. \A j \in DOMAIN r : r[j] = "agent" => j = n + 1
        BY <2>2, <4>1
      <4> QED BY <4>1, <4>2
    <3>2. CASE r = <<"agent">> \o l
      <4>1. /\ r \in Seq(Entries) /\ Len(r) = 1 + n
            /\ \A i \in 1..1 + n : r[i] = IF i <= 1 THEN <<"agent">>[i] ELSE l[i - 1]
        BY <1>2, <3>2, ConcatFacts
      <4>2. DOMAIN r = 1..1 + n
        BY <4>1
      <4>3. \A j \in 1..1 + n : j <= 1 \/ j - 1 \in 1..n
        BY <1>1
      <4>4. \A j \in 1..1 + n : j <= 1 => j = 1
        BY <1>1
      <4>5. \A j \in DOMAIN r : r[j] = "agent" => j = 1
        BY <2>2, <4>1, <4>2, <4>3, <4>4
      <4> QED BY <4>1, <4>5
    <3> QED BY <3>1, <3>2
  <2> QED BY <2>1, <2>3 DEF OneAgent
<1> QED BY <1>3, <1>4

(***************************************************************************)
(* A change of a list leaves what the constructor looks for alone.         *)
(***************************************************************************)
LEMMA SetListFacts ==
  ASSUME NEW e, EnvOK(e), NEW k \in ListKeys, NEW v, NEW f, f = Set(e, k, v),
         k \in AgentKeys => v \in Seq(Entries),
         k \notin AgentKeys => v \in Seq(Attr)
  PROVE  /\ EnvOK(f) /\ SameNeeded(e, f)
         /\ List(f, k) = v
         /\ \A x \in ListKeys : x # k => List(f, x) = List(e, x)
<1>1. /\ DOMAIN f = DOMAIN e \cup {k}
      /\ Value(f, k) = v /\ List(f, k) = v
      /\ \A x : x # k => Value(f, x) = Value(e, x) /\ List(f, x) = List(e, x)
  <2>1. DOMAIN f = DOMAIN e \cup {k} /\ f[k] = v /\ \A x \in DOMAIN e : x # k => f[x] = e[x]
    BY DEF Set
  <2> QED BY <2>1, Zenon DEF Value, List
<1>2. k \in Keys /\ \A x \in Needed : x # k
  BY DEF Keys, Needed, ListKeys, AgentKeys
<1>3. SameNeeded(e, f)
  BY <1>1, <1>2, Zenon DEF SameNeeded
<1>4. DOMAIN f \subseteq Keys
  BY <1>1, <1>2 DEF EnvOK
<1>5. \A x \in ListKeys : x = "OTEL_RESOURCE_ATTRIBUTES" \/ x \in AgentKeys
  BY DEF ListKeys
<1>6. "OTEL_RESOURCE_ATTRIBUTES" \notin AgentKeys /\ AgentKeys \subseteq ListKeys
  BY DEF AgentKeys, ListKeys
<1>7. Attrs(f) \in Seq(Attr)
  BY <1>1, <1>5, <1>6, Zenon DEF EnvOK, Attrs
<1>8. ASSUME NEW x \in AgentKeys PROVE List(f, x) \in Seq(Entries)
  BY <1>1, <1>6, <1>8, Zenon DEF EnvOK, Entries
<1>9. EnvOK(f)
  BY <1>3, <1>4, <1>7, <1>8, Zenon DEF EnvOK, SameNeeded, Needed, Entries
<1> QED BY <1>1, <1>3, <1>9

(***************************************************************************)
(* pw_apply_java and pw_apply_python only touch their own list.            *)
(***************************************************************************)
LEMMA ApplyFacts ==
  ASSUME NEW e, EnvOK(e), NEW im, NEW f, f = Apply(e, im)
  PROVE  /\ EnvOK(f) /\ SameNeeded(e, f) /\ Attrs(f) = Attrs(e)
         /\ Agents(e) => Agents(f)
<1>1. /\ "OTEL_RESOURCE_ATTRIBUTES" \in ListKeys /\ AgentKeys \subseteq ListKeys
      /\ "OTEL_RESOURCE_ATTRIBUTES" \notin AgentKeys
  BY DEF AgentKeys, ListKeys
<1>k. PICK k \in AgentKeys :
        \E r : /\ f = Set(e, k, EnvAdd(List(e, k), r))
               /\ r = Append(List(e, k), "agent") \/ r = <<"agent">> \o List(e, k)
  BY DEF Apply, AgentKeys
<1>2. PICK r :
        /\ f = Set(e, k, EnvAdd(List(e, k), r))
        /\ r = Append(List(e, k), "agent") \/ r = <<"agent">> \o List(e, k)
  BY <1>k, Zenon
<1> DEFINE l == List(e, k)
           m == EnvAdd(l, r)
<1>3. l \in Seq(Entries)
  BY DEF EnvOK, Entries
<1>4. m \in Seq(Entries) /\ (OneAgent(l) => OneAgent(m))
  <2> HIDE DEF l
  <2> QED BY <1>2, <1>3, EnvAddFacts DEF l
<1>5. f = Set(e, k, m)
  BY <1>2
<1> HIDE DEF m
<1>6. /\ EnvOK(f) /\ SameNeeded(e, f)
      /\ List(f, k) = m
      /\ \A x \in ListKeys : x # k => List(f, x) = List(e, x)
  BY <1>1, <1>4, <1>5, SetListFacts
<1>7. Attrs(f) = Attrs(e)
  BY <1>1, <1>6, Zenon DEF Attrs
<1>8. Agents(e) => Agents(f)
  BY <1>1, <1>4, <1>6, Zenon DEF Agents
<1> QED BY <1>6, <1>7, <1>8

-------------------------------------------------------------------------------
(***************************************************************************)
(* What an edit does to one variable.                                      *)
(***************************************************************************)
LEMMA EditedValue ==
  ASSUME NEW e, NEW d, NEW f, f = Edited(e, d), NEW k
  PROVE  /\ DOMAIN f = (DOMAIN e \ d.drop) \cup DOMAIN d.set
         /\ k \in Needed => Value(f, k) \in {Value(e, k), Value(d.set, k), ""}
         /\ k \in Needed /\ k \notin DOMAIN d.set /\ k \in DOMAIN f =>
              k \in DOMAIN e /\ f[k] = e[k]
         /\ List(f, k) \in {List(e, k), List(e, k) \o List(d.set, k), List(d.set, k), <<>>}
<1> DEFINE left == DOMAIN e \ d.drop
           sets == DOMAIN d.set
<1>1. DOMAIN f = left \cup sets
  BY DEF Edited
<1>2. k \in left \cup sets =>
        f[k] = CASE k \notin sets -> e[k]
                 [] k \in left \cap sets \cap ListKeys -> e[k] \o d.set[k]
                 [] OTHER -> d.set[k]
  BY DEF Edited
<1> HIDE DEF sets
<1>3. k \in left /\ k \notin sets => f[k] = e[k]
  BY <1>2
<1>4. k \in left /\ k \in sets /\ k \in ListKeys => f[k] = e[k] \o d.set[k]
  BY <1>2
<1>5. k \in sets /\ (k \notin left \/ k \notin ListKeys) => f[k] = d.set[k]
  BY <1>2
<1>6. k \in Needed => k \notin ListKeys
  BY DEF Needed, ListKeys, AgentKeys
<1>7. k \in Needed => Value(f, k) \in {Value(e, k), Value(d.set, k), ""}
  BY <1>1, <1>3, <1>5, <1>6, Zenon DEF Value, sets
<1>8. k \in Needed /\ k \notin sets /\ k \in DOMAIN f => k \in DOMAIN e /\ f[k] = e[k]
  BY <1>1, <1>3, Zenon
<1>9. List(f, k) \in {List(e, k), List(e, k) \o List(d.set, k), List(d.set, k), <<>>}
  BY <1>1, <1>3, <1>4, <1>5, Zenon DEF List, sets
<1> QED BY <1>1, <1>7, <1>8, <1>9 DEF sets

(* A variable of the constructor's that the edit does not touch. *)
LEMMA LeftAlone ==
  ASSUME NEW e, NEW d, NEW k \in Needed, k \notin DOMAIN d.set, k \notin d.drop
  PROVE  Value(Edited(e, d), k) = Value(e, k)
<1> DEFINE f == Edited(e, d)
<1>1. k \in DOMAIN f <=> k \in DOMAIN e
  BY DEF Edited
<1>2. k \in DOMAIN f => f[k] = e[k]
  BY DEF Edited
<1> QED BY <1>1, <1>2, Zenon DEF Value

(***************************************************************************)
(* Behind the entries of a list a program puts none of the library's.      *)
(***************************************************************************)
LEMMA LongerList ==
  ASSUME NEW S, NEW s \in Seq(S), NEW a \in Seq(S), NEW P,
         \A j \in DOMAIN a : a[j] \notin P
  PROVE  /\ s \o a \in Seq(S)
         /\ \A j \in DOMAIN (s \o a) : (s \o a)[j] \in P => j \in DOMAIN s /\ (s \o a)[j] = s[j]
<1> DEFINE t == s \o a
<1>1. /\ t \in Seq(S) /\ Len(s) \in Nat /\ Len(a) \in Nat
      /\ Len(t) = Len(s) + Len(a)
      /\ \A i \in 1..Len(s) + Len(a) : t[i] = IF i <= Len(s) THEN s[i] ELSE a[i - Len(s)]
  BY ConcatFacts
<1> HIDE DEF t
<1>2. DOMAIN t = 1..Len(s) + Len(a) /\ DOMAIN s = 1..Len(s) /\ DOMAIN a = 1..Len(a)
  BY <1>1
<1>3. \A m, n \in Nat : \A i \in 1..m + n : (i <= m /\ i \in 1..m) \/ (~(i <= m) /\ i - m \in 1..n)
  OBVIOUS
<1>4. ASSUME NEW j \in DOMAIN t, t[j] \in P PROVE j \in DOMAIN s /\ t[j] = s[j]
  <2>1. (j <= Len(s) /\ j \in 1..Len(s)) \/ (~(j <= Len(s)) /\ j - Len(s) \in 1..Len(a))
    BY <1>1, <1>2, <1>3
  <2>2. t[j] = IF j <= Len(s) THEN s[j] ELSE a[j - Len(s)]
    BY <1>1, <1>2
  <2> QED BY <1>2, <1>4, <2>1, <2>2, Zenon
<1> QED BY <1>1, <1>4 DEF t

(***************************************************************************)
(* An edit keeps the environment well formed and adds neither a label nor  *)
(* an agent.                                                               *)
(***************************************************************************)
LEMMA EditedFacts ==
  ASSUME NEW e, EnvOK(e), NEW d \in Edits, NEW f, f = Edited(e, d)
  PROVE  /\ EnvOK(f)
         /\ FewerLabels(Attrs(e), Attrs(f))
         /\ \A k \in AgentKeys : FewerAgents(List(e, k), List(f, k))
<1> DEFINE ra == "OTEL_RESOURCE_ATTRIBUTES"
           IsLabel == {x \in Attr : x.key = "procwatch.label"}
<1>d. EditOK(d)
  BY InjectAssumption
<1>1. DOMAIN f \subseteq Keys
  <2>1. DOMAIN f = (DOMAIN e \ d.drop) \cup DOMAIN d.set
    BY EditedValue
  <2> QED BY <1>d, <2>1 DEF EnvOK, EditOK
<1>2. ASSUME NEW k \in Needed PROVE Value(f, k) \in {Value(e, k), Value(d.set, k), ""}
  BY EditedValue
<1>3. ASSUME NEW k
      PROVE  List(f, k) \in {List(e, k), List(e, k) \o List(d.set, k), List(d.set, k), <<>>}
  BY EditedValue
<1>4. /\ Value(f, "PROCWATCH_LABEL") \in LabelValues
      /\ Value(f, "PROCWATCH_INJECT_DISABLED") \in {"", "1"}
      /\ Value(f, "LD_PRELOAD") \in PreloadValues
  <2>1. "PROCWATCH_LABEL" \in Needed /\ "PROCWATCH_INJECT_DISABLED" \in Needed /\ "LD_PRELOAD" \in Needed
    BY DEF Needed
  <2>2. "" \in LabelValues /\ "" \in PreloadValues
    BY DEF LabelValues, PreloadValues
  <2> QED BY <1>2, <1>d, <2>1, <2>2, Zenon DEF EnvOK, EditOK
<1>5. Attrs(f) \in Seq(Attr) /\ FewerLabels(Attrs(e), Attrs(f))
  <2> DEFINE s == Attrs(e)
             a == Attrs(d.set)
  <2>1. s \in Seq(Attr) /\ a \in Seq(AppAttr)
    BY <1>d DEF EnvOK, EditOK
  <2>2. a \in Seq(Attr) /\ \A j \in DOMAIN a : a[j].key # "procwatch.label"
    <3> HIDE DEF a
    <3>1. AppAttr \subseteq Attr /\ \A x \in AppAttr : x.key # "procwatch.label"
      BY DEF AppAttr, Attr
    <3>2. \A j \in DOMAIN a : a[j] \in AppAttr
      BY <2>1
    <3> QED BY <2>1, <3>1, <3>2
  <2>3. Attrs(f) \in {s, s \o a, a, <<>>}
    BY <1>3 DEF Attrs
  <2> HIDE DEF s, a
  <2>4. /\ s \o a \in Seq(Attr)
        /\ \A j \in DOMAIN (s \o a) :
             (s \o a)[j] \in IsLabel => j \in DOMAIN s /\ (s \o a)[j] = s[j]
    <3>1. \A j \in DOMAIN a : a[j] \notin IsLabel
      BY <2>2
    <3> HIDE DEF IsLabel
    <3> QED BY <2>1, <2>2, <3>1, LongerList
  <2>5. FewerLabels(s, s \o a)
    <3>1. \A j \in DOMAIN (s \o a) : (s \o a)[j] \in Attr
      BY <2>4
    <3> QED BY <2>4, <3>1 DEF FewerLabels
  <2>6. FewerLabels(s, s) /\ FewerLabels(s, a) /\ FewerLabels(s, <<>>) /\ <<>> \in Seq(Attr)
    BY <2>2 DEF FewerLabels
  <2>7. FewerLabels(s, Attrs(f)) /\ Attrs(f) \in Seq(Attr)
    BY <2>1, <2>2, <2>3, <2>4, <2>5, <2>6, Zenon
  <2> QED BY <2>7 DEF s
<1>6. ASSUME NEW k \in AgentKeys
      PROVE  List(f, k) \in Seq(Entries) /\ FewerAgents(List(e, k), List(f, k))
  <2> DEFINE s == List(e, k)
             a == List(d.set, k)
  <2>1. s \in Seq(Entries) /\ a \in Seq({"app"})
    BY <1>d DEF EnvOK, EditOK, Entries
  <2> HIDE DEF s, a
  <2>2. a \in Seq(Entries) /\ \A j \in DOMAIN a : a[j] \notin {"agent"}
    <3>1. \A j \in DOMAIN a : a[j] = "app"
      BY <2>1
    <3>2. {"app"} \subseteq Entries
      BY DEF Entries
    <3>3. a \in Seq(Entries)
      BY <2>1, <3>2
    <3> QED BY <3>1, <3>3
  <2>3. List(f, k) \in {s, s \o a, a, <<>>}
    BY <1>3 DEF s, a
  <2>4. /\ s \o a \in Seq(Entries)
        /\ \A j \in DOMAIN (s \o a) :
             (s \o a)[j] \in {"agent"} => j \in DOMAIN s /\ (s \o a)[j] = s[j]
    BY <2>1, <2>2, LongerList
  <2>5. FewerAgents(s, s \o a)
    BY <2>4, Zenon DEF FewerAgents
  <2>6. FewerAgents(s, s) /\ FewerAgents(s, a) /\ FewerAgents(s, <<>>) /\ <<>> \in Seq(Entries)
    BY <2>2 DEF FewerAgents
  <2>7. FewerAgents(s, List(f, k)) /\ List(f, k) \in Seq(Entries)
    BY <2>1, <2>2, <2>3, <2>4, <2>5, <2>6, Zenon
  <2> QED BY <2>7 DEF s
<1> QED BY <1>1, <1>4, <1>5, <1>6, Zenon DEF EnvOK, Entries

(* Each variable of g is the one of f or the one of e, and one that f does *)
(* not have is put back unless it is empty.                                *)
Merged(f, e, g) ==
  /\ EnvOK(g)
  /\ \A k \in ListKeys : List(g, k) = List(f, k) \/ List(g, k) = List(e, k)
  /\ \A k \in Needed : Value(g, k) = Value(f, k) \/ Value(g, k) = Value(e, k)
  /\ \A k \in DOMAIN f : Value(g, k) = Value(f, k)
  /\ \A k \in Needed \cap KeepKeys :
       k \notin DOMAIN f /\ Value(e, k) # "" => Value(g, k) = Value(e, k)

(***************************************************************************)
(* merge_env, with envp f and environ e.                                   *)
(***************************************************************************)
LEMMA MergeFacts ==
  ASSUME NEW e, EnvOK(e), NEW f, EnvOK(f), NEW g, g = Merge(f, e)
  PROVE  Merged(f, e, g)
<1> DEFINE full == {k \in DOMAIN e : IF k \in ListKeys THEN e[k] # <<>> ELSE e[k] # ""}
<1>1. DOMAIN g = DOMAIN f \cup (KeepKeys \cap full)
  BY DEF Merge
<1>2. \A k \in DOMAIN f : g[k] = f[k]
  BY DEF Merge
<1>3. \A k \in KeepKeys \cap full : k \notin DOMAIN f => g[k] = e[k]
  BY DEF Merge
<1>4. ASSUME NEW k \in Needed \cap KeepKeys, k \notin DOMAIN f, Value(e, k) # ""
      PROVE  Value(g, k) = Value(e, k)
  <2>1. k \notin ListKeys
    BY DEF Needed, ListKeys, AgentKeys
  <2>2. k \in DOMAIN e /\ e[k] # ""
    BY <1>4, Zenon DEF Value
  <2>3. k \in KeepKeys \cap full
    BY <2>1, <2>2
  <2> HIDE DEF full
  <2> QED BY <1>1, <1>3, <1>4, <2>2, <2>3, Zenon DEF Value
<1>5. full \subseteq DOMAIN e
  OBVIOUS
<1> HIDE DEF full
<1>6. ASSUME NEW k PROVE List(g, k) = List(f, k) \/ List(g, k) = List(e, k)
  BY <1>1, <1>2, <1>3, <1>5, Zenon DEF List
<1>7. ASSUME NEW k PROVE Value(g, k) = Value(f, k) \/ Value(g, k) = Value(e, k)
  BY <1>1, <1>2, <1>3, <1>5, Zenon DEF Value
<1>8. \A k \in DOMAIN f : Value(g, k) = Value(f, k)
  BY <1>1, <1>2, Zenon DEF Value
<1>9. DOMAIN g \subseteq Keys
  BY <1>1, <1>5 DEF EnvOK
<1>10. EnvOK(g)
  BY <1>6, <1>7, <1>9, Zenon DEF EnvOK, Attrs
<1> QED BY <1>4, <1>6, <1>7, <1>8, <1>10, Zenon DEF Merged

(***************************************************************************)
(* What an exec passes on, merged or not.                                  *)
(***************************************************************************)
LEMMA PassedFacts ==
  ASSUME NEW e, EnvOK(e), NEW d \in Edits, NEW g,
         g = Edited(e, d) \/ g = Merge(Edited(e, d), e)
  PROVE  /\ EnvOK(g)
         /\ FewerLabels(Attrs(e), Attrs(g))
         /\ \A k \in AgentKeys : FewerAgents(List(e, k), List(g, k))
<1> DEFINE f == Edited(e, d)
<1>1. /\ EnvOK(f)
      /\ FewerLabels(Attrs(e), Attrs(f))
      /\ \A k \in AgentKeys : FewerAgents(List(e, k), List(f, k))
  BY EditedFacts
<1> HIDE DEF f
<1>2. CASE g = f
  BY <1>1, <1>2
<1>3. CASE g = Merge(f, e)
  <2>1. EnvOK(g) /\ \A k \in ListKeys : List(g, k) = List(f, k) \/ List(g, k) = List(e, k)
    <3>1. Merged(f, e, g)
      BY <1>1, <1>3, MergeFacts
    <3> QED BY <3>1, Zenon DEF Merged
  <2>2. FewerLabels(Attrs(e), Attrs(e)) /\ \A k \in AgentKeys : FewerAgents(List(e, k), List(e, k))
    BY DEF FewerLabels, FewerAgents
  <2>3. "OTEL_RESOURCE_ATTRIBUTES" \in ListKeys /\ AgentKeys \subseteq ListKeys
    BY DEF ListKeys
  <2>4. Attrs(g) = Attrs(f) \/ Attrs(g) = Attrs(e)
    BY <2>1, <2>3, Zenon DEF Attrs
  <2>5. FewerLabels(Attrs(e), Attrs(g))
    BY <1>1, <2>2, <2>4, Zenon
  <2>6. ASSUME NEW k \in AgentKeys PROVE FewerAgents(List(e, k), List(g, k))
    <3>1. List(g, k) = List(f, k) \/ List(g, k) = List(e, k)
      BY <2>1, <2>3
    <3> QED BY <1>1, <2>2, <3>1, Zenon
  <2> QED BY <2>1, <2>5, <2>6
<1> QED BY <1>2, <1>3 DEF f

(* Labels and agents do not become more than one, or another. *)
LEMMA FewerFacts ==
  ASSUME NEW s, NEW t
  PROVE  /\ FewerLabels(s, t) /\ OneLabel(s) => OneLabel(t)
         /\ \A l : FewerLabels(s, t) /\ LabelIs(s, l) => LabelIs(t, l)
         /\ FewerAgents(s, t) /\ OneAgent(s) => OneAgent(t)
BY Zenon DEF FewerLabels, OneLabel, LabelIs, FewerAgents, OneAgent

(***************************************************************************)
(* A merged exec passes on what the constructor needs, if the program at   *)
(* most left it out.                                                       *)
(***************************************************************************)
LEMMA WatchedPassed ==
  ASSUME NEW e, EnvOK(e), NEW d \in Edits, DOMAIN d.set \cap Needed = {}, Watched(e),
         NEW g, g = Merge(Edited(e, d), e)
  PROVE  Watched(g)
<1> DEFINE f == Edited(e, d)
<1>1. EnvOK(f)
  BY EditedFacts
<1>2. ASSUME NEW k \in Needed
      PROVE  /\ k \in DOMAIN f => k \in DOMAIN e /\ f[k] = e[k]
             /\ Value(f, k) \in {Value(e, k), Value(d.set, k), ""}
             /\ Value(d.set, k) = ""
  <2>1. k \notin DOMAIN d.set
    OBVIOUS
  <2>2. Value(d.set, k) = ""
    BY <2>1 DEF Value
  <2> QED BY <2>1, <2>2, EditedValue
<1> HIDE DEF f
<1>3. /\ \A k \in Needed : Value(g, k) = Value(f, k) \/ Value(g, k) = Value(e, k)
      /\ \A k \in DOMAIN f : Value(g, k) = Value(f, k)
      /\ \A k \in Needed \cap KeepKeys :
           k \notin DOMAIN f /\ Value(e, k) # "" => Value(g, k) = Value(e, k)
  <2>1. Merged(f, e, g)
    BY <1>1, MergeFacts DEF f
  <2> QED BY <2>1, Zenon DEF Merged
<1>4. ASSUME NEW k \in Needed, k \in DOMAIN f PROVE Value(g, k) = Value(e, k)
  BY <1>2, <1>3, <1>4, Zenon DEF Value
<1>5. ASSUME NEW k \in Needed \cap KeepKeys, Value(e, k) # "" PROVE Value(g, k) = Value(e, k)
  BY <1>3, <1>4, <1>5, Zenon
<1>6. /\ "PROCWATCH_LABEL" \in Needed \cap KeepKeys /\ "LD_PRELOAD" \in Needed \cap KeepKeys
      /\ "PROCWATCH_INJECT_DISABLED" \in Needed
  BY DEF Needed, KeepKeys, Keys
<1>7. "" \notin Labels /\ "inject" # ""
  BY InjectAssumption
<1>8. Value(g, "PROCWATCH_LABEL") = Value(e, "PROCWATCH_LABEL")
  BY <1>5, <1>6, <1>7, Zenon DEF Watched
<1>9. Value(g, "LD_PRELOAD") = Value(e, "LD_PRELOAD")
  BY <1>5, <1>6, <1>7, Zenon DEF Watched
<1>10. Value(g, "PROCWATCH_INJECT_DISABLED") = ""
  BY <1>2, <1>3, <1>6, Zenon DEF Watched
<1> QED BY <1>8, <1>9, <1>10, Zenon DEF Watched

-------------------------------------------------------------------------------
(***************************************************************************)
(* Steps.  A step is of one process; the others stay as they are.          *)
(***************************************************************************)
Same(p) ==
  /\ env'[p] = env[p] /\ phase'[p] = phase[p] /\ image'[p] = image[p]
  /\ loaded'[p] = loaded[p] /\ armed'[p] = armed[p] /\ roomy'[p] = roomy[p]
  /\ kept'[p] = kept[p] /\ relabelled'[p] = relabelled[p]

(* What becomes of the environment of a process that a step is of: the     *)
(* constructor's edit, none, another process's, or a program's edit.       *)
Constructed(p) ==
  /\ Arms(p) /\ image[p] \in {"java", "python"}
  /\ LET l == Value(env[p], "PROCWATCH_LABEL")
         common == Set(env[p], "OTEL_RESOURCE_ATTRIBUTES", ApplyCommon(Attrs(env[p]), l, p))
     IN  /\ env'[p] = common \/ env'[p] = Apply(common, image[p])
         /\ roomy'[p] = Roomy(Attrs(env[p]), l, p)

Ctor(p) ==
  /\ phase[p] = "ctor" /\ phase'[p] = "start"
  /\ armed'[p] = Arms(p) /\ image'[p] = image[p] /\ loaded'[p] = loaded[p]
  /\ kept'[p] = kept[p] /\ relabelled'[p] = relabelled[p]
  /\ \/ Constructed(p)
     \/ /\ ~(Arms(p) /\ image[p] \in {"java", "python"})
        /\ env'[p] = env[p]

Started(p) ==
  /\ phase[p] = "start" /\ phase'[p] = "main"
  /\ env'[p] = env[p] /\ image'[p] = image[p] /\ loaded'[p] = loaded[p]
  /\ armed'[p] = armed[p] /\ kept'[p] = kept[p] /\ relabelled'[p] = relabelled[p]

Forked(q, p) ==
  /\ phase[q] = "main" /\ phase'[p] = "main"
  /\ env'[p] = env[q] /\ image'[p] = image[q] /\ loaded'[p] = loaded[q]
  /\ armed'[p] = armed[q] /\ kept'[p] = kept[q] /\ relabelled'[p] = relabelled[q]

(* relabelled'[p] after an edit or an exec. *)
Relabels(p) ==
  relabelled'[p] = (relabelled[p] \/ Label(env'[p]) # Label(env[p]))

EnvSet(p, d) ==
  /\ phase[p] = "main" /\ phase'[p] = "main"
  /\ env'[p] = Edited(env[p], d)
  /\ image'[p] = image[p] /\ loaded'[p] = loaded[p] /\ armed'[p] = armed[p]
  /\ kept'[p] = (kept[p] /\ (d.drop \cup DOMAIN d.set) \cap Needed = {})
  /\ Relabels(p)

Execed(p, im, d, merged) ==
  /\ phase[p] = "main" /\ phase'[p] = "ctor"
  /\ env'[p] = IF merged THEN Merge(Edited(env[p], d), env[p]) ELSE Edited(env[p], d)
  /\ image'[p] = im /\ loaded'[p] = Loads(im, env'[p])
  /\ kept'[p] = (/\ kept[p] /\ merged /\ im \notin {"static", "setuid"}
                 /\ DOMAIN d.set \cap Needed = {})
  /\ Relabels(p)

(* What a step may be for the process p. *)
StepOf(p) ==
  \/ Same(p) \/ Ctor(p) \/ Started(p)
  \/ \E q \in Procs : Forked(q, p)
  \/ \E d \in Edits : EnvSet(p, d)
  \/ \E im \in Images, d \in Edits, m \in BOOLEAN : Execed(p, im, d, m)

(* The variables are functions on the processes. *)
Maps ==
  /\ DOMAIN env = Procs /\ DOMAIN phase = Procs /\ DOMAIN image = Procs
  /\ DOMAIN loaded = Procs /\ DOMAIN armed = Procs /\ DOMAIN roomy = Procs
  /\ DOMAIN kept = Procs /\ DOMAIN relabelled = Procs

LEMMA Steps ==
  ASSUME TypeOK, [Next]_vars, NEW p \in Procs
  PROVE  StepOf(p) /\ DOMAIN env' = Procs
<1>m. Maps
  BY DEF TypeOK, Maps
<1>1. CASE UNCHANGED vars
  BY <1>1, <1>m DEF vars, StepOf, Same, Maps
<1>2. ASSUME NEW x \in Procs, PwInit(x) PROVE StepOf(p) /\ DOMAIN env' = Procs
  <2>1. CASE x = p
    <3>1. DOMAIN env' = Procs
      BY <1>2, <1>m DEF PwInit, Maps
    <3>2. CASE Arms(p) /\ image[p] \in {"java", "python"}
      <4> DEFINE l == Value(env[p], "PROCWATCH_LABEL")
                 common == Set(env[p], "OTEL_RESOURCE_ATTRIBUTES", ApplyCommon(Attrs(env[p]), l, p))
                 r == Roomy(Attrs(env[p]), l, p)
      <4>1. /\ \E e \in {common, Apply(common, image[p])} : env' = [env EXCEPT ![p] = e]
            /\ roomy' = [roomy EXCEPT ![p] = r]
        BY <1>2, <2>1, <3>2, Zenon DEF PwInit
      <4> HIDE DEF common, r
      <4>2. env'[p] = common \/ env'[p] = Apply(common, image[p])
        BY <1>m, <4>1 DEF Maps
      <4>3. roomy'[p] = r
        BY <1>m, <4>1 DEF Maps
      <4>4. Constructed(p)
        BY <3>2, <4>2, <4>3, Zenon DEF Constructed, common, r
      <4> QED BY <1>2, <1>m, <2>1, <3>1, <4>4 DEF PwInit, Maps, StepOf, Ctor
    <3>3. CASE ~(Arms(p) /\ image[p] \in {"java", "python"})
      <4>1. env' = env
        BY <1>2, <2>1, <3>3, Zenon DEF PwInit
      <4> QED BY <1>2, <1>m, <2>1, <3>1, <3>3, <4>1 DEF PwInit, Maps, StepOf, Ctor
    <3> QED BY <3>2, <3>3
  <2>2. CASE x # p
    <3>1. DOMAIN env' = Procs /\ env'[p] = env[p] /\ roomy'[p] = roomy[p]
      BY <1>2, <1>m, <2>2 DEF PwInit, Maps
    <3> QED BY <1>2, <1>m, <2>2, <3>1 DEF PwInit, Maps, StepOf, Same
  <2> QED BY <2>1, <2>2
<1>3. ASSUME NEW x \in Procs, LibcStartMain(x) PROVE StepOf(p) /\ DOMAIN env' = Procs
  BY <1>3, <1>m DEF LibcStartMain, Maps, StepOf, Same, Started
<1>4. ASSUME NEW x \in Procs, NEW q \in Procs, Fork(x, q) PROVE StepOf(p) /\ DOMAIN env' = Procs
  <2>1. q = p => Forked(x, p)
    BY <1>4, <1>m DEF Fork, Maps, Forked
  <2>2. q # p => Same(p)
    BY <1>4, <1>m DEF Fork, Maps, Same
  <2> QED BY <1>4, <1>m, <2>1, <2>2 DEF Fork, Maps, StepOf
<1>5. ASSUME NEW x \in Procs, NEW d \in Edits, SetEnv(x, d) PROVE StepOf(p) /\ DOMAIN env' = Procs
  <2> DEFINE e == Edited(env[x], d)
             r == relabelled[x] \/ Value(e, "PROCWATCH_LABEL") # Value(env[x], "PROCWATCH_LABEL")
             c == (d.drop \cup DOMAIN d.set) \cap Needed = {}
  <2>1. /\ phase[x] = "main" /\ env' = [env EXCEPT ![x] = e]
        /\ relabelled' = [relabelled EXCEPT ![x] = r]
        /\ kept' = [kept EXCEPT ![x] = kept[x] /\ c]
        /\ UNCHANGED <<phase, image, loaded, armed, roomy>>
    BY <1>5 DEF SetEnv
  <2> HIDE DEF e, r, c
  <2>2. x # p => Same(p)
    BY <1>m, <2>1 DEF Maps, Same
  <2>3. CASE x = p
    <3>1. env'[p] = e /\ relabelled'[p] = r /\ kept'[p] = (kept[p] /\ c)
      BY <1>m, <2>1, <2>3 DEF Maps
    <3>2. Relabels(p)
      BY <2>3, <3>1, Zenon DEF Relabels, Label, r
    <3>3. EnvSet(p, d)
      BY <2>1, <2>3, <3>1, <3>2, Zenon DEF EnvSet, e, c
    <3> QED BY <1>m, <2>1, <3>3 DEF Maps, StepOf
  <2> QED BY <1>m, <2>1, <2>2, <2>3 DEF Maps, StepOf
<1>6. ASSUME NEW x \in Procs, NEW im \in Images, NEW d \in Edits, NEW m \in BOOLEAN,
             Exec(x, im, d, m)
      PROVE  StepOf(p) /\ DOMAIN env' = Procs
  <2> DEFINE e == IF m THEN Merge(Edited(env[x], d), env[x]) ELSE Edited(env[x], d)
             r == relabelled[x] \/ Value(e, "PROCWATCH_LABEL") # Value(env[x], "PROCWATCH_LABEL")
             c == /\ kept[x] /\ m /\ im \notin {"static", "setuid"}
                  /\ DOMAIN d.set \cap Needed = {}
             ld == Loads(im, e)
  <2>1. /\ phase[x] = "main" /\ env' = [env EXCEPT ![x] = e]
        /\ phase' = [phase EXCEPT ![x] = "ctor"]
        /\ image' = [image EXCEPT ![x] = im]
        /\ loaded' = [loaded EXCEPT ![x] = ld]
        /\ armed' = [armed EXCEPT ![x] = FALSE]
        /\ roomy' = [roomy EXCEPT ![x] = FALSE]
        /\ relabelled' = [relabelled EXCEPT ![x] = r]
        /\ kept' = [kept EXCEPT ![x] = c]
    BY <1>6 DEF Exec
  <2> HIDE DEF e, r, c, ld
  <2>2. x # p => Same(p)
    BY <1>m, <2>1 DEF Maps, Same
  <2>3. CASE x = p
    <3>1. /\ env'[p] = e /\ relabelled'[p] = r /\ kept'[p] = c /\ loaded'[p] = ld
          /\ phase'[p] = "ctor" /\ image'[p] = im
      BY <1>m, <2>1, <2>3 DEF Maps
    <3>2. Relabels(p)
      BY <2>3, <3>1, Zenon DEF Relabels, Label, r
    <3>3. loaded'[p] = Loads(im, env'[p])
      BY <3>1, Zenon DEF ld
    <3>4. env'[p] = IF m THEN Merge(Edited(env[p], d), env[p]) ELSE Edited(env[p], d)
      BY <2>3, <3>1, Zenon DEF e
    <3>5. kept'[p] = (/\ kept[p] /\ m /\ im \notin {"static", "setuid"}
                      /\ DOMAIN d.set \cap Needed = {})
      BY <2>3, <3>1, Zenon DEF c
    <3>6. Execed(p, im, d, m)
      BY <2>1, <2>3, <3>1, <3>2, <3>3, <3>4, <3>5, Zenon DEF Execed
    <3> QED BY <1>m, <2>1, <3>6 DEF Maps, StepOf
  <2> QED BY <1>m, <2>1, <2>2, <2>3 DEF Maps, StepOf
<1> QED BY <1>1, <1>2, <1>3, <1>4, <1>5, <1>6 DEF Next

(***************************************************************************)
(* What the constructor writes.                                            *)
(***************************************************************************)
LEMMA ConstructedFacts ==
  ASSUME NEW p \in Procs, EnvOK(env[p]), Constructed(p)
  PROVE  /\ EnvOK(env'[p]) /\ SameNeeded(env[p], env'[p])
         /\ Agents(env[p]) => Agents(env'[p])
         /\ Label(env[p]) \in Labels
         /\ Attrs(env'[p]) = ApplyCommon(Attrs(env[p]), Label(env[p]), p)
<1> DEFINE e == env[p]
           f == env'[p]
           l == Label(e)
           ra == "OTEL_RESOURCE_ATTRIBUTES"
           new == ApplyCommon(Attrs(e), l, p)
           common == Set(e, ra, new)
<1>1. l \in Labels
  BY Zenon DEF Constructed, Arms, Label
<1>2. f = common \/ f = Apply(common, image[p])
  BY Zenon DEF Constructed, Label
<1>3. Attrs(e) \in Seq(Attr) /\ EnvOK(e)
  BY DEF EnvOK
<1> HIDE DEF e, f, l
<1>4. new \in Seq(Attr)
  BY <1>1, <1>3, ApplyCommonFacts
<1>5. ra \in ListKeys /\ ra \notin AgentKeys /\ AgentKeys \subseteq ListKeys
  BY DEF ListKeys, AgentKeys
<1> HIDE DEF new, ra
<1>6. /\ EnvOK(common) /\ SameNeeded(e, common)
      /\ List(common, ra) = new
      /\ \A x \in ListKeys : x # ra => List(common, x) = List(e, x)
  BY <1>3, <1>4, <1>5, SetListFacts
<1>7. Agents(e) => Agents(common)
  BY <1>5, <1>6, Zenon DEF Agents
<1>8. Attrs(common) = new
  BY <1>6, Zenon DEF Attrs, ra
<1> HIDE DEF common
<1>9. EnvOK(f) /\ SameNeeded(common, f) /\ Attrs(f) = new /\ (Agents(common) => Agents(f))
  <2>1. CASE f = common
    BY <1>6, <1>8, <2>1 DEF SameNeeded
  <2>2. CASE f = Apply(common, image[p])
    BY <1>6, <1>8, <2>2, ApplyFacts
  <2> QED BY <1>2, <2>1, <2>2
<1>10. SameNeeded(e, f)
  BY <1>6, <1>9, Zenon DEF SameNeeded
<1> QED BY <1>1, <1>7, <1>9, <1>10 DEF e, f, l, new

(***************************************************************************)
(* A step keeps every environment well formed, and in no list a second     *)
(* agent appears.                                                          *)
(***************************************************************************)
LEMMA EnvStep ==
  ASSUME TypeOK, [Next]_vars, NEW p \in Procs
  PROVE  /\ EnvOK(env'[p])
         /\ (\A q \in Procs : Agents(env[q])) => Agents(env'[p])
<1>1. \A q \in Procs : EnvOK(env[q])
  BY DEF TypeOK
<1>2. StepOf(p)
  BY Steps
<1>3. ASSUME NEW q \in Procs, env'[p] = env[q]
      PROVE  EnvOK(env'[p]) /\ ((\A x \in Procs : Agents(env[x])) => Agents(env'[p]))
  BY <1>1, <1>3, Zenon
<1>4. CASE Constructed(p)
  BY <1>1, <1>4, ConstructedFacts
<1>5. ASSUME NEW d \in Edits,
             env'[p] = Edited(env[p], d) \/ env'[p] = Merge(Edited(env[p], d), env[p])
      PROVE  EnvOK(env'[p]) /\ ((\A x \in Procs : Agents(env[x])) => Agents(env'[p]))
  <2>1. /\ EnvOK(env'[p])
        /\ \A k \in AgentKeys : FewerAgents(List(env[p], k), List(env'[p], k))
    BY <1>1, <1>5, PassedFacts
  <2>2. ASSUME Agents(env[p]), NEW k \in AgentKeys PROVE OneAgent(List(env'[p], k))
    BY <2>1, <2>2, FewerFacts DEF Agents
  <2> QED BY <2>1, <2>2 DEF Agents
<1>6. CASE Same(p) \/ Started(p)
  BY <1>3, <1>6 DEF Same, Started
<1>7. CASE Ctor(p)
  BY <1>3, <1>4, <1>7 DEF Ctor
<1>8. ASSUME NEW q \in Procs, Forked(q, p)
      PROVE  EnvOK(env'[p]) /\ ((\A x \in Procs : Agents(env[x])) => Agents(env'[p]))
  BY <1>3, <1>8 DEF Forked
<1>9. ASSUME NEW d \in Edits, EnvSet(p, d)
      PROVE  EnvOK(env'[p]) /\ ((\A x \in Procs : Agents(env[x])) => Agents(env'[p]))
  BY <1>5, <1>9 DEF EnvSet
<1>10. ASSUME NEW im \in Images, NEW d \in Edits, NEW m \in BOOLEAN, Execed(p, im, d, m)
       PROVE  EnvOK(env'[p]) /\ ((\A x \in Procs : Agents(env[x])) => Agents(env'[p]))
  BY <1>5, <1>10 DEF Execed
<1> QED BY <1>2, <1>6, <1>7, <1>8, <1>9, <1>10, Zenon DEF StepOf

-------------------------------------------------------------------------------
(***************************************************************************)
(* Every state is well typed.                                              *)
(***************************************************************************)
LEMMA TypeStep == TypeOK /\ [Next]_vars => TypeOK'
<1> SUFFICES ASSUME TypeOK, [Next]_vars PROVE TypeOK'
  OBVIOUS
<1>1. DOMAIN env' = Procs
  <2>1. First \in Procs
    BY InjectAssumption
  <2> QED BY <2>1, Steps
<1>2. \A p \in Procs : EnvOK(env'[p])
  BY EnvStep
<1> DEFINE Rest ==
             /\ phase' \in [Procs -> {"none", "ctor", "start", "main"}]
             /\ image' \in [Procs -> Images]
             /\ execs' \in 0..MaxExecs
             /\ \A f \in {loaded', armed', thread', roomy', kept', relabelled'} : f \in [Procs -> BOOLEAN]
<1>3. CASE UNCHANGED vars
  BY <1>3 DEF vars, TypeOK
<1>t. /\ phase \in [Procs -> {"none", "ctor", "start", "main"}]
      /\ image \in [Procs -> Images] /\ execs \in 0..MaxExecs
      /\ loaded \in [Procs -> BOOLEAN] /\ armed \in [Procs -> BOOLEAN]
      /\ thread \in [Procs -> BOOLEAN] /\ roomy \in [Procs -> BOOLEAN]
      /\ kept \in [Procs -> BOOLEAN] /\ relabelled \in [Procs -> BOOLEAN]
  BY Zenon DEF TypeOK
<1>n. MaxExecs \in Nat /\ (execs < MaxExecs => execs + 1 \in 0..MaxExecs)
  <2>1. MaxExecs \in Nat
    BY InjectAssumption, Zenon
  <2> QED BY <1>t, <2>1
<1>4. ASSUME NEW p \in Procs, PwInit(p) PROVE Rest
  <2> DEFINE a == Arms(p)
             r == Roomy(Attrs(env[p]), Value(env[p], "PROCWATCH_LABEL"), p)
  <2>1. a \in BOOLEAN /\ r \in BOOLEAN
    BY DEF Arms, Roomy
  <2>2. /\ armed' = [armed EXCEPT ![p] = a] /\ phase' = [phase EXCEPT ![p] = "start"]
        /\ roomy' = roomy \/ roomy' = [roomy EXCEPT ![p] = r]
        /\ UNCHANGED <<image, loaded, thread, execs, kept, relabelled>>
    BY <1>4, Zenon DEF PwInit
  <2> HIDE DEF a, r
  <2> QED BY <1>t, <2>1, <2>2
<1>5. ASSUME NEW p \in Procs, LibcStartMain(p) PROVE Rest
  BY <1>5, <1>t DEF LibcStartMain
<1>6. ASSUME NEW p \in Procs, NEW q \in Procs, Fork(p, q) PROVE Rest
  BY <1>6, <1>t DEF Fork
<1>7. ASSUME NEW p \in Procs, NEW d \in Edits, SetEnv(p, d) PROVE Rest
  <2> DEFINE e == Edited(env[p], d)
             c == kept[p] /\ (d.drop \cup DOMAIN d.set) \cap Needed = {}
             r == relabelled[p] \/ Value(e, "PROCWATCH_LABEL") # Value(env[p], "PROCWATCH_LABEL")
  <2>1. c \in BOOLEAN /\ r \in BOOLEAN
    OBVIOUS
  <2>2. /\ kept' = [kept EXCEPT ![p] = c] /\ relabelled' = [relabelled EXCEPT ![p] = r]
        /\ execs < MaxExecs /\ execs' = execs + 1
        /\ UNCHANGED <<phase, image, loaded, armed, thread, roomy>>
    BY <1>7, Zenon DEF SetEnv
  <2> HIDE DEF c, r
  <2> QED BY <1>n, <1>t, <2>1, <2>2
<1>8. ASSUME NEW p \in Procs, NEW im \in Images, NEW d \in Edits, NEW m \in BOOLEAN,
             Exec(p, im, d, m)
      PROVE  Rest
  <2> DEFINE e == IF m THEN Merge(Edited(env[p], d), env[p]) ELSE Edited(env[p], d)
             c == /\ kept[p] /\ m /\ im \notin {"static", "setuid"}
                  /\ DOMAIN d.set \cap Needed = {}
             r == relabelled[p] \/ Value(e, "PROCWATCH_LABEL") # Value(env[p], "PROCWATCH_LABEL")
             ld == Loads(im, e)
  <2>1. c \in BOOLEAN /\ r \in BOOLEAN /\ ld \in BOOLEAN
    BY DEF Loads
  <2>2. /\ phase' = [phase EXCEPT ![p] = "ctor"] /\ image' = [image EXCEPT ![p] = im]
        /\ loaded' = [loaded EXCEPT ![p] = ld] /\ armed' = [armed EXCEPT ![p] = FALSE]
        /\ thread' = [thread EXCEPT ![p] = FALSE] /\ roomy' = [roomy EXCEPT ![p] = FALSE]
        /\ kept' = [kept EXCEPT ![p] = c] /\ relabelled' = [relabelled EXCEPT ![p] = r]
        /\ execs < MaxExecs /\ execs' = execs + 1
    BY <1>8, Zenon DEF Exec
  <2> HIDE DEF c, r, ld
  <2> QED BY <1>n, <1>t, <2>1, <2>2
<1> QED BY <1>1, <1>2, <1>3, <1>4, <1>5, <1>6, <1>7, <1>8 DEF TypeOK, Next

(* What a container is given. *)
LEMMA InitFacts ==
  ASSUME Init, NEW p \in Procs
  PROVE  GivenOK(env[p]) /\ EnvOK(env[p])
BY InjectAssumption DEF Init, GivenOK

(***************************************************************************)
(* Type correctness (all variables of inject).                             *)
(***************************************************************************)
THEOREM TypeCorrect == Spec => []TypeOK
<1>1. Init => TypeOK
  <2> SUFFICES ASSUME Init PROVE TypeOK
    OBVIOUS
  <2>1. DOMAIN env = Procs
    BY DEF Init
  <2>2. \A p \in Procs : EnvOK(env[p])
    BY InitFacts
  <2>3. \A f \in {loaded, armed, thread, roomy, relabelled} : f \in [Procs -> BOOLEAN]
    BY DEF Init
  <2>4. kept \in [Procs -> BOOLEAN] /\ image \in [Procs -> Images]
    <3>1. PICK e \in Given, im \in {"java", "python", "other"} :
            image = [p \in Procs |-> im] /\ kept = [p \in Procs |-> Watched(e)]
      BY DEF Init
    <3>2. Watched(e) \in BOOLEAN /\ im \in Images
      BY DEF Watched, Images
    <3> QED BY <3>1, <3>2
  <2>5. phase \in [Procs -> {"none", "ctor", "start", "main"}] /\ execs \in 0..MaxExecs
    <3>1. MaxExecs \in Nat
      BY InjectAssumption, Zenon
    <3> QED BY <3>1 DEF Init
  <2> QED BY <2>1, <2>2, <2>3, <2>4, <2>5 DEF TypeOK
<1> QED BY <1>1, TypeStep, PTL DEF Spec

(***************************************************************************)
(* The agent is given at most once, whatever chain of forks and execs and  *)
(* whatever edits led to the environment (envmod.c).                       *)
(***************************************************************************)
THEOREM AgentAddedOnce == Spec => []AgentOnce
<1> DEFINE Inv == \A p \in Procs : Agents(env[p])
<1>1. Init => Inv
  <2> SUFFICES ASSUME Init, NEW p \in Procs, NEW k \in AgentKeys PROVE OneAgent(List(env[p], k))
    BY DEF Agents
  <2> DEFINE l == List(env[p], k)
  <2>1. l \in Seq({"app"})
    BY InitFacts DEF GivenOK
  <2> HIDE DEF l
  <2>2. \A i \in DOMAIN l : l[i] # "agent"
    BY <2>1
  <2> QED BY <2>2 DEF OneAgent, l
<1>2. Inv /\ TypeOK /\ [Next]_vars => Inv'
  BY EnvStep
<1>3. Inv => AgentOnce
  BY DEF AgentOnce, Agents, OneAgent
<1> QED BY <1>1, <1>2, <1>3, TypeCorrect, PTL DEF Spec

-------------------------------------------------------------------------------
(***************************************************************************)
(* The attributes of p: at most one label, the one of the environment if   *)
(* nobody changed that; once the constructor had room for its edits, the   *)
(* pid of p under both keys, and the label.                                *)
(***************************************************************************)
EditsMade(s, p, l, same) ==
  /\ \A k \in IdKeys : PidIs(s, k, p)
  /\ same /\ ~HasKey(s, "xprocwatch.label") => NamesLabel(s, l)

AttrInv(p) ==
  /\ OneLabel(Attrs(env[p]))
  /\ ~relabelled[p] => LabelIs(Attrs(env[p]), Label(env[p]))
  /\ Instrumented(p) /\ roomy[p] =>
       EditsMade(Attrs(env[p]), p, Label(env[p]), ~relabelled[p])

LEMMA AttrStep ==
  ASSUME TypeOK, \A x \in Procs : AttrInv(x), [Next]_vars, NEW p \in Procs
  PROVE  AttrInv(p)'
<1> DEFINE s == Attrs(env[p])
           t == Attrs(env'[p])
<1>1. EnvOK(env[p])
  BY DEF TypeOK
<1>2. StepOf(p)
  BY Steps
<1>i. /\ OneLabel(s)
      /\ ~relabelled[p] => LabelIs(s, Label(env[p]))
      /\ Instrumented(p) /\ roomy[p] => EditsMade(s, p, Label(env[p]), ~relabelled[p])
  BY Zenon DEF AttrInv
<1> HIDE DEF s, t
<1>g. ASSUME OneLabel(t), ~relabelled'[p] => LabelIs(t, Label(env'[p])),
             Instrumented(p)' /\ roomy'[p] => EditsMade(t, p, Label(env'[p]), ~relabelled'[p])
      PROVE  AttrInv(p)'
  BY <1>g, Zenon DEF AttrInv, t
<1>3. CASE Same(p)
  <2>1. t = s /\ Label(env'[p]) = Label(env[p])
    BY <1>3, Zenon DEF Same, s, t
  <2>2. Instrumented(p)' => Instrumented(p)
    BY <1>3, Zenon DEF Same, Instrumented
  <2>3. relabelled'[p] = relabelled[p] /\ roomy'[p] = roomy[p]
    BY <1>3, Zenon DEF Same
  <2> QED BY <1>i, <1>g, <2>1, <2>2, <2>3, Zenon
<1>4. CASE Ctor(p)
  <2>1. relabelled'[p] = relabelled[p] /\ armed'[p] = Arms(p) /\ image'[p] = image[p]
    BY <1>4, Zenon DEF Ctor
  <2>2. CASE Constructed(p)
    <3> DEFINE l == Label(env[p])
    <3>1. /\ SameNeeded(env[p], env'[p]) /\ l \in Labels
          /\ t = ApplyCommon(s, l, p)
      BY <1>1, <2>2, ConstructedFacts DEF s, t
    <3>2. Label(env'[p]) = l
      BY <3>1 DEF SameNeeded, Needed, Label
    <3>3. s \in Seq(Attr)
      BY <1>1 DEF EnvOK, s
    <3>4. roomy'[p] = Roomy(s, l, p)
      BY <2>2, Zenon DEF Constructed, s, Label
    <3> HIDE DEF l
    <3>5. /\ OneLabel(s) => OneLabel(t)
          /\ LabelIs(s, l) => LabelIs(t, l)
          /\ Roomy(s, l, p) => \A k \in IdKeys : PidIs(t, k, p)
          /\ Roomy(s, l, p) /\ OneLabel(s) /\ LabelIs(s, l) /\ ~HasKey(t, "xprocwatch.label")
               => NamesLabel(t, l)
      BY <3>1, <3>3, ApplyCommonFacts
    <3>6. ~relabelled[p] => LabelIs(s, l)
      BY <1>i, Zenon DEF l
    <3>7. roomy'[p] => EditsMade(t, p, l, ~relabelled'[p])
      BY <1>i, <2>1, <3>4, <3>5, <3>6, Zenon DEF EditsMade
    <3>8. OneLabel(t) /\ (~relabelled'[p] => LabelIs(t, l))
      BY <1>i, <2>1, <3>5, <3>6, Zenon
    <3> QED BY <1>g, <3>2, <3>7, <3>8, Zenon
  <2>3. CASE ~(Arms(p) /\ image[p] \in {"java", "python"}) /\ env'[p] = env[p]
    <3>1. t = s /\ Label(env'[p]) = Label(env[p])
      BY <2>3, Zenon DEF s, t
    <3>2. ~Instrumented(p)'
      BY <2>1, <2>3, Zenon DEF Instrumented
    <3> QED BY <1>i, <1>g, <2>1, <3>1, <3>2, Zenon
  <2> QED BY <1>4, <2>2, <2>3, Zenon DEF Ctor
<1>5. CASE Started(p)
  <2>1. t = s /\ Label(env'[p]) = Label(env[p]) /\ relabelled'[p] = relabelled[p]
    BY <1>5, Zenon DEF Started, s, t
  <2>2. ~Instrumented(p)'
    BY <1>5 DEF Started, Instrumented
  <2> QED BY <1>i, <1>g, <2>1, <2>2, Zenon
<1>6. ASSUME NEW q \in Procs, Forked(q, p) PROVE AttrInv(p)'
  <2>1. t = Attrs(env[q]) /\ Label(env'[p]) = Label(env[q]) /\ relabelled'[p] = relabelled[q]
    BY <1>6, Zenon DEF Forked, t
  <2>2. ~Instrumented(p)'
    BY <1>6 DEF Forked, Instrumented
  <2>3. /\ OneLabel(Attrs(env[q]))
        /\ ~relabelled[q] => LabelIs(Attrs(env[q]), Label(env[q]))
    BY Zenon DEF AttrInv
  <2> QED BY <1>g, <2>1, <2>2, <2>3, Zenon
<1>7. ASSUME NEW d \in Edits, Relabels(p), phase'[p] # "start",
             env'[p] = Edited(env[p], d) \/ env'[p] = Merge(Edited(env[p], d), env[p])
      PROVE  AttrInv(p)'
  <2>1. FewerLabels(s, t)
    BY <1>1, <1>7, PassedFacts DEF s, t
  <2>2. OneLabel(t)
    BY <1>i, <2>1, FewerFacts
  <2>3. \A l : LabelIs(s, l) => LabelIs(t, l)
    BY <2>1, FewerFacts, Zenon
  <2>4. ~relabelled'[p] => ~relabelled[p] /\ Label(env'[p]) = Label(env[p])
    BY <1>7, Zenon DEF Relabels
  <2>5. ~Instrumented(p)'
    BY <1>7 DEF Instrumented
  <2> QED BY <1>i, <1>g, <2>2, <2>3, <2>4, <2>5, Zenon
<1>8. ASSUME NEW d \in Edits, EnvSet(p, d) PROVE AttrInv(p)'
  BY <1>7, <1>8 DEF EnvSet
<1>9. ASSUME NEW im \in Images, NEW d \in Edits, NEW m \in BOOLEAN, Execed(p, im, d, m)
      PROVE  AttrInv(p)'
  BY <1>7, <1>9 DEF Execed
<1> QED BY <1>2, <1>3, <1>4, <1>5, <1>6, <1>8, <1>9, Zenon DEF StepOf

(***************************************************************************)
(* AttrInv holds of every process (the edits of OTEL_RESOURCE_ATTRIBUTES,  *)
(* inject.c lines 69 to 156).                                              *)
(***************************************************************************)
THEOREM AttrCorrect == Spec => [](\A p \in Procs : AttrInv(p))
<1>1. Init => \A p \in Procs : AttrInv(p)
  <2> SUFFICES ASSUME Init, NEW p \in Procs PROVE AttrInv(p)
    OBVIOUS
  <2> DEFINE s == Attrs(env[p])
  <2>1. s \in Seq(AppAttr)
    BY InitFacts DEF GivenOK
  <2>2. ~Instrumented(p)
    BY DEF Init, Instrumented
  <2> HIDE DEF s
  <2>3. \A x \in AppAttr : x.key # "procwatch.label"
    BY DEF AppAttr
  <2>4. \A i \in DOMAIN s : s[i] \in AppAttr
    BY <2>1
  <2>5. OneLabel(s) /\ LabelIs(s, Label(env[p]))
    BY <2>3, <2>4 DEF OneLabel, LabelIs
  <2> QED BY <2>2, <2>5, Zenon DEF AttrInv, s
<1>2. (\A p \in Procs : AttrInv(p)) /\ TypeOK /\ [Next]_vars => (\A p \in Procs : AttrInv(p))'
  BY AttrStep
<1> QED BY <1>1, <1>2, TypeCorrect, PTL DEF Spec

(***************************************************************************)
(* An instrumented image reports its own pid under both keys and no other, *)
(* if the constructor had room (set_resource_attr, inject.c line 92),      *)
(* whatever attributes it was given, inherited or had edited.              *)
(***************************************************************************)
THEOREM ReportsOwnPid == Spec => []OwnPidKey
<1>1. (\A p \in Procs : AttrInv(p)) => OwnPidKey
  <2> SUFFICES ASSUME NEW p \in Procs, AttrInv(p), NEW k \in IdKeys, Instrumented(p), roomy[p]
               PROVE  PidIs(Attrs(env[p]), k, p)
    BY Zenon DEF OwnPidKey, PidIs
  <2> QED BY Zenon DEF AttrInv, EditsMade
<1> QED BY <1>1, AttrCorrect, PTL

(***************************************************************************)
(* The attributes of an instrumented image never name two labels, and they *)
(* name its own if there was room, nobody changed the label and no         *)
(* attribute looks like it (pw_attach_label_to_otel, inject.c line 69).    *)
(***************************************************************************)
THEOREM AttributesNameLabel == Spec => []LabelAgrees
<1>1. (\A p \in Procs : AttrInv(p)) => LabelAgrees
  <2>1. ASSUME NEW p \in Procs, AttrInv(p), Instrumented(p)
        PROVE  /\ OneLabel(Attrs(env[p]))
               /\ roomy[p] /\ ~relabelled[p] /\ ~HasKey(Attrs(env[p]), "xprocwatch.label") =>
                    NamesLabel(Attrs(env[p]), Label(env[p]))
    BY <2>1, Zenon DEF AttrInv, EditsMade
  <2> QED BY <2>1, Zenon DEF LabelAgrees, OneLabel, NamesLabel, Label
<1> QED BY <1>1, AttrCorrect, PTL

-------------------------------------------------------------------------------
(***************************************************************************)
(* While the library is left to do its work, its images find what they     *)
(* need and are armed.                                                     *)
(***************************************************************************)
SurvivalInv(p) ==
  kept[p] /\ phase[p] # "none" =>
    /\ Watched(env[p]) /\ image[p] # "setuid" /\ loaded[p]
    /\ phase[p] \in {"start", "main"} => armed[p]

LEMMA SurvivalStep ==
  ASSUME TypeOK, \A x \in Procs : SurvivalInv(x), [Next]_vars, NEW p \in Procs
  PROVE  SurvivalInv(p)'
<1>1. EnvOK(env[p])
  BY DEF TypeOK
<1>2. StepOf(p)
  BY Steps
<1>w. ASSUME NEW e, NEW f, SameNeeded(e, f), Watched(e) PROVE Watched(f)
  BY <1>w DEF SameNeeded, Needed, Watched
<1>3. CASE Same(p)
  BY <1>3, Zenon DEF Same, SurvivalInv
<1>4. CASE Ctor(p)
  <2> SUFFICES ASSUME kept'[p]
               PROVE  Watched(env'[p]) /\ image'[p] # "setuid" /\ loaded'[p] /\ armed'[p]
    BY Zenon DEF SurvivalInv
  <2>1. phase[p] # "none" /\ kept[p]
    BY <1>4 DEF Ctor
  <2>2. Watched(env[p]) /\ image[p] # "setuid" /\ loaded[p]
    BY <2>1, Zenon DEF SurvivalInv
  <2>3. Arms(p)
    BY <2>2, Zenon DEF Arms, Watched
  <2>4. SameNeeded(env[p], env'[p])
    <3>1. CASE Constructed(p)
      BY <1>1, <3>1, ConstructedFacts
    <3>2. CASE env'[p] = env[p]
      BY <3>2, Zenon DEF SameNeeded
    <3> QED BY <1>4, <3>1, <3>2, Zenon DEF Ctor
  <2>5. Watched(env'[p])
    BY <1>w, <2>2, <2>4
  <2> QED BY <1>4, <2>2, <2>3, <2>5, Zenon DEF Ctor
<1>5. CASE Started(p)
  <2>1. phase[p] \in {"start", "main"} /\ phase[p] # "none"
    BY <1>5 DEF Started
  <2> QED BY <1>5, <2>1, Zenon DEF Started, SurvivalInv
<1>6. ASSUME NEW q \in Procs, Forked(q, p) PROVE SurvivalInv(p)'
  <2>1. phase[q] \in {"start", "main"} /\ phase[q] # "none"
    BY <1>6 DEF Forked
  <2> QED BY <1>6, <2>1, Zenon DEF Forked, SurvivalInv
<1>7. ASSUME NEW d \in Edits, EnvSet(p, d) PROVE SurvivalInv(p)'
  <2> SUFFICES ASSUME kept'[p]
               PROVE  Watched(env'[p]) /\ image'[p] # "setuid" /\ loaded'[p] /\ armed'[p]
    BY Zenon DEF SurvivalInv
  <2>1. phase[p] \in {"start", "main"} /\ phase[p] # "none" /\ kept[p]
    BY <1>7 DEF EnvSet
  <2>2. Watched(env[p]) /\ image[p] # "setuid" /\ loaded[p] /\ armed[p]
    BY <2>1, Zenon DEF SurvivalInv
  <2>3. (d.drop \cup DOMAIN d.set) \cap Needed = {} /\ env'[p] = Edited(env[p], d)
    BY <1>7, Zenon DEF EnvSet
  <2>4. ASSUME NEW k \in Needed PROVE Value(env'[p], k) = Value(env[p], k)
    <3>1. k \notin DOMAIN d.set /\ k \notin d.drop
      BY <2>3
    <3> QED BY <2>3, <3>1, LeftAlone
  <2>5. Watched(env'[p])
    BY <1>w, <2>2, <2>4 DEF SameNeeded
  <2> QED BY <1>7, <2>2, <2>5, Zenon DEF EnvSet
<1>8. ASSUME NEW im \in Images, NEW d \in Edits, NEW m \in BOOLEAN, Execed(p, im, d, m)
      PROVE  SurvivalInv(p)'
  <2> SUFFICES ASSUME kept'[p]
               PROVE  Watched(env'[p]) /\ image'[p] # "setuid" /\ loaded'[p]
    <3>1. phase'[p] \notin {"start", "main"}
      BY <1>8 DEF Execed
    <3> QED BY <3>1, Zenon DEF SurvivalInv
  <2>1. /\ phase[p] # "none" /\ kept[p] /\ m /\ im \notin {"static", "setuid"}
        /\ DOMAIN d.set \cap Needed = {}
    BY <1>8 DEF Execed
  <2>2. Watched(env[p])
    BY <2>1, Zenon DEF SurvivalInv
  <2>3. env'[p] = Merge(Edited(env[p], d), env[p])
    BY <1>8, <2>1, Zenon DEF Execed
  <2>4. Watched(env'[p])
    BY <1>1, <2>1, <2>2, <2>3, WatchedPassed
  <2>5. loaded'[p] = Loads(im, env'[p]) /\ image'[p] = im
    BY <1>8, Zenon DEF Execed
  <2>6. Loads(im, env'[p]) /\ im # "setuid"
    BY <2>1, <2>4 DEF Loads, Watched
  <2> QED BY <2>4, <2>5, <2>6
<1> QED BY <1>2, <1>3, <1>4, <1>5, <1>6, <1>7, <1>8, Zenon DEF StepOf

(***************************************************************************)
(* While every exec is merged and finds a dynamic, unprivileged image, and *)
(* programs leave the variables the constructor looks for alone or out of  *)
(* envp, each process has a valid label and is armed (exec_wrap.c line 1). *)
(***************************************************************************)
THEOREM LabelOutlivesExec == Spec => []LabelSurvives
<1>1. Init => \A p \in Procs : SurvivalInv(p)
  <2> SUFFICES ASSUME Init, NEW p \in Procs PROVE SurvivalInv(p)
    OBVIOUS
  <2>1. kept[p] = Watched(env[p]) /\ loaded[p] /\ image[p] # "setuid"
        /\ phase[p] \notin {"start", "main"}
    BY DEF Init
  <2> QED BY <2>1, Zenon DEF SurvivalInv
<1>2. (\A p \in Procs : SurvivalInv(p)) /\ TypeOK /\ [Next]_vars
        => (\A p \in Procs : SurvivalInv(p))'
  BY SurvivalStep
<1>3. (\A p \in Procs : SurvivalInv(p)) => LabelSurvives
  <2> SUFFICES ASSUME NEW p \in Procs, SurvivalInv(p), kept[p], phase[p] = "main"
               PROVE  Value(env[p], "PROCWATCH_LABEL") \in Labels /\ loaded[p] /\ armed[p]
    BY Zenon DEF LabelSurvives
  <2>1. phase[p] \in {"start", "main"} /\ phase[p] # "none"
    OBVIOUS
  <2> QED BY <2>1, Zenon DEF SurvivalInv, Watched
<1> QED BY <1>1, <1>2, <1>3, TypeCorrect, PTL DEF Spec
===============================================================================
