---------------------------- MODULE HttpServerProofs --------------------------
(***************************************************************************)
(* What HttpServer promises for every number of clients and slots and for  *)
(* every script: type correctness, the framing of the requests, and that   *)
(* no request a waiting client has sent in full is left in c->buf.         *)
(***************************************************************************)
EXTENDS HttpServer, SeqLemmas

Pieces == Nat \X Nat

(* The pieces of request r of client c, and the piece that follows p. *)
Size(c, r) == HeaderLen + Script[c][r].body
After(c, p) == IF p[2] < Size(c, p[1]) THEN <<p[1], p[2] + 1>> ELSE <<p[1] + 1, 1>>
IsPiece(c, p) == p[1] \in 1..Len(Script[c]) /\ p[2] \in 1..Size(c, p[1])

(***************************************************************************)
(* s is what the client wrote from the start of request a on, in order and *)
(* without a gap: of any two pieces, the later one is where the earlier    *)
(* one's request puts it, or starts the next request.                      *)
(***************************************************************************)
InStep(c, p, q, d) ==
  /\ p[2] + d <= Size(c, p[1]) => q = <<p[1], p[2] + d>>
  /\ p[2] + d = Size(c, p[1]) + 1 => q = <<p[1] + 1, 1>>

Framed(c, s, a) ==
  /\ \A i \in 1..Len(s) : IsPiece(c, s[i])
  /\ Len(s) > 0 => s[1] = <<a, 1>>
  /\ \A i, j \in 1..Len(s) : i <= j => InStep(c, s[i], s[j], j - i)

-------------------------------------------------------------------------------
(***************************************************************************)
(* A request of a script has a header and a body of some length.           *)
(***************************************************************************)
LEMMA Sizes ==
  ASSUME NEW c \in Clients, NEW r \in 1..Len(Script[c])
  PROVE  /\ Script[c][r] \in Request /\ Script[c][r].body \in Nat
         /\ Size(c, r) \in Nat /\ Size(c, r) >= 2 /\ HeaderLen = 2
<1>1. Script[c] \in Seq(Request)
  BY HttpAssumption
<1>2. Script[c][r] \in Request
  BY <1>1
<1>3. Script[c][r].body \in Nat
  BY <1>2 DEF Request
<1> QED BY <1>2, <1>3 DEF Size, HeaderLen

(***************************************************************************)
(* The piece after a piece, when it is of a request in the script.         *)
(***************************************************************************)
LEMMA AfterIsPiece ==
  ASSUME NEW c \in Clients, NEW p \in Pieces, IsPiece(c, p),
         After(c, p)[1] <= Len(Script[c])
  PROVE  /\ After(c, p) \in Pieces /\ IsPiece(c, After(c, p))
<1>0. Len(Script[c]) \in Nat
  BY HttpAssumption
<1>1. p[1] \in 1..Len(Script[c]) /\ p[2] \in 1..Size(c, p[1]) /\ p[1] \in Nat /\ p[2] \in Nat
  BY DEF IsPiece, Pieces
<1>2. Size(c, p[1]) \in Nat
  BY <1>1, Sizes
<1>3. CASE p[2] < Size(c, p[1])
  <2>1. After(c, p) = <<p[1], p[2] + 1>>
    BY <1>3 DEF After
  <2>2. After(c, p)[1] = p[1] /\ After(c, p)[2] = p[2] + 1
    BY <2>1
  <2>3. p[2] + 1 \in 1..Size(c, p[1])
    BY <1>1, <1>2, <1>3
  <2> QED BY <1>1, <2>1, <2>2, <2>3 DEF IsPiece, Pieces
<1>4. CASE ~(p[2] < Size(c, p[1]))
  <2>1. After(c, p) = <<p[1] + 1, 1>>
    BY <1>4 DEF After
  <2>2. After(c, p)[1] = p[1] + 1 /\ After(c, p)[2] = 1
    BY <2>1
  <2>3. p[1] + 1 \in 1..Len(Script[c])
    BY <1>0, <1>1, <2>2
  <2>4. 1 \in 1..Size(c, p[1] + 1)
    BY <2>3, Sizes
  <2> QED BY <1>1, <2>1, <2>2, <2>3, <2>4 DEF IsPiece, Pieces
<1> QED BY <1>3, <1>4

(***************************************************************************)
(* A stream stays in step when the client writes the piece after its last. *)
(***************************************************************************)
LEMMA FramedAppend ==
  ASSUME NEW c \in Clients, NEW s \in Seq(Pieces), NEW a \in Nat, Framed(c, s, a),
         Len(s) > 0, After(c, s[Len(s)])[1] <= Len(Script[c])
  PROVE  Framed(c, Append(s, After(c, s[Len(s)])), a)
<1> DEFINE m == Len(s)
           q == s[m]
           p == After(c, q)
           t == Append(s, p)
<1>0. m \in Nat /\ m \in 1..m /\ q \in Pieces /\ IsPiece(c, q) /\ 1 \in 1..m
  BY DEF Framed
<1>1. p \in Pieces /\ IsPiece(c, p)
  BY <1>0, AfterIsPiece
<1>2. /\ Len(t) = m + 1
      /\ \A k \in 1..m : t[k] = s[k]
      /\ t[m + 1] = p
  BY <1>1, AppendFacts
<1>3. \A k \in 1..m + 1 : k \in 1..m \/ k = m + 1
  BY <1>0
<1> HIDE DEF t
<1>4. \A i \in 1..m + 1 : IsPiece(c, t[i])
  BY <1>1, <1>2, <1>3 DEF Framed
<1>5. t[1] = <<a, 1>>
  BY <1>0, <1>2 DEF Framed
<1>6. ASSUME NEW i \in 1..m PROVE InStep(c, s[i], p, (m + 1) - i)
  <2> DEFINE x == s[i]
  <2>1. x \in Pieces /\ IsPiece(c, x) /\ x[1] \in Nat /\ x[2] \in Nat /\ i \in Nat /\ i <= m
    BY DEF Framed, Pieces
  <2>2. InStep(c, x, q, m - i)
    BY <1>0, <2>1 DEF Framed
  <2>3. Size(c, x[1]) \in Nat
    BY <2>1, Sizes DEF IsPiece
  <2> HIDE DEF x, q, m
  <2>4. ASSUME x[2] + ((m + 1) - i) <= Size(c, x[1])
        PROVE  p = <<x[1], x[2] + ((m + 1) - i)>>
    <3>1. x[2] + (m - i) < Size(c, x[1]) /\ (x[2] + (m - i)) + 1 = x[2] + ((m + 1) - i)
      BY <1>0, <2>1, <2>3, <2>4
    <3>2. q = <<x[1], x[2] + (m - i)>>
      BY <1>0, <2>1, <2>2, <2>3, <3>1 DEF InStep
    <3>3. q[1] = x[1] /\ q[2] = x[2] + (m - i)
      BY <3>2
    <3> QED BY <3>1, <3>3 DEF After
  <2>5. ASSUME x[2] + ((m + 1) - i) = Size(c, x[1]) + 1
        PROVE  p = <<x[1] + 1, 1>>
    <3>1. x[2] + (m - i) = Size(c, x[1]) /\ Size(c, x[1]) <= Size(c, x[1])
      BY <1>0, <2>1, <2>3, <2>5
    <3>2. q = <<x[1], x[2] + (m - i)>>
      BY <2>2, <3>1, Zenon DEF InStep
    <3>3. q[1] = x[1] /\ q[2] = Size(c, x[1])
      BY <3>1, <3>2
    <3> QED BY <2>3, <3>3 DEF After
  <2>6. InStep(c, x, p, (m + 1) - i)
    BY <2>4, <2>5 DEF InStep
  <2> QED BY <2>6 DEF x
<1>7. InStep(c, p, p, 0)
  <2>1. p[1] \in Nat /\ p[2] \in Nat /\ p = <<p[1], p[2]>>
    BY <1>1 DEF Pieces
  <2>2. Size(c, p[1]) \in Nat /\ p[2] <= Size(c, p[1])
    BY <1>1, Sizes DEF IsPiece
  <2> HIDE DEF p
  <2>3. p[2] + 0 = p[2] /\ p[2] # Size(c, p[1]) + 1
    BY <2>1, <2>2
  <2> QED BY <2>1, <2>2, <2>3 DEF InStep
<1>8. ASSUME NEW i \in 1..m + 1, NEW j \in 1..m + 1, i <= j
      PROVE  InStep(c, t[i], t[j], j - i)
  <2>1. CASE j \in 1..m
    <3>1. i \in 1..m
      BY <1>0, <1>8, <2>1
    <3> QED BY <1>2, <1>8, <2>1, <3>1 DEF Framed
  <2>2. CASE j = m + 1 /\ i \in 1..m
    BY <1>2, <1>6, <2>2
  <2>3. CASE j = m + 1 /\ i = m + 1
    <3>1. j - i = 0
      BY <1>0, <2>3
    <3> QED BY <1>2, <1>7, <2>3, <3>1
  <2> QED BY <1>3, <2>1, <2>2, <2>3
<1>9. Framed(c, t, a)
  BY <1>2, <1>4, <1>5, <1>8 DEF Framed
<1> QED BY <1>9 DEF t

(***************************************************************************)
(* The first piece of a request, with nothing before it.                   *)
(***************************************************************************)
LEMMA FramedStart ==
  ASSUME NEW c \in Clients, NEW a \in 1..Len(Script[c])
  PROVE  Framed(c, Append(<<>>, <<a, 1>>), a)
<1> DEFINE p == <<a, 1>>
           t == Append(<<>>, p)
<1>0. Size(c, a) \in Nat /\ Size(c, a) >= 2
  BY Sizes
<1>1. p[1] = a /\ p[2] = 1 /\ IsPiece(c, p)
  BY <1>0 DEF IsPiece
<1>2. Len(t) = 1 /\ t[1] = p
  OBVIOUS
<1>3. \A i \in 1..1 : i = 1
  OBVIOUS
<1> HIDE DEF p, t
<1>4. InStep(c, p, p, 0)
  BY <1>0, <1>1 DEF InStep, p
<1>5. \A i \in 1..Len(t) : IsPiece(c, t[i])
  BY <1>1, <1>2, <1>3
<1>6. \A i, j \in 1..Len(t) : i <= j => InStep(c, t[i], t[j], j - i)
  <2>1. 1 - 1 = 0
    OBVIOUS
  <2> QED BY <1>2, <1>3, <1>4, <2>1, Zenon
<1>7. Framed(c, t, a)
  BY <1>2, <1>5, <1>6 DEF Framed, p
<1> QED BY <1>7 DEF t, p

(***************************************************************************)
(* Consuming a request leaves a stream that starts with the next one.      *)
(***************************************************************************)
LEMMA FramedSuffix ==
  ASSUME NEW c \in Clients, NEW s \in Seq(Pieces), NEW a \in Nat, Framed(c, s, a),
         Len(s) > 0, Size(c, a) <= Len(s)
  PROVE  /\ Size(c, a) \in 1..Len(s) /\ a \in 1..Len(Script[c])
         /\ s[Size(c, a)] = <<a, Size(c, a)>>
         /\ Framed(c, SubSeq(s, Size(c, a) + 1, Len(s)), a + 1)
<1> DEFINE m == Size(c, a)
           t == SubSeq(s, m + 1, Len(s))
<1>0. Len(s) \in Nat /\ 1 \in 1..Len(s)
  OBVIOUS
<1>1. s[1] = <<a, 1>> /\ s[1][1] = a /\ s[1][2] = 1 /\ IsPiece(c, s[1])
  BY <1>0 DEF Framed
<1>2. a \in 1..Len(Script[c]) /\ m \in Nat /\ m >= 2
  BY <1>1, Sizes DEF IsPiece
<1> HIDE DEF m
<1>3. m \in 1..Len(s) /\ m \in 0..Len(s)
  BY <1>0, <1>2 DEF m
<1>4. t \in Seq(Pieces) /\ Len(t) = Len(s) - m /\ \A i \in 1..Len(s) - m : t[i] = s[m + i]
  BY <1>3, SeqFacts
<1> HIDE DEF t
<1>5. \A i \in 1..Len(t) : m + i \in 1..Len(s)
  BY <1>0, <1>3, <1>4
<1>6. \A i \in 1..Len(t) : IsPiece(c, t[i])
  BY <1>4, <1>5 DEF Framed
<1>7. s[m] = <<a, m>>
  <2>1. InStep(c, s[1], s[m], m - 1)
    BY <1>0, <1>2, <1>3 DEF Framed
  <2>2. 1 + (m - 1) = m /\ m <= m
    BY <1>2
  <2> QED BY <1>1, <2>1, <2>2 DEF InStep, m
<1>8. ASSUME Len(t) > 0 PROVE t[1] = <<a + 1, 1>>
  <2>0. m + 1 \in 1..Len(s) /\ 1 <= m + 1 /\ 1 \in 1..Len(s) - m
    BY <1>0, <1>2, <1>4, <1>8
  <2>1. InStep(c, s[1], s[m + 1], (m + 1) - 1)
    BY <1>0, <2>0 DEF Framed
  <2>2. 1 + ((m + 1) - 1) = m + 1
    BY <1>2
  <2>3. s[m + 1] = <<a + 1, 1>>
    BY <1>1, <2>1, <2>2 DEF InStep, m
  <2> QED BY <1>4, <2>0, <2>3
<1>9. ASSUME NEW i \in 1..Len(t), NEW j \in 1..Len(t), i <= j
      PROVE  InStep(c, t[i], t[j], j - i)
  <2>1. m + i <= m + j /\ (m + j) - (m + i) = j - i
    BY <1>0, <1>2, <1>4, <1>9
  <2>2. InStep(c, s[m + i], s[m + j], (m + j) - (m + i))
    BY <1>5, <2>1 DEF Framed
  <2> QED BY <1>4, <2>1, <2>2
<1>10. Framed(c, t, a + 1)
  BY <1>6, <1>8, <1>9 DEF Framed
<1> QED BY <1>2, <1>3, <1>7, <1>10 DEF t, m

(***************************************************************************)
(* What the start of such a stream holds: the blank line of the request is *)
(* where its header ends, and its body follows.                            *)
(***************************************************************************)
LEMMA Prefix ==
  ASSUME NEW c \in Clients, NEW g \in Seq(Pieces), NEW v \in Seq(Pieces), NEW a \in Nat,
         Framed(c, g \o v, a)
  PROVE  /\ Blank(g) = IF Len(g) >= 2 THEN 2 ELSE 0
         /\ Len(g) > 0 => g[1] = <<a, 1>> /\ a \in 1..Len(Script[c])
         /\ \A k \in 1..Len(g) : k <= Size(c, a) => g[k] = <<a, k>>
<1> DEFINE s == g \o v
           B == {i \in DOMAIN g : g[i][2] = HeaderLen}
<1>0. Len(g) \in Nat /\ Len(v) \in Nat /\ DOMAIN g = 1..Len(g)
  OBVIOUS
<1>1. s \in Seq(Pieces) /\ Len(s) = Len(g) + Len(v) /\ \A i \in 1..Len(g) : s[i] = g[i]
  BY <1>0, ConcatFacts
<1> HIDE DEF s
<1>2. CASE Len(g) = 0
  <2>1. B = {} /\ ~(Len(g) >= 2)
    BY <1>0, <1>2
  <2> QED BY <1>2, <2>1 DEF Blank
<1>3. CASE Len(g) > 0
  <2>0. 1 \in 1..Len(g) /\ 1 \in 1..Len(s) /\ Len(s) > 0
    BY <1>0, <1>1, <1>3
  <2>1. s[1] = <<a, 1>> /\ IsPiece(c, s[1])
    BY <2>0 DEF Framed, s
  <2>2. g[1] = <<a, 1>> /\ s[1][1] = a /\ s[1][2] = 1
    BY <1>1, <2>0, <2>1
  <2>3. a \in 1..Len(Script[c]) /\ Size(c, a) \in Nat /\ Size(c, a) >= 2
    BY <2>1, <2>2, Sizes DEF IsPiece
  <2>4. ASSUME NEW k \in 1..Len(g), k <= Size(c, a) PROVE g[k] = <<a, k>>
    <3>1. k \in 1..Len(s) /\ 1 <= k /\ k \in Nat /\ 1 + (k - 1) = k
      BY <1>0, <1>1
    <3>2. InStep(c, s[1], s[k], k - 1)
      BY <2>0, <3>1 DEF Framed, s
    <3> QED BY <1>1, <2>2, <2>4, <3>1, <3>2 DEF InStep
  <2>5. Blank(g) = IF Len(g) >= 2 THEN 2 ELSE 0
    <3>1. 1 \notin B
      BY <2>2 DEF HeaderLen
    <3>2. CASE Len(g) >= 2
      <4>1. 2 \in B
        <5>1. 2 \in 1..Len(g) /\ 2 <= Size(c, a)
          BY <1>0, <2>3, <3>2
        <5>2. g[2] = <<a, 2>>
          BY <2>4, <5>1
        <5>3. g[2][2] = 2
          BY <5>2
        <5> QED BY <1>0, <5>1, <5>3 DEF HeaderLen
      <4>2. \A j \in B : 2 <= j
        BY <1>0, <3>1
      <4>3. \A i \in B : (\A j \in B : i <= j) => i = 2
        BY <1>0, <4>1, <4>2
      <4> HIDE DEF B
      <4>4. (CHOOSE i \in B : \A j \in B : i <= j) = 2
        BY <4>1, <4>2, <4>3
      <4> QED BY <3>2, <4>1, <4>4 DEF Blank, B
    <3>3. CASE ~(Len(g) >= 2)
      <4>1. \A i \in 1..Len(g) : i = 1
        BY <1>0, <3>3
      <4>2. B = {}
        BY <1>0, <3>1, <4>1
      <4> QED BY <3>3, <4>2 DEF Blank
    <3> QED BY <3>2, <3>3
  <2> QED BY <2>2, <2>3, <2>4, <2>5
<1> QED BY <1>0, <1>2, <1>3

-------------------------------------------------------------------------------
(***************************************************************************)
(* The inductive invariant of a connection.  s is what its client wrote    *)
(* and the server has not consumed, in c->buf and then in the kernel; p    *)
(* the last piece written; a the request whose turn it is; b the pieces in *)
(* c->buf and hd the parsed header.                                        *)
(***************************************************************************)
StreamAt(c, s, p, a) ==
  /\ Framed(c, s, a)
  /\ IF Len(s) > 0 THEN s[Len(s)] = p
     ELSE After(c, p)[1] <= Len(Script[c]) => After(c, p) = <<a, 1>>
  /\ c \notin Pipelining => \A i \in 1..Len(s) : s[i][1] <= a

HeadAt(c, b, hd, a) ==
  /\ hd # NoHead => /\ hd = [req |-> a, off |-> HeaderLen]
                    /\ Len(b) >= HeaderLen /\ a \in 1..Len(Script[c])
                    /\ Of(c, hd).kind \notin {"toolarge", "malformed"}
  /\ c \notin Pipelining =>
       Len(b) < HeaderLen + (IF hd = NoHead THEN 0 ELSE ContentLength(c, hd))

(***************************************************************************)
(* Writing the next piece.                                                 *)
(***************************************************************************)
LEMMA StreamSend ==
  ASSUME NEW c \in Clients, NEW s \in Seq(Pieces), NEW p \in Pieces, NEW a \in Nat \ {0},
         StreamAt(c, s, p, a), After(c, p)[1] <= Len(Script[c]),
         c \notin Pipelining => After(c, p)[1] <= a
  PROVE  After(c, p) \in Pieces /\ StreamAt(c, Append(s, After(c, p)), After(c, p), a)
<1> DEFINE q == After(c, p)
           t == Append(s, q)
<1>0. Len(s) \in Nat /\ Len(Script[c]) \in Nat
  BY HttpAssumption
<1>1. q \in Pieces /\ Framed(c, t, a)
  <2>1. CASE Len(s) > 0
    <3>1. s[Len(s)] = p /\ IsPiece(c, p)
      BY <1>0, <2>1 DEF StreamAt, Framed
    <3>2. q \in Pieces
      BY <3>1, AfterIsPiece
    <3>3. Framed(c, t, a)
      BY <2>1, <3>1, FramedAppend DEF StreamAt
    <3> QED BY <3>2, <3>3
  <2>2. CASE ~(Len(s) > 0)
    <3>1. q = <<a, 1>> /\ q[1] = a
      BY <2>2 DEF StreamAt
    <3>2. s = <<>>
      BY <1>0, <2>2
    <3>3. a \in 1..Len(Script[c])
      BY <1>0, <3>1
    <3>4. Framed(c, t, a)
      BY <3>1, <3>2, <3>3, FramedStart
    <3> QED BY <3>1, <3>4 DEF Pieces
  <2> QED BY <2>1, <2>2
<1>2. /\ Len(t) = Len(s) + 1 /\ t[Len(s) + 1] = q
      /\ \A i \in 1..Len(s) : t[i] = s[i]
  BY <1>1, AppendFacts
<1>3. Len(t) > 0 /\ \A i \in 1..Len(t) : i \in 1..Len(s) \/ i = Len(s) + 1
  BY <1>0, <1>2
<1> HIDE DEF t, q
<1>4. c \notin Pipelining => \A i \in 1..Len(t) : t[i][1] <= a
  BY <1>2, <1>3 DEF StreamAt, q
<1>5. StreamAt(c, t, q, a)
  BY <1>1, <1>2, <1>3, <1>4 DEF StreamAt
<1> QED BY <1>1, <1>5 DEF t, q

(***************************************************************************)
(* Consuming the request whose turn it is; a client that waits has then    *)
(* nothing more under way.                                                 *)
(***************************************************************************)
LEMMA StreamCarry ==
  ASSUME NEW c \in Clients, NEW s \in Seq(Pieces), NEW p \in Pieces, NEW a \in Nat \ {0},
         StreamAt(c, s, p, a), Len(s) > 0, Size(c, a) <= Len(s)
  PROVE  /\ StreamAt(c, SubSeq(s, Size(c, a) + 1, Len(s)), p, a + 1)
         /\ c \notin Pipelining => Len(s) = Size(c, a)
<1> DEFINE m == Size(c, a)
           t == SubSeq(s, m + 1, Len(s))
<1>0. Len(s) \in Nat
  OBVIOUS
<1>1. m \in 1..Len(s) /\ a \in 1..Len(Script[c]) /\ s[m] = <<a, m>> /\ Framed(c, t, a + 1)
  BY FramedSuffix DEF StreamAt
<1>2. m \in Nat /\ m \in 0..Len(s)
  BY <1>0, <1>1
<1>3. t \in Seq(Pieces) /\ Len(t) = Len(s) - m /\ \A i \in 1..Len(s) - m : t[i] = s[m + i]
  BY <1>2, SeqFacts
<1> HIDE DEF t, m
<1>4. s[Len(s)] = p
  BY DEF StreamAt
<1>5. ASSUME Len(t) > 0
      PROVE  /\ t[Len(t)] = p /\ c \in Pipelining
  <2>1. Len(t) \in 1..Len(s) - m /\ m + Len(t) = Len(s) /\ 1 \in 1..Len(s) - m
        /\ m + 1 \in 1..Len(s)
    BY <1>0, <1>2, <1>3, <1>5
  <2>2. t[Len(t)] = p
    BY <1>3, <1>4, <2>1
  <2>3. t[1] = <<a + 1, 1>>
    BY <1>1, <1>5 DEF Framed
  <2>4. s[m + 1][1] = a + 1
    BY <1>3, <2>1, <2>3
  <2>5. c \in Pipelining
    BY <2>1, <2>4 DEF StreamAt
  <2> QED BY <2>2, <2>5
<1>6. ASSUME ~(Len(t) > 0)
      PROVE  After(c, p) = <<a + 1, 1>> /\ Len(s) = m
  <2>1. Len(s) = m
    BY <1>0, <1>1, <1>3, <1>6
  <2>2. p = <<a, m>>
    BY <1>1, <1>4, <2>1
  <2>3. p[1] = a /\ p[2] = m /\ ~(m < m)
    BY <1>2, <2>2
  <2> QED BY <2>1, <2>3 DEF After, m
<1>7. c \notin Pipelining => \A i \in 1..Len(t) : t[i][1] <= a + 1
  BY <1>3, <1>5
<1>8. StreamAt(c, t, p, a + 1)
  BY <1>1, <1>5, <1>6, <1>7 DEF StreamAt
<1> QED BY <1>5, <1>6, <1>8 DEF t, m

(* u is the first n pieces of the body of request a. *)
IsBody(u, a, n) == u = [k \in 1..n |-> <<a, 2 + k>>]

(***************************************************************************)
(* The body cut out of c->buf is the body of the request whose turn it is. *)
(***************************************************************************)
LEMMA BodyCut ==
  ASSUME NEW c \in Clients, NEW g \in Seq(Pieces), NEW a \in Nat, NEW n \in Nat,
         n + 2 <= Len(g), n + 2 <= Size(c, a), Size(c, a) \in Nat,
         \A k \in 1..Len(g) : k <= Size(c, a) => g[k] = <<a, k>>
  PROVE  /\ SubSeq(g, 2 + 1, 2 + n) \in Seq(Pieces)
         /\ IsBody(SubSeq(g, 2 + 1, 2 + n), a, n)
<1> DEFINE u == SubSeq(g, 2 + 1, 2 + n)
           f == [k \in 1..n |-> <<a, 2 + k>>]
<1>0. Len(g) \in Nat /\ 2 + n <= Len(g)
  OBVIOUS
<1>1. u \in Seq(Pieces) /\ Len(u) = n /\ \A k \in 1..n : u[k] = g[2 + k]
  BY <1>0
<1>2. \A k \in 1..n : 2 + k \in 1..Len(g) /\ 2 + k <= Size(c, a)
  BY <1>0
<1>3. \A k \in 1..n : g[2 + k] = <<a, 2 + k>>
  BY <1>2
<1>4. DOMAIN u = 1..n /\ u = [k \in DOMAIN u |-> u[k]]
  BY <1>1
<1> HIDE DEF u
<1>5. \A k \in 1..n : u[k] = <<a, 2 + k>>
  BY <1>1, <1>3
<1>6. u = f
  BY <1>4, <1>5, Zenon
<1> QED BY <1>1, <1>6 DEF u, IsBody

-------------------------------------------------------------------------------
Turn(c) == Len(answers[c]) + 1

ConnOf(c) ==
  /\ StreamAt(c, buf[c] \o wire[c], written[c], Turn(c))
  /\ HeadAt(c, buf[c], head[c], Turn(c))

ConnInv == \A c \in Clients : st[c] # "closed" => ConnOf(c)

(* What poll reported is still open when its turn comes. *)
ReadyInv ==
  /\ pc = "tick" => ready = {}
  /\ pc = "accept" => ready \ {"listen"} \subseteq Open
  /\ pc = "serve" => ready \subseteq Open

Inv == TypeOK /\ IsFiniteSet(Open) /\ ReadyInv /\ ConnInv

Answer == [req : Nat, body : Seq(Pieces), status : Nat]

(***************************************************************************)
(* The types of one connection.                                            *)
(***************************************************************************)
LEMMA ConnTypes ==
  ASSUME TypeOK, NEW c \in Clients
  PROVE  /\ st[c] \in {"none", "backlog", "open", "closed"}
         /\ written[c] \in Pieces /\ wire[c] \in Seq(Pieces) /\ buf[c] \in Seq(Pieces)
         /\ answers[c] \in Seq(Answer) /\ Turn(c) \in Nat \ {0} /\ Len(answers[c]) \in Nat
         /\ head[c] \in [req : Nat, off : Nat] /\ idle[c] \in 0..IdleTimeout + 1
<1>1. answers[c] \in Seq(Answer)
  BY DEF TypeOK, Answer, Pieces
<1>2. Len(answers[c]) \in Nat
  BY <1>1
<1>3. Turn(c) \in Nat \ {0}
  BY <1>2 DEF Turn
<1> QED BY <1>1, <1>2, <1>3 DEF TypeOK, Pieces

(***************************************************************************)
(* What a recv finds: the buffer and the wire together are still in step,  *)
(* and a header that is done is the header of the request whose turn it    *)
(* is.                                                                     *)
(***************************************************************************)
LEMMA RecvFacts ==
  ASSUME Inv, NEW c \in Clients, NEW n \in 1..Len(wire[c]), Recv(c, n)
  PROVE  /\ st[c] = "open" /\ ready' \subseteq Open /\ c \notin ready'
         /\ Got(c, n) \in Seq(Pieces) /\ Len(Got(c, n)) \in Nat \ {0}
         /\ wire'[c] \in Seq(Pieces) /\ wire' \in [Clients -> Seq(Nat \X Nat)]
         /\ \A d \in Clients : d # c => wire'[d] = wire[d]
         /\ idle' \in [Clients -> 0..IdleTimeout + 1]
         /\ StreamAt(c, Got(c, n) \o wire'[c], written[c], Turn(c))
         /\ head[c] = NoHead /\ Blank(Got(c, n)) = 0 => Len(Got(c, n)) < 2
         /\ HeadersDone(c, Got(c, n)) =>
              /\ Parsed(c, Got(c, n)) = [req |-> Turn(c), off |-> 2]
              /\ Len(Got(c, n)) >= 2
              /\ Turn(c) \in 1..Len(Script[c])
              /\ Script[c][Turn(c)].kind # "malformed"
              /\ head[c] # NoHead => Script[c][Turn(c)].kind # "toolarge"
              /\ \A k \in 1..Len(Got(c, n)) :
                   k <= Size(c, Turn(c)) => Got(c, n)[k] = <<Turn(c), k>>
<1> DEFINE g == Got(c, n)
           a == Turn(c)
           v == SubSeq(wire[c], n + 1, Len(wire[c]))
<1>0. TypeOK /\ ReadyInv /\ ConnInv
  BY DEF Inv
<1>1. /\ wire[c] \in Seq(Pieces) /\ buf[c] \in Seq(Pieces) /\ a \in Nat \ {0}
      /\ Len(wire[c]) \in Nat /\ Len(buf[c]) \in Nat /\ n \in Nat \ {0}
  BY <1>0, ConnTypes
<1>2. st[c] = "open" /\ ready' \subseteq Open /\ c \notin ready'
  BY <1>0 DEF Recv, ReadyInv, Open
<1>3. /\ g \in Seq(Pieces) /\ v \in Seq(Pieces) /\ Len(g) = Len(buf[c]) + n
      /\ g \o v = buf[c] \o wire[c]
  <2> DEFINE b == buf[c]
             w == wire[c]
  <2>0. b \in Seq(Pieces) /\ w \in Seq(Pieces) /\ n \in 1..Len(w)
    BY <1>1
  <2> HIDE DEF b, w
  <2>1. /\ b \o SubSeq(w, 1, n) \in Seq(Pieces)
        /\ SubSeq(w, n + 1, Len(w)) \in Seq(Pieces)
        /\ Len(b \o SubSeq(w, 1, n)) = Len(b) + n
        /\ SameTogether(b \o SubSeq(w, 1, n), SubSeq(w, n + 1, Len(w)), b, w)
    BY <2>0, ConcatMoved, Zenon
  <2> QED BY <2>1 DEF Got, SameTogether, b, w
<1>4. /\ wire' = [wire EXCEPT ![c] = v]
      /\ idle' = [idle EXCEPT ![c] = 0]
  BY DEF Recv
<1> HIDE DEF v
<1>5. /\ wire' \in [Clients -> Seq(Nat \X Nat)] /\ wire'[c] = v
      /\ \A d \in Clients : d # c => wire'[d] = wire[d]
  BY <1>0, <1>3, <1>4 DEF TypeOK, Pieces
<1>6. idle' \in [Clients -> 0..IdleTimeout + 1]
  <2>1. 0 \in 0..IdleTimeout + 1
    BY HttpAssumption
  <2> QED BY <1>0, <1>4, <2>1 DEF TypeOK
<1>7. Len(g) \in Nat \ {0} /\ Len(g) > 0 /\ Len(g) >= Len(buf[c])
  BY <1>1, <1>3
<1>8. StreamAt(c, g \o v, written[c], a) /\ HeadAt(c, buf[c], head[c], a)
  <2>1. ConnOf(c)
    BY <1>0, <1>2 DEF ConnInv
  <2> QED BY <1>3, <2>1 DEF ConnOf
<1> HIDE DEF g, a
<1>9. /\ Blank(g) = IF Len(g) >= 2 THEN 2 ELSE 0
      /\ g[1] = <<a, 1>> /\ a \in 1..Len(Script[c])
      /\ \A k \in 1..Len(g) : k <= Size(c, a) => g[k] = <<a, k>>
  <2>1. Framed(c, g \o v, a) /\ a \in Nat
    BY <1>1, <1>8 DEF StreamAt
  <2>2. /\ Blank(g) = IF Len(g) >= 2 THEN 2 ELSE 0
        /\ Len(g) > 0 => g[1] = <<a, 1>> /\ a \in 1..Len(Script[c])
        /\ \A k \in 1..Len(g) : k <= Size(c, a) => g[k] = <<a, k>>
    BY <1>3, <2>1, Prefix
  <2> QED BY <1>7, <2>2
<1>10. head[c] = NoHead /\ Blank(g) = 0 => Len(g) < 2
  BY <1>7, <1>9
<1>11. g[1][1] = a /\ g[1][2] = 1
  BY <1>9
<1>12. ASSUME HeadersDone(c, g)
       PROVE  /\ Parsed(c, g) = [req |-> a, off |-> 2]
              /\ Len(g) >= 2
              /\ Script[c][a].kind # "malformed"
              /\ head[c] # NoHead => Script[c][a].kind # "toolarge"
  <2>1. CASE head[c] = NoHead
    <3>1. Blank(g) # 0 /\ ~Malformed(c, g)
      BY <1>12, <2>1 DEF HeadersDone
    <3>2. Len(g) >= 2 /\ Blank(g) = 2
      BY <1>9, <3>1
    <3>3. Script[c][a].kind # "malformed"
      BY <1>11, <2>1, <3>1 DEF Malformed
    <3>4. Parsed(c, g) = [req |-> a, off |-> 2]
      BY <1>11, <2>1, <3>2 DEF Parsed
    <3> QED BY <2>1, <3>2, <3>3, <3>4
  <2>2. CASE head[c] # NoHead
    <3>1. /\ head[c] = [req |-> a, off |-> 2] /\ Len(buf[c]) >= 2
          /\ Of(c, head[c]).kind \notin {"toolarge", "malformed"}
      BY <1>8, <2>2 DEF HeadAt, HeaderLen
    <3>2. Of(c, head[c]) = Script[c][a]
      BY <3>1 DEF Of
    <3>3. Len(g) >= 2
      BY <1>1, <1>7, <3>1
    <3>4. Parsed(c, g) = head[c]
      BY <2>2 DEF Parsed
    <3> QED BY <3>1, <3>2, <3>3, <3>4
  <2> QED BY <2>1, <2>2
<1>13. StreamAt(c, g \o wire'[c], written[c], a) /\ wire'[c] \in Seq(Pieces)
  BY <1>3, <1>5, <1>8
<1> QED BY <1>2, <1>3, <1>5, <1>6, <1>7, <1>9, <1>10, <1>12, <1>13 DEF g, a

(***************************************************************************)
(* A connection of which a step leaves all the data.                       *)
(***************************************************************************)
LEMMA Unmoved ==
  ASSUME NEW c \in Clients, ConnOf(c), buf'[c] = buf[c], wire'[c] = wire[c],
         head'[c] = head[c], written'[c] = written[c], answers'[c] = answers[c]
  PROVE  ConnOf(c)'
BY DEF ConnOf, Turn

(***************************************************************************)
(* Closing connections keeps the bound on the number of open ones.         *)
(***************************************************************************)
LEMMA OpenShrinks ==
  ASSUME Inv, Open' \subseteq Open
  PROVE  IsFiniteSet(Open') /\ Cardinality(Open') <= MaxConns
<1>1. IsFiniteSet(Open) /\ Cardinality(Open) <= MaxConns
  BY DEF Inv, TypeOK
<1>2. IsFiniteSet(Open') /\ Cardinality(Open') <= Cardinality(Open)
  BY <1>1, FS_Subset
<1>3. Cardinality(Open) \in Nat /\ Cardinality(Open') \in Nat /\ MaxConns \in Nat
  BY <1>1, <1>2, FS_CardinalityType, HttpAssumption
<1> QED BY <1>1, <1>2, <1>3

(***************************************************************************)
(* The clients and the clock.                                              *)
(***************************************************************************)
LEMMA ClientStep ==
  ASSUME Inv, Second \/ \E c \in Clients : Connect(c) \/ Send(c) \/ Leave(c)
  PROVE  Inv'
<1>0. TypeOK /\ ReadyInv /\ ConnInv
  BY DEF Inv
<1>1. CASE Second
  <2>1. /\ UNCHANGED <<pc, ready, st, buf, head, answers, peer, written, wire>>
    BY <1>1 DEF Second, net
  <2>2. idle' \in [Clients -> 0..IdleTimeout + 1]
    <3>1. \A c \in Clients : idle[c] \in 0..IdleTimeout + 1
      BY <1>0, ConnTypes
    <3>2. \A k \in 0..IdleTimeout + 1 : k <= IdleTimeout => k + 1 \in 0..IdleTimeout + 1
      BY HttpAssumption
    <3> QED BY <1>1, <3>1, <3>2 DEF Second
  <2>3. Open' = Open
    BY <2>1 DEF Open
  <2>4. IsFiniteSet(Open)' /\ Cardinality(Open') <= MaxConns
    BY <2>3, OpenShrinks
  <2>5. TypeOK'
    BY <1>0, <2>1, <2>2, <2>4 DEF TypeOK
  <2>6. ReadyInv'
    BY <1>0, <2>1, <2>3 DEF ReadyInv
  <2>7. ConnInv'
    BY <1>0, <2>1, Unmoved DEF ConnInv
  <2> QED BY <2>4, <2>5, <2>6, <2>7 DEF Inv
<1>2. ASSUME NEW c \in Clients, Connect(c) PROVE Inv'
  <2>1. /\ UNCHANGED <<pc, ready, idle, buf, head, answers, peer, written, wire>>
        /\ st' = [st EXCEPT ![c] = "backlog"] /\ st[c] = "none"
    BY <1>2 DEF Connect, net
  <2>2. /\ st' \in [Clients -> {"none", "backlog", "open", "closed"}]
        /\ \A d \in Clients : st'[d] = "open" <=> st[d] = "open"
        /\ \A d \in Clients : st'[d] = "closed" <=> st[d] = "closed"
    BY <1>0, <2>1 DEF TypeOK
  <2>3. Open' = Open
    BY <2>2 DEF Open
  <2>4. IsFiniteSet(Open)' /\ Cardinality(Open') <= MaxConns
    BY <2>3, OpenShrinks
  <2>5. TypeOK'
    BY <1>0, <2>1, <2>2, <2>4 DEF TypeOK
  <2>6. ReadyInv'
    BY <1>0, <2>1, <2>3 DEF ReadyInv
  <2>7. ConnInv'
    BY <1>0, <2>1, <2>2, Unmoved DEF ConnInv
  <2> QED BY <2>4, <2>5, <2>6, <2>7 DEF Inv
<1>3. ASSUME NEW c \in Clients, Leave(c) PROVE Inv'
  <2>1. UNCHANGED <<pc, ready, st, idle, buf, head, answers, written, wire>>
    BY <1>3 DEF Leave, conns
  <2>2. peer' \in [Clients -> {"up", "fin", "reset", "dead"}]
    BY <1>0, <1>3 DEF TypeOK, Leave
  <2>3. Open' = Open
    BY <2>1 DEF Open
  <2>4. IsFiniteSet(Open)' /\ Cardinality(Open') <= MaxConns
    BY <2>3, OpenShrinks
  <2>5. TypeOK'
    BY <1>0, <2>1, <2>2, <2>4 DEF TypeOK
  <2>6. ReadyInv'
    BY <1>0, <2>1, <2>3 DEF ReadyInv
  <2>7. ConnInv'
    BY <1>0, <2>1, Unmoved DEF ConnInv
  <2> QED BY <2>4, <2>5, <2>6, <2>7 DEF Inv
<1>4. ASSUME NEW c \in Clients, Send(c) PROVE Inv'
  <2> DEFINE p == After(c, written[c])
  <2>0. NextPiece(c) = p
    BY DEF NextPiece, After, Size
  <2>1. /\ UNCHANGED <<pc, ready, st, idle, buf, head, answers, peer>>
        /\ written' = [written EXCEPT ![c] = p]
        /\ wire' = [wire EXCEPT ![c] = Append(wire[c], p)]
        /\ st[c] # "closed" /\ p[1] <= Len(Script[c])
        /\ c \notin Pipelining => p[1] <= Turn(c)
    BY <1>4, <2>0 DEF Send, conns, Turn
  <2>2. /\ written[c] \in Pieces /\ wire[c] \in Seq(Pieces) /\ buf[c] \in Seq(Pieces)
        /\ Turn(c) \in Nat \ {0}
    BY <1>0, ConnTypes
  <2>3. ConnOf(c)
    BY <1>0, <2>1 DEF ConnInv
  <2> HIDE DEF p
  <2>4. buf[c] \o wire[c] \in Seq(Pieces)
    BY <2>2, ConcatFacts
  <2>5. p \in Pieces /\ StreamAt(c, Append(buf[c] \o wire[c], p), p, Turn(c))
    BY <2>1, <2>2, <2>3, <2>4, StreamSend DEF ConnOf, p
  <2>6. buf[c] \o Append(wire[c], p) = Append(buf[c] \o wire[c], p)
    <3> DEFINE b == buf[c]
               w == wire[c]
    <3>1. b \in Seq(Pieces) /\ w \in Seq(Pieces)
      BY <2>2
    <3> HIDE DEF b, w
    <3>2. b \o Append(w, p) = Append(b \o w, p)
      BY <2>5, <3>1, ConcatAppend
    <3> QED BY <3>2 DEF b, w
  <2>7. /\ written' \in [Clients -> Nat \X Nat] /\ wire' \in [Clients -> Seq(Nat \X Nat)]
        /\ written'[c] = p /\ wire'[c] = Append(wire[c], p)
        /\ \A d \in Clients : d # c => written'[d] = written[d] /\ wire'[d] = wire[d]
    <3>1. Append(wire[c], p) \in Seq(Pieces)
      BY <2>2, <2>5, AppendFacts
    <3> QED BY <1>0, <2>1, <2>5, <3>1 DEF TypeOK, Pieces
  <2>8. ConnOf(c)'
    BY <2>1, <2>3, <2>5, <2>6, <2>7 DEF ConnOf, Turn
  <2>9. Open' = Open
    BY <2>1 DEF Open
  <2>10. IsFiniteSet(Open)' /\ Cardinality(Open') <= MaxConns
    BY <2>9, OpenShrinks
  <2>11. TypeOK'
    BY <1>0, <2>1, <2>7, <2>10 DEF TypeOK
  <2>12. ReadyInv'
    BY <1>0, <2>1, <2>9 DEF ReadyInv
  <2>13. ASSUME NEW d \in Clients, st'[d] # "closed", d # c PROVE ConnOf(d)'
    BY <1>0, <2>1, <2>7, <2>13, Unmoved DEF ConnInv
  <2>14. ConnInv'
    BY <2>8, <2>13 DEF ConnInv
  <2> QED BY <2>10, <2>11, <2>12, <2>14 DEF Inv
<1> QED BY <1>1, <1>2, <1>3, <1>4

(***************************************************************************)
(* poll, the accept loop and the reaper.                                   *)
(***************************************************************************)
LEMMA TickStep ==
  ASSUME Inv, Poll \/ AcceptDone \/ Reap \/ \E c \in Clients : Accept(c)
  PROVE  Inv'
<1>0. TypeOK /\ ReadyInv /\ ConnInv
  BY DEF Inv
<1>1. CASE Poll \/ AcceptDone
  <2>1. UNCHANGED <<st, idle, buf, head, answers, peer, written, wire>>
    BY <1>1 DEF Poll, AcceptDone, conns, net
  <2>2. Open' = Open
    BY <2>1 DEF Open
  <2>3. /\ ready' \subseteq Clients \cup {"listen"} /\ pc' \in {"tick", "accept", "serve"}
        /\ ReadyInv'
    <3>1. CASE Poll
      <4>1. pc' = "accept" /\ ready' \ {"listen"} \subseteq Open
        BY <3>1 DEF Poll
      <4>2. ready' \subseteq Clients \cup {"listen"}
        BY <4>1 DEF Open
      <4> QED BY <2>2, <4>1, <4>2 DEF ReadyInv
    <3>2. CASE AcceptDone
      <4>1. pc' = "serve" /\ ready' \subseteq Open
        BY <1>0, <3>2 DEF AcceptDone, ReadyInv
      <4>2. ready' \subseteq Clients \cup {"listen"}
        BY <4>1 DEF Open
      <4> QED BY <2>2, <4>1, <4>2 DEF ReadyInv
    <3> QED BY <1>1, <3>1, <3>2
  <2>4. IsFiniteSet(Open)' /\ Cardinality(Open') <= MaxConns
    BY <2>2, OpenShrinks
  <2>5. TypeOK'
    BY <1>0, <2>1, <2>3, <2>4 DEF TypeOK
  <2>6. ConnInv'
    BY <1>0, <2>1, Unmoved DEF ConnInv
  <2> QED BY <2>3, <2>4, <2>5, <2>6 DEF Inv
<1>2. CASE Reap
  <2>1. /\ pc' = "tick" /\ ready' = {}
        /\ UNCHANGED <<idle, answers, peer, written, wire>>
        /\ st' = [c \in Clients |-> IF c \in Overdue THEN "closed" ELSE st[c]]
        /\ buf' = [c \in Clients |-> IF c \in Overdue THEN <<>> ELSE buf[c]]
        /\ head' = [c \in Clients |-> IF c \in Overdue THEN NoHead ELSE head[c]]
    BY <1>2 DEF Reap, Reset, net
  <2>2. /\ st' \in [Clients -> {"none", "backlog", "open", "closed"}]
        /\ \A d \in Clients : st'[d] = "open" => st[d] = "open"
        /\ \A d \in Clients : st'[d] # "closed" =>
             st[d] # "closed" /\ buf'[d] = buf[d] /\ head'[d] = head[d]
    BY <1>0, <2>1 DEF TypeOK
  <2>3. Open' \subseteq Open
    BY <2>2 DEF Open
  <2>4. IsFiniteSet(Open)' /\ Cardinality(Open') <= MaxConns
    BY <2>3, OpenShrinks
  <2>5. buf' \in [Clients -> Seq(Nat \X Nat)]
    <3>1. <<>> \in Seq(Nat \X Nat)
      OBVIOUS
    <3>2. \A c \in Clients : buf[c] \in Seq(Nat \X Nat)
      BY <1>0 DEF TypeOK
    <3> QED BY <2>1, <3>1, <3>2, Zenon
  <2>6. head' \in [Clients -> [req : Nat, off : Nat]]
    <3>1. NoHead \in [req : Nat, off : Nat]
      BY DEF NoHead
    <3>2. \A c \in Clients : head[c] \in [req : Nat, off : Nat]
      BY <1>0 DEF TypeOK
    <3> QED BY <2>1, <3>1, <3>2, Zenon
  <2>7. TypeOK'
    BY <1>0, <2>1, <2>2, <2>4, <2>5, <2>6 DEF TypeOK
  <2>8. ReadyInv'
    BY <2>1 DEF ReadyInv
  <2>9. ConnInv'
    BY <1>0, <2>1, <2>2, Unmoved DEF ConnInv
  <2> QED BY <2>4, <2>7, <2>8, <2>9 DEF Inv
<1>3. ASSUME NEW c \in Clients, Accept(c) PROVE Inv'
  <2>1. /\ UNCHANGED <<pc, ready, buf, head, answers, peer, written, wire>>
        /\ pc = "accept" /\ st[c] = "backlog"
        /\ st' = [st EXCEPT ![c] =
                    IF Cardinality(Open) < MaxConns THEN "open" ELSE "closed"]
        /\ idle' = [idle EXCEPT ![c] = 0]
    BY <1>3 DEF Accept, net
  <2>2. /\ st' \in [Clients -> {"none", "backlog", "open", "closed"}]
        /\ \A d \in Clients : d # c => st'[d] = st[d]
        /\ st'[c] = IF Cardinality(Open) < MaxConns THEN "open" ELSE "closed"
    BY <1>0, <2>1 DEF TypeOK
  <2>3. idle' \in [Clients -> 0..IdleTimeout + 1]
    <3>1. 0 \in 0..IdleTimeout + 1
      BY HttpAssumption
    <3> QED BY <1>0, <2>1, <3>1 DEF TypeOK
  <2>4. Open \subseteq Open'
    BY <2>1, <2>2 DEF Open
  <2>5. IsFiniteSet(Open)' /\ Cardinality(Open') <= MaxConns
    <3>1. CASE Cardinality(Open) < MaxConns
      <4>1. Open' = Open \cup {c} /\ c \notin Open
        BY <2>1, <2>2, <3>1 DEF Open
      <4>2. IsFiniteSet(Open)
        BY DEF Inv
      <4>3. IsFiniteSet(Open') /\ Cardinality(Open') = Cardinality(Open) + 1
        BY <4>1, <4>2, FS_AddElement
      <4>4. Cardinality(Open) \in Nat /\ MaxConns \in Nat
        BY <4>2, FS_CardinalityType, HttpAssumption
      <4> QED BY <3>1, <4>3, <4>4
    <3>2. CASE ~(Cardinality(Open) < MaxConns)
      <4>1. Open' \subseteq Open
        BY <2>1, <2>2, <3>2 DEF Open
      <4> QED BY <4>1, OpenShrinks
    <3> QED BY <3>1, <3>2
  <2>6. TypeOK'
    BY <1>0, <2>1, <2>2, <2>3, <2>5 DEF TypeOK
  <2>7. ReadyInv'
    BY <1>0, <2>1, <2>4 DEF ReadyInv
  <2>8. ASSUME NEW d \in Clients, st'[d] # "closed" PROVE ConnOf(d)'
    <3>1. st[d] # "closed"
      BY <2>1, <2>2, <2>8
    <3> QED BY <1>0, <2>1, <3>1, Unmoved DEF ConnInv
  <2> QED BY <2>5, <2>6, <2>7, <2>8 DEF Inv, ConnInv
<1> QED BY <1>1, <1>2, <1>3

(***************************************************************************)
(* conn_service touches one connection: if that one is closed or still in  *)
(* step, all is well.                                                      *)
(***************************************************************************)
LEMMA OneConn ==
  ASSUME Inv, NEW c \in Clients, st[c] = "open", pc = "serve",
         UNCHANGED <<pc, peer, written>>, ready' \subseteq Open, c \notin ready',
         st' \in [Clients -> {"none", "backlog", "open", "closed"}],
         wire' \in [Clients -> Seq(Nat \X Nat)], buf' \in [Clients -> Seq(Nat \X Nat)],
         head' \in [Clients -> [req : Nat, off : Nat]],
         idle' \in [Clients -> 0..IdleTimeout + 1], answers' \in [Clients -> Seq(Answer)],
         \A d \in Clients : d # c =>
           /\ st'[d] = st[d] /\ wire'[d] = wire[d] /\ buf'[d] = buf[d]
           /\ head'[d] = head[d] /\ answers'[d] = answers[d],
         st'[c] # "closed" => ConnOf(c)'
  PROVE  Inv'
<1>0. TypeOK /\ ReadyInv /\ ConnInv
  BY DEF Inv
<1>1. Open' \subseteq Open
  BY DEF Open
<1>2. IsFiniteSet(Open)' /\ Cardinality(Open') <= MaxConns
  BY <1>1, OpenShrinks
<1>3. ready' \subseteq Open'
  BY DEF Open
<1>4. ReadyInv'
  BY <1>3 DEF ReadyInv
<1>5. ready' \subseteq Clients \cup {"listen"}
  BY DEF Open
<1>6. TypeOK'
  BY <1>0, <1>2, <1>5 DEF TypeOK, Answer, Pieces
<1>7. ASSUME NEW d \in Clients, d # c, st'[d] # "closed" PROVE ConnOf(d)'
  BY <1>0, <1>7, Unmoved DEF ConnInv
<1>8. ConnInv'
  BY <1>7 DEF ConnInv
<1> QED BY <1>2, <1>4, <1>6, <1>8 DEF Inv

(***************************************************************************)
(* conn_reset closes one connection and forgets its buffer and header.     *)
(***************************************************************************)
LEMMA ResetOne ==
  ASSUME TypeOK, NEW c \in Clients, Reset({c})
  PROVE  /\ st' \in [Clients -> {"none", "backlog", "open", "closed"}] /\ st'[c] = "closed"
         /\ buf' \in [Clients -> Seq(Nat \X Nat)]
         /\ head' \in [Clients -> [req : Nat, off : Nat]]
         /\ \A d \in Clients : d # c => st'[d] = st[d] /\ buf'[d] = buf[d] /\ head'[d] = head[d]
<1>1. <<>> \in Seq(Nat \X Nat) /\ NoHead \in [req : Nat, off : Nat]
  BY DEF NoHead
<1>2. /\ \A d \in Clients : buf[d] \in Seq(Nat \X Nat)
      /\ \A d \in Clients : head[d] \in [req : Nat, off : Nat]
      /\ \A d \in Clients : st[d] \in {"none", "backlog", "open", "closed"}
  BY DEF TypeOK
<1>3. /\ st' = [d \in Clients |-> IF d \in {c} THEN "closed" ELSE st[d]]
      /\ buf' = [d \in Clients |-> IF d \in {c} THEN <<>> ELSE buf[d]]
      /\ head' = [d \in Clients |-> IF d \in {c} THEN NoHead ELSE head[d]]
  BY DEF Reset
<1>4. st' \in [Clients -> {"none", "backlog", "open", "closed"}] /\ st'[c] = "closed"
  BY <1>2, <1>3
<1>5. buf' \in [Clients -> Seq(Nat \X Nat)]
  BY <1>1, <1>2, <1>3, Zenon
<1>6. head' \in [Clients -> [req : Nat, off : Nat]]
  BY <1>1, <1>2, <1>3, Zenon
<1> QED BY <1>3, <1>4, <1>5, <1>6

(***************************************************************************)
(* One more answer, for the request whose turn it was.                     *)
(***************************************************************************)
LEMMA Answered ==
  ASSUME TypeOK, NEW c \in Clients, NEW h, NEW body \in Seq(Pieces), NEW status \in Nat,
         Respond(c, h, body, status), h.req = Turn(c),
         status # 413 => IsBody(body, Turn(c), ContentLength(c, h))
  PROVE  /\ answers' \in [Clients -> Seq(Answer)]
         /\ Len(answers'[c]) = Turn(c)
         /\ \A d \in Clients : d # c => answers'[d] = answers[d]
         /\ AnswersMatchRequests => AnswersMatchRequests'
<1> DEFINE x == [req |-> h.req, body |-> body, status |-> status]
<1>1. answers' = [answers EXCEPT ![c] = Append(answers[c], x)]
  BY DEF Respond
<1>2. h.req = Turn(c) /\ Turn(c) \in Nat /\ answers[c] \in Seq(Answer)
  BY ConnTypes
<1>3. x \in Answer
  BY <1>2 DEF Answer
<1>4. x.req = Turn(c) /\ x.body = body /\ x.status = status
  BY <1>2
<1>5. ContentLength(c, x) = ContentLength(c, h)
  BY <1>2, <1>4 DEF ContentLength, Of
<1>6. AnswerTo(c, Turn(c), x)
  BY <1>4, <1>5 DEF AnswerTo, HeaderLen, IsBody
<1> HIDE DEF x
<1>7. /\ Append(answers[c], x) \in Seq(Answer)
      /\ Len(Append(answers[c], x)) = Turn(c)
      /\ \A i \in 1..Len(answers[c]) : Append(answers[c], x)[i] = answers[c][i]
      /\ Append(answers[c], x)[Turn(c)] = x
      /\ \A i \in DOMAIN Append(answers[c], x) : i \in 1..Len(answers[c]) \/ i = Turn(c)
      /\ DOMAIN answers[c] = 1..Len(answers[c])
  BY <1>2, <1>3, AppendFacts DEF Turn
<1>8. answers \in [Clients -> Seq(Answer)]
  BY DEF TypeOK, Answer, Pieces
<1>9. /\ answers' \in [Clients -> Seq(Answer)]
      /\ answers'[c] = Append(answers[c], x)
      /\ \A d \in Clients : d # c => answers'[d] = answers[d]
  BY <1>1, <1>7, <1>8
<1>10. ASSUME AnswersMatchRequests, NEW d \in Clients, NEW i \in DOMAIN answers'[d]
       PROVE  AnswerTo(d, i, answers'[d][i])
  <2>1. ASSUME NEW e \in Clients, NEW j \in DOMAIN answers[e] PROVE AnswerTo(e, j, answers[e][j])
    BY <1>10 DEF AnswersMatchRequests
  <2>2. CASE d # c
    BY <1>9, <2>1, <2>2
  <2>3. CASE d = c /\ i \in 1..Len(answers[c])
    BY <1>7, <1>9, <2>1, <2>3
  <2>4. CASE d = c /\ i = Turn(c)
    BY <1>6, <1>7, <1>9, <2>4
  <2> QED BY <1>7, <1>9, <2>2, <2>3, <2>4
<1>11. AnswersMatchRequests => AnswersMatchRequests'
  BY <1>10 DEF AnswersMatchRequests
<1> QED BY <1>7, <1>9, <1>11

(***************************************************************************)
(* The answers already sent stay right.                                    *)
(***************************************************************************)
LEMMA AnswersKeep ==
  ASSUME UNCHANGED answers
  PROVE  AnswersMatchRequests => AnswersMatchRequests'
BY DEF AnswersMatchRequests

(***************************************************************************)
(* What is carried over starts the next request, and a client that waits   *)
(* has nothing carried over.                                               *)
(***************************************************************************)
LEMMA Carried ==
  ASSUME NEW c \in Clients, NEW g \in Seq(Pieces), NEW v \in Seq(Pieces), NEW p \in Pieces,
         NEW a \in Nat \ {0}, StreamAt(c, g \o v, p, a), Size(c, a) \in Nat,
         Len(g) > 0, Len(g) >= Size(c, a)
  PROVE  /\ SubSeq(g, Size(c, a) + 1, Len(g)) \in Seq(Pieces)
         /\ StreamAt(c, SubSeq(g, Size(c, a) + 1, Len(g)) \o v, p, a + 1)
         /\ HeadAt(c, SubSeq(g, Size(c, a) + 1, Len(g)), NoHead, a + 1)
<1> DEFINE m == Size(c, a)
           u == SubSeq(g, m + 1, Len(g))
           s == g \o v
<1>1. /\ Len(g) \in Nat /\ Len(v) \in Nat /\ s \in Seq(Pieces) /\ Len(s) = Len(g) + Len(v)
  BY ConcatFacts
<1> HIDE DEF m
<1>2. m \in Nat /\ m <= Len(g) /\ m \in 0..Len(g)
  BY <1>1 DEF m
<1>3. u \in Seq(Pieces) /\ Len(u) = Len(g) - m
  BY <1>2, SeqFacts
<1>4. u \o v = SubSeq(s, m + 1, Len(s))
  BY <1>2, ConcatSuffix
<1> HIDE DEF u, s
<1>5. Len(s) > 0 /\ m <= Len(s)
  BY <1>1, <1>2
<1>6. /\ StreamAt(c, SubSeq(s, m + 1, Len(s)), p, a + 1)
      /\ c \notin Pipelining => Len(s) = m
  BY <1>1, <1>5, StreamCarry DEF m, s
<1>7. c \notin Pipelining => Len(u) < 2
  BY <1>1, <1>2, <1>3, <1>6
<1>8. HeadAt(c, u, NoHead, a + 1)
  BY <1>7 DEF HeadAt, HeaderLen
<1>9. StreamAt(c, u \o v, p, a + 1)
  BY <1>4, <1>6
<1> QED BY <1>3, <1>8, <1>9 DEF u, m

(***************************************************************************)
(* Each outcome of conn_service.                                           *)
(***************************************************************************)
LEMMA ServeStep ==
  ASSUME Inv, NEW c \in Clients, Serve(c)
  PROVE  Inv' /\ (AnswersMatchRequests => AnswersMatchRequests')
<1>0. TypeOK /\ ReadyInv /\ ConnInv
  BY DEF Inv
<1>1. /\ answers \in [Clients -> Seq(Answer)] /\ written[c] \in Pieces
      /\ Turn(c) \in Nat \ {0} /\ head[c] \in [req : Nat, off : Nat]
  BY <1>0, ConnTypes DEF TypeOK, Answer, Pieces
<1>2. CASE ServeGone(c)
  <2>1. /\ pc = "serve" /\ c \in ready /\ ready' = ready \ {c} /\ Reset({c})
        /\ UNCHANGED <<pc, idle, answers, peer, written, wire>>
    BY <1>2 DEF ServeGone, net
  <2>2. st[c] = "open" /\ ready' \subseteq Open /\ c \notin ready'
    BY <1>0, <2>1 DEF ReadyInv, Open
  <2>3. Inv'
    BY <1>0, <1>1, <2>1, <2>2, ResetOne, OneConn DEF TypeOK
  <2> QED BY <2>1, <2>3, AnswersKeep
<1>3. ASSUME NEW n \in 1..Len(wire[c]),
             \/ RecvHeaderPart(c, n) \/ RecvMalformed(c, n) \/ RecvTooLarge(c, n)
             \/ RecvBodyPart(c, n) \/ RecvRequest(c, n)
      PROVE  Inv' /\ (AnswersMatchRequests => AnswersMatchRequests')
  <2> DEFINE got == Got(c, n)
             h == Parsed(c, got)
             a == Turn(c)
  <2>0. Recv(c, n) /\ pc = "serve" /\ UNCHANGED <<pc, peer, written>>
    BY <1>3 DEF RecvHeaderPart, RecvMalformed, RecvTooLarge, RecvBodyPart, RecvRequest, Recv
  <2>1. /\ st[c] = "open" /\ ready' \subseteq Open /\ c \notin ready'
        /\ got \in Seq(Pieces) /\ Len(got) \in Nat \ {0}
        /\ wire'[c] \in Seq(Pieces) /\ wire' \in [Clients -> Seq(Nat \X Nat)]
        /\ \A d \in Clients : d # c => wire'[d] = wire[d]
        /\ idle' \in [Clients -> 0..IdleTimeout + 1]
        /\ StreamAt(c, got \o wire'[c], written[c], a)
        /\ head[c] = NoHead /\ Blank(got) = 0 => Len(got) < 2
    BY <2>0, RecvFacts
  <2>2. ASSUME HeadersDone(c, got)
        PROVE  /\ h = [req |-> a, off |-> 2] /\ Len(got) >= 2 /\ a \in 1..Len(Script[c])
               /\ Of(c, h) = Script[c][a] /\ Script[c][a].kind # "malformed"
               /\ head[c] # NoHead => Script[c][a].kind # "toolarge"
               /\ \A k \in 1..Len(got) : k <= Size(c, a) => got[k] = <<a, k>>
               /\ ContentLength(c, h) \in Nat /\ Size(c, a) \in Nat
               /\ ContentLength(c, h) + 2 <= Size(c, a)
               /\ KeepAlive(c, h) => ContentLength(c, h) + 2 = Size(c, a)
    <3>1. /\ h = [req |-> a, off |-> 2] /\ Len(got) >= 2 /\ a \in 1..Len(Script[c])
          /\ Script[c][a].kind # "malformed"
          /\ head[c] # NoHead => Script[c][a].kind # "toolarge"
          /\ \A k \in 1..Len(got) : k <= Size(c, a) => got[k] = <<a, k>>
      BY <2>0, <2>2, RecvFacts
    <3> HIDE DEF h, got, a
    <3>2. Of(c, h) = Script[c][a]
      BY <3>1 DEF Of
    <3>3. Script[c][a].body \in Nat /\ Size(c, a) = 2 + Script[c][a].body
      BY <3>1, Sizes DEF Size, HeaderLen
    <3>4. ContentLength(c, h) = IF Script[c][a].kind = "get" THEN 0 ELSE Script[c][a].body
      BY <3>2 DEF ContentLength
    <3>5. KeepAlive(c, h) => Script[c][a].kind # "get"
      BY <3>2 DEF KeepAlive
    <3> QED BY <3>1, <3>2, <3>3, <3>4, <3>5
  <2> HIDE DEF h, got, a
  <2>3. a \in Nat \ {0} /\ a = Turn(c)
    BY <1>1 DEF a
  <2>4. CASE RecvHeaderPart(c, n)
    <3>1. /\ head[c] = NoHead /\ Blank(got) = 0
          /\ buf' = [buf EXCEPT ![c] = got] /\ UNCHANGED <<st, head, answers>>
      BY <2>4 DEF RecvHeaderPart, got
    <3>2. /\ buf' \in [Clients -> Seq(Nat \X Nat)] /\ buf'[c] = got
          /\ \A d \in Clients : d # c => buf'[d] = buf[d]
      BY <1>0, <2>1, <3>1 DEF TypeOK, Pieces
    <3>3. HeadAt(c, got, NoHead, a)
      BY <2>1, <3>1 DEF HeadAt, HeaderLen
    <3>4. ConnOf(c)'
      BY <2>0, <2>1, <2>3, <3>1, <3>2, <3>3 DEF ConnOf, Turn
    <3>5. Inv'
      BY <1>0, <1>1, <2>0, <2>1, <3>1, <3>2, <3>4, OneConn DEF TypeOK
    <3> QED BY <3>1, <3>5, AnswersKeep
  <2>5. CASE RecvMalformed(c, n)
    <3>1. Reset({c}) /\ UNCHANGED answers
      BY <2>5 DEF RecvMalformed
    <3>2. Inv'
      BY <1>0, <1>1, <2>0, <2>1, <3>1, ResetOne, OneConn
    <3> QED BY <3>1, <3>2, AnswersKeep
  <2>6. CASE RecvTooLarge(c, n)
    <3>1. HeadersDone(c, got) /\ Respond(c, h, <<>>, 413) /\ Reset({c})
      BY <2>6 DEF RecvTooLarge, got, h
    <3>2. h = [req |-> Turn(c), off |-> 2]
      BY <2>2, <2>3, <3>1
    <3> DEFINE body == <<>>
               status == 413
    <3>3. /\ body \in Seq(Pieces) /\ status \in Nat /\ Respond(c, h, body, status)
          /\ status # 413 => IsBody(body, Turn(c), ContentLength(c, h))
          /\ h.req = Turn(c)
      BY <3>1, <3>2
    <3> HIDE DEF body, status
    <3>4. /\ answers' \in [Clients -> Seq(Answer)]
          /\ Len(answers'[c]) = Turn(c)
          /\ \A d \in Clients : d # c => answers'[d] = answers[d]
          /\ AnswersMatchRequests => AnswersMatchRequests'
      BY <1>0, <3>3, Answered, Zenon
    <3>5. Inv'
      BY <1>0, <2>0, <2>1, <3>1, <3>4, ResetOne, OneConn
    <3> QED BY <3>4, <3>5
  <2>7. CASE RecvBodyPart(c, n)
    <3>1. /\ HeadersDone(c, got) /\ Of(c, h).kind # "toolarge" /\ BodyMissing(c, got, h)
          /\ buf' = [buf EXCEPT ![c] = got] /\ head' = [head EXCEPT ![c] = h]
          /\ UNCHANGED <<st, answers>>
      BY <2>7 DEF RecvBodyPart, got, h
    <3>2. /\ h = [req |-> a, off |-> 2] /\ Len(got) >= 2 /\ a \in 1..Len(Script[c])
          /\ Of(c, h).kind \notin {"toolarge", "malformed"}
          /\ ContentLength(c, h) \in Nat
      BY <2>2, <3>1
    <3>3. /\ buf' \in [Clients -> Seq(Nat \X Nat)] /\ buf'[c] = got
          /\ \A d \in Clients : d # c => buf'[d] = buf[d]
      BY <1>0, <2>1, <3>1 DEF TypeOK, Pieces
    <3>4. h \in [req : Nat, off : Nat] /\ h.off = 2
      BY <2>3, <3>2
    <3>5. /\ head' \in [Clients -> [req : Nat, off : Nat]] /\ head'[c] = h
          /\ \A d \in Clients : d # c => head'[d] = head[d]
      BY <1>0, <3>1, <3>4 DEF TypeOK
    <3>6. Len(got) < 2 + ContentLength(c, h)
      <4>1. Len(got) - 2 < ContentLength(c, h)
        BY <3>1, <3>4 DEF BodyMissing
      <4> QED BY <2>1, <3>2, <4>1
    <3>7. h # NoHead
      BY <2>3, <3>2 DEF NoHead
    <3>8. HeadAt(c, got, h, a)
      BY <3>2, <3>6, <3>7 DEF HeadAt, HeaderLen
    <3>9. ConnOf(c)'
      BY <2>0, <2>1, <2>3, <3>1, <3>3, <3>5, <3>8 DEF ConnOf, Turn
    <3>10. st' \in [Clients -> {"none", "backlog", "open", "closed"}]
      BY <1>0, <3>1 DEF TypeOK
    <3>11. Inv'
      BY <1>0, <1>1, <2>0, <2>1, <3>1, <3>3, <3>5, <3>9, <3>10, OneConn
    <3> QED BY <3>1, <3>11, AnswersKeep
  <2>8. CASE RecvRequest(c, n)
    <3>1. /\ HeadersDone(c, got) /\ ~BodyMissing(c, got, h)
          /\ Respond(c, h, Body(c, got, h), Status(c, h))
          /\ \/ KeepAlive(c, h) /\ Carry(c, got, h)
             \/ ~KeepAlive(c, h) /\ Reset({c})
      BY <2>8 DEF RecvRequest, got, h
    <3>2. /\ h = [req |-> a, off |-> 2] /\ h.off = 2 /\ Len(got) >= 2
          /\ \A k \in 1..Len(got) : k <= Size(c, a) => got[k] = <<a, k>>
          /\ ContentLength(c, h) \in Nat /\ Size(c, a) \in Nat
          /\ ContentLength(c, h) + 2 <= Size(c, a)
          /\ KeepAlive(c, h) => ContentLength(c, h) + 2 = Size(c, a)
      BY <2>2, <3>1
    <3>3. ContentLength(c, h) + 2 <= Len(got)
      <4>1. ~(Len(got) - 2 < ContentLength(c, h))
        BY <3>1, <3>2 DEF BodyMissing
      <4> QED BY <2>1, <3>2, <4>1
    <3>4. /\ Body(c, got, h) \in Seq(Pieces)
          /\ IsBody(Body(c, got, h), Turn(c), ContentLength(c, h))
      <4>1. Body(c, got, h) = SubSeq(got, 2 + 1, 2 + ContentLength(c, h))
        BY <3>2 DEF Body
      <4> DEFINE m == ContentLength(c, h)
      <4>2. m \in Nat /\ m + 2 <= Len(got) /\ m + 2 <= Size(c, a) /\ a \in Nat
        BY <2>3, <3>2, <3>3
      <4> HIDE DEF m
      <4>3. /\ SubSeq(got, 2 + 1, 2 + m) \in Seq(Pieces)
            /\ IsBody(SubSeq(got, 2 + 1, 2 + m), a, m)
        BY <2>1, <3>2, <4>2, BodyCut, Zenon
      <4> QED BY <2>3, <4>1, <4>3 DEF m
    <3>5. Status(c, h) \in Nat
      BY DEF Status
    <3>6. /\ answers' \in [Clients -> Seq(Answer)]
          /\ Len(answers'[c]) = Turn(c)
          /\ \A d \in Clients : d # c => answers'[d] = answers[d]
          /\ AnswersMatchRequests => AnswersMatchRequests'
      BY <1>0, <2>3, <3>1, <3>2, <3>4, <3>5, Answered
    <3>7. CASE ~KeepAlive(c, h) /\ Reset({c})
      <4>1. Inv'
        BY <1>0, <2>0, <2>1, <3>6, <3>7, ResetOne, OneConn
      <4> QED BY <3>6, <4>1
    <3>8. CASE KeepAlive(c, h) /\ Carry(c, got, h)
      <4> DEFINE u == SubSeq(got, Size(c, a) + 1, Len(got))
      <4>1. /\ UNCHANGED st /\ head' = [head EXCEPT ![c] = NoHead]
            /\ buf' = [buf EXCEPT ![c] =
                         SubSeq(got, h.off + ContentLength(c, h) + 1, Len(got))]
        BY <3>8 DEF Carry
      <4>2. h.off + ContentLength(c, h) = Size(c, a) /\ Len(got) >= Size(c, a) /\ Len(got) > 0
        BY <2>1, <3>2, <3>3, <3>8
      <4>3. buf' = [buf EXCEPT ![c] = u]
        BY <4>1, <4>2
      <4>4. /\ u \in Seq(Pieces)
            /\ StreamAt(c, u \o wire'[c], written[c], a + 1)
            /\ HeadAt(c, u, NoHead, a + 1)
        BY <1>1, <2>1, <2>3, <3>2, <4>2, Carried
      <4> HIDE DEF u
      <4>5. /\ buf' \in [Clients -> Seq(Nat \X Nat)] /\ buf'[c] = u
            /\ \A d \in Clients : d # c => buf'[d] = buf[d]
        BY <1>0, <4>3, <4>4 DEF TypeOK, Pieces
      <4>6. /\ head' \in [Clients -> [req : Nat, off : Nat]] /\ head'[c] = NoHead
            /\ \A d \in Clients : d # c => head'[d] = head[d]
        <5>1. NoHead \in [req : Nat, off : Nat]
          BY DEF NoHead
        <5> QED BY <1>0, <4>1, <5>1 DEF TypeOK
      <4>7. ConnOf(c)'
        BY <2>0, <2>3, <3>6, <4>4, <4>5, <4>6 DEF ConnOf, Turn
      <4>8. st' \in [Clients -> {"none", "backlog", "open", "closed"}] /\ st' = st
        BY <1>0, <4>1 DEF TypeOK
      <4>9. Inv'
        BY <2>0, <2>1, <3>6, <4>5, <4>6, <4>7, <4>8, OneConn
      <4> QED BY <3>6, <4>9
    <3> QED BY <3>1, <3>7, <3>8
  <2> QED BY <1>3, <2>4, <2>5, <2>6, <2>7, <2>8
<1> QED BY <1>2, <1>3 DEF Serve

-------------------------------------------------------------------------------
(***************************************************************************)
(* At the start nothing is written, read or answered.                      *)
(***************************************************************************)
LEMMA Start == Init => Inv /\ AnswersMatchRequests
<1> SUFFICES ASSUME Init PROVE Inv /\ AnswersMatchRequests
  OBVIOUS
<1>1. Open = {} /\ ready = {} /\ pc = "tick"
  BY DEF Init, Open
<1>2. IsFiniteSet(Open) /\ Cardinality(Open) = 0
  BY <1>1, FS_EmptySet
<1>3. <<>> \in Seq(Nat \X Nat) /\ <<>> \in Seq(Pieces) /\ <<>> \in Seq(Answer)
      /\ <<>> \in Seq([req : Nat, body : Seq(Nat \X Nat), status : Nat])
  OBVIOUS
<1>4. NoHead \in [req : Nat, off : Nat] /\ <<1, 0>> \in Nat \X Nat /\ 0 \in 0..IdleTimeout + 1
      /\ 0 <= MaxConns
  BY HttpAssumption DEF NoHead
<1>5. TypeOK
  <2>1. wire \in [Clients -> Seq(Nat \X Nat)] /\ buf \in [Clients -> Seq(Nat \X Nat)]
    BY <1>3, Zenon DEF Init
  <2>2. answers \in [Clients -> Seq([req : Nat, body : Seq(Nat \X Nat), status : Nat])]
    BY <1>3, Zenon DEF Init
  <2>3. head \in [Clients -> [req : Nat, off : Nat]] /\ written \in [Clients -> Nat \X Nat]
    BY <1>4, Zenon DEF Init
  <2>4. idle \in [Clients -> 0..IdleTimeout + 1]
    BY <1>4, Zenon DEF Init
  <2>5. /\ st \in [Clients -> {"none", "backlog", "open", "closed"}]
        /\ peer \in [Clients -> {"up", "fin", "reset", "dead"}]
    BY DEF Init
  <2> QED BY <1>1, <1>2, <1>4, <2>1, <2>2, <2>3, <2>4, <2>5 DEF TypeOK
<1>6. ReadyInv
  BY <1>1 DEF ReadyInv
<1>7. ASSUME NEW c \in Clients PROVE ConnOf(c)
  <2>1. /\ buf[c] = <<>> /\ wire[c] = <<>> /\ head[c] = NoHead /\ written[c] = <<1, 0>>
        /\ answers[c] = <<>>
    BY <1>7 DEF Init
  <2>2. buf[c] \o wire[c] = <<>> /\ Turn(c) = 1
    BY <2>1 DEF Turn
  <2>3. Framed(c, <<>>, 1)
    BY DEF Framed
  <2>4. After(c, <<1, 0>>)[1] <= Len(Script[c]) => After(c, <<1, 0>>) = <<1, 1>>
    <3>1. CASE Len(Script[c]) = 0
      <4>1. After(c, <<1, 0>>)[1] \in {1, 2}
        BY DEF After
      <4> QED BY <3>1, <4>1
    <3>2. CASE Len(Script[c]) # 0
      <4>1. Len(Script[c]) \in Nat
        BY HttpAssumption
      <4>2. 1 \in 1..Len(Script[c])
        BY <3>2, <4>1
      <4>3. Size(c, 1) \in Nat /\ Size(c, 1) >= 2
        BY <4>2, Sizes
      <4>4. 0 < Size(c, 1)
        BY <4>3
      <4>5. After(c, <<1, 0>>) = <<1, 0 + 1>>
        BY <4>4 DEF After
      <4> QED BY <4>5
    <3> QED BY <3>1, <3>2
  <2>5. StreamAt(c, <<>>, <<1, 0>>, 1)
    BY <2>3, <2>4 DEF StreamAt
  <2>6. HeadAt(c, <<>>, NoHead, 1)
    BY DEF HeadAt, HeaderLen
  <2> QED BY <2>1, <2>2, <2>5, <2>6 DEF ConnOf
<1>8. AnswersMatchRequests
  BY DEF AnswersMatchRequests, Init
<1> QED BY <1>2, <1>5, <1>6, <1>7, <1>8 DEF Inv, ConnInv

(***************************************************************************)
(* Every step keeps the connections in step and the answers right.         *)
(***************************************************************************)
LEMMA Steps ==
  Inv /\ [Next]_vars => Inv' /\ (AnswersMatchRequests => AnswersMatchRequests')
<1> SUFFICES ASSUME Inv, [Next]_vars
             PROVE  Inv' /\ (AnswersMatchRequests => AnswersMatchRequests')
  OBVIOUS
<1>1. CASE UNCHANGED vars
  <2>1. UNCHANGED <<pc, ready, st, buf, head, idle, answers, peer, written, wire>>
    BY <1>1 DEF vars, conns, net
  <2>2. TypeOK /\ ReadyInv /\ ConnInv /\ IsFiniteSet(Open)
    BY DEF Inv
  <2>3. Open' = Open
    BY <2>1 DEF Open
  <2>4. TypeOK'
    BY <2>1, <2>2, <2>3 DEF TypeOK
  <2>5. ReadyInv' /\ IsFiniteSet(Open)'
    BY <2>1, <2>2, <2>3 DEF ReadyInv
  <2>6. ConnInv'
    BY <2>1, <2>2, Unmoved DEF ConnInv
  <2> QED BY <2>1, <2>4, <2>5, <2>6, AnswersKeep DEF Inv
<1>2. CASE Second \/ \E c \in Clients : Connect(c) \/ Send(c) \/ Leave(c)
  <2>1. UNCHANGED answers
    BY <1>2 DEF Second, Connect, Send, Leave, conns
  <2> QED BY <1>2, <2>1, ClientStep, AnswersKeep
<1>3. CASE Poll \/ AcceptDone \/ Reap \/ \E c \in Clients : Accept(c)
  <2>1. UNCHANGED answers
    BY <1>3 DEF Poll, AcceptDone, Reap, Accept, conns
  <2> QED BY <1>3, <2>1, TickStep, AnswersKeep
<1>4. CASE \E c \in Clients : Serve(c)
  BY <1>4, ServeStep
<1> QED BY <1>1, <1>2, <1>3, <1>4 DEF Next, Server

(***************************************************************************)
(* Type correctness, the bound on open connections included: never more    *)
(* than MaxConns, however connects, accepts and closes interleave.         *)
(***************************************************************************)
THEOREM TypeCorrect == Spec => []TypeOK
<1>1. Init => Inv
  BY Start
<1>2. Inv /\ [Next]_vars => Inv'
  BY Steps
<1>3. Inv => TypeOK
  BY DEF Inv
<1> QED BY <1>1, <1>2, <1>3, PTL DEF Spec

(***************************************************************************)
(* Framing, for every script and every cut of the stream into recv calls:  *)
(* a client's i-th answer is for its i-th request and for exactly its      *)
(* body.                                                                   *)
(***************************************************************************)
THEOREM FramingIsExact == Spec => []AnswersMatchRequests
<1> DEFINE Right == Inv /\ AnswersMatchRequests
<1>1. Init => Right
  BY Start
<1>2. Right /\ [Next]_vars => Right'
  BY Steps
<1>3. Right => AnswersMatchRequests
  OBVIOUS
<1> QED BY <1>1, <1>2, <1>3, PTL DEF Spec

(***************************************************************************)
(* The invariant leaves no whole request in c->buf of a client that waits. *)
(***************************************************************************)
LEMMA NothingWaits == Inv => NoRequestWaits
<1> SUFFICES ASSUME Inv, NEW c \in Open \ Pipelining PROVE ~HoldsRequest(c)
  BY DEF NoRequestWaits
<1> DEFINE b == buf[c]
           w == wire[c]
           h == head[c]
<1>1. c \in Clients /\ st[c] = "open" /\ TypeOK /\ ConnInv
  BY DEF Inv, Open
<1>2. b \in Seq(Pieces) /\ w \in Seq(Pieces) /\ Turn(c) \in Nat \ {0} /\ Len(b) \in Nat
  BY <1>1, ConnTypes
<1>3. Framed(c, b \o w, Turn(c)) /\ HeadAt(c, b, h, Turn(c))
  BY <1>1 DEF ConnInv, ConnOf, StreamAt
<1> HIDE DEF b, w, h
<1>4. Blank(b) = IF Len(b) >= 2 THEN 2 ELSE 0
  <2>1. Turn(c) \in Nat
    BY <1>2
  <2> QED BY <1>1, <1>2, <1>3, <2>1, Prefix
<1>5. CASE h = NoHead
  <2>1. Len(b) < 2
    BY <1>3, <1>5 DEF HeadAt, HeaderLen
  <2>2. Blank(b) = 0
    BY <1>2, <1>4, <2>1
  <2> QED BY <2>2 DEF HoldsRequest, b
<1>6. CASE h # NoHead
  <2>1. /\ h = [req |-> Turn(c), off |-> 2] /\ h.off = 2
        /\ Turn(c) \in 1..Len(Script[c])
        /\ Len(b) < 2 + ContentLength(c, h)
    BY <1>3, <1>6 DEF HeadAt, HeaderLen
  <2>2. ContentLength(c, h) \in Nat
    <3>1. h.req = Turn(c) /\ Script[c][Turn(c)].body \in Nat
      BY <1>1, <2>1, Sizes
    <3> QED BY <3>1 DEF ContentLength, Of
  <2>3. ~(Len(b) - h.off >= ContentLength(c, h))
    BY <1>2, <2>1, <2>2
  <2>4. Parsed(c, b) = h
    BY <1>6 DEF Parsed, h
  <2> QED BY <2>3, <2>4 DEF HoldsRequest, b
<1> QED BY <1>5, <1>6

(***************************************************************************)
(* A request that arrived in full, from a client that waits for its        *)
(* responses, never sits in c->buf for bytes that need not come.           *)
(***************************************************************************)
THEOREM WholeRequestsServed == Spec => []NoRequestWaits
<1>1. Init => Inv
  BY Start
<1>2. Inv /\ [Next]_vars => Inv'
  BY Steps
<1>3. Inv => NoRequestWaits
  BY NothingWaits
<1> QED BY <1>1, <1>2, <1>3, PTL DEF Spec
===============================================================================
