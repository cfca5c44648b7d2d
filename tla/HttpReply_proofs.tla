-------------------------- MODULE HttpReply_proofs --------------------------
(***************************************************************************)
(* What HttpReply promises for replies of any length, cut into pieces in   *)
(* any way: the decoder's state accounts for every byte that came, what is *)
(* handed to GetCourse is a beginning of the body, and a reply that comes  *)
(* to its end without an unlucky cut is decoded to its body.               *)
(***************************************************************************)
EXTENDS HttpReply, SequenceTheorems, WellFoundedInduction, TLAPS

-----------------------------------------------------------------------------
(* Recursion. Induction is over a set of numbers: the ones for which what is *)
(* claimed holds.                                                            *)

\* A set that holds 0 and the successor of each of its numbers holds them all.
LEMMA AllNumbers ==
  ASSUME NEW T, 0 \in T, \A n \in Nat : n \in T => n + 1 \in T
  PROVE  Nat \subseteq T
<1> DEFINE S == Nat \ T
<1>1. SUFFICES ASSUME S # {} PROVE FALSE
  OBVIOUS
<1>2. PICK x \in S : \A y \in S : ~ (<<y, x>> \in OpToRel(<, Nat))
  BY <1>1, NatLessThanWellFounded, WFMin
<1>3. x # 0 /\ x \in Nat /\ x - 1 \in Nat /\ x - 1 + 1 = x
  OBVIOUS
<1>4. x - 1 \in S
  BY <1>3
<1>5. <<x - 1, x>> \in OpToRel(<, Nat)
  BY <1>3 DEF OpToRel
<1> QED
  BY <1>2, <1>4, <1>5

\* Every set of numbers but the empty one has a least one.
LEMMA LeastNumber ==
  ASSUME NEW I \in SUBSET Nat, I # {}
  PROVE  \E k \in I : \A y \in I : k <= y
<1>1. PICK k \in I : \A y \in I : ~ (<<y, k>> \in OpToRel(<, Nat))
  BY NatLessThanWellFounded, WFMin
<1>2. ASSUME NEW y \in I PROVE k <= y
  <2>1. ~ (y < k) /\ y \in Nat /\ k \in Nat
    BY <1>1 DEF OpToRel
  <2> QED
    BY <2>1
<1> QED
  BY <1>2

\* The sequences FlattenSeq puts together, one more at a time.
Joins(v, s, S) == /\ v \in [1 .. Len(s) -> Seq(S)]
                  /\ \A i \in 1 .. Len(s) :
                       v[i] = IF i = 1 THEN s[1] ELSE v[i - 1] \o s[i]

\* There are such sequences.
LEMMA JoinsExist ==
  ASSUME NEW S, NEW s \in Seq(Seq(S))
  PROVE  \E v : Joins(v, s, S)
<1> DEFINE Upto(n, v) == /\ v \in [1 .. n -> Seq(S)]
                         /\ \A i \in 1 .. n :
                              v[i] = IF i = 1 THEN s[1] ELSE v[i - 1] \o s[i]
           T == {n \in Nat : n <= Len(s) => \E v : Upto(n, v)}
<1>1. 0 \in T
  <2>1. Upto(0, [i \in 1 .. 0 |-> <<>>])
    OBVIOUS
  <2> QED
    BY <2>1
<1>2. ASSUME NEW n \in Nat, n \in T PROVE n + 1 \in T
  <2> HIDE DEF Upto
  <2> SUFFICES ASSUME n + 1 <= Len(s) PROVE \E v : Upto(n + 1, v)
    OBVIOUS
  <2>0. n <= Len(s)
    OBVIOUS
  <2>1. PICK v : Upto(n, v)
    BY <1>2, <2>0
  <2> USE DEF Upto
  <2> DEFINE w == [i \in 1 .. n + 1 |->
                     IF i <= n THEN v[i]
                     ELSE IF i = 1 THEN s[1] ELSE v[n] \o s[i]]
  <2>2. \A i \in 1 .. n + 1 : s[i] \in Seq(S)
    OBVIOUS
  <2>3. ASSUME NEW i \in 1 .. n + 1
        PROVE  /\ w[i] \in Seq(S)
               /\ w[i] = IF i = 1 THEN s[1] ELSE w[i - 1] \o s[i]
    <3>1. CASE i <= n
      <4>1. w[i] = v[i] /\ i \in 1 .. n
        BY <3>1
      <4>2. i # 1 => w[i - 1] = v[i - 1]
        BY <3>1
      <4>3. v[i] \in Seq(S)
        BY <2>1, <4>1
      <4>4. v[i] = IF i = 1 THEN s[1] ELSE v[i - 1] \o s[i]
        BY <2>1, <4>1
      <4> QED
        BY <4>1, <4>2, <4>3, <4>4
    <3>2. CASE i = n + 1
      <4>1. w[i] = IF i = 1 THEN s[1] ELSE v[n] \o s[i]
        BY <3>2
      <4>2. i # 1 => w[i - 1] = v[n] /\ v[n] \in Seq(S)
        BY <3>2, <2>1
      <4>3. i # 1 => v[n] \o s[i] \in Seq(S)
        BY <4>2, <2>2, ConcatProperties
      <4> QED
        BY <4>1, <4>2, <4>3, <2>2
    <3> QED
      BY <3>1, <3>2
  <2>4. w \in [1 .. n + 1 -> Seq(S)]
    BY <2>3
  <2> HIDE DEF w
  <2> QED
    BY <2>3, <2>4
<1> HIDE DEF T
<1>3. Len(s) \in T
  BY <1>1, <1>2, AllNumbers
<1> QED
  BY <1>3 DEF T, Joins

\* How they go on.
LEMMA JoinsStep ==
  ASSUME NEW S, NEW s, NEW v, Joins(v, s, S)
  PROVE  \A n \in Nat : n + 1 \in 1 .. Len(s) =>
           v[n + 1] = IF n = 0 THEN s[1] ELSE v[n] \o s[n + 1]
<1> SUFFICES ASSUME NEW n \in Nat, n + 1 \in 1 .. Len(s)
             PROVE  v[n + 1] = IF n = 0 THEN s[1] ELSE v[n] \o s[n + 1]
  OBVIOUS
<1> DEFINE m == n + 1
<1>1. m \in 1 .. Len(s) /\ m - 1 = n /\ (m = 1 <=> n = 0)
  OBVIOUS
<1> HIDE DEF m
<1>2. v[m] = IF m = 1 THEN s[1] ELSE v[m - 1] \o s[m]
  BY <1>1 DEF Joins
<1> QED
  BY <1>1, <1>2 DEF m

\* One sequence is the beginning of another, position by position.
Begins(s, t) == /\ Len(s) <= Len(t)
                /\ \A i \in 1 .. Len(s) : t[i] = s[i]

\* They are unique.
LEMMA JoinsAgree ==
  ASSUME NEW S, NEW s \in Seq(Seq(S)), NEW t \in Seq(Seq(S)), Begins(s, t),
         NEW v, Joins(v, s, S), NEW w, Joins(w, t, S)
  PROVE  \A i \in 1 .. Len(s) : v[i] = w[i]
<1>c. Joins(v, s, S) /\ Joins(w, t, S)
  OBVIOUS
<1>a. \A n \in Nat : n + 1 \in 1 .. Len(s) =>
        v[n + 1] = IF n = 0 THEN s[1] ELSE v[n] \o s[n + 1]
  BY ONLY <1>c, JoinsStep
<1>b. \A n \in Nat : n + 1 \in 1 .. Len(t) =>
        w[n + 1] = IF n = 0 THEN t[1] ELSE w[n] \o t[n + 1]
  BY ONLY <1>c, JoinsStep
<1> USE DEF Begins
<1> DEFINE T == {n \in Nat : n \in 1 .. Len(s) => v[n] = w[n]}
<1>1. 0 \in T
  OBVIOUS
<1>2. ASSUME NEW n \in Nat, n \in T PROVE n + 1 \in T
  <2> SUFFICES ASSUME n + 1 <= Len(s) PROVE v[n + 1] = w[n + 1]
    OBVIOUS
  <2>0. Len(s) \in Nat /\ Len(t) \in Nat
    OBVIOUS
  <2>1. n + 1 \in 1 .. Len(s)
    BY <2>0
  <2>6. n + 1 \in 1 .. Len(t)
    BY <2>0
  <2>7. t[n + 1] = s[n + 1]
    BY <2>1
  <2>2. n # 0 => v[n] = w[n]
    BY <1>2, <2>0
  <2>3. v[n + 1] = IF n = 0 THEN s[1] ELSE v[n] \o s[n + 1]
    BY <2>1, <1>a
  <2>4. w[n + 1] = IF n = 0 THEN t[1] ELSE w[n] \o t[n + 1]
    BY <2>6, <1>b
  <2>5. n = 0 => t[1] = s[1]
    BY <2>1
  <2> QED
    BY <2>2, <2>3, <2>4, <2>5, <2>7
<1> HIDE DEF T
<1>3. Nat \subseteq T
  BY <1>1, <1>2, AllNumbers
<1> QED
  BY <1>3 DEF T

\* FlattenSeq is the last of them.
LEMMA FlattenIsJoin ==
  ASSUME NEW S, NEW s \in Seq(Seq(S)), s # <<>>, NEW v, Joins(v, s, S)
  PROVE  FlattenSeq(s) = v[Len(s)]
<1> DEFINE Eq(f) == f = [i \in 1 .. Len(s) |->
                           IF i = 1 THEN s[i] ELSE f[i - 1] \o s[i]]
           g == CHOOSE f : Eq(f)
<1>1. Len(s) \in Nat /\ Len(s) # 0
  OBVIOUS
<1>2. FlattenSeq(s) = g[Len(s)]
  BY <1>1 DEF FlattenSeq
<1>3. Eq(v)
  <2>1. v = [i \in 1 .. Len(s) |-> v[i]]
    BY DEF Joins
  <2> QED
    BY <2>1 DEF Joins
<1>4. Eq(g)
  BY <1>3
<1>a. \A n \in Nat : n + 1 \in 1 .. Len(s) =>
        v[n + 1] = IF n = 0 THEN s[1] ELSE v[n] \o s[n + 1]
  BY JoinsStep
<1>5. \A i \in 1 .. Len(s) : g[i] = IF i = 1 THEN s[1] ELSE g[i - 1] \o s[i]
  BY <1>4
<1> HIDE DEF g, Eq
<1> DEFINE T == {n \in Nat : n \in 1 .. Len(s) => g[n] = v[n]}
<1>6. 0 \in T
  OBVIOUS
<1>7. ASSUME NEW n \in Nat, n \in T PROVE n + 1 \in T
  <2> SUFFICES ASSUME n + 1 <= Len(s) PROVE g[n + 1] = v[n + 1]
    OBVIOUS
  <2>1. n + 1 \in 1 .. Len(s)
    OBVIOUS
  <2>2. n # 0 => g[n] = v[n]
    BY <1>7
  <2>3. n + 1 - 1 = n /\ (n + 1 = 1 <=> n = 0)
    OBVIOUS
  <2>4. g[n + 1] = IF n = 0 THEN s[1] ELSE g[n] \o s[n + 1]
    BY <2>1, <2>3, <1>5
  <2>5. v[n + 1] = IF n = 0 THEN s[1] ELSE v[n] \o s[n + 1]
    BY <2>1, <1>a
  <2> QED
    BY <2>2, <2>4, <2>5
<1> HIDE DEF T
<1>8. Nat \subseteq T
  BY <1>6, <1>7, AllNumbers
<1>9. Len(s) \in 1 .. Len(s)
  BY <1>1
<1> QED
  BY <1>1, <1>2, <1>8, <1>9 DEF T

\* FlattenSeq of the sequences up to the i-th: one more sequence each time, so
\* that the shorter ones are beginnings of the longer ones.
LEMMA FlattenStep ==
  ASSUME NEW S, NEW s \in Seq(Seq(S)), NEW i \in 1 .. Len(s)
  PROVE  FlattenSeq(SubSeq(s, 1, i)) = FlattenSeq(SubSeq(s, 1, i - 1)) \o s[i]
<1>1. PICK v : Joins(v, s, S)
  BY JoinsExist
<1>2. ASSUME NEW k \in 1 .. Len(s)
      PROVE  FlattenSeq(SubSeq(s, 1, k)) = v[k]
  <2> DEFINE t == SubSeq(s, 1, k)
  <2>1. t \in Seq(Seq(S)) /\ Len(t) = k /\ \A j \in 1 .. k : s[j] = t[j]
    OBVIOUS
  <2>2. t # <<>> /\ Len(s) \in Nat /\ k <= Len(s) /\ k \in 1 .. k
    BY <2>1
  <2> HIDE DEF t
  <2>3. PICK w : Joins(w, t, S)
    BY <2>1, JoinsExist
  <2>4. FlattenSeq(t) = w[k]
    BY <2>1, <2>2, <2>3, FlattenIsJoin
  <2>5. \A j \in 1 .. Len(t) : w[j] = v[j]
    <3>1. Begins(t, s)
      BY <2>1, <2>2 DEF Begins
    <3> QED
      BY <1>1, <2>1, <2>3, <3>1, JoinsAgree
  <2> QED
    BY <2>1, <2>2, <2>4, <2>5 DEF t
<1>3. CASE i = 1
  <2>1. FlattenSeq(SubSeq(s, 1, 1)) = s[1]
    <3>1. v[1] = s[1] /\ 1 \in 1 .. Len(s)
      BY <1>1, <1>3 DEF Joins
    <3> QED
      BY <1>2, <3>1
  <2>2. SubSeq(s, 1, 0) = <<>>
    BY SubSeqEmpty
  <2>3. FlattenSeq(<<>>) = <<>>
    BY DEF FlattenSeq
  <2>4. <<>> \o s[1] = s[1]
    BY <1>3, ConcatEmptySeq
  <2> QED
    BY <1>3, <2>1, <2>2, <2>3, <2>4, 1 - 1 = 0
<1>4. CASE i # 1
  <2>1. i - 1 \in 1 .. Len(s)
    BY <1>4
  <2>2. v[i] = v[i - 1] \o s[i]
    BY <1>1, <1>4 DEF Joins
  <2> QED
    BY <1>2, <2>1, <2>2
<1> QED
  BY <1>3, <1>4

\* FlattenSeq stays with the elements of the sequences; of fewer sequences it is
\* a beginning.
LEMMA FlattenPrefix ==
  ASSUME NEW S, NEW s \in Seq(Seq(S)), NEW j \in 0 .. Len(s), NEW i \in 0 .. j
  PROVE  LET f == FlattenSeq(SubSeq(s, 1, i))
             g == FlattenSeq(SubSeq(s, 1, j))
         IN  f \in Seq(S) /\ g \in Seq(S) /\ Begins(f, g)
<1> DEFINE F(n) == FlattenSeq(SubSeq(s, 1, n))
           Good(n) == /\ F(n) \in Seq(S)
                      /\ \A m \in 0 .. n :
                           /\ F(m) \in Seq(S)
                           /\ Len(F(m)) <= Len(F(n))
                           /\ \A k \in 1 .. Len(F(m)) : F(n)[k] = F(m)[k]
           T == {n \in Nat : n <= Len(s) => Good(n)}
<1>1. 0 \in T
  <2>1. SubSeq(s, 1, 0) = <<>>
    BY SubSeqEmpty
  <2>2. F(0) = <<>>
    BY <2>1 DEF FlattenSeq
  <2> HIDE DEF F
  <2>3. F(0) \in Seq(S) /\ Len(F(0)) = 0
    BY <2>2, EmptySeq
  <2>4. Good(0)
    BY <2>3
  <2> HIDE DEF Good
  <2> QED
    BY <2>4
<1>2. ASSUME NEW n \in Nat, n \in T PROVE n + 1 \in T
  <2> HIDE DEF F, Good
  <2> SUFFICES ASSUME n + 1 <= Len(s) PROVE Good(n + 1)
    OBVIOUS
  <2>1. Len(s) \in Nat /\ n + 1 \in 1 .. Len(s) /\ n + 1 - 1 = n
    OBVIOUS
  <2>2. Good(n)
    <3>1. n <= Len(s)
      BY <2>1
    <3> QED
      BY <1>2, <3>1
  <2> USE DEF Good
  <2>3. F(n + 1) = F(n) \o s[n + 1]
    <3> DEFINE m == n + 1
    <3>1. m \in 1 .. Len(s) /\ m - 1 = n
      BY <2>1
    <3> HIDE DEF m
    <3>2. F(m) = F(m - 1) \o s[m]
      BY <3>1, FlattenStep DEF F
    <3> QED
      BY <3>1, <3>2 DEF m
  <2>4. s[n + 1] \in Seq(S) /\ F(n) \in Seq(S)
    BY <2>1, <2>2
  <2>5. /\ F(n + 1) \in Seq(S) /\ Len(F(n)) <= Len(F(n + 1))
        /\ \A k \in 1 .. Len(F(n)) : F(n + 1)[k] = F(n)[k]
    <3>1. F(n + 1) \in Seq(S) /\ Len(F(n + 1)) = Len(F(n)) + Len(s[n + 1])
      BY <2>3, <2>4, ConcatProperties
    <3>2. \A k \in 1 .. Len(F(n)) : F(n + 1)[k] = F(n)[k]
      BY <2>3, <2>4, ConcatProperties
    <3>3. Len(F(n)) \in Nat /\ Len(s[n + 1]) \in Nat
      BY <2>4
    <3> QED
      BY <3>1, <3>2, <3>3
  <2>6. ASSUME NEW m \in 0 .. n + 1
        PROVE  /\ F(m) \in Seq(S)
               /\ Len(F(m)) <= Len(F(n + 1))
               /\ \A k \in 1 .. Len(F(m)) : F(n + 1)[k] = F(m)[k]
    <3>1. CASE m = n + 1
      BY <3>1, <2>5
    <3>2. CASE m \in 0 .. n
      <4>1. /\ F(m) \in Seq(S) /\ Len(F(m)) <= Len(F(n))
            /\ \A k \in 1 .. Len(F(m)) : F(n)[k] = F(m)[k]
        BY <2>2, <3>2
      <4> QED
        BY ONLY <4>1, <2>4, <2>5
    <3> QED
      BY <3>1, <3>2
  <2> QED
    BY <2>5, <2>6
<1>3. j \in Nat /\ j <= Len(s)
  OBVIOUS
<1> HIDE DEF Good, F
<1>4. Good(j)
  <2> HIDE DEF T
  <2>1. j \in T
    BY <1>1, <1>2, <1>3, AllNumbers
  <2> QED
    BY <2>1, <1>3 DEF T
<1> QED
  BY <1>4 DEF Good, F, Begins

-----------------------------------------------------------------------------
(* The bytes on the wire.                                                    *)

\* The bytes of a size line, of the line end and of a body are bytes.
LEMMA ByteFacts ==
  /\ \A i \in 1 .. 22 : HexDigits[i] \in Byte
  /\ "0" \in Byte
  /\ "\r" \in Byte /\ "\n" \in Byte
  /\ {"HTTP/1.1 200 OK", "chunked", "length"} \subseteq Byte
  /\ Data \subseteq Byte
<1>1. DOMAIN HexDigits = 1 .. 22
  BY DEF HexDigits
<1>2. \A i \in 1 .. 22 : HexDigits[i] \in Byte
  BY <1>1 DEF Byte, Range
<1>0. "0" \in Byte
  <2>1. HexDigits[1] = "0" /\ 1 \in 1 .. 22
    BY DEF HexDigits
  <2> QED
    BY <1>2, <2>1
<1>3. "\r" \in Range(CRLF) /\ "\n" \in Range(CRLF)
  <2>1. DOMAIN CRLF = 1 .. 2 /\ CRLF[1] = "\r" /\ CRLF[2] = "\n"
    BY DEF CRLF
  <2> QED
    BY <2>1 DEF Range
<1> QED
  BY <1>0, <1>2, <1>3 DEF Byte

\* Two sequences, one behind the other.
LEMMA ConcatShape ==
  ASSUME NEW S, NEW s \in Seq(S), NEW t \in Seq(S)
  PROVE  /\ s \o t \in Seq(S) /\ Len(s) \in Nat /\ Len(t) \in Nat
         /\ Len(s \o t) = Len(s) + Len(t)
         /\ \A k \in 1 .. Len(s) : (s \o t)[k] = s[k]
         /\ \A k \in 1 .. Len(t) : (s \o t)[Len(s) + k] = t[k]
<1>1. Len(s) \in Nat /\ Len(t) \in Nat
  BY LenProperties
<1>2. /\ s \o t \in Seq(S) /\ Len(s \o t) = Len(s) + Len(t)
      /\ \A k \in 1 .. Len(s) + Len(t) :
           (s \o t)[k] = IF k <= Len(s) THEN s[k] ELSE t[k - Len(s)]
  BY ConcatProperties
<1>3. \A k \in 1 .. Len(s) : (s \o t)[k] = s[k]
  BY ONLY <1>1, <1>2
<1>4. ASSUME NEW k \in 1 .. Len(t) PROVE (s \o t)[Len(s) + k] = t[k]
  <2> DEFINE m == Len(s) + k
  <2>1. m \in 1 .. Len(s) + Len(t) /\ ~ (m <= Len(s)) /\ m - Len(s) = k
    BY <1>1
  <2> HIDE DEF m
  <2> QED
    BY <1>2, <2>1 DEF m
<1> QED
  BY <1>1, <1>2, <1>3, <1>4

\* The end of a line.
LEMMA CRLFShape == /\ CRLF \in Seq(Byte) /\ Len(CRLF) = 2
                   /\ CRLF[1] = "\r" /\ CRLF[2] = "\n"
<1>1. Len(CRLF) = 2 /\ CRLF[1] = "\r" /\ CRLF[2] = "\n"
  BY DEF CRLF
<1>2. \A a, b \in Byte : <<a, b>> \in Seq(Byte)
  OBVIOUS
<1> QED
  BY <1>1, <1>2, ByteFacts DEF CRLF

\* A size line is its text and a line end.
LEMMA SizeLineShape ==
  ASSUME NEW text \in Seq(Byte)
  PROVE  /\ SizeLine(text) \in Seq(Byte) /\ Len(text) \in Nat
         /\ Len(SizeLine(text)) = Len(text) + 2
         /\ \A k \in 1 .. Len(text) : SizeLine(text)[k] = text[k]
         /\ SizeLine(text)[Len(text) + 1] = "\r"
         /\ SizeLine(text)[Len(text) + 2] = "\n"
<1>1. text \in Seq(Byte) /\ CRLF \in Seq(Byte)
  BY CRLFShape
<1>2. /\ text \o CRLF \in Seq(Byte) /\ Len(text) \in Nat
      /\ Len(text \o CRLF) = Len(text) + Len(CRLF)
      /\ \A k \in 1 .. Len(text) : (text \o CRLF)[k] = text[k]
      /\ \A k \in 1 .. Len(CRLF) : (text \o CRLF)[Len(text) + k] = CRLF[k]
  BY ONLY <1>1, ConcatShape
<1> QED
  BY <1>2, CRLFShape DEF SizeLine

\* A chunk is its size line, its data and a line end.
LEMMA ChunkShape ==
  ASSUME NEW text \in Seq(Byte), NEW data \in Seq(Data)
  PROVE  LET size == SizeLine(text)
             e == Len(size) + Len(data)
         IN  /\ Chunk(text, data) \in Seq(Byte) /\ Len(Chunk(text, data)) = e + 2
             /\ \A k \in 1 .. Len(size) : Chunk(text, data)[k] = size[k]
             /\ \A k \in 1 .. Len(data) : Chunk(text, data)[Len(size) + k] = data[k]
             /\ Chunk(text, data)[e + 1] = "\r" /\ Chunk(text, data)[e + 2] = "\n"
<1> DEFINE size == SizeLine(text)
           both == size \o data
<1>1. Len(data) \in Nat
  BY LenProperties
<1>2. size \in Seq(Byte) /\ Len(size) \in Nat
  <2>1. size \in Seq(Byte)
    BY SizeLineShape
  <2> QED
    BY <2>1, LenProperties
<1>3. data \in Seq(Byte)
  BY ByteFacts, SeqMonotonic
<1>4. Chunk(text, data) = both \o CRLF
  BY DEF Chunk
<1> HIDE DEF size
<1>5. /\ both \in Seq(Byte) /\ Len(both) = Len(size) + Len(data)
      /\ \A k \in 1 .. Len(size) : both[k] = size[k]
      /\ \A k \in 1 .. Len(data) : both[Len(size) + k] = data[k]
  BY <1>2, <1>3, ConcatShape
<1> HIDE DEF both
<1>6. /\ both \o CRLF \in Seq(Byte) /\ Len(both \o CRLF) = Len(both) + 2
      /\ \A k \in 1 .. Len(both) : (both \o CRLF)[k] = both[k]
      /\ (both \o CRLF)[Len(both) + 1] = "\r"
      /\ (both \o CRLF)[Len(both) + 2] = "\n"
  <2>1. both \in Seq(Byte) /\ CRLF \in Seq(Byte)
    BY <1>5, CRLFShape
  <2>2. /\ both \o CRLF \in Seq(Byte) /\ Len(both \o CRLF) = Len(both) + Len(CRLF)
        /\ \A k \in 1 .. Len(both) : (both \o CRLF)[k] = both[k]
        /\ \A k \in 1 .. Len(CRLF) : (both \o CRLF)[Len(both) + k] = CRLF[k]
    BY ONLY <2>1, ConcatShape
  <2> QED
    BY <2>2, CRLFShape
<1>7. \A k \in 1 .. Len(size) : (both \o CRLF)[k] = size[k]
  BY <1>1, <1>2, <1>5, <1>6
<1>8. ASSUME NEW k \in 1 .. Len(data)
      PROVE  (both \o CRLF)[Len(size) + k] = data[k]
  <2>1. Len(size) + k \in 1 .. Len(both)
    BY <1>1, <1>2, <1>5
  <2> QED
    BY <1>5, <1>6, <2>1
<1> QED
  BY <1>4, <1>5, <1>6, <1>7, <1>8 DEF size

\* What ReplyAssumption says of one reply.
LEMMA ReplyShape ==
  ASSUME NEW r \in Replies
  PROVE  /\ r.framing \in {"chunked", "length"}
         /\ r.chunks \in Seq(Seq(Data)) /\ Len(r.chunks) \in Nat
         /\ DOMAIN r.chunks = 1 .. Len(r.chunks)
         /\ \A i \in 1 .. Len(r.chunks) :
              /\ r.chunks[i] \in Seq(Data) /\ Len(r.chunks[i]) \in Nat \ {0}
              /\ r.sizes[i] \in Seq(Byte) /\ Len(r.sizes[i]) \in Nat
              /\ DOMAIN r.sizes[i] = 1 .. Len(r.sizes[i])
<1>1. r.chunks \in Seq(Seq(Data) \ {<<>>})
  BY ReplyAssumption
<1>2. r.chunks \in Seq(Seq(Data))
  BY <1>1, SeqMonotonic
<1>3. ASSUME NEW i \in 1 .. Len(r.chunks)
      PROVE  /\ r.chunks[i] \in Seq(Data) /\ Len(r.chunks[i]) \in Nat \ {0}
             /\ r.sizes[i] \in Seq(Byte) /\ Len(r.sizes[i]) \in Nat
             /\ DOMAIN r.sizes[i] = 1 .. Len(r.sizes[i])
  <2>1. r.chunks[i] \in Seq(Data) \ {<<>>}
    BY <1>1, ElementOfSeq
  <2>2. Len(r.chunks[i]) \in Nat \ {0}
    BY <2>1, EmptySeq
  <2>3. r.sizes \in Seq(Seq(Byte)) /\ i \in 1 .. Len(r.sizes)
    BY ReplyAssumption
  <2>4. r.sizes[i] \in Seq(Byte)
    BY ONLY <2>3, ElementOfSeq
  <2>5. Len(r.sizes[i]) \in Nat /\ DOMAIN r.sizes[i] = 1 .. Len(r.sizes[i])
    BY ONLY <2>4, LenProperties
  <2> QED
    BY ONLY <2>1, <2>2, <2>4, <2>5
<1> QED
  BY <1>1, <1>2, <1>3, ReplyAssumption

\* The coding of the chunks up to the i-th: one more chunk each time, so that
\* it is a beginning of the coding of all of them.
LEMMA CodedShape ==
  ASSUME NEW r \in Replies, NEW i \in 0 .. Len(r.chunks)
  PROVE  LET all == Coded(r, Len(r.chunks))
         IN  /\ Coded(r, i) \in Seq(Byte) /\ all \in Seq(Byte)
             /\ Begins(Coded(r, i), all)
             /\ i = 0 => Coded(r, i) = <<>>
             /\ i # 0 => Coded(r, i) =
                           Coded(r, i - 1) \o Chunk(r.sizes[i], r.chunks[i])
<1> DEFINE n == Len(r.chunks)
           M == [k \in 1 .. n |-> Chunk(r.sizes[k], r.chunks[k])]
           P(k) == Coded(r, k)
<1>1. n \in Nat
  BY ReplyShape
<1>2. \A k \in 1 .. n : Chunk(r.sizes[k], r.chunks[k]) \in Seq(Byte)
  <2> SUFFICES ASSUME NEW k \in 1 .. n
               PROVE  Chunk(r.sizes[k], r.chunks[k]) \in Seq(Byte)
    OBVIOUS
  <2>1. r.chunks[k] \in Seq(Data) /\ r.sizes[k] \in Seq(Byte)
    BY ReplyShape
  <2> QED
    BY <2>1, ChunkShape
<1>3. M \in Seq(Seq(Byte)) /\ Len(M) = n
  BY <1>1, <1>2
<1>4. ASSUME NEW k \in 0 .. n
      PROVE  P(k) = FlattenSeq(SubSeq(M, 1, k))
  <2> DEFINE t == [j \in 1 .. k |-> Chunk(r.sizes[j], r.chunks[j])]
  <2>1. k \in Nat /\ \A j \in 1 .. k : j \in 1 .. n
    BY <1>1
  <2>2. \A j \in 1 .. k : /\ Chunk(r.sizes[j], r.chunks[j]) = M[j]
                          /\ M[j] \in Seq(Byte)
    BY <1>2, <2>1
  <2>3. t \in Seq(Seq(Byte)) /\ Len(t) = k /\ \A j \in 1 .. k : t[j] = M[j]
    <3>1. t = [j \in 1 .. k |-> M[j]]
      BY <2>2
    <3> HIDE DEF M, t
    <3>2. t \in [1 .. k -> Seq(Byte)] /\ \A j \in 1 .. k : t[j] = M[j]
      BY <2>2, <3>1
    <3> QED
      BY <2>1, <3>2
  <2>4. P(k) = FlattenSeq(t)
    BY DEF Coded
  <2> HIDE DEF t, M, P
  <2>5. /\ SubSeq(M, 1, k) \in Seq(Seq(Byte)) /\ Len(SubSeq(M, 1, k)) = k
        /\ \A j \in 1 .. k : SubSeq(M, 1, k)[j] = M[j]
    BY <1>3
  <2>6. t = SubSeq(M, 1, k)
    <3>1. \A j \in 1 .. Len(t) : t[j] = SubSeq(M, 1, k)[j]
      BY <2>3, <2>5
    <3> QED
      BY <2>3, <2>5, <3>1, SeqEqual
  <2> QED
    BY <2>4, <2>6
<1> HIDE DEF M, P
<1>6. n \in 0 .. n /\ n \in 0 .. Len(M) /\ i \in 0 .. n
  BY <1>1, <1>3
<1>7. P(i) \in Seq(Byte) /\ P(n) \in Seq(Byte) /\ Begins(P(i), P(n))
  <2>1. /\ FlattenSeq(SubSeq(M, 1, i)) \in Seq(Byte)
        /\ FlattenSeq(SubSeq(M, 1, n)) \in Seq(Byte)
        /\ Begins(FlattenSeq(SubSeq(M, 1, i)), FlattenSeq(SubSeq(M, 1, n)))
    BY <1>3, <1>6, FlattenPrefix
  <2> QED
    BY <2>1, <1>4, <1>6
<1>8. CASE i = 0
  <2>1. SubSeq(M, 1, 0) = <<>>
    BY SubSeqEmpty
  <2>2. P(0) = <<>>
    BY <1>4, <1>6, <1>8, <2>1 DEF FlattenSeq
  <2> QED
    BY <1>7, <1>8, <2>2 DEF P
<1>9. CASE i # 0
  <2>1. i \in 1 .. Len(M) /\ i - 1 \in 0 .. n
    BY <1>1, <1>3, <1>9
  <2>2. FlattenSeq(SubSeq(M, 1, i)) = FlattenSeq(SubSeq(M, 1, i - 1)) \o M[i]
    BY <1>3, <2>1, FlattenStep
  <2>3. P(i) = P(i - 1) \o M[i]
    BY <1>4, <1>6, <2>1, <2>2
  <2>4. M[i] = Chunk(r.sizes[i], r.chunks[i])
    BY <2>1, <1>3 DEF M
  <2> QED
    BY <1>7, <1>9, <2>3, <2>4 DEF P
<1> QED
  BY <1>8, <1>9

\* The header and the body.
LEMMA HeaderShape ==
  ASSUME NEW r \in Replies
  PROVE  /\ Header(r) \in Seq(Byte) /\ Len(Header(r)) = 8
         /\ Header(r)[4] = r.framing
         /\ Body(r) \in Seq(Byte) /\ Len(Body(r)) \in Nat
<1> DEFINE a == <<"HTTP/1.1 200 OK">>
           b == <<r.framing>>
<1>1. a \in Seq(Byte) /\ Len(a) = 1 /\ b \in Seq(Byte) /\ Len(b) = 1 /\ b[1] = r.framing
  <2>1. \A x \in Byte : <<x>> \in Seq(Byte) /\ Len(<<x>>) = 1 /\ <<x>>[1] = x
    OBVIOUS
  <2>2. "HTTP/1.1 200 OK" \in Byte /\ r.framing \in Byte
    BY ByteFacts, ReplyShape
  <2> QED
    BY <2>1, <2>2
<1>2. Header(r) = a \o CRLF \o b \o CRLF \o CRLF
  BY DEF Header
<1> HIDE DEF a, b
<1>3. CRLF \in Seq(Byte) /\ Len(CRLF) = 2
  BY CRLFShape
<1>4. a \o CRLF \in Seq(Byte) /\ Len(a \o CRLF) = 3
  <2>1. a \in Seq(Byte) /\ CRLF \in Seq(Byte)
    BY <1>1, <1>3
  <2>2. a \o CRLF \in Seq(Byte) /\ Len(a \o CRLF) = Len(a) + Len(CRLF)
    BY ONLY <2>1, ConcatShape
  <2> QED
    BY <1>1, <1>3, <2>2
<1>5. /\ a \o CRLF \o b \in Seq(Byte) /\ Len(a \o CRLF \o b) = 4
      /\ (a \o CRLF \o b)[4] = r.framing
  BY <1>1, <1>4, ConcatShape
<1> DEFINE c == a \o CRLF \o b
<1> HIDE DEF c
<1>6. /\ c \o CRLF \in Seq(Byte) /\ Len(c \o CRLF) = 6
      /\ (c \o CRLF)[4] = r.framing
  <2>1. c \in Seq(Byte) /\ CRLF \in Seq(Byte) /\ Len(c) = 4 /\ c[4] = r.framing
    BY <1>3, <1>5 DEF c
  <2>2. /\ c \o CRLF \in Seq(Byte) /\ Len(c \o CRLF) = Len(c) + Len(CRLF)
        /\ \A k \in 1 .. Len(c) : (c \o CRLF)[k] = c[k]
    BY ONLY <2>1, ConcatShape
  <2> QED
    BY <1>3, <2>1, <2>2
<1> DEFINE d == c \o CRLF
<1> HIDE DEF d
<1>7. /\ Header(r) \in Seq(Byte) /\ Len(Header(r)) = 8
      /\ Header(r)[4] = r.framing
  <2>1. d \in Seq(Byte) /\ CRLF \in Seq(Byte) /\ Len(d) = 6 /\ d[4] = r.framing
    BY <1>3, <1>6 DEF d
  <2>2. /\ d \o CRLF \in Seq(Byte) /\ Len(d \o CRLF) = Len(d) + Len(CRLF)
        /\ \A k \in 1 .. Len(d) : (d \o CRLF)[k] = d[k]
    BY ONLY <2>1, ConcatShape
  <2>3. /\ d \o CRLF \in Seq(Byte) /\ Len(d \o CRLF) = 8
        /\ (d \o CRLF)[4] = r.framing
    BY <1>3, <2>1, <2>2
  <2> QED
    BY <1>2, <2>3 DEF c, d
<1>8. Body(r) \in Seq(Byte)
  <2>1. r.chunks \in Seq(Seq(Byte)) /\ Len(r.chunks) \in Nat
    <3>1. Seq(Data) \subseteq Seq(Byte)
      BY ByteFacts, SeqMonotonic
    <3> QED
      BY <3>1, ReplyShape, SeqMonotonic
  <2>2. FlattenSeq(SubSeq(r.chunks, 1, Len(r.chunks))) \in Seq(Byte)
    BY <2>1, FlattenPrefix
  <2> QED
    BY <2>1, <2>2, SubSeqFull DEF Body
<1> QED
  BY <1>7, <1>8, LenProperties

\* The chunks and the size line of zero that ends them.
LEMMA CodedEnd ==
  ASSUME NEW r \in Replies
  PROVE  LET all == Coded(r, Len(r.chunks))
             end == all \o <<"0">> \o CRLF \o CRLF
         IN  /\ end \in Seq(Byte) /\ all \in Seq(Byte) /\ Len(all) \in Nat
             /\ Len(end) = Len(all) + 5
             /\ \A k \in 1 .. Len(all) : end[k] = all[k]
             /\ \A k \in 1 .. 3 : end[Len(all) + k] = SizeLine(<<"0">>)[k]
<1> DEFINE all == Coded(r, Len(r.chunks))
           z == <<"0">>
<1>1. all \in Seq(Byte) /\ Len(all) \in Nat
  <2>1. 0 \in 0 .. Len(r.chunks)
    BY ReplyShape
  <2> QED
    BY <2>1, CodedShape, LenProperties
<1>2. z \in Seq(Byte) /\ Len(z) = 1 /\ z[1] = "0"
  <2>1. "0" \in Byte
    BY ByteFacts
  <2>2. \A x \in Byte : <<x>> \in Seq(Byte) /\ Len(<<x>>) = 1 /\ <<x>>[1] = x
    OBVIOUS
  <2> QED
    BY <2>1, <2>2
<1> HIDE DEF all, z
<1>3. CRLF \in Seq(Byte) /\ Len(CRLF) = 2 /\ CRLF[1] = "\r" /\ CRLF[2] = "\n"
  BY CRLFShape
<1>4. /\ all \o z \in Seq(Byte) /\ Len(all \o z) = Len(all) + 1
      /\ \A k \in 1 .. Len(all) : (all \o z)[k] = all[k]
      /\ (all \o z)[Len(all) + 1] = "0"
  <2>0. all \in Seq(Byte) /\ z \in Seq(Byte)
    BY <1>1, <1>2
  <2>1. /\ all \o z \in Seq(Byte) /\ Len(all \o z) = Len(all) + Len(z)
        /\ \A k \in 1 .. Len(all) : (all \o z)[k] = all[k]
        /\ \A k \in 1 .. Len(z) : (all \o z)[Len(all) + k] = z[k]
    BY ONLY <2>0, ConcatShape
  <2> QED
    BY <1>2, <2>1
<1> DEFINE c == all \o z
<1> HIDE DEF c
<1>5. /\ c \o CRLF \in Seq(Byte) /\ Len(c \o CRLF) = Len(all) + 3
      /\ \A k \in 1 .. Len(all) + 1 : (c \o CRLF)[k] = c[k]
      /\ (c \o CRLF)[Len(all) + 2] = "\r"
      /\ (c \o CRLF)[Len(all) + 3] = "\n"
  <2>a. c \in Seq(Byte) /\ CRLF \in Seq(Byte)
    BY <1>3, <1>4 DEF c
  <2>1. Len(c) = Len(all) + 1
    BY <1>4 DEF c
  <2>2. /\ c \o CRLF \in Seq(Byte) /\ Len(c \o CRLF) = Len(c) + Len(CRLF)
        /\ \A k \in 1 .. Len(c) : (c \o CRLF)[k] = c[k]
        /\ \A k \in 1 .. Len(CRLF) : (c \o CRLF)[Len(c) + k] = CRLF[k]
    BY ONLY <2>a, ConcatShape
  <2>3. /\ (c \o CRLF)[Len(c) + 1] = CRLF[1]
        /\ (c \o CRLF)[Len(c) + 2] = CRLF[2]
    BY <1>3, <2>2
  <2>4. Len(c) + 1 = Len(all) + 2 /\ Len(c) + 2 = Len(all) + 3
    BY <1>1, <2>1
  <2>5. Len(c \o CRLF) = Len(all) + 3
    BY <1>3, <2>2, <2>4
  <2> QED
    BY <1>3, <2>1, <2>2, <2>3, <2>4, <2>5
<1> DEFINE d == c \o CRLF
<1> HIDE DEF d
<1>6. /\ d \o CRLF \in Seq(Byte) /\ Len(d \o CRLF) = Len(all) + 5
      /\ \A k \in 1 .. Len(all) + 3 : (d \o CRLF)[k] = d[k]
  <2>1. d \in Seq(Byte) /\ CRLF \in Seq(Byte) /\ Len(d) = Len(all) + 3
    BY <1>3, <1>5 DEF d
  <2>2. /\ d \o CRLF \in Seq(Byte) /\ Len(d \o CRLF) = Len(d) + Len(CRLF)
        /\ \A k \in 1 .. Len(d) : (d \o CRLF)[k] = d[k]
    BY ONLY <2>1, ConcatShape
  <2> QED
    BY <1>1, <1>3, <2>1, <2>2
<1>7. \A k \in 1 .. Len(all) : (d \o CRLF)[k] = all[k]
  <2>1. \A k \in 1 .. Len(all) : k \in 1 .. Len(all) + 1 /\ k \in 1 .. Len(all) + 3
    BY <1>1
  <2> QED
    BY <1>4, <1>5, <1>6, <2>1 DEF c, d
<1>8. /\ (d \o CRLF)[Len(all) + 1] = SizeLine(<<"0">>)[1]
      /\ (d \o CRLF)[Len(all) + 2] = SizeLine(<<"0">>)[2]
      /\ (d \o CRLF)[Len(all) + 3] = SizeLine(<<"0">>)[3]
  <2>1. /\ SizeLine(<<"0">>)[1] = "0" /\ SizeLine(<<"0">>)[2] = "\r"
        /\ SizeLine(<<"0">>)[3] = "\n"
    <3>1. /\ SizeLine(z)[1] = z[1] /\ SizeLine(z)[2] = "\r"
          /\ SizeLine(z)[3] = "\n"
      <4>1. z \in Seq(Byte) /\ Len(z) = 1
        BY <1>2
      <4>2. 1 \in 1 .. Len(z) /\ Len(z) + 1 = 2 /\ Len(z) + 2 = 3
        BY ONLY <4>1
      <4> QED
        BY ONLY <4>1, <4>2, SizeLineShape
    <3> QED
      BY <1>2, <3>1 DEF z
  <2>2. /\ Len(all) + 1 \in 1 .. Len(all) + 1 /\ Len(all) + 1 \in 1 .. Len(all) + 3
        /\ Len(all) + 2 \in 1 .. Len(all) + 3 /\ Len(all) + 3 \in 1 .. Len(all) + 3
    BY <1>1
  <2> QED
    BY <1>4, <1>5, <1>6, <2>1, <2>2 DEF c, d
<1>9. \A k \in 1 .. 3 : (d \o CRLF)[Len(all) + k] = SizeLine(<<"0">>)[k]
  <2>1. \A k \in 1 .. 3 : k = 1 \/ k = 2 \/ k = 3
    OBVIOUS
  <2> QED
    BY <1>8, <2>1
<1> QED
  BY <1>1, <1>6, <1>7, <1>9 DEF all, z, c, d

\* Every reply is a sequence of bytes; a chunked one is longer than its header.
LEMMA WireShape ==
  ASSUME NEW r \in Replies
  PROVE  /\ Wire(r) \in Seq(Byte) /\ Len(Wire(r)) \in Nat
         /\ r.framing = "length" => /\ Len(Wire(r)) = 8 + Len(Body(r))
                                    /\ SubSeq(Wire(r), 9, Len(Wire(r))) = Body(r)
         /\ r.framing = "chunked" =>
              LET all == Coded(r, Len(r.chunks))
              IN  /\ all \in Seq(Byte) /\ Len(all) \in Nat
                  /\ Len(Wire(r)) = 8 + Len(all) + 5
                  /\ \A k \in 1 .. Len(all) : Wire(r)[8 + k] = all[k]
                  /\ \A k \in 1 .. 3 : Wire(r)[8 + Len(all) + k] = SizeLine(<<"0">>)[k]
<1> DEFINE all == Coded(r, Len(r.chunks))
           end == all \o <<"0">> \o CRLF \o CRLF
<1>1. Header(r) \in Seq(Byte) /\ Len(Header(r)) = 8 /\ Body(r) \in Seq(Byte)
  BY HeaderShape
<1>2. CASE r.framing = "length"
  <2>1. Wire(r) = Header(r) \o Body(r)
    BY <1>2 DEF Wire
  <2>a. Header(r) \in Seq(Byte) /\ Body(r) \in Seq(Byte)
    BY <1>1
  <2>b. /\ Header(r) \o Body(r) \in Seq(Byte) /\ Len(Body(r)) \in Nat
        /\ Len(Header(r) \o Body(r)) = Len(Header(r)) + Len(Body(r))
        /\ \A k \in 1 .. Len(Body(r)) :
             (Header(r) \o Body(r))[Len(Header(r)) + k] = Body(r)[k]
    BY ONLY <2>a, ConcatShape
  <2>2. /\ Wire(r) \in Seq(Byte) /\ Len(Body(r)) \in Nat
        /\ Len(Wire(r)) = Len(Header(r)) + Len(Body(r))
        /\ \A k \in 1 .. Len(Body(r)) :
             (Header(r) \o Body(r))[Len(Header(r)) + k] = Body(r)[k]
    BY <2>1, <2>b
  <2>3. Len(Wire(r)) = 8 + Len(Body(r)) /\ Len(Wire(r)) \in Nat
    BY <1>1, <2>2
  <2> DEFINE W == Wire(r)
             B == Body(r)
  <2>4. \A k \in 1 .. Len(B) : W[8 + k] = B[k]
    BY <1>1, <2>1, <2>2
  <2> HIDE DEF W, B
  <2>5. SubSeq(W, 9, Len(W)) = B
    <3>1. W \in Seq(Byte) /\ B \in Seq(Byte) /\ Len(W) = 8 + Len(B) /\ Len(B) \in Nat
      BY <1>1, <2>2, <2>3 DEF W, B
    <3>2. /\ SubSeq(W, 9, Len(W)) \in Seq(Byte)
          /\ Len(SubSeq(W, 9, Len(W))) = Len(B)
          /\ \A k \in 1 .. Len(B) : SubSeq(W, 9, Len(W))[k] = W[8 + k]
      BY ONLY <3>1
    <3>3. \A k \in 1 .. Len(B) : SubSeq(W, 9, Len(W))[k] = B[k]
      BY <3>2, <2>4
    <3> QED
      BY <3>1, <3>2, <3>3, SeqEqual
  <2> QED
    BY <1>2, <2>2, <2>3, <2>5 DEF W, B
<1>3. CASE r.framing = "chunked"
  <2>1. Wire(r) = Header(r) \o end
    BY <1>3 DEF Wire
  <2>2. /\ end \in Seq(Byte) /\ all \in Seq(Byte) /\ Len(all) \in Nat
        /\ Len(end) = Len(all) + 5
        /\ \A k \in 1 .. Len(all) : end[k] = all[k]
        /\ \A k \in 1 .. 3 : end[Len(all) + k] = SizeLine(<<"0">>)[k]
    BY CodedEnd
  <2> DEFINE W == Wire(r)
  <2> HIDE DEF all, end
  <2>a. Header(r) \in Seq(Byte) /\ end \in Seq(Byte)
    BY <1>1, <2>2
  <2>b. /\ Header(r) \o end \in Seq(Byte)
        /\ Len(Header(r) \o end) = Len(Header(r)) + Len(end)
        /\ \A k \in 1 .. Len(end) : (Header(r) \o end)[Len(Header(r)) + k] = end[k]
    BY ONLY <2>a, ConcatShape
  <2>3. /\ W \in Seq(Byte) /\ Len(W) = Len(Header(r)) + Len(end)
        /\ \A k \in 1 .. Len(end) : (Header(r) \o end)[Len(Header(r)) + k] = end[k]
    BY <2>1, <2>b
  <2>4. Len(W) = 8 + Len(all) + 5 /\ \A k \in 1 .. Len(end) : W[8 + k] = end[k]
    BY <1>1, <2>1, <2>2, <2>3
  <2> HIDE DEF W
  <2>5. \A k \in 1 .. Len(all) : W[8 + k] = all[k]
    <3>1. \A k \in 1 .. Len(all) : k \in 1 .. Len(end)
      BY <2>2
    <3> QED
      BY <2>2, <2>4, <3>1
  <2>6. ASSUME NEW k \in 1 .. 3
        PROVE  W[8 + Len(all) + k] = SizeLine(<<"0">>)[k]
    <3>1. Len(all) + k \in 1 .. Len(end) /\ 8 + (Len(all) + k) = 8 + Len(all) + k
      BY <2>2
    <3> QED
      BY <2>2, <2>4, <3>1
  <2>7. Len(W) \in Nat
    BY <2>2, <2>4
  <2> QED
    BY <1>3, <2>2, <2>3, <2>4, <2>5, <2>6, <2>7 DEF W, all
<1> QED
  BY <1>2, <1>3, ReplyShape

\* The first line of the body follows the header, the size line of zero ends
\* the chunks.
LEMMA LastLineShape ==
  ASSUME NEW r \in Replies, r.framing = "chunked"
  PROVE  LET last == LineStart(r, Len(r.chunks) + 1)
         IN  /\ LineStart(r, 1) = 8
             /\ last \in Nat /\ last >= 8 /\ Len(Wire(r)) = last + 5
             /\ \A k \in 1 .. 3 : Wire(r)[last + k] = SizeLine(<<"0">>)[k]
<1> DEFINE n == Len(r.chunks)
           all == Coded(r, Len(r.chunks))
<1>1. n \in Nat /\ 0 \in 0 .. n /\ n \in 0 .. n /\ n + 1 - 1 = n
  BY ReplyShape
<1>2. Len(Header(r)) = 8
  BY HeaderShape
<1>3. Coded(r, 0) = <<>>
  BY <1>1, CodedShape
<1>4. LineStart(r, 1) = 8
  BY <1>2, <1>3, 1 - 1 = 0, Len(<<>>) = 0 DEF LineStart
<1>6. LineStart(r, n + 1) = 8 + Len(all)
  BY <1>1, <1>2 DEF LineStart
<1>7. /\ Len(all) \in Nat
      /\ Len(Wire(r)) = 8 + Len(all) + 5
      /\ \A k \in 1 .. 3 : Wire(r)[8 + Len(all) + k] = SizeLine(<<"0">>)[k]
  BY WireShape
<1> QED
  BY <1>4, <1>6, <1>7

\* A chunk on the wire, and where the next one starts.
LEMMA LineShape ==
  ASSUME NEW r \in Replies, r.framing = "chunked", NEW i \in 1 .. Len(r.chunks)
  PROVE  LET W == Wire(r)
             data == r.chunks[i]
             text == r.sizes[i]
             w == Len(text)
             size == Len(data)
             L == LineStart(r, i)
             D == DataStart(r, i)
             E == DataEnd(r, i)
         IN  /\ L \in Nat /\ L >= 8 /\ size \in Nat \ {0}
             /\ D = L + w + 2 /\ E = D + size
             /\ LineStart(r, i + 1) = E + 2 /\ E + 2 + 5 <= Len(W)
             /\ \A k \in 1 .. w + 2 : W[L + k] = SizeLine(text)[k]
             /\ \A k \in 1 .. size : W[D + k] = data[k]
             /\ W[E + 1] = "\r" /\ W[E + 2] = "\n"
<1> DEFINE W == Wire(r)
           data == r.chunks[i]
           text == r.sizes[i]
           w == Len(text)
           size == Len(data)
           all == Coded(r, Len(r.chunks))
           before == Coded(r, i - 1)
           upto == Coded(r, i)
           chunk == Chunk(text, data)
<1>0. /\ Len(r.chunks) \in Nat /\ i \in 0 .. Len(r.chunks) /\ i # 0
      /\ i - 1 \in 0 .. Len(r.chunks) /\ i + 1 - 1 = i
  BY ReplyShape
<1>1. /\ data \in Seq(Data) /\ size \in Nat \ {0}
      /\ text \in Seq(Byte) /\ w \in Nat
  BY ReplyShape
<1>2. /\ before \in Seq(Byte) /\ upto \in Seq(Byte) /\ all \in Seq(Byte)
      /\ Begins(before, all) /\ Begins(upto, all)
      /\ upto = before \o chunk
  BY <1>0, CodedShape
<1>3. Len(SizeLine(text)) = w + 2 /\ w \in Nat
  BY <1>1, SizeLineShape
<1>4. /\ chunk \in Seq(Byte) /\ Len(chunk) = w + 2 + size + 2
      /\ \A k \in 1 .. w + 2 : chunk[k] = SizeLine(text)[k]
      /\ \A k \in 1 .. size : chunk[w + 2 + k] = data[k]
      /\ chunk[w + 2 + size + 1] = "\r"
      /\ chunk[w + 2 + size + 2] = "\n"
  <2>1. LET sl == SizeLine(text)
            e == Len(sl) + size
        IN  /\ chunk \in Seq(Byte) /\ Len(chunk) = e + 2
            /\ \A k \in 1 .. Len(sl) : chunk[k] = sl[k]
            /\ \A k \in 1 .. size : chunk[Len(sl) + k] = data[k]
            /\ chunk[e + 1] = "\r" /\ chunk[e + 2] = "\n"
    BY <1>1, ChunkShape
  <2> QED
    BY <1>3, <2>1
<1>5. /\ Len(Header(r)) = 8 /\ Len(all) \in Nat /\ Len(W) = 8 + Len(all) + 5
      /\ \A k \in 1 .. Len(all) : W[8 + k] = all[k]
  BY HeaderShape, WireShape
<1>6. /\ LineStart(r, i) = 8 + Len(before) /\ LineStart(r, i + 1) = 8 + Len(upto)
      /\ DataStart(r, i) = LineStart(r, i) + w + 2
      /\ DataEnd(r, i) = DataStart(r, i) + size
  <2>1. LineStart(r, i) = 8 + Len(before)
    BY <1>5 DEF LineStart
  <2>2. LineStart(r, i + 1) = 8 + Len(upto)
    BY <1>0, <1>5 DEF LineStart
  <2>3. DataStart(r, i) = LineStart(r, i) + (w + 2)
    BY <1>3 DEF DataStart
  <2>4. Len(before) \in Nat
    BY <1>2, LenProperties
  <2>5. DataStart(r, i) = LineStart(r, i) + w + 2
    <3> HIDE DEF before, w
    <3> QED
      BY <1>1, <2>1, <2>3, <2>4
  <2>6. DataEnd(r, i) = DataStart(r, i) + size
    BY DEF DataEnd
  <2> QED
    BY <2>1, <2>2, <2>5, <2>6
<1> HIDE DEF W, data, text, w, size, all, before, upto, chunk
<1>7. /\ Len(before) \in Nat /\ Len(chunk) \in Nat
      /\ Len(before \o chunk) = Len(before) + Len(chunk)
      /\ \A k \in 1 .. Len(chunk) : (before \o chunk)[Len(before) + k] = chunk[k]
  <2>1. before \in Seq(Byte) /\ chunk \in Seq(Byte)
    BY <1>2, <1>4
  <2> QED
    BY ONLY <2>1, ConcatShape
<1>8. Len(upto) = Len(before) + Len(chunk) /\ Len(upto) <= Len(all)
  BY <1>2, <1>7 DEF Begins
<1>9. ASSUME NEW k \in 1 .. Len(chunk)
      PROVE  W[8 + Len(before) + k] = chunk[k]
  <2>1. /\ Len(before) + k \in 1 .. Len(upto) /\ Len(before) + k \in 1 .. Len(all)
        /\ 8 + (Len(before) + k) = 8 + Len(before) + k
    BY <1>5, <1>7, <1>8
  <2>2. all[Len(before) + k] = upto[Len(before) + k]
    BY <1>2, <2>1 DEF Begins
  <2>3. upto[Len(before) + k] = chunk[k]
    BY <1>2, <1>7
  <2>4. W[8 + (Len(before) + k)] = all[Len(before) + k]
    BY <1>5, <2>1
  <2> QED
    BY <2>1, <2>2, <2>3, <2>4
<1> DEFINE L == LineStart(r, i)
           D == DataStart(r, i)
           E == DataEnd(r, i)
<1>10. /\ L \in Nat /\ L >= 8 /\ D = L + w + 2 /\ E = D + size
       /\ L = 8 + Len(before)
  BY <1>6, <1>7
<1>11. LineStart(r, i + 1) = E + 2 /\ E + 2 + 5 <= Len(W)
  <2>1. \A b, v, s, a \in Nat :
          /\ 8 + (b + (v + 2 + s + 2)) = 8 + b + v + 2 + s + 2
          /\ b + (v + 2 + s + 2) <= a =>
               8 + b + v + 2 + s + 2 + 5 <= 8 + a + 5
    OBVIOUS
  <2>2. w \in Nat /\ size \in Nat
    BY <1>1, <1>3
  <2>3. /\ LineStart(r, i + 1) = 8 + (Len(before) + (w + 2 + size + 2))
        /\ Len(before) + (w + 2 + size + 2) <= Len(all)
    BY <1>4, <1>6, <1>8
  <2>4. E = 8 + Len(before) + w + 2 + size
    BY <1>10
  <2>5. Len(before) \in Nat /\ Len(all) \in Nat
    BY <1>5, <1>7
  <2> HIDE DEF E
  <2>6. LineStart(r, i + 1) = E + 2
    BY ONLY <2>1, <2>2, <2>3, <2>4, <2>5
  <2>7. E + 2 + 5 <= 8 + Len(all) + 5
    BY ONLY <2>1, <2>2, <2>3, <2>4, <2>5
  <2> QED
    BY <1>5, <2>6, <2>7
<1> HIDE DEF L, D, E
<1>n. /\ w \in Nat /\ size \in Nat /\ L \in Nat
      /\ Len(chunk) = w + 2 + size + 2
      /\ D = L + w + 2 /\ E = L + w + 2 + size
  <2>1. w \in Nat
    BY <1>3
  <2>2. size \in Nat
    BY <1>1
  <2>3. L \in Nat
    BY <1>10
  <2>4. Len(chunk) = w + 2 + size + 2
    BY <1>4
  <2>5. D = L + w + 2
    BY <1>10
  <2>6. E = L + w + 2 + size
    BY <1>10
  <2> QED
    BY <2>1, <2>2, <2>3, <2>4, <2>5, <2>6
<1>12. \A k \in 1 .. w + 2 : W[L + k] = SizeLine(text)[k]
  <2>1. \A k \in 1 .. w + 2 : k \in 1 .. Len(chunk)
    BY <1>1, <1>3, <1>4
  <2> QED
    BY <1>4, <1>9, <1>10, <2>1
<1>13. ASSUME NEW k \in 1 .. size PROVE W[D + k] = data[k]
  <2>a. \A v, s, m \in Nat : \A j \in 1 .. s :
          /\ v + 2 + j \in 1 .. v + 2 + s + 2
          /\ m + (v + 2 + j) = m + v + 2 + j
    OBVIOUS
  <2>1. /\ w + 2 + k \in 1 .. Len(chunk)
        /\ L + (w + 2 + k) = D + k
    BY <1>n, <2>a
  <2>2. W[8 + Len(before) + (w + 2 + k)] = chunk[w + 2 + k]
    BY <1>9, <2>1
  <2> QED
    BY <1>4, <1>10, <2>1, <2>2
<1>14. W[E + 1] = "\r" /\ W[E + 2] = "\n"
  <2>a. \A v, s, m \in Nat :
          /\ v + 2 + s + 1 \in 1 .. v + 2 + s + 2
          /\ v + 2 + s + 2 \in 1 .. v + 2 + s + 2
          /\ m + (v + 2 + s + 1) = m + v + 2 + s + 1
          /\ m + (v + 2 + s + 2) = m + v + 2 + s + 2
    OBVIOUS
  <2>1. /\ w + 2 + size + 1 \in 1 .. Len(chunk)
        /\ w + 2 + size + 2 \in 1 .. Len(chunk)
        /\ L + (w + 2 + size + 1) = E + 1
        /\ L + (w + 2 + size + 2) = E + 2
    BY <1>n, <2>a
  <2>2. /\ W[8 + Len(before) + (w + 2 + size + 1)]
             = chunk[w + 2 + size + 1]
        /\ W[8 + Len(before) + (w + 2 + size + 2)]
             = chunk[w + 2 + size + 2]
    BY <1>9, <2>1
  <2> QED
    BY <1>4, <1>10, <2>1, <2>2
<1> QED
  BY <1>1, <1>10, <1>11, <1>12, <1>13, <1>14 DEF W, data, text, w, size, L, D, E

-----------------------------------------------------------------------------
(* Reading a size line.                                                      *)

\* std::getline finds the first line end.
LEMMA LineEndShape ==
  ASSUME NEW data \in Seq(Byte)
  PROVE  /\ LineEnd(data) \in 0 .. Len(data)
         /\ \A k \in 1 .. Len(data) :
              data[k] = "\n" /\ (\A i \in 1 .. k - 1 : data[i] # "\n")
                => LineEnd(data) = k
<1> DEFINE I == {i \in 1 .. Len(data) : data[i] = "\n"}
           least == CHOOSE x \in I : \A y \in I : x =< y
<1>1. LineEnd(data) = IF I # {} THEN least ELSE 0
  BY DEF LineEnd, SelectInSeq, Min
<1>2. Len(data) \in Nat /\ I \in SUBSET Nat /\ \A i \in I : i \in 1 .. Len(data)
  BY LenProperties
<1>3. ASSUME NEW k \in I, \A i \in I : k <= i
      PROVE  LineEnd(data) = k
  <2> HIDE DEF I
  <2>1. least \in I /\ \A y \in I : least =< y
    BY <1>3
  <2> HIDE DEF least
  <2>2. least <= k /\ k <= least /\ least \in Nat /\ k \in Nat
    BY <1>2, <1>3, <2>1
  <2> QED
    BY <1>1, <2>2
<1>4. LineEnd(data) \in 0 .. Len(data)
  <2>1. CASE I = {}
    BY <1>1, <1>2, <2>1
  <2>2. CASE I # {}
    <3> HIDE DEF I
    <3>1. PICK k \in I : \A y \in I : k <= y
      BY <1>2, <2>2, LeastNumber
    <3>3. LineEnd(data) = k
      BY <1>3, <3>1
    <3> QED
      BY <1>2, <3>3
  <2> QED
    BY <2>1, <2>2
<1>5. ASSUME NEW k \in 1 .. Len(data), data[k] = "\n",
             \A i \in 1 .. k - 1 : data[i] # "\n"
      PROVE  LineEnd(data) = k
  <2>1. k \in I /\ k \in Nat
    BY <1>5
  <2>2. ASSUME NEW i \in I PROVE k <= i
    <3>1. i \in 1 .. Len(data) /\ data[i] = "\n" /\ i \in Nat
      OBVIOUS
    <3>2. ~ (i \in 1 .. k - 1)
      BY <1>5, <3>1
    <3> QED
      BY ONLY <3>1, <3>2, <2>1, <1>2
  <2> QED
    BY <1>3, <2>1, <2>2
<1> QED
  BY <1>4, <1>5

\* The digits are no line end, blank or sign, and begin with zero.
LEMMA DigitsDiffer ==
  /\ Len(HexDigits) = 22
  /\ \A i \in 1 .. 22 : HexDigits[i] = "0" => i = 1
  /\ HexDigits[1] = "0"
  /\ \A b : IsHex(b) => b \notin {"\n", "\r", " ", "\t", "+", "-", "x", "X"}
<1>1. Len(HexDigits) = 22
  BY DEF HexDigits
<1>2. \A i \in 1 .. 22 : HexDigits[i] = "0" => i = 1
  BY DEF HexDigits
<1>3. HexDigits[1] = "0"
  BY DEF HexDigits
<1>4. \A i \in 1 .. 22 :
        HexDigits[i] \notin {"\n", "\r", " ", "\t", "+", "-", "x", "X"}
  <2>1. \A i \in 1 .. 22 : HexDigits[i] # "\n" /\ HexDigits[i] # "\r"
    BY DEF HexDigits
  <2>2. \A i \in 1 .. 22 : HexDigits[i] # " " /\ HexDigits[i] # "\t"
    <3>1. \A i \in 1 .. 22 : HexDigits[i] # " "
      <4> DEFINE D == {"0", "1", "2", "3", "4", "5", "6", "7", "8", "9",
                       "a", "b", "c", "d", "e", "f", "A", "B", "C", "D", "E", "F"}
      <4>1. \A i \in 1 .. 22 : HexDigits[i] \in D
        BY DEF HexDigits
      <4>2. " " \notin D
        BY Zenon
      <4> HIDE DEF D
      <4> QED
        BY ONLY <4>1, <4>2
    <3>2. \A i \in 1 .. 22 : HexDigits[i] # "\t"
      BY DEF HexDigits
    <3> QED
      BY ONLY <3>1, <3>2
  <2>3. \A i \in 1 .. 22 : HexDigits[i] # "+" /\ HexDigits[i] # "-"
    BY DEF HexDigits
  <2>4. \A i \in 1 .. 22 : HexDigits[i] # "x" /\ HexDigits[i] # "X"
    BY DEF HexDigits
  <2> QED
    BY ONLY <2>1, <2>2, <2>3, <2>4
<1>5. ASSUME NEW b, IsHex(b)
      PROVE  b \notin {"\n", "\r", " ", "\t", "+", "-", "x", "X"}
  <2>1. \E i \in 1 .. 22 : HexDigits[i] = b
    BY <1>1, <1>5 DEF IsHex, Contains
  <2> QED
    BY ONLY <1>4, <2>1
<1> QED
  BY <1>1, <1>2, <1>3, <1>5

\* The least of a set of indices.
LEMMA LeastIndex ==
  ASSUME NEW n \in Nat, NEW I \in SUBSET (1 .. n)
  PROVE  LET l == IF I # {} THEN CHOOSE x \in I : \A y \in I : x =< y ELSE 0
         IN  /\ l \in 0 .. n
             /\ I # {} => l \in I
             /\ \A k \in I : l <= k
<1>1. CASE I = {}
  BY <1>1
<1>2. CASE I # {}
  <2> DEFINE l == CHOOSE x \in I : \A y \in I : x =< y
  <2>1. I \in SUBSET Nat
    OBVIOUS
  <2>2. \E k \in I : \A y \in I : k <= y
    BY <1>2, <2>1, LeastNumber
  <2>3. l \in I /\ \A y \in I : l <= y
    BY <2>2
  <2> HIDE DEF l
  <2>4. l \in 0 .. n
    BY <2>3
  <2> QED
    BY <1>2, <2>3, <2>4 DEF l
<1> QED
  BY <1>1, <1>2

\* The value of a digit.
LEMMA DigitValue ==
  /\ IsHex("0") /\ DigitOf("0") = 0
  /\ \A b : IsHex(b) => DigitOf(b) \in Nat
<1> DEFINE I(b) == {i \in 1 .. Len(HexDigits) : HexDigits[i] = b}
           l(b) == IF I(b) # {} THEN CHOOSE x \in I(b) : \A y \in I(b) : x =< y ELSE 0
<1>1. \A b : DigitOf(b) = IF l(b) > 16 THEN l(b) - 7 ELSE l(b) - 1
  BY DEF DigitOf, SelectInSeq, Min
<1>2. ASSUME NEW b, IsHex(b) PROVE l(b) \in I(b) /\ I(b) \subseteq 1 .. 22
  <2>1. I(b) # {} /\ I(b) \in SUBSET (1 .. 22) /\ 22 \in Nat
    BY <1>2, DigitsDiffer DEF IsHex, Contains
  <2> HIDE DEF I
  <2> QED
    BY ONLY <2>1, LeastIndex
<1>3. IsHex("0")
  <2>1. 1 \in 1 .. Len(HexDigits) /\ HexDigits[1] = "0"
    <3>1. Len(HexDigits) = 22 /\ HexDigits[1] = "0"
      BY DigitsDiffer
    <3> QED
      BY ONLY <3>1
  <2> QED
    BY <2>1 DEF IsHex, Contains
<1>4. I("0") \subseteq {1}
  BY DigitsDiffer
<1> HIDE DEF I, l
<1>5. DigitOf("0") = 0
  <2>1. l("0") = 1
    BY <1>2, <1>3, <1>4
  <2> QED
    BY <1>1, <2>1
<1>6. ASSUME NEW b, IsHex(b) PROVE DigitOf(b) \in Nat
  <2>1. l(b) \in 1 .. 22
    BY <1>2, <1>6
  <2> QED
    BY <1>1, <2>1
<1> QED
  BY <1>3, <1>5, <1>6

\* The hexadecimal digits in front.
LEMMA HexValueShape ==
  ASSUME NEW text \in Seq(Byte)
  PROVE  /\ HexValue(text) \in Nat
         /\ Len(text) = 1 /\ IsHex(text[1]) => HexValue(text) = DigitOf(text[1])
         /\ Len(text) = 0 => HexValue(text) = 0
<1> DEFINE I == {i \in 1 .. Len(text) : ~ IsHex(text[i])}
           other == IF I # {} THEN CHOOSE x \in I : \A y \in I : x =< y ELSE 0
           d == IF other = 0 THEN Len(text) ELSE other - 1
           Eq(f) == f = [n \in 0 .. d |->
                          IF n = 0 THEN 0 ELSE 16 * f[n - 1] + DigitOf(text[n])]
           g == CHOOSE f : Eq(f)
<1>1. HexValue(text) = g[d]
  BY DEF HexValue, SelectInSeq, Min
<1>2. /\ d \in Nat /\ \A i \in 1 .. d : IsHex(text[i])
      /\ (\A i \in 1 .. Len(text) : IsHex(text[i])) => d = Len(text)
  <2>0. Len(text) \in Nat
    BY LenProperties
  <2>1. CASE I = {}
    BY <2>0, <2>1
  <2>2. CASE I # {}
    <3>1. I \in SUBSET Nat /\ \A i \in I : i \in 1 .. Len(text)
      OBVIOUS
    <3>2. ~ (\A i \in 1 .. Len(text) : IsHex(text[i]))
      BY <2>2
    <3>3. \A i \in 1 .. Len(text) : i \in I \/ IsHex(text[i])
      OBVIOUS
    <3> HIDE DEF I
    <3>4. \E k \in I : \A y \in I : k <= y
      BY <2>2, <3>1, LeastNumber
    <3>5. other \in I /\ \A y \in I : other <= y
      BY <2>2, <3>4
    <3> HIDE DEF other
    <3>6. other \in 1 .. Len(text) /\ d = other - 1
      BY <3>1, <3>5
    <3>7. ASSUME NEW i \in 1 .. d PROVE IsHex(text[i])
      <4>1. i \in 1 .. Len(text) /\ ~ (other <= i)
        BY <2>0, <3>6
      <4> QED
        BY <3>3, <3>5, <4>1
    <3> QED
      BY <2>0, <3>2, <3>6, <3>7
  <2> QED
    BY <2>1, <2>2
<1> HIDE DEF d
<1>3. \E f : Eq(f)
  <2> DEFINE Upto(m, f) == f = [n \in 0 .. m |->
                       IF n = 0 THEN 0 ELSE 16 * f[n - 1] + DigitOf(text[n])]
             T == {m \in Nat : \E f : Upto(m, f)}
  <2>1. 0 \in T
    <3>1. Upto(0, [n \in 0 .. 0 |-> 0])
      OBVIOUS
    <3> QED
      BY <3>1
  <2>2. ASSUME NEW m \in Nat, m \in T PROVE m + 1 \in T
    <3>1. PICK f : Upto(m, f)
      BY <2>2
    <3> DEFINE h == [n \in 0 .. m + 1 |->
                      IF n <= m THEN f[n] ELSE 16 * f[m] + DigitOf(text[n])]
    <3>2. ASSUME NEW n \in 0 .. m + 1
          PROVE  h[n] = IF n = 0 THEN 0 ELSE 16 * h[n - 1] + DigitOf(text[n])
      <4>1. CASE n <= m
        <5>1. n \in 0 .. m /\ h[n] = f[n]
          BY <4>1
        <5>2. f[n] = IF n = 0 THEN 0 ELSE 16 * f[n - 1] + DigitOf(text[n])
          BY <3>1, <5>1
        <5>3. n # 0 => h[n - 1] = f[n - 1]
          BY <4>1
        <5> QED
          BY <5>1, <5>2, <5>3
      <4>2. CASE n = m + 1
        <5>1. h[n] = 16 * f[m] + DigitOf(text[n])
          BY <4>2
        <5>2. n # 0 /\ n - 1 = m /\ h[m] = f[m]
          BY <4>2
        <5> QED
          BY <5>1, <5>2
      <4> QED
        BY <4>1, <4>2
    <3>3. h = [n \in 0 .. m + 1 |-> h[n]]
      OBVIOUS
    <3> HIDE DEF h
    <3>4. Upto(m + 1, h)
      BY <3>2, <3>3
    <3> QED
      BY <3>4
  <2> HIDE DEF T
  <2>3. d \in T
    BY <1>2, <2>1, <2>2, AllNumbers
  <2> QED
    BY <2>3 DEF T
<1>4. Eq(g)
  BY <1>3
<1>5. /\ \A n \in 0 .. d : g[n] = IF n = 0 THEN 0
                                  ELSE 16 * g[n - 1] + DigitOf(text[n])
  BY <1>4
<1> HIDE DEF g, Eq
<1> DEFINE T == {n \in Nat : n <= d => g[n] \in Nat}
<1>6. 0 \in T
  BY <1>2, <1>5
<1>7. ASSUME NEW n \in Nat, n \in T PROVE n + 1 \in T
  <2> SUFFICES ASSUME n + 1 <= d PROVE g[n + 1] \in Nat
    OBVIOUS
  <2> DEFINE m == n + 1
  <2>1. m \in 0 .. d /\ m \in 1 .. d /\ m # 0 /\ m - 1 = n
    BY <1>2
  <2>2. g[n] \in Nat
    BY <1>2, <1>7
  <2> HIDE DEF m
  <2>3. g[m] = 16 * g[n] + DigitOf(text[m])
    BY <1>5, <2>1
  <2>4. DigitOf(text[m]) \in Nat
    BY <1>2, <2>1, DigitValue
  <2>5. g[m] \in Nat
    BY <2>2, <2>3, <2>4
  <2> QED
    BY <2>5 DEF m
<1> HIDE DEF T
<1>8. g[d] \in Nat
  <2>1. d \in T
    BY <1>2, <1>6, <1>7, AllNumbers
  <2> QED
    BY <2>1, <1>2 DEF T
<1>9. ASSUME Len(text) = 1, IsHex(text[1])
      PROVE  g[d] = DigitOf(text[1])
  <2>1. d = 1 /\ DigitOf(text[1]) \in Nat
    BY <1>2, <1>9, DigitValue
  <2>2. g[0] = 0 /\ g[1] = 16 * g[0] + DigitOf(text[1])
    BY <1>5, <2>1
  <2> QED
    BY <2>1, <2>2
<1>10. ASSUME Len(text) = 0
       PROVE  g[d] = 0
  <2>1. d = 0
    BY <1>2, <1>10
  <2> QED
    BY <1>5, <2>1
<1> QED
  BY <1>1, <1>8, <1>9, <1>10

\* A part of a sequence.
LEMMA SubSeqShape ==
  ASSUME NEW S, NEW s \in Seq(S), NEW m \in Nat \ {0}, NEW n \in 0 .. Len(s)
  PROVE  /\ SubSeq(s, m, n) \in Seq(S)
         /\ Len(SubSeq(s, m, n)) = IF m <= n THEN n - m + 1 ELSE 0
         /\ \A k \in 1 .. n - m + 1 : SubSeq(s, m, n)[k] = s[m + k - 1]
<1>1. Len(s) \in Nat
  BY LenProperties
<1>2. \A i \in m .. n : i \in 1 .. Len(s)
  BY <1>1
<1>3. \A i \in m .. n : s[i] \in S
  BY <1>2, ElementOfSeq
<1> QED
  BY <1>1, <1>3, SubSeqProperties

\* What std::getline leaves is a sequence of bytes, and so is its text.
LEMMA LineShapes ==
  ASSUME NEW data \in Seq(Byte)
  PROVE  /\ FirstLine(data) \in Seq(Byte)
         /\ Front(FirstLine(data)) \in Seq(Byte)
<1>1. \A s \in Seq(Byte) : Front(s) \in Seq(Byte)
  <2> SUFFICES ASSUME NEW s \in Seq(Byte) PROVE Front(s) \in Seq(Byte)
    OBVIOUS
  <2>1. CASE s = <<>>
    BY <2>1, SubSeqEmpty DEF Front
  <2>2. CASE s # <<>>
    <3>1. Len(s) - 1 \in 0 .. Len(s)
      BY <2>2, EmptySeq
    <3> QED
      BY <3>1, SubSeqShape DEF Front
  <2> QED
    BY <2>1, <2>2
<1>2. FirstLine(data) \in Seq(Byte)
  <2>1. LineEnd(data) \in 0 .. Len(data) /\ Len(data) \in Nat
    BY LineEndShape, LenProperties
  <2>2. CASE LineEnd(data) = 0
    BY <2>2 DEF FirstLine
  <2>3. CASE LineEnd(data) # 0
    <3>1. LineEnd(data) - 1 \in 0 .. Len(data)
      BY <2>1, <2>3
    <3> QED
      BY <2>3, <3>1, SubSeqShape DEF FirstLine
  <2> QED
    BY <2>2, <2>3
<1> QED
  BY <1>1, <1>2

\* operator>> leaves a number that fits.
LEMMA NumberShape ==
  ASSUME NEW text \in Seq(Byte)
  PROVE  Number(text) \in Int /\ MinInt <= Number(text) /\ Number(text) <= MaxInt
<1> DEFINE blanks   == SelectInSeq(text, LAMBDA b : b \notin Blank) - 1
           word     == IF blanks < 0 THEN <<>> ELSE Behind(text, blanks)
           sign     == IF word # <<>> /\ word[1] \in {"+", "-"} THEN word[1] ELSE "+"
           unsigned == IF word # <<>> /\ word[1] \in {"+", "-"}
                       THEN Behind(word, 1) ELSE word
           prefixed == /\ Len(unsigned) > 1 /\ unsigned[1] = "0"
                       /\ unsigned[2] \in {"x", "X"}
           rest     == IF prefixed THEN Behind(unsigned, 2) ELSE unsigned
           value    == HexValue(rest)
<1>1. Number(text) = IF sign = "-" THEN IF value > MaxInt THEN MinInt ELSE -value
                     ELSE IF value > MaxInt THEN MaxInt ELSE value
  BY DEF Number
<1>2. ASSUME NEW s \in Seq(Byte), NEW n \in Nat PROVE Behind(s, n) \in Seq(Byte)
  <2>1. n + 1 \in Nat \ {0} /\ Len(s) \in 0 .. Len(s)
    BY LenProperties
  <2> QED
    BY <2>1, SubSeqShape DEF Behind
<1>3. blanks \in Int
  <2> DEFINE I == {i \in 1 .. Len(text) : text[i] \notin Blank}
             l == IF I # {} THEN CHOOSE x \in I : \A y \in I : x =< y ELSE 0
  <2>1. Len(text) \in Nat /\ I \in SUBSET (1 .. Len(text))
    BY LenProperties
  <2>2. blanks = l - 1
    BY DEF SelectInSeq, Min
  <2> HIDE DEF blanks
  <2>3. l \in Int
    <3> DEFINE n == Len(text)
    <3>1. n \in Nat /\ I \in SUBSET (1 .. n)
      BY <2>1
    <3> HIDE DEF I, n
    <3>2. CASE I # {}
      <4>1. l \in I
        BY ONLY <3>1, <3>2, LeastIndex
      <4> HIDE DEF l
      <4> QED
        BY <3>1, <4>1
    <3>3. CASE I = {}
      BY <3>3
    <3> HIDE DEF l
    <3> QED
      BY <3>2, <3>3
  <2> HIDE DEF l
  <2> QED
    BY <2>2, <2>3
<1> HIDE DEF blanks
<1>4. word \in Seq(Byte)
  BY <1>2, <1>3, EmptySeq
<1> HIDE DEF word
<1>5. unsigned \in Seq(Byte)
  BY <1>2, <1>4
<1> HIDE DEF unsigned
<1>6. rest \in Seq(Byte)
  BY <1>2, <1>5
<1> HIDE DEF rest
<1>7. value \in Nat
  BY <1>6, HexValueShape
<1> HIDE DEF value, sign
<1> QED
  BY <1>1, <1>7 DEF MaxInt, MinInt

\* A text of hexadecimal digits is read as their value.
LEMMA DigitsRead ==
  ASSUME NEW text \in Seq(Byte), \A k \in 1 .. Len(text) : IsHex(text[k]),
         text # <<>>, HexValue(text) <= MaxInt
  PROVE  ~ IsBlank(text) /\ Number(text) = HexValue(text)
<1>1. /\ Len(text) \in Nat /\ Len(text) > 0 /\ DOMAIN text = 1 .. Len(text)
      /\ 1 \in 1 .. Len(text)
  BY LenProperties, EmptySeq
<1>2. \A k \in 1 .. Len(text) :
        text[k] \notin {"\n", "\r", " ", "\t", "+", "-", "x", "X"}
  BY DigitsDiffer
<1>3. ~ IsBlank(text)
  BY <1>1, <1>2 DEF IsBlank, Blank
<1> DEFINE I == {i \in 1 .. Len(text) : text[i] \notin Blank}
           l == IF I # {} THEN CHOOSE x \in I : \A y \in I : x =< y ELSE 0
<1>4. l = 1
  <2>1. 1 \in I /\ I \in SUBSET (1 .. Len(text))
    BY <1>1, <1>2 DEF Blank
  <2> HIDE DEF I
  <2>2. l \in I /\ l <= 1
    BY <1>1, <2>1, LeastIndex
  <2> HIDE DEF l
  <2>3. l \in 1 .. Len(text)
    BY <2>1, <2>2
  <2> QED
    BY <1>1, <2>2, <2>3
<1>5. SelectInSeq(text, LAMBDA b : b \notin Blank) - 1 = 0
  <2>1. SelectInSeq(text, LAMBDA b : b \notin Blank) = l
    BY DEF SelectInSeq, Min
  <2> HIDE DEF l
  <2> QED
    BY <1>4, <2>1
<1>6. Behind(text, 0) = text
  BY SubSeqFull DEF Behind
<1>7. text[1] \notin {"+", "-"} /\ (Len(text) > 1 => text[2] \notin {"x", "X"})
  <2>1. Len(text) > 1 => 2 \in 1 .. Len(text)
    BY <1>1
  <2> QED
    BY <1>1, <1>2, <2>1
<1>8. Number(text) = IF HexValue(text) > MaxInt THEN MaxInt ELSE HexValue(text)
  BY <1>5, <1>6, <1>7 DEF Number
<1> QED
  BY <1>3, <1>8, HexValueShape DEF MaxInt

\* A text of hexadecimal digits, with its line end and a byte behind it, is read
\* as a line.
LEMMA SizeLineRead ==
  ASSUME NEW data \in Seq(Byte), NEW text \in Seq(Byte),
         \A k \in 1 .. Len(text) : IsHex(text[k]),
         Len(data) > Len(text) + 2, Begins(SizeLine(text), data)
  PROVE  LET line == FirstLine(data)
         IN  /\ LineEnd(data) = Len(text) + 2
             /\ LineEnd(data) \in 1 .. Len(data) - 1
             /\ line # <<>> /\ Last(line) = "\r" /\ Front(line) = text
<1> DEFINE w == Len(text)
           line == FirstLine(data)
           front == Front(line)
<1>1. w \in Nat /\ Len(data) \in Nat /\ Len(data) > w + 2
  BY LenProperties
<1>2. \A k \in 1 .. w : text[k] # "\n"
  BY DigitsDiffer
<1>3. /\ \A k \in 1 .. w : data[k] = text[k]
      /\ data[w + 1] = "\r" /\ data[w + 2] = "\n"
  <2>1. /\ Len(SizeLine(text)) = w + 2
        /\ \A k \in 1 .. w : SizeLine(text)[k] = text[k]
        /\ SizeLine(text)[w + 1] = "\r" /\ SizeLine(text)[w + 2] = "\n"
    BY SizeLineShape
  <2>2. \A k \in 1 .. w + 2 : data[k] = SizeLine(text)[k]
    BY <2>1 DEF Begins
  <2>3. /\ \A k \in 1 .. w : k \in 1 .. w + 2
        /\ w + 1 \in 1 .. w + 2 /\ w + 2 \in 1 .. w + 2
    BY <1>1
  <2> QED
    BY <2>1, <2>2, <2>3
<1> HIDE DEF w
<1>5. LineEnd(data) = w + 2
  <2>1. w + 2 \in 1 .. Len(data) /\ "\r" # "\n"
    BY <1>1
  <2>2. ASSUME NEW i \in 1 .. (w + 2) - 1 PROVE data[i] # "\n"
    <3>1. i = w + 1 \/ i \in 1 .. w
      BY <1>1
    <3> QED
      BY <1>2, <1>3, <2>1, <3>1
  <2> QED
    <3>1. data[w + 2] = "\n" /\ \A i \in 1 .. (w + 2) - 1 : data[i] # "\n"
      BY <1>3, <2>2
    <3>2. \A k \in 1 .. Len(data) :
            data[k] = "\n" /\ (\A i \in 1 .. k - 1 : data[i] # "\n")
              => LineEnd(data) = k
      BY LineEndShape
    <3> DEFINE m == w + 2
    <3>3. m \in 1 .. Len(data)
      BY <2>1
    <3>4. data[m] = "\n" /\ \A i \in 1 .. m - 1 : data[i] # "\n"
      BY <3>1
    <3> HIDE DEF m
    <3>5. LineEnd(data) = m
      BY ONLY <3>2, <3>3, <3>4
    <3> QED
      BY <3>5 DEF m
<1>6. /\ line \in Seq(Byte) /\ Len(line) = w + 1
      /\ \A k \in 1 .. w + 1 : line[k] = data[k]
  <2>1. line = SubSeq(data, 1, w + 1)
    BY <1>1, <1>5 DEF FirstLine
  <2>2. w + 1 \in 0 .. Len(data)
    BY <1>1
  <2>3. /\ SubSeq(data, 1, w + 1) \in Seq(Byte)
        /\ Len(SubSeq(data, 1, w + 1)) = w + 1
        /\ \A k \in 1 .. w + 1 : SubSeq(data, 1, w + 1)[k] = data[k]
    BY <1>1, <2>2, SubSeqShape
  <2> QED
    BY <2>1, <2>3
<1> HIDE DEF line
<1>7. line # <<>> /\ Last(line) = "\r"
  <2>1. w + 1 \in 1 .. w + 1 /\ w + 1 # 0
    BY <1>1
  <2> QED
    BY <1>3, <1>6, <2>1 DEF Last
<1>8. /\ front \in Seq(Byte) /\ Len(front) = w
      /\ \A k \in 1 .. w : front[k] = data[k]
  <2>1. front = SubSeq(line, 1, w)
    BY <1>1, <1>6 DEF Front
  <2>2. w \in 0 .. Len(line)
    BY <1>1, <1>6
  <2>3. /\ SubSeq(line, 1, w) \in Seq(Byte)
        /\ Len(SubSeq(line, 1, w)) = w
        /\ \A k \in 1 .. w : SubSeq(line, 1, w)[k] = line[k]
    <3>1. /\ SubSeq(line, 1, w) \in Seq(Byte)
          /\ Len(SubSeq(line, 1, w)) = IF 1 <= w THEN w - 1 + 1 ELSE 0
          /\ \A k \in 1 .. w - 1 + 1 : SubSeq(line, 1, w)[k] = line[1 + k - 1]
      BY <1>6, <2>2, SubSeqShape
    <3>2. (IF 1 <= w THEN w - 1 + 1 ELSE 0) = w /\ w - 1 + 1 = w
      BY <1>1
    <3>3. \A k \in 1 .. w : 1 + k - 1 = k
      BY <1>1
    <3> QED
      BY <3>1, <3>2, <3>3
  <2>4. \A k \in 1 .. w : k \in 1 .. w + 1
    BY <1>1
  <2> QED
    BY <1>6, <2>1, <2>3, <2>4
<1> HIDE DEF front
<1>9. front = text
  <2>1. Len(front) = Len(text) /\ \A k \in 1 .. Len(front) : front[k] = text[k]
    BY <1>3, <1>8 DEF w
  <2> QED
    BY <1>8, <2>1, SeqEqual
<1>10. w + 2 \in 1 .. Len(data) - 1
  BY <1>1
<1> QED
  BY <1>5, <1>7, <1>9, <1>10 DEF w, line, front

-----------------------------------------------------------------------------
(* Types.                                                                    *)

\* What a packet does, the first one and a later one.
LEMMA PacketShape ==
  ASSUME TypeOK, pc = "recv", NEW output \in Seq(Byte), Packet(output)
  PROVE  /\ UNCHANGED <<reply, mCurrentChunkSize>>
         /\ mFirstPacket' = TRUE
         /\ mRequestSuccess' \in BOOLEAN /\ chunked' \in BOOLEAN
         /\ mCurrentChunk' \in Seq(Byte) /\ response' \in Seq(Byte)
         /\ pc' \in {"decode", "done"} /\ (pc' # "done" => chunked')
<1> DEFINE body == SubSeq(output, Len(Header(reply)) + 1, Len(output))
<1>1. body \in Seq(Byte)
  <2>1. Len(Header(reply)) + 1 \in Nat \ {0}
    BY HeaderShape DEF TypeOK
  <2>2. Len(output) \in 0 .. Len(output)
    BY LenProperties
  <2> QED
    BY <2>1, <2>2, SubSeqShape
<1>2. \A s \in Seq(Byte) : mCurrentChunk \o s \in Seq(Byte) /\ response \o s \in Seq(Byte)
  BY ConcatShape DEF TypeOK
<1>3. CASE NextPacket(output)
  BY <1>2, <1>3 DEF NextPacket, Packet, TypeOK
<1>4. CASE FirstPacket(output)
  <2> DEFINE r == ParseReplyHeader(output)
             whole == Len(r.body) = r.contentLength
  <2>1. r.body = body /\ r.chunked \in BOOLEAN
    BY DEF ParseReplyHeader
  <2> HIDE DEF body, r
  <2>2. /\ mFirstPacket' = TRUE /\ chunked' = r.chunked
        /\ mRequestSuccess' = (Len(r.body) = r.contentLength)
    BY <1>4 DEF FirstPacket, r
  <2>3. CASE r.chunked
    <3>1. /\ mCurrentChunk' = mCurrentChunk \o IF whole THEN output ELSE r.body
          /\ pc' = "decode" /\ response' = response
      BY <1>4, <2>3 DEF FirstPacket, r
    <3>2. (IF whole THEN output ELSE r.body) \in Seq(Byte)
      BY <1>1, <2>1
    <3>3. chunked' = TRUE
      BY <2>1, <2>2, <2>3
    <3> QED
      BY <1>2, <2>2, <3>1, <3>2, <3>3 DEF Packet, TypeOK
  <2>4. CASE ~ r.chunked
    <3>1. /\ response' = response \o r.body
          /\ pc' = "done" /\ mCurrentChunk' = mCurrentChunk
      BY <1>4, <2>4 DEF FirstPacket, r
    <3> QED
      BY <1>1, <1>2, <2>1, <2>2, <3>1 DEF Packet, TypeOK
  <2> QED
    BY <2>3, <2>4
<1> QED
  BY <1>3, <1>4 DEF Packet

\* Nothing was received when Get begins.
LEMMA TypeInitially == Init => TypeOK
<1> SUFFICES ASSUME Init PROVE TypeOK
  OBVIOUS
<1>1. reply \in Replies /\ at = 0 /\ Len(Wire(reply)) \in Nat
  BY WireShape DEF Init
<1>2. at \in 0 .. Len(Wire(reply))
  BY <1>1
<1>3. /\ mCurrentChunk \in Seq(Byte) /\ response \in Seq(Byte)
  <2>1. <<>> \in Seq(Byte)
    BY EmptySeq
  <2> QED
    BY <2>1 DEF Init
<1>4. /\ mCurrentChunkSize \in Int
      /\ MinInt <= mCurrentChunkSize /\ mCurrentChunkSize <= MaxInt
  BY DEF Init, MinInt, MaxInt
<1>5. /\ mFirstPacket \in BOOLEAN /\ chunked \in BOOLEAN
      /\ mRequestSuccess \in BOOLEAN /\ interrupted \in BOOLEAN
      /\ pc \in {"connect", "recv", "decode", "done"} /\ ~ mFirstPacket
      /\ badCuts \subseteq {"header", "length", "line", "data"}
  BY DEF Init
<1> QED
  BY <1>1, <1>2, <1>3, <1>4, <1>5 DEF TypeOK

\* Every step keeps the types.
LEMMA TypeStep == TypeOK /\ [Next]_vars => TypeOK'
<1> SUFFICES ASSUME TypeOK, [Next]_vars PROVE TypeOK'
  OBVIOUS
<1>1. /\ reply \in Replies /\ Wire(reply) \in Seq(Byte)
      /\ Len(Wire(reply)) \in Nat /\ at \in 0 .. Len(Wire(reply))
  BY WireShape DEF TypeOK
<1>2. \A p : CutKinds(reply, p) \subseteq {"header", "length", "line", "data"}
  BY DEF CutKinds
<1>3. CASE Connect
  BY <1>3 DEF Connect, TypeOK, replyVars, chunkVars
<1>4. CASE Recv
  <2>1. PICK n \in 1 .. RecvSize :
          /\ at + n <= Len(Wire(reply)) /\ at' = at + n
          /\ badCuts' = badCuts \cup CutKinds(reply, at')
          /\ Packet(SubSeq(Wire(reply), at + 1, at'))
    BY <1>4 DEF Recv
  <2>2. at' \in 0 .. Len(Wire(reply)) /\ at + 1 \in Nat \ {0}
    BY <1>1, <2>1, ReplyAssumption
  <2>3. SubSeq(Wire(reply), at + 1, at') \in Seq(Byte)
    BY <1>1, <2>2, SubSeqShape
  <2>4. /\ UNCHANGED <<reply, mCurrentChunkSize>> /\ mFirstPacket' = TRUE
        /\ mRequestSuccess' \in BOOLEAN /\ chunked' \in BOOLEAN
        /\ mCurrentChunk' \in Seq(Byte) /\ response' \in Seq(Byte)
        /\ pc' \in {"decode", "done"} /\ (pc' # "done" => chunked')
    <3>1. pc = "recv"
      BY <1>4 DEF Recv
    <3> DEFINE output == SubSeq(Wire(reply), at + 1, at')
    <3>2. output \in Seq(Byte) /\ Packet(output)
      BY <2>1, <2>3
    <3> HIDE DEF output
    <3> QED
      BY ONLY TypeOK, <3>1, <3>2, PacketShape
  <2>5. badCuts' \subseteq {"header", "length", "line", "data"}
    BY <1>2, <2>1 DEF TypeOK
  <2>6. interrupted' = interrupted
    BY <1>4 DEF Recv
  <2> QED
    BY <2>2, <2>4, <2>5, <2>6 DEF TypeOK
<1>5. CASE RecvError
  <2>1. /\ UNCHANGED <<reply, mCurrentChunkSize>> /\ mFirstPacket' = TRUE
        /\ mRequestSuccess' \in BOOLEAN /\ chunked' \in BOOLEAN
        /\ mCurrentChunk' \in Seq(Byte) /\ response' \in Seq(Byte)
        /\ pc' \in {"decode", "done"} /\ (pc' # "done" => chunked')
    BY <1>5, EmptySeq, PacketShape DEF RecvError
  <2>2. interrupted' \in BOOLEAN /\ at' = at /\ badCuts' = badCuts
    BY <1>5 DEF RecvError, TypeOK
  <2> QED
    BY <2>1, <2>2 DEF TypeOK
<1>6. CASE RecvNothing
  BY <1>6 DEF RecvNothing, GiveUp, TypeOK, replyVars, chunkVars
<1>7. CASE WaitForSize \/ LastChunk \/ WaitForData
  <2>1. CASE WaitForSize
    BY <2>1 DEF WaitForSize, TypeOK, replyVars, chunkVars, decodeFrame
  <2>2. CASE LastChunk
    BY <2>2 DEF LastChunk, TypeOK, replyVars, chunkVars, decodeFrame
  <2>3. CASE WaitForData
    <3>1. /\ pc = "decode" /\ pc' = "recv"
          /\ UNCHANGED <<reply, at, mFirstPacket, chunked, mCurrentChunk,
                         mCurrentChunkSize, response, mRequestSuccess, badCuts,
                         interrupted>>
      BY <2>3 DEF WaitForData, replyVars, chunkVars, decodeFrame
    <3> QED
      BY <3>1 DEF TypeOK
  <2> QED
    BY <1>7, <2>1, <2>2, <2>3
<1>8. CASE ReadSize
  <2>1. /\ UNCHANGED <<decodeFrame, response>> /\ pc' \in {"recv", "decode", "done"}
        /\ mRequestSuccess' \in BOOLEAN /\ pc = "decode"
    BY <1>8 DEF ReadSize, TypeOK
  <2>2. CASE ParseChunkSize(mCurrentChunk)
    <3> DEFINE text == Front(FirstLine(mCurrentChunk))
               rest == Behind(mCurrentChunk, LineEnd(mCurrentChunk))
    <3>1. mCurrentChunk \in Seq(Byte) /\ Len(mCurrentChunk) \in Nat
      BY LenProperties DEF TypeOK
    <3>2. Number(text) \in Int /\ MinInt <= Number(text) /\ Number(text) <= MaxInt
      BY <3>1, LineShapes, NumberShape
    <3>3. rest \in Seq(Byte)
      <4>1. LineEnd(mCurrentChunk) + 1 \in Nat \ {0}
        BY <3>1, LineEndShape
      <4>2. Len(mCurrentChunk) \in 0 .. Len(mCurrentChunk)
        BY <3>1
      <4> QED
        BY <3>1, <4>1, <4>2, SubSeqShape DEF Behind
    <3>4. /\ mCurrentChunkSize' \in {mCurrentChunkSize, Number(text)}
          /\ mCurrentChunk' \in {mCurrentChunk, rest}
      BY <2>2 DEF ParseChunkSize
    <3> HIDE DEF text, rest
    <3>5. /\ mCurrentChunkSize' \in Int
          /\ MinInt <= mCurrentChunkSize' /\ mCurrentChunkSize' <= MaxInt
      BY <3>2, <3>4 DEF TypeOK
    <3> QED
      BY <2>1, <3>1, <3>3, <3>4, <3>5 DEF TypeOK, decodeFrame, replyVars
  <2>3. CASE UNCHANGED chunkVars
    BY <2>1, <2>3 DEF TypeOK, decodeFrame, replyVars, chunkVars
  <2> QED
    BY <1>8, <2>2, <2>3 DEF ReadSize
<1>9. CASE TakeChunk
  <2> DEFINE size == mCurrentChunkSize
             rest == Behind(mCurrentChunk, size)
             data == SubSeq(mCurrentChunk, 1, size)
             tail == Behind(rest, 2)
  <2>1. /\ mCurrentChunk \in Seq(Byte) /\ Len(mCurrentChunk) \in Nat
        /\ size \in 1 .. Len(mCurrentChunk)
    BY <1>9, LenProperties DEF TypeOK, TakeChunk
  <2>2. rest \in Seq(Byte) /\ data \in Seq(Byte)
    <3>1. /\ size + 1 \in Nat \ {0} /\ size \in 0 .. Len(mCurrentChunk)
          /\ Len(mCurrentChunk) \in 0 .. Len(mCurrentChunk)
      BY <2>1
    <3> QED
      BY <2>1, <3>1, SubSeqShape DEF Behind
  <2>3. tail \in Seq(Byte)
    <3> HIDE DEF rest
    <3>1. Len(rest) \in 0 .. Len(rest) /\ 2 + 1 \in Nat \ {0}
      BY <2>2, LenProperties
    <3> QED
      BY <2>2, <3>1, SubSeqShape DEF Behind
  <2>4. response \o data \in Seq(Byte)
    BY <2>2, ConcatShape DEF TypeOK
  <2>5. /\ response' = response \o data
        /\ mCurrentChunk' \in {rest, tail}
        /\ mCurrentChunkSize' \in {mCurrentChunkSize, -1}
        /\ pc' \in {"recv", "decode", "done"}
        /\ mRequestSuccess' \in BOOLEAN /\ pc = "decode"
    BY <1>9 DEF TakeChunk, TypeOK
  <2>7. /\ mCurrentChunkSize' \in Int
        /\ MinInt <= mCurrentChunkSize' /\ mCurrentChunkSize' <= MaxInt
    BY <2>5 DEF TypeOK, MinInt, MaxInt
  <2>6. UNCHANGED decodeFrame
    BY <1>9 DEF TakeChunk
  <2> HIDE DEF rest, data, tail
  <2> QED
    BY <2>2, <2>3, <2>4, <2>5, <2>6, <2>7 DEF TypeOK, decodeFrame, replyVars
<1>10. CASE UNCHANGED vars
  BY <1>10 DEF vars, TypeOK
<1> QED
  BY ONLY <1>3, <1>4, <1>5, <1>6, <1>7, <1>8, <1>9, <1>10, [Next]_vars
     DEF Next, Get, Decode, Terminated

\* The members keep their types, whatever the server sends for the sizes of its
\* chunks, whatever their number and length, and however the reply is cut: a
\* size that was read fits an int32_t, what was received is a beginning of the
\* reply, and a plain reply is not read on.
THEOREM HttpTypeCorrect == Spec => []TypeOK
<1> QED
  BY TypeInitially, TypeStep, PTL DEF Spec

-----------------------------------------------------------------------------
(* Nothing of the reply is lost or read twice. As long as no piece has ended  *)
(* at an unlucky place, Get has received nothing, or it waits at a known      *)
(* place of a chunked reply, or it is done. The place is the start of the     *)
(* j-th size line or of the data behind it, and the bytes that wait are those *)
(* received since. The cut that brought the last of them, too, was no unlucky *)
(* one: this is what the next turn of the loop relies on. Get is also done,   *)
(* without the body, when the first thing it received was an error.           *)

\* What has come behind the a-th byte, up to the p-th.
Window(s, a, p) == SubSeq(s, a + 1, p)

AwaitsLine(j) ==
  /\ mCurrentChunkSize = -1 /\ at >= LineStart(reply, j)
  /\ mCurrentChunk = Window(Wire(reply), LineStart(reply, j), at)
  /\ pc = "recv" => at <= LineStart(reply, j) + 3

AwaitsData(j) ==
  /\ j <= Len(reply.chunks)
  /\ mCurrentChunkSize = Len(reply.chunks[j]) /\ at >= DataStart(reply, j)
  /\ mCurrentChunk = Window(Wire(reply), DataStart(reply, j), at)
  /\ pc = "recv" => at < DataEnd(reply, j)

AtLastLine(j) ==
  j = Len(reply.chunks) + 1 /\ mCurrentChunkSize = 0 /\ pc = "decode"

Waiting(j) ==
  /\ response = FlattenSeq(SubSeq(reply.chunks, 1, j - 1))
  /\ AwaitsLine(j) \/ AwaitsData(j) \/ AtLastLine(j)

NothingYet ==
  /\ ~ mFirstPacket /\ pc \in {"connect", "recv"}
  /\ at = 0 /\ mCurrentChunk = <<>> /\ mCurrentChunkSize = -1
  /\ response = <<>> /\ mRequestSuccess = FALSE

Reading ==
  /\ mFirstPacket /\ pc \in {"recv", "decode"}
  /\ reply.framing = "chunked" /\ mRequestSuccess = FALSE
  /\ CutKinds(reply, at) = {}
  /\ \E j \in 1 .. Len(reply.chunks) + 1 : Waiting(j)

Finished ==
  /\ pc = "done" /\ IsPrefix(response, Body(reply))
  /\ mRequestSuccess => response = Body(reply) \/ at = 0
  /\ interrupted \/ (mRequestSuccess /\ response = Body(reply))

DecodeInv == TypeOK /\ (Clean => NothingYet \/ Reading \/ Finished)

\* A window, its bytes, and what lies behind its first bytes.
LEMMA WindowShape ==
  ASSUME NEW S, NEW s \in Seq(S), NEW p \in 0 .. Len(s), NEW a \in 0 .. p
  PROVE  LET t == Window(s, a, p)
         IN  /\ t \in Seq(S) /\ Len(t) = p - a
             /\ \A k \in 1 .. p - a : t[k] = s[a + k]
             /\ \A k \in 0 .. p - a :
                  /\ SubSeq(t, k + 1, Len(t)) = Window(s, a + k, p)
                  /\ SubSeq(t, 1, k) = Window(s, a, a + k)
<1> DEFINE t == Window(s, a, p)
<1>1. Len(s) \in Nat /\ p \in Nat /\ a \in Nat /\ a <= p /\ p - a \in Nat
  BY LenProperties
<1>2. a + 1 \in Nat \ {0} /\ p - (a + 1) + 1 = p - a
  BY <1>1
<1>3. /\ t \in Seq(S)
      /\ Len(t) = IF a + 1 <= p THEN p - (a + 1) + 1 ELSE 0
      /\ \A k \in 1 .. p - (a + 1) + 1 : t[k] = s[a + 1 + k - 1]
  BY <1>2, SubSeqShape DEF Window
<1>4. Len(t) = p - a
  BY <1>1, <1>3
<1>5. ASSUME NEW k \in 1 .. p - a PROVE t[k] = s[a + k]
  <2>1. a + 1 + k - 1 = a + k
    BY <1>1
  <2> QED
    BY <1>2, <1>3, <2>1
<1>6. ASSUME NEW k \in 0 .. p - a
      PROVE  /\ SubSeq(t, k + 1, Len(t)) = Window(s, a + k, p)
             /\ SubSeq(t, 1, k) = Window(s, a, a + k)
  <2>1. k \in Nat /\ k + 1 \in Int /\ a + k + 1 \in Int /\ a + k \in Nat
    BY <1>1
  <2>2. CASE k < p - a
    <3>1. /\ a + 1 \in 1 .. Len(s) /\ p \in 1 .. Len(s)
          /\ p - (a + 1) + 1 = p - a
          /\ k + 1 \in 1 .. p - a /\ p - a \in 1 .. p - a
          /\ a + 1 + (k + 1) - 1 = a + k + 1
          /\ a + 1 + (p - a) - 1 = p
      BY <1>1, <2>1, <2>2
    <3>2. SubSeq(SubSeq(s, a + 1, p), k + 1, p - a) = SubSeq(s, a + k + 1, p)
      BY <3>1, SubSeqOfSubSeq
    <3> QED
      BY <1>4, <3>2 DEF Window
  <2>3. CASE k = p - a
    <3>1. k + 1 > p - a /\ a + k + 1 > p /\ p - a \in Int /\ p \in Int
      BY <1>1, <2>1, <2>3
    <3>2. SubSeq(t, k + 1, p - a) = <<>> /\ SubSeq(s, a + k + 1, p) = <<>>
      BY <2>1, <3>1, SubSeqEmpty
    <3> QED
      BY <1>4, <3>2 DEF Window
  <2>4. SubSeq(t, k + 1, Len(t)) = Window(s, a + k, p)
    BY <1>1, <2>1, <2>2, <2>3
  <2>5. CASE k = 0
    <3>1. SubSeq(t, 1, 0) = <<>> /\ SubSeq(s, a + 1, a) = <<>>
      BY <1>1, SubSeqEmpty
    <3> QED
      BY <1>1, <2>5, <3>1 DEF Window
  <2>6. CASE k > 0
    <3>1. /\ a + 1 \in 1 .. Len(s) /\ p \in 1 .. Len(s)
          /\ p - (a + 1) + 1 = p - a
          /\ 1 \in 1 .. p - a /\ k \in 1 .. p - a
          /\ a + 1 + 1 - 1 = a + 1
          /\ a + 1 + k - 1 = a + k
      BY <1>1, <2>1, <2>6
    <3>2. SubSeq(SubSeq(s, a + 1, p), 1, k) = SubSeq(s, a + 1, a + k)
      BY <3>1, SubSeqOfSubSeq
    <3> QED
      BY <3>2 DEF Window
  <2> QED
    BY <2>1, <2>4, <2>5, <2>6
<1> QED
  BY <1>3, <1>4, <1>5, <1>6

\* Two windows side by side.
LEMMA WindowsJoin ==
  ASSUME NEW S, NEW s \in Seq(S), NEW p \in 0 .. Len(s), NEW m \in 0 .. p,
         NEW a \in 0 .. m
  PROVE  Window(s, a, m) \o Window(s, m, p) = Window(s, a, p)
<1>1. /\ a + 1 \in 1 .. Len(s) + 1 /\ m \in a + 1 - 1 .. Len(s)
      /\ p \in m .. Len(s)
  BY LenProperties
<1> QED
  BY <1>1, ConcatAdjacentSubSeq DEF Window

\* Every place where Get waits lies within the reply, before its end.
LEMMA PlaceShape ==
  ASSUME NEW r \in Replies, r.framing = "chunked", NEW j \in 1 .. Len(r.chunks) + 1
  PROVE  /\ LineStart(r, j) \in Nat /\ LineStart(r, j) >= 8
         /\ LineStart(r, j) + 5 <= Len(Wire(r)) /\ Len(Wire(r)) \in Nat
         /\ j \in 1 .. Len(r.chunks) \/ j = Len(r.chunks) + 1
<1>1. Len(r.chunks) \in Nat /\ Len(Wire(r)) \in Nat
  BY ReplyShape, WireShape
<1>2. CASE j \in 1 .. Len(r.chunks)
  <2>1. LET size == Len(r.chunks[j])
            L == LineStart(r, j)
            D == DataStart(r, j)
            E == DataEnd(r, j)
            w == Len(r.sizes[j])
        IN  /\ L \in Nat /\ L >= 8 /\ size \in Nat \ {0}
            /\ D = L + w + 2 /\ E = D + size
            /\ E + 2 + 5 <= Len(Wire(r))
    BY <1>2, LineShape
  <2> DEFINE w == Len(r.sizes[j])
             size == Len(r.chunks[j])
             L == LineStart(r, j)
             D == DataStart(r, j)
             E == DataEnd(r, j)
             N == Len(Wire(r))
  <2>2. w \in Nat /\ N \in Nat
    BY <1>1, <1>2, ReplyShape
  <2>3. /\ L \in Nat /\ L >= 8 /\ size \in Nat \ {0}
        /\ D = L + w + 2 /\ E = D + size /\ E + 2 + 5 <= N
    BY <2>1
  <2> HIDE DEF w, size, L, D, E, N
  <2>4. L + 5 <= N
    BY ONLY <2>2, <2>3
  <2> QED
    BY <1>2, <2>2, <2>3, <2>4 DEF L, N
<1>3. CASE j = Len(r.chunks) + 1
  BY <1>1, <1>3, LastLineShape
<1> QED
  BY <1>1, <1>2, <1>3

\* What the chunks before the j-th are decoded to is a beginning of the body.
LEMMA BodySoFar ==
  ASSUME NEW r \in Replies, NEW j \in 1 .. Len(r.chunks) + 1
  PROVE  LET f == FlattenSeq(SubSeq(r.chunks, 1, j - 1))
         IN  /\ IsPrefix(f, Body(r))
             /\ j = 1 => f = <<>>
             /\ j = Len(r.chunks) + 1 => f = Body(r)
             /\ j <= Len(r.chunks) =>
                  FlattenSeq(SubSeq(r.chunks, 1, j)) = f \o r.chunks[j]
<1> DEFINE n == Len(r.chunks)
           f == FlattenSeq(SubSeq(r.chunks, 1, j - 1))
           g == FlattenSeq(SubSeq(r.chunks, 1, n))
<1>1. /\ r.chunks \in Seq(Seq(Data)) /\ n \in Nat
      /\ j - 1 \in 0 .. n /\ n \in 0 .. n /\ n + 1 - 1 = n
  BY ReplyShape
<1>2. f \in Seq(Data) /\ g \in Seq(Data) /\ Begins(f, g)
  BY <1>1, FlattenPrefix
<1>3. g = Body(r)
  BY <1>1, SubSeqFull DEF Body
<1>4. j = 1 => f = <<>>
  <2>1. SubSeq(r.chunks, 1, 0) = <<>> /\ 1 - 1 = 0
    BY SubSeqEmpty
  <2> QED
    BY <2>1 DEF FlattenSeq
<1>5. j <= n => FlattenSeq(SubSeq(r.chunks, 1, j)) = f \o r.chunks[j]
  <2>1. j <= n => j \in 1 .. n
    BY <1>1
  <2> QED
    BY <1>1, <2>1, FlattenStep
<1>6. j = n + 1 => f = g
  BY <1>1
<1> HIDE DEF f, g
<1>7. IsPrefix(f, g)
  <2>1. /\ Len(f) \in Nat /\ Len(f) \in 0 .. Len(f) /\ Len(f) \in 0 .. Len(g)
        /\ Len(f) <= Len(g) /\ 1 \in Nat \ {0}
    BY <1>2, LenProperties DEF Begins
  <2>2. /\ SubSeq(f, 1, Len(f)) = f /\ SubSeq(g, 1, Len(f)) \in Seq(Data)
        /\ Len(SubSeq(g, 1, Len(f))) = IF 1 <= Len(f) THEN Len(f) - 1 + 1 ELSE 0
        /\ \A k \in 1 .. Len(f) - 1 + 1 : SubSeq(g, 1, Len(f))[k] = g[1 + k - 1]
    BY <1>2, <2>1, SubSeqFull, SubSeqShape
  <2>3. \A k \in 1 .. Len(f) : f[k] = SubSeq(g, 1, Len(f))[k]
    <3> SUFFICES ASSUME NEW k \in 1 .. Len(f) PROVE f[k] = SubSeq(g, 1, Len(f))[k]
      OBVIOUS
    <3>1. k \in 1 .. Len(f) - 1 + 1 /\ 1 + k - 1 = k
      BY <2>1
    <3>2. SubSeq(g, 1, Len(f))[k] = g[k]
      BY <2>2, <3>1
    <3> QED
      BY <1>2, <3>2 DEF Begins
  <2>4. Len(SubSeq(g, 1, Len(f))) = Len(f)
    BY <2>1, <2>2
  <2>5. f = SubSeq(g, 1, Len(f))
    <3> DEFINE h == SubSeq(g, 1, Len(f))
    <3>1. h \in Seq(Data) /\ Len(h) = Len(f) /\ \A k \in 1 .. Len(f) : f[k] = h[k]
      BY <2>2, <2>3, <2>4
    <3> HIDE DEF h
    <3>2. f = h
      BY <1>2, <3>1, SeqEqual
    <3> QED
      BY <3>2 DEF h
  <2> QED
    BY <2>1, <2>2, <2>5 DEF IsPrefix
<1> QED
  BY <1>3, <1>4, <1>5, <1>6, <1>7 DEF f

\* A piece that ended at no unlucky place.
LEMMA GoodCut ==
  ASSUME NEW r \in Replies, NEW p \in Nat, CutKinds(r, p) = {}
  PROVE  /\ p > 8
         /\ r.framing = "length" => p >= Len(Wire(r))
         /\ r.framing = "chunked" =>
              \A i \in 1 .. Len(r.chunks) :
                /\ ~ (p \in LineStart(r, i) + 4 .. DataStart(r, i))
                /\ p # DataEnd(r, i) /\ p # DataEnd(r, i) + 1
<1>1. ~ ("header" \in CutKinds(r, p)) /\ ~ ("length" \in CutKinds(r, p))
      /\ ~ ("line" \in CutKinds(r, p)) /\ ~ ("data" \in CutKinds(r, p))
  OBVIOUS
<1>2. p > 8
  <2>1. ~ (p <= Len(Header(r)))
    BY <1>1 DEF CutKinds
  <2>2. Len(Header(r)) = 8
    BY HeaderShape
  <2> QED
    BY ONLY <2>1, <2>2, p \in Nat
<1>3. r.framing = "length" => p >= Len(Wire(r))
  <2>1. r.framing = "length" => ~ (p < Len(Wire(r)))
    BY <1>1 DEF CutKinds
  <2> QED
    BY <2>1, WireShape
<1>4. DOMAIN r.chunks = 1 .. Len(r.chunks)
  BY ReplyShape
<1>5. r.framing = "chunked" =>
        \A i \in 1 .. Len(r.chunks) : ~ (p \in LineStart(r, i) + 4 .. DataStart(r, i))
  BY <1>1, <1>4 DEF CutKinds
<1>6. r.framing = "chunked" =>
        \A i \in 1 .. Len(r.chunks) : p # DataEnd(r, i) /\ p # DataEnd(r, i) + 1
  BY <1>1, <1>4 DEF CutKinds
<1> QED
  BY <1>2, <1>3, <1>5, <1>6

\* The header line that tells how the reply is framed is where Get looks for it.
LEMMA FramingSeen ==
  ASSUME NEW r \in Replies
  PROVE  Wire(r)[4] = r.framing
<1> DEFINE h == Header(r)
           rest == IF r.framing = "length" THEN Body(r)
                   ELSE Coded(r, Len(r.chunks)) \o <<"0">> \o CRLF \o CRLF
<1>1. h \in Seq(Byte) /\ 4 \in 1 .. Len(h) /\ h[4] = r.framing
  BY HeaderShape
<1>2. rest \in Seq(Byte)
  BY HeaderShape, CodedEnd
<1>3. Wire(r) = h \o rest
  BY DEF Wire
<1> HIDE DEF h, rest
<1>4. (h \o rest)[4] = h[4]
  BY <1>1, <1>2, ConcatShape
<1> QED
  BY <1>1, <1>3, <1>4

-----------------------------------------------------------------------------
(* The steps keep the invariant.                                             *)

\* A first packet that ends at no unlucky place brings the whole of a body
\* announced by its length, or the first bytes of a chunked one.
LEMMA FirstPacketStep ==
  ASSUME TypeOK, NothingYet, UNCHANGED <<reply, mCurrentChunkSize>>,
         at' \in 0 .. Len(Wire(reply)), CutKinds(reply, at') = {},
         FirstPacket(Window(Wire(reply), 0, at'))
  PROVE  Reading' \/ Finished'
<1> DEFINE W == Wire(reply)
           output == Window(W, 0, at')
           r == ParseReplyHeader(output)
<1>1. /\ reply \in Replies /\ W \in Seq(Byte) /\ Len(W) \in Nat /\ at' \in Nat
      /\ reply.framing \in {"chunked", "length"} /\ Len(Header(reply)) = 8
      /\ Body(reply) \in Seq(Byte) /\ Len(Body(reply)) \in Nat
  BY WireShape, ReplyShape, HeaderShape DEF TypeOK
<1>2. at' > 8 /\ (reply.framing = "length" => at' >= Len(W))
  BY <1>1, GoodCut
<1> DEFINE p == at'
<1> HIDE DEF W, p
<1>a. /\ W \in Seq(Byte) /\ p \in 0 .. Len(W) /\ p \in Nat /\ p > 8
      /\ 0 \in 0 .. p /\ 8 \in 0 .. p /\ 4 \in 1 .. p - 0 /\ 8 \in 0 .. p - 0
      /\ p - 0 = p /\ 0 + 4 = 4 /\ 0 + 8 = 8
  <2>1. W \in Seq(Byte) /\ p \in 0 .. Len(W) /\ p \in Nat /\ p > 8
    BY <1>1, <1>2 DEF W, p
  <2> QED
    BY ONLY <2>1
<1>3. /\ Len(output) = at' /\ output[4] = reply.framing
      /\ SubSeq(output, 8 + 1, Len(output)) = Window(W, 8, at')
  <2>1. LET t == Window(W, 0, p)
        IN  /\ t \in Seq(Byte) /\ Len(t) = p - 0
            /\ \A k \in 1 .. p - 0 : t[k] = W[0 + k]
            /\ \A k \in 0 .. p - 0 :
                 /\ SubSeq(t, k + 1, Len(t)) = Window(W, 0 + k, p)
                 /\ SubSeq(t, 1, k) = Window(W, 0, 0 + k)
    BY ONLY <1>a, WindowShape
  <2>2. W[4] = reply.framing
    BY <1>1, FramingSeen DEF W
  <2>3. Window(W, 0, p)[4] = W[0 + 4]
    BY ONLY <1>a, <2>1
  <2>4. SubSeq(Window(W, 0, p), 8 + 1, Len(Window(W, 0, p))) = Window(W, 0 + 8, p)
    BY ONLY <1>a, <2>1
  <2>5. Len(Window(W, 0, p)) = p
    BY ONLY <1>a, <2>1
  <2> QED
    BY <1>a, <2>2, <2>3, <2>4, <2>5 DEF p
<1>4. Len(Window(W, 8, at')) = at' - 8 /\ Window(W, 8, at') \in Seq(Byte)
  <2>1. Len(Window(W, 8, p)) = p - 8 /\ Window(W, 8, p) \in Seq(Byte)
    BY ONLY <1>a, WindowShape
  <2> QED
    BY <2>1 DEF p
<1> HIDE DEF output
<1>5. /\ r.chunked = (reply.framing = "chunked")
      /\ r.body = Window(W, 8, at')
      /\ r.contentLength = IF reply.framing = "chunked" THEN 0 ELSE Len(Body(reply))
  <2>1. Len(output) > 4
    BY <1>1, <1>2, <1>3
  <2>2. ContentLength(output)
          = IF reply.framing = "chunked" THEN 0 ELSE Len(Body(reply))
    BY <1>1, <1>3, <2>1 DEF ContentLength, SeenLine
  <2> QED
    BY <1>1, <1>3, <2>1, <2>2 DEF ParseReplyHeader
<1> HIDE DEF r
<1>6. /\ mFirstPacket' = TRUE
      /\ mRequestSuccess' = (Len(r.body) = r.contentLength)
      /\ IF r.chunked
         THEN /\ mCurrentChunk' = mCurrentChunk
                   \o (IF Len(r.body) = r.contentLength THEN output ELSE r.body)
              /\ pc' = "decode" /\ UNCHANGED response
         ELSE /\ response' = response \o r.body /\ pc' = "done"
              /\ UNCHANGED mCurrentChunk
  BY DEF FirstPacket, r, output, W
<1>7. CASE reply.framing = "chunked"
  <2>1. /\ mRequestSuccess' = FALSE
        /\ mCurrentChunk' = <<>> \o Window(W, 8, at')
        /\ pc' = "decode" /\ response' = <<>>
    <3>1. at' - 8 # 0
      BY <1>1, <1>2
    <3> QED
      BY <1>4, <1>5, <1>6, <1>7, <3>1 DEF NothingYet
  <2>2. mCurrentChunk' = Window(W, 8, at')
    BY <1>4, <2>1, ConcatEmptySeq
  <2>3. LineStart(reply, 1) = 8 /\ 1 \in 1 .. Len(reply.chunks) + 1
    BY <1>1, <1>7, LastLineShape, ReplyShape
  <2>4. FlattenSeq(SubSeq(reply.chunks, 1, 1 - 1)) = <<>>
    BY <1>1, <2>3, BodySoFar
  <2>5. reply' = reply /\ mCurrentChunkSize' = -1
    BY DEF NothingYet
  <2>6. Waiting(1)'
    <3>1. AwaitsLine(1)'
      BY <1>1, <1>2, <2>1, <2>2, <2>3, <2>5 DEF AwaitsLine, W
    <3> QED
      BY <2>1, <2>4, <2>5, <3>1 DEF Waiting
  <2> QED
    BY <1>6, <1>7, <2>1, <2>3, <2>5, <2>6 DEF Reading
<1>8. CASE reply.framing = "length"
  <2>1. at' = Len(W) /\ Window(W, 8, at') = Body(reply)
    <3>1. at' = Len(W)
      BY <1>1, <1>2, <1>8 DEF W
    <3>2. 8 + 1 = 9
      OBVIOUS
    <3> QED
      BY <1>1, <1>8, <3>1, <3>2, WireShape DEF Window, W
  <2>2. ~ (reply.framing = "chunked")
    BY <1>8
  <2>3. /\ mRequestSuccess' = TRUE /\ pc' = "done"
        /\ response' = <<>> \o Body(reply)
    BY <1>5, <1>6, <2>1, <2>2 DEF NothingYet
  <2>4. response' = Body(reply)
    BY <1>1, <2>3, ConcatEmptySeq
  <2>5. IsPrefix(Body(reply), Body(reply))
    BY <1>1 DEF IsPrefix
  <2> QED
    BY <2>3, <2>4, <2>5 DEF Finished
<1> QED
  BY <1>1, <1>7, <1>8

\* A later packet is put behind what waits.
LEMMA NextPacketStep ==
  ASSUME TypeOK, Reading, UNCHANGED <<reply, mCurrentChunkSize>>,
         at' \in at .. Len(Wire(reply)), CutKinds(reply, at') = {},
         NextPacket(Window(Wire(reply), at, at'))
  PROVE  Reading'
<1> DEFINE W == Wire(reply)
<1>1. /\ reply \in Replies /\ W \in Seq(Byte) /\ Len(W) \in Nat
      /\ at \in Nat /\ at' \in Nat /\ at' \in 0 .. Len(W) /\ at \in 0 .. at'
      /\ Len(reply.chunks) \in Nat /\ reply.framing = "chunked"
  BY WireShape, ReplyShape DEF TypeOK, Reading
<1>2. /\ mCurrentChunk' = mCurrentChunk \o Window(W, at, at')
      /\ pc' = "decode" /\ UNCHANGED <<mFirstPacket, response, mRequestSuccess>>
  BY DEF NextPacket
<1>3. PICK j \in 1 .. Len(reply.chunks) + 1 : Waiting(j)
  BY DEF Reading
<1>4. ASSUME NEW a \in 0 .. at
      PROVE  Window(W, a, at) \o Window(W, at, at') = Window(W, a, at')
  <2> HIDE DEF W
  <2> QED
    BY <1>1, WindowsJoin
<1>5. Waiting(j)'
  <2>1. CASE AwaitsLine(j)
    <3>1. LineStart(reply, j) \in 0 .. at
      BY <1>1, <1>3, <2>1, PlaceShape DEF AwaitsLine
    <3>2. mCurrentChunk' = Window(W, LineStart(reply, j), at')
      BY <1>2, <1>4, <2>1, <3>1 DEF AwaitsLine
    <3>3. at' >= LineStart(reply, j)
      BY <1>1, <3>1
    <3>4. AwaitsLine(j)'
      BY <1>2, <2>1, <3>2, <3>3 DEF AwaitsLine
    <3> QED
      BY <1>2, <1>3, <3>4 DEF Waiting
  <2>2. CASE AwaitsData(j)
    <3>1. DataStart(reply, j) \in 0 .. at
      <4>1. j \in 1 .. Len(reply.chunks) /\ at >= DataStart(reply, j)
        BY <1>1, <2>2 DEF AwaitsData
      <4>2. /\ LineStart(reply, j) \in Nat
            /\ DataStart(reply, j)
                 = LineStart(reply, j) + Len(reply.sizes[j]) + 2
            /\ Len(reply.sizes[j]) \in Nat
        BY <1>1, <4>1, LineShape, ReplyShape
      <4> DEFINE l == LineStart(reply, j)
                 d == DataStart(reply, j)
                 w == Len(reply.sizes[j])
      <4>3. /\ at \in Nat /\ l \in Nat /\ w \in Nat
            /\ d = l + w + 2 /\ at >= d
        BY <1>1, <4>1, <4>2
      <4> HIDE DEF l, d, w
      <4>4. d \in 0 .. at
        BY ONLY <4>3
      <4> QED
        BY <4>4 DEF d
    <3>2. mCurrentChunk' = Window(W, DataStart(reply, j), at')
      BY <1>2, <1>4, <2>2, <3>1 DEF AwaitsData
    <3>3. at' >= DataStart(reply, j)
      BY <1>1, <3>1
    <3>4. AwaitsData(j)'
      BY <1>2, <2>2, <3>2, <3>3 DEF AwaitsData
    <3> QED
      BY <1>2, <1>3, <3>4 DEF Waiting
  <2>3. CASE AtLastLine(j)
    <3>1. AtLastLine(j)'
      BY <1>2, <2>3 DEF AtLastLine
    <3> QED
      BY <1>2, <1>3, <3>1 DEF Waiting
  <2> QED
    BY <1>3, <2>1, <2>2, <2>3 DEF Waiting
<1> QED
  BY <1>1, <1>2, <1>3, <1>5 DEF Reading

\* Whichever packet it is.
LEMMA PacketStep ==
  ASSUME TypeOK, NothingYet \/ Reading,
         at' \in at .. Len(Wire(reply)), CutKinds(reply, at') = {},
         Packet(Window(Wire(reply), at, at'))
  PROVE  Reading' \/ Finished'
<1>1. UNCHANGED <<reply, mCurrentChunkSize>>
  BY DEF Packet
<1>2. CASE NothingYet
  <2>1. at = 0 /\ at' \in 0 .. Len(Wire(reply))
    BY <1>2 DEF NothingYet
  <2>2. FirstPacket(Window(Wire(reply), 0, at'))
    BY <1>2, <2>1 DEF Packet, NextPacket, NothingYet
  <2> QED
    BY <1>1, <1>2, <2>1, <2>2, FirstPacketStep
<1>3. CASE Reading
  <2>1. NextPacket(Window(Wire(reply), at, at'))
    BY <1>3 DEF Packet, FirstPacket, Reading
  <2> QED
    BY <1>1, <1>3, <2>1, NextPacketStep
<1> QED
  BY <1>2, <1>3

\* The size tells for what Get waits, and how much has come of it.
LEMMA WaitsFor ==
  ASSUME TypeOK, Reading, NEW j \in 1 .. Len(reply.chunks) + 1, Waiting(j)
  PROVE  /\ ~ (mCurrentChunkSize < -1)
         /\ mCurrentChunkSize = -1 =>
              /\ AwaitsLine(j) /\ LineStart(reply, j) \in 0 .. at
              /\ Len(mCurrentChunk) = at - LineStart(reply, j)
         /\ mCurrentChunkSize = 0 => AtLastLine(j)
         /\ mCurrentChunkSize > 0 =>
              /\ AwaitsData(j) /\ DataStart(reply, j) \in 0 .. at
              /\ Len(mCurrentChunk) = at - DataStart(reply, j)
              /\ j \in 1 .. Len(reply.chunks)
              /\ DataEnd(reply, j) = DataStart(reply, j) + mCurrentChunkSize
<1> DEFINE W == Wire(reply)
<1>1. /\ reply \in Replies /\ W \in Seq(Byte) /\ Len(W) \in Nat
      /\ at \in 0 .. Len(W) /\ Len(reply.chunks) \in Nat
      /\ reply.framing = "chunked"
  BY WireShape, ReplyShape DEF TypeOK, Reading
<1> HIDE DEF W
<1>2. CASE AwaitsLine(j)
  <2>1. LineStart(reply, j) \in 0 .. at
    BY <1>1, <1>2, PlaceShape DEF AwaitsLine
  <2>2. Len(mCurrentChunk) = at - LineStart(reply, j)
    BY <1>1, <1>2, <2>1, WindowShape DEF AwaitsLine, W
  <2> QED
    BY <1>2, <2>1, <2>2 DEF AwaitsLine
<1>3. CASE AwaitsData(j)
  <2>1. j \in 1 .. Len(reply.chunks) /\ at >= DataStart(reply, j)
    BY <1>1, <1>3 DEF AwaitsData
  <2>2. /\ LineStart(reply, j) \in Nat /\ Len(reply.chunks[j]) \in Nat \ {0}
        /\ DataStart(reply, j)
             = LineStart(reply, j) + Len(reply.sizes[j]) + 2
        /\ DataEnd(reply, j) = DataStart(reply, j) + Len(reply.chunks[j])
        /\ Len(reply.sizes[j]) \in Nat
    BY <1>1, <2>1, LineShape, ReplyShape
  <2>3. DataStart(reply, j) \in 0 .. at
    BY <1>1, <2>1, <2>2
  <2>4. Len(mCurrentChunk) = at - DataStart(reply, j)
    BY <1>1, <1>3, <2>3, WindowShape DEF AwaitsData, W
  <2>5. mCurrentChunkSize = Len(reply.chunks[j])
    BY <1>3 DEF AwaitsData
  <2>6. /\ ~ (mCurrentChunkSize = -1) /\ ~ (mCurrentChunkSize = 0)
        /\ ~ (mCurrentChunkSize < -1)
    <3>1. mCurrentChunkSize \in Nat \ {0}
      BY <2>2, <2>5
    <3>2. \A m \in Nat \ {0} : m # -1 /\ m # 0 /\ ~ (m < -1)
      OBVIOUS
    <3> QED
      BY ONLY <3>1, <3>2
  <2>7. DataEnd(reply, j) = DataStart(reply, j) + mCurrentChunkSize
    BY <2>2, <2>5
  <2> QED
    BY ONLY <1>3, <2>1, <2>3, <2>4, <2>6, <2>7
<1>4. CASE AtLastLine(j)
  BY <1>4 DEF AtLastLine
<1> QED
  BY <1>2, <1>3, <1>4 DEF Waiting

\* Get reads on: what it has, and where it waits, stays.
LEMMA WaitStep ==
  ASSUME TypeOK, Reading, WaitForSize \/ WaitForData
  PROVE  Reading'
<1>1. PICK j \in 1 .. Len(reply.chunks) + 1 : Waiting(j)
  BY DEF Reading
<1>2. /\ pc' = "recv"
      /\ UNCHANGED <<reply, mFirstPacket, at, mCurrentChunk, mCurrentChunkSize,
                     response, mRequestSuccess>>
  BY DEF WaitForSize, WaitForData, decodeFrame, replyVars, chunkVars
<1>3. /\ at \in Nat /\ Len(mCurrentChunk) \in Nat /\ mCurrentChunkSize \in Int
  <2>1. reply \in Replies /\ at \in 0 .. Len(Wire(reply)) /\ mCurrentChunk \in Seq(Byte)
        /\ mCurrentChunkSize \in Int
    BY DEF TypeOK
  <2>2. Len(Wire(reply)) \in Nat
    BY <2>1, WireShape
  <2> QED
    BY <2>1, <2>2, LenProperties
<1>4. CASE WaitForSize
  <2>1. mCurrentChunkSize = -1 /\ ~ (Len(mCurrentChunk) > 3)
    BY <1>4 DEF WaitForSize, EnoughForSize
  <2>2. /\ AwaitsLine(j) /\ LineStart(reply, j) \in 0 .. at
        /\ Len(mCurrentChunk) = at - LineStart(reply, j)
    BY <1>1, <2>1, WaitsFor
  <2>3. at <= LineStart(reply, j) + 3
    BY <1>3, <2>1, <2>2
  <2>4. AwaitsLine(j)'
    BY <1>2, <2>2, <2>3 DEF AwaitsLine
  <2>5. Waiting(j)'
    BY <1>1, <1>2, <2>4 DEF Waiting
  <2> QED
    BY <1>2, <2>5 DEF Reading
<1>5. CASE WaitForData
  <2>1. mCurrentChunkSize > Len(mCurrentChunk) /\ mCurrentChunkSize > 0
    BY <1>1, <1>3, <1>5, WaitsFor DEF WaitForData
  <2>2. /\ AwaitsData(j) /\ DataStart(reply, j) \in 0 .. at
        /\ Len(mCurrentChunk) = at - DataStart(reply, j)
        /\ DataEnd(reply, j) = DataStart(reply, j) + mCurrentChunkSize
    BY <1>1, <2>1, WaitsFor
  <2>3. at < DataEnd(reply, j)
    BY <1>3, <2>1, <2>2
  <2>4. AwaitsData(j)'
    BY <1>2, <2>2, <2>3 DEF AwaitsData
  <2>5. Waiting(j)'
    BY <1>1, <1>2, <2>4 DEF Waiting
  <2> QED
    BY <1>2, <2>5 DEF Reading
<1> QED
  BY <1>4, <1>5

\* At the size line of zero the whole body has been decoded.
LEMMA LastChunkStep ==
  ASSUME TypeOK, Reading, LastChunk
  PROVE  Finished'
<1>1. PICK j \in 1 .. Len(reply.chunks) + 1 : Waiting(j)
  BY DEF Reading
<1>2. /\ mCurrentChunkSize = 0 /\ pc' = "done" /\ mRequestSuccess' = TRUE
      /\ UNCHANGED <<reply, response>>
  BY DEF LastChunk, decodeFrame, replyVars
<1>3. AtLastLine(j)
  BY <1>1, <1>2, WaitsFor
<1>4. /\ response = FlattenSeq(SubSeq(reply.chunks, 1, j - 1))
      /\ j = Len(reply.chunks) + 1
  BY <1>1, <1>3 DEF Waiting, AtLastLine
<1>5. response = Body(reply) /\ IsPrefix(response, Body(reply))
  BY <1>4, BodySoFar DEF TypeOK
<1> QED
  BY <1>2, <1>5 DEF Finished

\* A size line that no unlucky cut ends is there as a whole, with a byte behind
\* it: it is read as the size of the chunk, or as the zero of the end.
LEMMA ReadSizeStep ==
  ASSUME TypeOK, WellFormed(reply), Reading, ReadSize
  PROVE  Reading'
<1> DEFINE W == Wire(reply)
           c == mCurrentChunk
           n == Len(reply.chunks)
<1>1. PICK j \in 1 .. n + 1 : Waiting(j)
  BY DEF Reading
<1>2. /\ pc = "decode" /\ mCurrentChunkSize = -1 /\ Len(c) > 3
      /\ UNCHANGED <<reply, mFirstPacket, at, response>>
  BY DEF ReadSize, EnoughForSize, decodeFrame, replyVars
<1> DEFINE L == LineStart(reply, j)
           text == IF j = n + 1 THEN <<"0">> ELSE reply.sizes[j]
           size == IF j = n + 1 THEN 0 ELSE Len(reply.chunks[j])
           width == Len(text)
<1>3. /\ reply \in Replies /\ W \in Seq(Byte) /\ Len(W) \in Nat
      /\ at \in 0 .. Len(W) /\ n \in Nat /\ c \in Seq(Byte)
      /\ reply.framing = "chunked" /\ CutKinds(reply, at) = {}
  BY WireShape, ReplyShape DEF TypeOK, Reading
<1>4. /\ AwaitsLine(j) /\ L \in 0 .. at /\ Len(c) = at - L
  BY <1>1, <1>2, WaitsFor
<1>5. j \in 1 .. n \/ j = n + 1
  BY <1>3
<1>6. /\ text \in Seq(Byte) /\ text # <<>> /\ width \in Nat
      /\ \A k \in 1 .. width : IsHex(text[k])
      /\ HexValue(text) = size /\ size \in Nat /\ size <= MaxInt
      /\ at > L + width + 2
      /\ \A k \in 1 .. width + 2 : W[L + k] = SizeLine(text)[k]
      /\ size = 0 => j = n + 1
      /\ size # 0 => /\ j \in 1 .. n /\ size = Len(reply.chunks[j])
                     /\ DataStart(reply, j) = L + width + 2
  <2>1. CASE j = n + 1
    <3>1. size = 0 /\ text = <<"0">>
      BY <2>1
    <3>a. /\ text \in Seq(Byte) /\ width = 1 /\ text[1] = "0" /\ text # <<>>
      <4>1. \A x \in Byte : /\ <<x>> \in Seq(Byte) /\ Len(<<x>>) = 1
                            /\ <<x>>[1] = x /\ <<x>> # <<>>
        OBVIOUS
      <4>2. "0" \in Byte
        BY ByteFacts
      <4>3. /\ <<"0">> \in Seq(Byte) /\ Len(<<"0">>) = 1
            /\ <<"0">>[1] = "0" /\ <<"0">> # <<>>
        BY ONLY <4>1, <4>2
      <4> QED
        BY <3>1, <4>3
    <3>2. /\ L \in Nat /\ \A k \in 1 .. 3 : W[L + k] = SizeLine(text)[k]
      BY <1>3, <2>1, <3>1, LastLineShape
    <3> HIDE DEF size, text, width, W, L
    <3>3. at > L + width + 2
      BY <1>2, <1>3, <1>4, <3>a, <3>2
    <3>4. \A k \in 1 .. width + 2 : W[L + k] = SizeLine(text)[k]
      BY <3>a, <3>2
    <3>5. /\ \A k \in 1 .. width : IsHex(text[k])
          /\ HexValue(text) = 0
      BY <3>a, DigitValue, HexValueShape DEF width
    <3>6. 0 <= MaxInt
      BY DEF MaxInt
    <3> QED
      BY <2>1, <3>1, <3>a, <3>3, <3>4, <3>5, <3>6
  <2>2. CASE j \in 1 .. n
    <3>1. j # n + 1 /\ size = Len(reply.chunks[j]) /\ text = reply.sizes[j]
      BY <1>3, <2>2
    <3>2. /\ L \in Nat /\ size \in Nat \ {0} /\ DataStart(reply, j) = L + width + 2
          /\ \A k \in 1 .. width + 2 : W[L + k] = SizeLine(text)[k]
      <4> HIDE DEF size, text
      <4> QED
        BY <1>3, <2>2, <3>1, LineShape
    <3>3. text \in Seq(Byte) /\ width \in Nat
      BY <1>3, <2>2, <3>1, ReplyShape
    <3>4. /\ \A k \in 1 .. width : IsHex(text[k])
          /\ HexValue(text) = size /\ size <= MaxInt
      <4>1. j \in DOMAIN reply.chunks /\ DOMAIN reply.sizes[j] = 1 .. Len(reply.sizes[j])
        BY <1>3, <2>2, ReplyShape
      <4> QED
        BY <1>3, <3>1, <4>1 DEF WellFormed
    <3> HIDE DEF size, text, width, L, W
    <3>5. text # <<>>
      BY <3>2, <3>3, <3>4, HexValueShape, EmptySeq DEF width
    <3>6. ~ (at \in L + 4 .. DataStart(reply, j)) /\ at \in Nat
      BY <1>3, <2>2, GoodCut DEF L
    <3>7. at > L + width + 2
      BY <1>2, <1>3, <1>4, <3>2, <3>3, <3>6
    <3> QED
      BY <2>2, <3>1, <3>2, <3>3, <3>4, <3>5, <3>7
  <2> QED
    BY <1>5, <2>1, <2>2
<1> HIDE DEF size, text, width, L, W, n
<1>7. /\ Len(c) > width + 2
      /\ \A k \in 1 .. width + 2 : c[k] = SizeLine(text)[k]
      /\ SubSeq(c, width + 2 + 1, Len(c)) = Window(W, L + width + 2, at)
  <2>1. c = Window(W, L, at)
    BY <1>4 DEF AwaitsLine, W, L
  <2>2. width + 2 \in 0 .. at - L /\ L \in Nat /\ at \in Nat
    BY <1>3, <1>4, <1>6
  <2>3. /\ \A k \in 1 .. at - L : c[k] = W[L + k]
        /\ \A k \in 0 .. at - L : SubSeq(c, k + 1, Len(c)) = Window(W, L + k, at)
    BY <1>3, <1>4, <2>1, WindowShape
  <2>4. SubSeq(c, width + 2 + 1, Len(c)) = Window(W, L + (width + 2), at)
    BY <2>2, <2>3
  <2>5. L + (width + 2) = L + width + 2 /\ Len(c) > width + 2
    BY <1>4, <1>6, <2>2
  <2>6. \A k \in 1 .. width + 2 : k \in 1 .. at - L
    BY <1>6, <2>2
  <2> QED
    BY <1>6, <2>3, <2>4, <2>5, <2>6
<1>8. LET line == FirstLine(c)
      IN  /\ LineEnd(c) = width + 2
          /\ LineEnd(c) \in 1 .. Len(c) - 1
          /\ line # <<>> /\ Last(line) = "\r" /\ Front(line) = text
  <2>1. Len(SizeLine(text)) = width + 2
    BY <1>6, SizeLineShape DEF width
  <2>2. Begins(SizeLine(text), c) /\ Len(c) > Len(text) + 2
    BY <1>3, <1>6, <1>7, <2>1 DEF Begins, width
  <2>3. \A k \in 1 .. Len(text) : IsHex(text[k])
    BY <1>6 DEF width
  <2> QED
    BY <1>3, <1>6, <2>2, <2>3, SizeLineRead DEF width
<1>a. ~ IsBlank(text) /\ Number(text) = size
  <2>1. \A k \in 1 .. Len(text) : IsHex(text[k])
    BY <1>6 DEF width
  <2> QED
    BY <1>6, <2>1, DigitsRead
<1>9. /\ ParseChunkSize(c)
      /\ pc' = IF mCurrentChunkSize' = -1 THEN "recv" ELSE "decode"
      /\ UNCHANGED mRequestSuccess
  BY <1>8 DEF ReadSize
<1>10. /\ mCurrentChunkSize' = size
       /\ mCurrentChunk' = SubSeq(c, width + 2 + 1, Len(c))
  BY <1>8, <1>9, <1>a DEF ParseChunkSize, Behind
<1>11. pc' = "decode"
  <2>1. size # -1
    BY <1>6
  <2> QED
    BY <1>9, <1>10, <2>1
<1>12. Waiting(j)'
  <2>1. CASE size = 0
    <3>1. AtLastLine(j)'
      BY <1>2, <1>6, <1>10, <1>11, <2>1 DEF AtLastLine, n
    <3> QED
      BY <1>1, <1>2, <3>1 DEF Waiting
  <2>2. CASE size # 0
    <3>1. /\ j <= Len(reply.chunks) /\ at >= DataStart(reply, j)
          /\ mCurrentChunk' = Window(Wire(reply), DataStart(reply, j), at)
          /\ size = Len(reply.chunks[j])
      <4>1. j <= n /\ at >= L + width + 2
        BY <1>3, <1>4, <1>6, <2>2
      <4> QED
        BY <1>6, <1>7, <1>10, <2>2, <4>1 DEF n, W
    <3>2. AwaitsData(j)'
      BY <1>2, <1>10, <1>11, <3>1 DEF AwaitsData
    <3> QED
      BY <1>1, <1>2, <3>2 DEF Waiting
  <2> QED
    BY <2>1, <2>2
<1> QED
  BY <1>1, <1>2, <1>3, <1>9, <1>11, <1>12 DEF Reading, n

\* The data of a chunk is decoded, and the end of its line, which no unlucky cut
\* ends, is taken with it: Get waits for the next size line.
LEMMA TakeChunkStep ==
  ASSUME TypeOK, Reading, TakeChunk
  PROVE  Reading'
<1> DEFINE W == Wire(reply)
           c == mCurrentChunk
           n == Len(reply.chunks)
           size == mCurrentChunkSize
           rest == SubSeq(c, size + 1, Len(c))
<1>1. PICK j \in 1 .. n + 1 : Waiting(j)
  BY DEF Reading
<1> DEFINE D == DataStart(reply, j)
           E == DataEnd(reply, j)
<1>2. /\ pc = "decode" /\ size \in 1 .. Len(c)
      /\ response' = response \o SubSeq(c, 1, size)
      /\ UNCHANGED <<reply, mFirstPacket, at>>
  BY DEF TakeChunk, decodeFrame, replyVars
<1>3. /\ reply \in Replies /\ W \in Seq(Byte) /\ Len(W) \in Nat
      /\ at \in 0 .. Len(W) /\ n \in Nat /\ c \in Seq(Byte) /\ Len(c) \in Nat
      /\ reply.framing = "chunked" /\ CutKinds(reply, at) = {}
  BY WireShape, ReplyShape, LenProperties DEF TypeOK, Reading
<1>4. /\ AwaitsData(j) /\ D \in 0 .. at /\ Len(c) = at - D
      /\ j \in 1 .. n /\ E = D + size
  <2>1. mCurrentChunkSize > 0
    BY <1>2, <1>3
  <2> QED
    BY <1>1, <2>1, WaitsFor
<1>5. /\ size = Len(reply.chunks[j]) /\ c = Window(W, D, at)
      /\ response = FlattenSeq(SubSeq(reply.chunks, 1, j - 1))
  BY <1>1, <1>4 DEF AwaitsData, Waiting
<1>6. /\ reply.chunks[j] \in Seq(Data)
      /\ LineStart(reply, j + 1) = E + 2 /\ E + 2 + 5 <= Len(W)
      /\ \A k \in 1 .. size : W[D + k] = reply.chunks[j][k]
      /\ W[E + 1] = "\r" /\ W[E + 2] = "\n"
  BY <1>3, <1>4, <1>5, LineShape, ReplyShape
<1>7. at >= E + 2 /\ E \in Nat /\ at \in Nat /\ D \in Nat /\ size \in Nat
  <2>1. at # E /\ at # E + 1
    BY <1>3, <1>4, GoodCut
  <2> HIDE DEF D, E, W
  <2> QED
    BY <1>2, <1>3, <1>4, <2>1
<1> HIDE DEF D, E, W, n
<1>8. /\ SubSeq(c, 1, size) = reply.chunks[j]
      /\ rest = Window(W, E, at)
  <2>1. size \in 0 .. at - D
    BY <1>2, <1>3, <1>4
  <2>2. /\ \A k \in 1 .. at - D : c[k] = W[D + k]
        /\ \A k \in 0 .. at - D : SubSeq(c, k + 1, Len(c)) = Window(W, D + k, at)
    BY <1>3, <1>4, <1>5, WindowShape
  <2>3. rest = Window(W, E, at)
    BY <1>4, <2>1, <2>2
  <2>4. /\ SubSeq(c, 1, size) \in Seq(Byte) /\ Len(SubSeq(c, 1, size)) = size
        /\ \A k \in 1 .. size : SubSeq(c, 1, size)[k] = c[k]
    <3>1. size \in 0 .. Len(c) /\ 1 \in Nat \ {0} /\ size - 1 + 1 = size
          /\ \A k \in 1 .. size : 1 + k - 1 = k
      BY <1>2, <1>3, <1>7
    <3>2. /\ SubSeq(c, 1, size) \in Seq(Byte)
          /\ Len(SubSeq(c, 1, size)) = IF 1 <= size THEN size - 1 + 1 ELSE 0
          /\ \A k \in 1 .. size - 1 + 1 : SubSeq(c, 1, size)[k] = c[1 + k - 1]
      BY <1>3, <3>1, SubSeqShape
    <3> QED
      BY <1>2, <1>3, <3>1, <3>2
  <2>5. \A k \in 1 .. size : SubSeq(c, 1, size)[k] = reply.chunks[j][k]
    <3>1. \A k \in 1 .. size : k \in 1 .. at - D
      BY <2>1, <1>3, <1>4
    <3> QED
      BY <1>6, <2>2, <2>4, <3>1
  <2>6. reply.chunks[j] \in Seq(Byte)
    BY <1>6, ByteFacts, SeqMonotonic
  <2>7. SubSeq(c, 1, size) = reply.chunks[j]
    <3> DEFINE t == SubSeq(c, 1, size)
    <3>1. t \in Seq(Byte) /\ Len(t) = Len(reply.chunks[j])
          /\ \A k \in 1 .. Len(t) : t[k] = reply.chunks[j][k]
      BY <1>5, <2>4, <2>5
    <3> HIDE DEF t
    <3>2. t = reply.chunks[j]
      BY <2>6, <3>1, SeqEqual
    <3> QED
      BY <3>2 DEF t
  <2> QED
    BY <2>3, <2>7
<1> HIDE DEF rest
<1>9. /\ Len(rest) = at - E /\ rest \in Seq(Byte)
      /\ rest[1] = "\r" /\ rest[2] = "\n"
      /\ SubSeq(rest, 3, Len(rest)) = Window(W, E + 2, at)
  <2>1. /\ E \in 0 .. at /\ at \in 0 .. Len(W) /\ 1 \in 1 .. at - E
        /\ 2 \in 1 .. at - E /\ 2 \in 0 .. at - E /\ 2 + 1 = 3
    BY <1>3, <1>7
  <2>2. LET t == Window(W, E, at)
        IN  /\ t \in Seq(Byte) /\ Len(t) = at - E
            /\ \A k \in 1 .. at - E : t[k] = W[E + k]
            /\ \A k \in 0 .. at - E :
                 /\ SubSeq(t, k + 1, Len(t)) = Window(W, E + k, at)
                 /\ SubSeq(t, 1, k) = Window(W, E, E + k)
    <3>1. W \in Seq(Byte)
      BY <1>3
    <3> QED
      BY ONLY <2>1, <3>1, WindowShape
  <2>3. SubSeq(rest, 2 + 1, Len(rest)) = Window(W, E + 2, at)
    BY <1>8, <2>1, <2>2
  <2>4. rest[1] = "\r" /\ rest[2] = "\n"
    BY <1>6, <1>8, <2>1, <2>2
  <2> QED
    BY <1>8, <2>1, <2>2, <2>3, <2>4
<1>10. IsPrefix(CRLF, rest) /\ ~ (Len(rest) < 2)
  <2>1. Len(rest) >= 2
    BY <1>7, <1>9
  <2>2. SubSeq(CRLF, 1, 2) = CRLF
    BY CRLFShape, SubSeqFull
  <2>3. SubSeq(rest, 1, 2) = CRLF
    <3> DEFINE t == SubSeq(rest, 1, 2)
    <3>1. 2 \in 0 .. Len(rest) /\ 1 \in Nat \ {0} /\ 2 - 1 + 1 = 2
          /\ 1 + 1 - 1 = 1 /\ 1 + 2 - 1 = 2
      BY <1>7, <1>9
    <3>2. /\ t \in Seq(Byte) /\ Len(t) = IF 1 <= 2 THEN 2 - 1 + 1 ELSE 0
          /\ \A k \in 1 .. 2 - 1 + 1 : t[k] = rest[1 + k - 1]
      BY <1>9, <3>1, SubSeqShape
    <3> HIDE DEF t
    <3>3. Len(t) = 2 /\ t[1] = "\r" /\ t[2] = "\n"
      BY <1>9, <3>1, <3>2
    <3>4. \A k \in 1 .. 2 : t[k] = CRLF[k]
      <4>1. \A k \in 1 .. 2 : k = 1 \/ k = 2
        OBVIOUS
      <4> QED
        BY <3>3, <4>1, CRLFShape
    <3>5. t = CRLF
      BY <3>2, <3>3, <3>4, CRLFShape, SeqEqual
    <3> QED
      BY <3>5 DEF t
  <2> QED
    BY <2>1, <2>2, <2>3, CRLFShape DEF IsPrefix
<1>11. /\ mCurrentChunk' = SubSeq(rest, 3, Len(rest)) /\ mCurrentChunkSize' = -1
       /\ UNCHANGED <<pc, mRequestSuccess>>
  BY <1>10 DEF TakeChunk, rest, Behind
<1> DEFINE i == j + 1
<1>12. i \in 1 .. n + 1 /\ i - 1 = j
  BY <1>3, <1>4
<1>13. response' = FlattenSeq(SubSeq(reply.chunks, 1, j))
  <2>1. j <= Len(reply.chunks)
    BY <1>3, <1>4 DEF n
  <2> QED
    BY <1>1, <1>2, <1>3, <1>5, <1>8, <2>1, BodySoFar DEF n
<1>14. LineStart(reply, i) = E + 2
  BY <1>6
<1> HIDE DEF i
<1>15. Waiting(i)'
  <2>1. AwaitsLine(i)'
    BY <1>2, <1>7, <1>9, <1>11, <1>14 DEF AwaitsLine, W
  <2> QED
    BY <1>2, <1>12, <1>13, <2>1 DEF Waiting
<1> QED
  BY <1>2, <1>3, <1>11, <1>12, <1>15 DEF Reading, n

\* Before anything came the invariant holds.
LEMMA DecodeInitially == Init => DecodeInv
<1> SUFFICES ASSUME Init PROVE DecodeInv
  OBVIOUS
<1>1. TypeOK
  BY TypeInitially
<1>2. NothingYet
  BY DEF Init, NothingYet
<1> QED
  BY <1>1, <1>2 DEF DecodeInv

\* Every step keeps the invariant.
LEMMA DecodeStep == DecodeInv /\ [Next]_vars => DecodeInv'
<1> SUFFICES ASSUME DecodeInv, [Next]_vars PROVE DecodeInv'
  OBVIOUS
<1>1. TypeOK /\ TypeOK'
  BY TypeStep DEF DecodeInv
<1>2. /\ reply \in Replies /\ Wire(reply) \in Seq(Byte)
      /\ Len(Wire(reply)) \in Nat /\ at \in 0 .. Len(Wire(reply))
  BY <1>1, WireShape DEF TypeOK
<1>0. reply' = reply
  BY [Next]_vars DEF Next, Get, Connect, Recv, RecvError, RecvNothing, Decode,
       WaitForSize, ReadSize, LastChunk, WaitForData, TakeChunk, Terminated, Packet,
       decodeFrame, replyVars, vars
<1> SUFFICES ASSUME badCuts' = {}, WellFormed(reply)
             PROVE  NothingYet' \/ Reading' \/ Finished'
  BY <1>0, <1>1 DEF DecodeInv, Clean
<1>3. ASSUME badCuts = {} PROVE NothingYet \/ Reading \/ Finished
  BY <1>3 DEF DecodeInv, Clean
<1>4. CASE Connect
  <2>1. pc = "connect" /\ badCuts = {}
    BY <1>4 DEF Connect
  <2>2. NothingYet
    BY <1>3, <2>1 DEF Reading, Finished
  <2>3. UNCHANGED <<reply, mFirstPacket, at, mCurrentChunk, mCurrentChunkSize,
                    response, mRequestSuccess>>
    BY <1>4 DEF Connect, replyVars, chunkVars
  <2>4. CASE pc' = "recv"
    BY <2>2, <2>3, <2>4 DEF NothingYet
  <2>5. CASE pc' = "done" /\ interrupted' = TRUE
    <3>1. /\ 1 \in 1 .. Len(reply.chunks) + 1
      BY <1>2, ReplyShape
    <3>2. IsPrefix(<<>>, Body(reply))
      BY <1>2, <3>1, BodySoFar
    <3>3. response' = <<>> /\ mRequestSuccess' = FALSE
      BY <2>2, <2>3 DEF NothingYet
    <3> QED
      BY <2>3, <2>5, <3>2, <3>3 DEF Finished
  <2> QED
    BY <1>4, <2>4, <2>5 DEF Connect
<1>5. CASE Recv
  <2>1. PICK n \in 1 .. RecvSize :
          /\ at + n <= Len(Wire(reply)) /\ at' = at + n
          /\ badCuts' = badCuts \cup CutKinds(reply, at')
          /\ Packet(SubSeq(Wire(reply), at + 1, at'))
    BY <1>5 DEF Recv
  <2>2. badCuts = {} /\ CutKinds(reply, at') = {} /\ pc = "recv"
    BY <1>5, <2>1 DEF Recv
  <2>3. at' \in at .. Len(Wire(reply))
    BY <1>2, <2>1, ReplyAssumption
  <2>4. NothingYet \/ Reading
    BY <1>3, <2>2 DEF Finished
  <2>5. Packet(Window(Wire(reply), at, at'))
    BY <2>1 DEF Window
  <2> QED
    BY <1>1, <2>2, <2>3, <2>4, <2>5, PacketStep
<1>6. CASE RecvError
  <2>1. /\ badCuts = {} /\ at' = at /\ pc = "recv" /\ Packet(<<>>)
        /\ interrupted' = (interrupted \/ at = 0)
    BY <1>6 DEF RecvError
  <2>2. NothingYet \/ Reading
    BY <1>3, <2>1 DEF Finished
  <2>3. CASE Reading
    <3>1. CutKinds(reply, at') = {} /\ at' \in at .. Len(Wire(reply))
      BY <1>2, <2>1, <2>3 DEF Reading
    <3>2. Window(Wire(reply), at, at') = <<>>
      BY <1>2, <2>1, SubSeqEmpty DEF Window
    <3> QED
      BY <1>1, <2>1, <2>3, <3>1, <3>2, PacketStep
  <2>4. CASE NothingYet
    <3>1. FirstPacket(<<>>) /\ at = 0 /\ response = <<>>
      BY <2>1, <2>4 DEF Packet, NextPacket, NothingYet
    <3> DEFINE r == ParseReplyHeader(<<>>)
    <3>2. ~ r.chunked /\ r.contentLength = 0 /\ r.body = <<>>
      <4>1. Len(<<>>) = 0 /\ ~ (0 >= 4) /\ ~ (0 > 4)
        OBVIOUS
      <4>2. SubSeq(<<>>, Len(Header(reply)) + 1, 0) = <<>>
        BY <1>2, HeaderShape, SubSeqEmpty
      <4> QED
        BY <4>1, <4>2 DEF ParseReplyHeader, ContentLength, SeenLine
    <3> HIDE DEF r
    <3>3. /\ response' = response \o r.body /\ pc' = "done"
      BY <3>1, <3>2 DEF FirstPacket, r
    <3>4. response' = <<>>
      BY <3>1, <3>2, <3>3
    <3>5. IsPrefix(<<>>, Body(reply))
      <4>1. 1 \in 1 .. Len(reply.chunks) + 1
        BY <1>2, ReplyShape
      <4> QED
        BY <1>2, <4>1, BodySoFar
    <3> QED
      BY <1>0, <2>1, <3>1, <3>3, <3>4, <3>5 DEF Finished
  <2> QED
    BY <2>2, <2>3, <2>4
<1>7. CASE RecvNothing
  <2>1. /\ pc = "recv" /\ pc' = "done" /\ badCuts = {}
        /\ interrupted' = (interrupted \/ at < Len(Wire(reply)))
        /\ UNCHANGED <<reply, response, mRequestSuccess>>
    BY <1>7 DEF RecvNothing, GiveUp, replyVars
  <2>2. CASE NothingYet
    <3>1. 1 \in 1 .. Len(reply.chunks) + 1
      BY <1>2, ReplyShape
    <3>2. IsPrefix(<<>>, Body(reply))
      BY <1>2, <3>1, BodySoFar
    <3>3. at < Len(Wire(reply))
      <4>1. Len(Wire(reply)) >= 8
        <5>1. CASE reply.framing = "length"
          BY <1>2, <5>1, WireShape, HeaderShape
        <5>2. CASE reply.framing = "chunked"
          BY <1>2, <3>1, <5>2, PlaceShape
        <5> QED
          BY <1>2, <5>1, <5>2, ReplyShape
      <4> QED
        BY <1>2, <2>2, <4>1 DEF NothingYet
    <3> QED
      BY <2>1, <2>2, <3>2, <3>3 DEF NothingYet, Finished
  <2>3. CASE Reading
    <3>1. PICK j \in 1 .. Len(reply.chunks) + 1 : Waiting(j)
      BY <2>3 DEF Reading
    <3>2. reply.framing = "chunked"
      BY <2>3 DEF Reading
    <3>3. /\ LineStart(reply, j) \in Nat
          /\ LineStart(reply, j) + 5 <= Len(Wire(reply))
          /\ j \in 1 .. Len(reply.chunks) \/ j = Len(reply.chunks) + 1
      BY <1>2, <3>1, <3>2, PlaceShape
    <3>4. at < Len(Wire(reply))
      <4>1. CASE AwaitsLine(j)
        <5>1. at <= LineStart(reply, j) + 3
          BY <2>1, <4>1 DEF AwaitsLine
        <5> QED
          BY <1>2, <3>3, <5>1
      <4>2. CASE AwaitsData(j)
        <5>1. at < DataEnd(reply, j) /\ j \in 1 .. Len(reply.chunks)
          BY <1>2, <2>1, <3>1, <4>2, ReplyShape DEF AwaitsData
        <5>2. /\ LineStart(reply, j) \in Nat /\ Len(reply.chunks[j]) \in Nat \ {0}
              /\ DataStart(reply, j)
                   = LineStart(reply, j) + Len(reply.sizes[j]) + 2
              /\ DataEnd(reply, j) = DataStart(reply, j) + Len(reply.chunks[j])
              /\ DataEnd(reply, j) + 2 + 5 <= Len(Wire(reply))
              /\ Len(reply.sizes[j]) \in Nat
          BY <1>2, <3>2, <5>1, LineShape, ReplyShape
        <5> DEFINE l == LineStart(reply, j)
                   d == DataStart(reply, j)
                   e == DataEnd(reply, j)
                   w == Len(reply.sizes[j])
                   size == Len(reply.chunks[j])
                   N == Len(Wire(reply))
        <5>3. /\ l \in Nat /\ w \in Nat /\ size \in Nat /\ N \in Nat /\ at \in Nat
              /\ d = l + w + 2 /\ e = d + size /\ e + 2 + 5 <= N /\ at < e
          BY <1>2, <5>1, <5>2
        <5> HIDE DEF l, d, e, w, size, N
        <5>4. at < N
          BY ONLY <5>3
        <5> QED
          BY <5>4 DEF N
      <4>3. CASE AtLastLine(j)
        BY <2>1, <4>3 DEF AtLastLine
      <4> QED
        BY <3>1, <4>1, <4>2, <4>3 DEF Waiting
    <3>5. IsPrefix(response, Body(reply))
      BY <1>2, <3>1, BodySoFar DEF Waiting
    <3> QED
      BY <2>1, <2>3, <3>4, <3>5 DEF Reading, Finished
  <2> QED
    BY <1>3, <2>1, <2>2, <2>3 DEF Finished
<1>8. CASE Decode
  <2>1. pc = "decode" /\ badCuts = {}
    BY <1>8 DEF Decode, WaitForSize, ReadSize, LastChunk, WaitForData, TakeChunk,
                decodeFrame
  <2>2. Reading
    BY <1>3, <2>1 DEF NothingYet, Finished
  <2> QED
    BY <1>1, <1>8, <2>2, WaitStep, ReadSizeStep, LastChunkStep, TakeChunkStep
       DEF Decode
<1>9. CASE UNCHANGED vars
  <2>1. badCuts = {}
    BY <1>9 DEF vars
  <2>2. CASE NothingYet
    BY <1>9, <2>2 DEF vars, NothingYet
  <2>3. CASE Reading
    BY <1>9, <2>3 DEF vars, Reading, Waiting, AwaitsLine, AwaitsData, AtLastLine
  <2>4. CASE Finished
    BY <1>9, <2>4 DEF vars, Finished
  <2> QED
    BY <1>3, <2>1, <2>2, <2>3, <2>4
<1> QED
  BY ONLY <1>4, <1>5, <1>6, <1>7, <1>8, <1>9, [Next]_vars
     DEF Next, Get, Terminated

\* The invariant holds in every state.
LEMMA Decoding == Spec => []DecodeInv
<1> QED
  BY DecodeInitially, DecodeStep, PTL DEF Spec

\* Between two turns of the loop nothing of a chunked reply is lost and nothing
\* is read twice, for any number of chunks of any length whose size lines are
\* well formed, every size of a packet, any errors the socket reports, and every
\* place where the reply is cut but the unlucky ones: what was decoded is the data of the
\* chunks taken so far, and what waits is the reply behind them.
THEOREM NothingIsDropped == Spec => []NothingDropped
<1>1. DecodeInv => NothingDropped
  <2> SUFFICES ASSUME DecodeInv, Clean, mFirstPacket, pc # "done"
               PROVE  \E i \in 0 .. Len(reply.chunks) :
                        LET done  == FlattenSeq(SubSeq(reply.chunks, 1, i))
                            after == SubSeq(Wire(reply), LineStart(reply, i + 1) + 1, at)
                        IN  /\ response = done
                            /\ \/ mCurrentChunkSize = -1 /\ mCurrentChunk = after
                               \/ /\ i < Len(reply.chunks)
                                  /\ mCurrentChunkSize = Len(reply.chunks[i + 1])
                                  /\ mCurrentChunk =
                                       SubSeq(Wire(reply), DataStart(reply, i + 1) + 1, at)
                               \/ i = Len(reply.chunks) /\ mCurrentChunkSize = 0
    BY DEF NothingDropped
  <2>1. Reading
    BY DEF DecodeInv, NothingYet, Finished
  <2>2. PICK j \in 1 .. Len(reply.chunks) + 1 : Waiting(j)
    BY <2>1 DEF Reading
  <2>3. Len(reply.chunks) \in Nat
    BY ReplyShape DEF DecodeInv, TypeOK
  <2> DEFINE i == j - 1
  <2>4. i \in 0 .. Len(reply.chunks) /\ i + 1 = j
    BY <2>3
  <2>5. response = FlattenSeq(SubSeq(reply.chunks, 1, i))
    BY <2>2 DEF Waiting
  <2>6. (AwaitsLine(j) \/ AwaitsData(j) \/ AtLastLine(j))
    BY <2>2 DEF Waiting
  <2>7. j <= Len(reply.chunks) => i < Len(reply.chunks)
    BY <2>3, <2>4
  <2>8. j = Len(reply.chunks) + 1 => i = Len(reply.chunks)
    BY <2>3, <2>4
  <2> HIDE DEF i
  <2>9. \/ /\ mCurrentChunkSize = -1
           /\ mCurrentChunk = SubSeq(Wire(reply), LineStart(reply, i + 1) + 1, at)
        \/ /\ i < Len(reply.chunks)
           /\ mCurrentChunkSize = Len(reply.chunks[i + 1])
           /\ mCurrentChunk = SubSeq(Wire(reply), DataStart(reply, i + 1) + 1, at)
        \/ i = Len(reply.chunks) /\ mCurrentChunkSize = 0
    BY <2>4, <2>6, <2>7, <2>8 DEF AwaitsLine, AwaitsData, AtLastLine, Window
  <2> QED
    BY <2>4, <2>5, <2>9
<1> QED
  BY <1>1, Decoding, PTL

\* However a well-formed reply is cut, if not at an unlucky place, and wherever
\* the connection fails, what Get hands out is a beginning of the body. It reports
\* success for the whole body only, unless the first thing it received was an
\* error: then it reports success for an empty one.
THEOREM OnlyBodyBytes == Spec => []OnlyTheBody
<1>1. DecodeInv => OnlyTheBody
  <2> SUFFICES ASSUME DecodeInv, Clean
               PROVE  /\ IsPrefix(response, Body(reply))
                      /\ pc = "done" /\ mRequestSuccess
                           => response = Body(reply) \/ at = 0
    BY DEF OnlyTheBody
  <2>1. reply \in Replies
    BY DEF DecodeInv, TypeOK
  <2>2. CASE NothingYet
    <3>1. 1 \in 1 .. Len(reply.chunks) + 1
      BY <2>1, ReplyShape
    <3> QED
      BY <2>1, <2>2, <3>1, BodySoFar DEF NothingYet
  <2>3. CASE Reading
    <3>1. PICK j \in 1 .. Len(reply.chunks) + 1 : Waiting(j)
      BY <2>3 DEF Reading
    <3> QED
      BY <2>1, <2>3, <3>1, BodySoFar DEF Reading, Waiting
  <2>4. CASE Finished
    BY <2>4 DEF Finished
  <2> QED
    BY <2>2, <2>3, <2>4 DEF DecodeInv
<1> QED
  BY <1>1, Decoding, PTL

\* A well-formed reply that came to its end, in pieces cut anywhere but at the
\* unlucky places, with any number of errors between them, is decoded to the
\* whole body.
THEOREM WholeBodies == Spec => []GoodCutsDecode
<1>1. DecodeInv => GoodCutsDecode
  <2> SUFFICES ASSUME DecodeInv, Delivered, Clean PROVE Whole
    BY DEF GoodCutsDecode
  <2>1. Finished
    BY DEF DecodeInv, Delivered, NothingYet, Reading
  <2> QED
    BY <2>1 DEF Finished, Delivered, Whole
<1> QED
  BY <1>1, Decoding, PTL

=============================================================================
