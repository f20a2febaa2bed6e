-------------------------- MODULE SocketOutProofs ---------------------------
(***************************************************************************)
(* Proofs about SocketOut.  The control: queued data is in the poller's    *)
(* list, Wake_ only names a sender that sleeps, and a sender that has the  *)
(* output to itself is always within reach of the callback.  The data: the *)
(* stream stays in one piece, the queue is bounded by back pressure, and   *)
(* a Flush that returns has written everything.                            *)
(*                                                                         *)
(* The first part is about lists of chunks of any number and length.  Its  *)
(* inductions are over sets of naturals (SetInduction), which follows from *)
(* the well-foundedness of < on Nat.                                       *)
(***************************************************************************)
EXTENDS SocketOut, SequenceTheorems, WellFoundedInduction, TLAPS

(* Every nonempty set of naturals has a least element.                     *)
LEMMA LeastElement ==
    ASSUME NEW S, S \subseteq Nat, S # {}
    PROVE  \E n \in S : \A m \in S : n <= m
<1>1. \A x, y \in Nat : y < x => <<y, x>> \in OpToRel(<, Nat)
    BY DEF OpToRel
<1>2. \E R : /\ IsWellFoundedOn(R, Nat)
             /\ \A x, y \in Nat : y < x => <<y, x>> \in R
    BY <1>1, NatLessThanWellFounded
<1>3. PICK R : /\ IsWellFoundedOn(R, Nat)
               /\ \A x, y \in Nat : y < x => <<y, x>> \in R
    BY <1>2
<1>4. PICK x \in S : \A y \in S : <<y, x>> \notin R
    BY <1>3, WFMin
<1>5. \A y \in S : ~ (y < x)
    <2>1. \A z, y \in Nat : y < z => <<y, z>> \in R
        BY <1>3
    <2>2. QED
        BY <1>4, <2>1
<1>6. QED
    BY <1>5

(* Induction over the naturals, for a set instead of a predicate.          *)
LEMMA SetInduction ==
    ASSUME NEW S, S \subseteq Nat, 0 \in S, \A n \in S : n + 1 \in S
    PROVE  S = Nat
<1> SUFFICES ASSUME Nat \ S # {} PROVE FALSE
    OBVIOUS
<1>1. PICK n \in Nat \ S : \A m \in Nat \ S : n <= m
    BY LeastElement
<1>2. n - 1 \in Nat /\ n - 1 \in S
    BY <1>1
<1>3. QED
    BY <1>1, <1>2

(* f[i] is what the first i chunks of the list hold: the function that     *)
(* FlattenSeq defines by recursion.                                        *)
Joins(f, list, n) ==
    f = [i \in 1 .. n |-> IF i = 1 THEN list[i] ELSE f[i - 1] \o list[i]]

(* Such a function at one place.                                           *)
LEMMA JoinsAt ==
    ASSUME NEW f, NEW list, NEW n, Joins(f, list, n), NEW i \in 1 .. n
    PROVE  f[i] = IF i = 1 THEN list[i] ELSE f[i - 1] \o list[i]
BY DEF Joins

(* There is such a function, whatever the length.                          *)
LEMMA JoinsExists ==
    ASSUME NEW list, NEW n \in Nat
    PROVE  \E f : Joins(f, list, n)
<1> DEFINE N == {k \in Nat : \E f : Joins(f, list, k)}
<1>1. 0 \in N
    <2>1. Joins(<<>>, list, 0)
        BY DEF Joins
    <2>2. QED
        BY <2>1
<1>2. ASSUME NEW k \in N
      PROVE  k + 1 \in N
    <2>1. PICK f : Joins(f, list, k)
        OBVIOUS
    <2>2. k \in Nat
        OBVIOUS
    <2> DEFINE top == IF k = 0 THEN list[1] ELSE f[k] \o list[k + 1]
               g == [i \in 1 .. k + 1 |-> IF i = k + 1 THEN top ELSE f[i]]
    <2> HIDE DEF N
    <2>3. g = [i \in 1 .. k + 1 |-> g[i]] /\ g[k + 1] = top /\ \A i \in 1 .. k : g[i] = f[i]
        <3> HIDE DEF top
        <3>1. QED
            BY <2>2
    <2> HIDE DEF g
    <2>5. ASSUME NEW i \in 1 .. k + 1
          PROVE  g[i] = IF i = 1 THEN list[i] ELSE g[i - 1] \o list[i]
        <3>1. CASE i = k + 1
            <4>1. k # 0 => g[k] = f[k]
                BY SMTT(60), <2>2, <2>3
            <4>2. QED
                BY <2>2, <2>3, <3>1, <4>1
        <3>2. CASE i \in 1 .. k
            <4>1. g[i] = f[i]
                BY <2>3, <3>2
            <4>2. i # 1 => g[i - 1] = f[i - 1]
                <5> HIDE DEF top
                <5>1. i # 1 => i - 1 \in 1 .. k
                    BY <2>2, <3>2
                <5>2. QED
                    BY <2>3, <5>1
            <4>3. f[i] = IF i = 1 THEN list[i] ELSE f[i - 1] \o list[i]
                BY <2>1, <3>2, JoinsAt
            <4>4. QED
                BY <4>1, <4>2, <4>3
        <3>3. QED
            BY <2>2, <3>1, <3>2
    <2>6. Joins(g, list, k + 1)
        BY <2>3, <2>5 DEF Joins
    <2>7. QED
        BY <2>2, <2>6 DEF N
<1> HIDE DEF N
<1>3. N \subseteq Nat
    BY DEF N
<1>4. N = Nat
    BY <1>1, <1>2, <1>3, SetInduction
<1>5. QED
    BY <1>4 DEF N

(* Flat of a list that is not empty is the last value of one of them.      *)
LEMMA FlatJoins ==
    ASSUME NEW S, NEW list \in Seq(Seq(S)), list # <<>>
    PROVE  \E f : Joins(f, list, Len(list)) /\ Flat(list) = f[Len(list)]
<1> DEFINE g == CHOOSE f : f = [i \in 1 .. Len(list) |->
                                   IF i = 1 THEN list[i] ELSE f[i - 1] \o list[i]]
<1>1. Joins(g, list, Len(list))
    <2>1. \E f : Joins(f, list, Len(list))
        BY JoinsExists, LenProperties
    <2>2. QED
        BY Zenon, <2>1 DEF Joins
<1>2. Flat(list) = g[Len(list)]
    BY DEF Flat, FlattenSeq
<1>3. QED
    BY <1>1, <1>2

(* The list l2 begins with the chunks of l1.                               *)
Begins(l1, l2) ==
    Len(l1) <= Len(l2) /\ \A i \in 1 .. Len(l1) : l1[i] = l2[i]

(* The joins of two lists agree where the lists do, and are sequences.     *)
LEMMA JoinsAgree ==
    ASSUME NEW S, NEW l1 \in Seq(Seq(S)), NEW l2 \in Seq(Seq(S)),
           Begins(l1, l2),
           NEW f, Joins(f, l1, Len(l1)),
           NEW g, Joins(g, l2, Len(l2))
    PROVE  \A i \in 1 .. Len(l1) : f[i] \in Seq(S) /\ f[i] = g[i]
<1> DEFINE n == Len(l1)
           N == {k \in Nat : k \in 1 .. n => f[k] \in Seq(S) /\ f[k] = g[k]}
<1>1. Len(l1) \in Nat /\ Len(l2) \in Nat /\ n \in Nat
    OBVIOUS
<1>2. n <= Len(l2) /\ \A i \in 1 .. n : l1[i] = l2[i]
    BY DEF Begins
<1>3. 0 \in N
    OBVIOUS
<1>4. ASSUME NEW k \in N
      PROVE  k + 1 \in N
    <2> SUFFICES ASSUME k + 1 \in 1 .. n
                 PROVE  f[k + 1] \in Seq(S) /\ f[k + 1] = g[k + 1]
        OBVIOUS
    <2>1. /\ f[k + 1] = IF k + 1 = 1 THEN l1[k + 1] ELSE f[k + 1 - 1] \o l1[k + 1]
          /\ g[k + 1] = IF k + 1 = 1 THEN l2[k + 1] ELSE g[k + 1 - 1] \o l2[k + 1]
        <3>1. k + 1 \in 1 .. Len(l1) /\ k + 1 \in 1 .. Len(l2)
            BY <1>1, <1>2
        <3>2. QED
            BY <3>1, JoinsAt
    <2>2. l1[k + 1] \in Seq(S) /\ l1[k + 1] = l2[k + 1]
        BY <1>1, <1>2
    <2>3. CASE k = 0
        BY <2>1, <2>2, <2>3
    <2>4. CASE k # 0
        <3>1. f[k] \in Seq(S) /\ f[k] = g[k]
            BY <2>4
        <3>2. f[k + 1] = f[k] \o l1[k + 1] /\ g[k + 1] = g[k] \o l2[k + 1]
            <4>1. k + 1 # 1 /\ k + 1 - 1 = k
                BY <2>4
            <4>2. QED
                BY <2>1, <4>1
        <3>3. QED
            BY <2>2, <3>1, <3>2
    <2>5. QED
        BY <2>3, <2>4
<1>5. N = Nat
    <2>1. N \subseteq Nat
        OBVIOUS
    <2> HIDE DEF N
    <2>2. QED
        BY <1>3, <1>4, <2>1, SetInduction
<1>6. QED
    <2>1. \A i \in 1 .. n : i \in N
        <3> HIDE DEF N
        <3>1. QED
            BY <1>1, <1>5
    <2>2. QED
        BY <2>1

(* The bytes of a list of chunks are a sequence of bytes.                  *)
LEMMA FlatType ==
    ASSUME NEW S, NEW list \in Seq(Seq(S))
    PROVE  Flat(list) \in Seq(S)
<1>1. CASE list = <<>>
    BY <1>1 DEF Flat
<1>2. CASE list # <<>>
    <2>1. PICK f : Joins(f, list, Len(list)) /\ Flat(list) = f[Len(list)]
        BY <1>2, FlatJoins
    <2>2. Len(list) \in 1 .. Len(list) /\ Begins(list, list)
        BY <1>2, LenProperties, EmptySeq DEF Begins
    <2>3. \A i \in 1 .. Len(list) : f[i] \in Seq(S) /\ f[i] = f[i]
        BY <2>1, <2>2, JoinsAgree
    <2>4. QED
        BY <2>1, <2>2, <2>3
<1>3. QED
    BY <1>1, <1>2

(* A chunk added at the end adds its bytes at the end.                     *)
LEMMA FlatAppend ==
    ASSUME NEW S, NEW list \in Seq(Seq(S)), NEW c \in Seq(S)
    PROVE  Flat(Append(list, c)) = Flat(list) \o c
<1> DEFINE long == Append(list, c)
           n == Len(list)
<1>1. /\ long \in Seq(Seq(S)) /\ long # <<>> /\ n \in Nat
      /\ Len(long) = n + 1 /\ long[n + 1] = c
      /\ \A i \in 1 .. n : list[i] = long[i]
    BY LenProperties, AppendProperties
<1> HIDE DEF long
<1>2. PICK g : Joins(g, long, Len(long)) /\ Flat(long) = g[n + 1]
    BY <1>1, FlatJoins
<1>3. g[n + 1] = IF n + 1 = 1 THEN long[n + 1] ELSE g[n + 1 - 1] \o long[n + 1]
    <2>1. n + 1 \in 1 .. Len(long)
        BY <1>1
    <2>2. QED
        BY <1>2, <2>1, JoinsAt
<1>4. CASE list = <<>>
    <2>1. Flat(list) = <<>> /\ n = 0
        BY <1>4 DEF Flat
    <2>2. g[n + 1] = c
        BY <1>1, <1>3, <2>1
    <2>3. QED
        BY <1>2, <2>1, <2>2 DEF long
<1>5. CASE list # <<>>
    <2>1. PICK f : Joins(f, list, n) /\ Flat(list) = f[n]
        BY <1>5, FlatJoins
    <2>2. n # 0
        BY <1>5, EmptySeq
    <2>3. f[n] = g[n]
        <3>1. \A i \in 1 .. n : f[i] \in Seq(S) /\ f[i] = g[i]
            <4>1. /\ list \in Seq(Seq(S)) /\ long \in Seq(Seq(S))
                  /\ Begins(list, long)
                BY <1>1 DEF Begins
            <4>2. Joins(f, list, Len(list)) /\ Joins(g, long, Len(long))
                BY <1>2, <2>1
            <4>3. QED
                BY <4>1, <4>2, JoinsAgree
        <3>2. QED
            BY <1>1, <2>2, <3>1
    <2>4. g[n + 1] = g[n] \o c
        BY SMTT(60), <1>1, <1>3, <2>2
    <2>5. QED
        BY <1>2, <2>1, <2>3, <2>4 DEF long
<1>6. QED
    BY <1>4, <1>5

(* Appending to a concatenation appends to its second part.                *)
LEMMA ConcatAppend ==
    ASSUME NEW S, NEW s \in Seq(S), NEW t \in Seq(S), NEW e \in S
    PROVE  s \o Append(t, e) = Append(s \o t, e)
OBVIOUS

(* Concatenation is associative, for Seq(S) and for the bytes of lists.    *)
Assoc(s, t, u) == (s \o t) \o u = s \o (t \o u)

LEMMA ConcatThree ==
    ASSUME NEW S, NEW s \in Seq(S), NEW t \in Seq(S), NEW u \in Seq(S)
    PROVE  Assoc(s, t, u)
BY ConcatAssociative DEF Assoc

LEMMA FlatThree ==
    ASSUME NEW S, NEW a \in Seq(Seq(S)), NEW p \in Seq(Seq(S)), NEW c \in Seq(S)
    PROVE  (Flat(a) \o Flat(p)) \o c = Flat(a) \o (Flat(p) \o c)
<1>1. Flat(a) \in Seq(S) /\ Flat(p) \in Seq(S)
    BY FlatType
<1>2. Assoc(Flat(a), Flat(p), c)
    BY Zenon, <1>1, ConcatThree
<1>3. QED
    BY <1>2 DEF Assoc

(* One step of the induction of FlatConcat.                                *)
LEMMA FlatConcatStep ==
    ASSUME NEW S, NEW a \in Seq(Seq(S)), NEW p \in Seq(Seq(S)), NEW c \in Seq(S),
           Flat(a \o p) = Flat(a) \o Flat(p)
    PROVE  Flat(a \o Append(p, c)) = Flat(a) \o Flat(Append(p, c))
<1>1. a \o p \in Seq(Seq(S)) /\ Flat(a) \in Seq(S) /\ Flat(p) \in Seq(S)
    BY FlatType
<1>2. a \o Append(p, c) = Append(a \o p, c)
    BY ConcatAppend
<1>3. /\ Flat(Append(a \o p, c)) = Flat(a \o p) \o c
      /\ Flat(Append(p, c)) = Flat(p) \o c
    BY <1>1, FlatAppend
<1>4. (Flat(a) \o Flat(p)) \o c = Flat(a) \o (Flat(p) \o c)
    BY FlatThree
<1>5. QED
    BY Zenon, <1>2, <1>3, <1>4

(* The bytes of two lists in a row are those of the one and the other.     *)
LEMMA FlatConcat ==
    ASSUME NEW S, NEW a \in Seq(Seq(S)), NEW b \in Seq(Seq(S))
    PROVE  Flat(a \o b) = Flat(a) \o Flat(b)
<1> DEFINE P(k) == SubSeq(b, 1, k)
           N == {k \in Nat : k <= Len(b) => Flat(a \o P(k)) = Flat(a) \o Flat(P(k))}
<1>1. Len(b) \in Nat /\ P(0) = <<>> /\ P(Len(b)) = b
    BY LenProperties, SubSeqEmpty, SubSeqFull
<1>2. 0 \in N
    <2>1. Flat(a) \in Seq(S) /\ Flat(<<>>) = <<>>
        BY FlatType DEF Flat
    <2>2. a \o <<>> = a /\ Flat(a) \o <<>> = Flat(a)
        BY <2>1, ConcatEmptySeq
    <2>3. Flat(a \o P(0)) = Flat(a) \o Flat(P(0))
        BY Zenon, <1>1, <2>1, <2>2
    <2>4. QED
        BY <2>3
<1>3. ASSUME NEW k \in N
      PROVE  k + 1 \in N
    <2> SUFFICES ASSUME k + 1 <= Len(b)
                 PROVE  Flat(a \o P(k + 1)) = Flat(a) \o Flat(P(k + 1))
        OBVIOUS
    <2>1. k \in Nat /\ k <= Len(b)
        BY <1>1
    <2>2. Flat(a \o P(k)) = Flat(a) \o Flat(P(k))
        BY <2>1
    <2> HIDE DEF N
    <2>3. /\ P(k) \in Seq(Seq(S)) /\ b[k + 1] \in Seq(S)
          /\ P(k + 1) = Append(P(k), b[k + 1])
        BY <1>1, <2>1
    <2> HIDE DEF P
    <2>4. QED
        BY ZenonT(60), <2>2, <2>3, FlatConcatStep
<1>4. N = Nat
    <2>1. N \subseteq Nat
        OBVIOUS
    <2> HIDE DEF N
    <2>2. QED
        BY <1>2, <1>3, <2>1, SetInduction
<1>5. Flat(a \o P(Len(b))) = Flat(a) \o Flat(P(Len(b)))
    <2>1. Len(b) \in N
        <3> HIDE DEF N
        <3>1. QED
            BY <1>1, <1>4
    <2>2. QED
        BY <1>1, <2>1
<1>6. QED
    BY Zenon, <1>1, <1>5

(* An empty list holds nothing.                                            *)
LEMMA FlatNil == Flat(<<>>) = <<>> /\ FullLength(<<>>) = 0
BY DEF FullLength, Flat

(* A list of one chunk holds that chunk.                                   *)
LEMMA FlatOne ==
    ASSUME NEW S, NEW c \in Seq(S)
    PROVE  Flat(<<c>>) = c
<1>1. Flat(<<>>) = <<>> /\ <<>> \in Seq(Seq(S)) /\ Append(<<>>, c) = <<c>>
    BY DEF Flat
<1>2. Flat(Append(<<>>, c)) = <<>> \o c
    BY <1>1, FlatAppend
<1>3. QED
    BY <1>1, <1>2

(* Bytes(from, n) are n bytes.                                             *)
LEMMA BytesType ==
    ASSUME NEW from \in Nat, NEW n \in Nat
    PROVE  Bytes(from, n) \in Seq(Nat) /\ Len(Bytes(from, n)) = n
BY DEF Bytes

(* Bytes numbered on from where the last ones stopped.                     *)
LEMMA BytesJoin ==
    ASSUME NEW from \in Nat, NEW m \in Nat, NEW n \in Nat
    PROVE  Bytes(from, m) \o Bytes(from + m, n) = Bytes(from, m + n)
<1> DEFINE u == Bytes(from, m) \o Bytes(from + m, n)
           v == Bytes(from, m + n)
<1>1. u \in Seq(Nat) /\ Len(u) = m + n
    <2>1. /\ Bytes(from, m) \in Seq(Nat) /\ Len(Bytes(from, m)) = m
          /\ Bytes(from + m, n) \in Seq(Nat) /\ Len(Bytes(from + m, n)) = n
        <3>1. from + m \in Nat
            OBVIOUS
        <3>2. QED
            BY <3>1, BytesType
    <2>2. QED
        BY <2>1
<1>2. v \in Seq(Nat) /\ Len(v) = m + n
    BY BytesType
<1>3. ASSUME NEW i \in 1 .. m + n
      PROVE  u[i] = v[i]
    BY DEF Bytes
<1>4. QED
    BY <1>1, <1>2, <1>3, SeqEqual

(* A nonempty set of naturals with a bound has a greatest element.         *)
LEMMA Greatest ==
    ASSUME NEW n \in Nat, NEW S, S \subseteq 0 .. n, S # {}
    PROVE  \E k \in S : \A j \in S : j <= k
<1> DEFINE T == {i \in 0 .. n : n - i \in S}
<1>1. T \subseteq Nat /\ T # {}
    <2>1. PICK k \in S : TRUE
        OBVIOUS
    <2>2. n - k \in T
        OBVIOUS
    <2>3. T \subseteq Nat
        OBVIOUS
    <2> HIDE DEF T
    <2>4. QED
        BY <2>2, <2>3
<1>2. PICK i \in T : \A j \in T : i <= j
    BY <1>1, LeastElement
<1>3. ASSUME NEW j \in S
      PROVE  j <= n - i
    <2>1. n - j \in T
        OBVIOUS
    <2>2. i <= n - j /\ i \in Nat
        BY <1>2, <2>1
    <2>3. QED
        BY <2>2
<1>4. QED
    BY <1>3

(* What of the sequence s comes after its first n elements.                *)
After(s, n) == SubSeq(s, n + 1, Len(s))
IsAfter(t, s, n) == t = After(s, n)

(* Concatenation and After, element by element.                            *)
Joined(w, s, t) ==
    /\ Len(w) = Len(s) + Len(t)
    /\ \A i \in 1 .. Len(s) + Len(t) :
           w[i] = IF i <= Len(s) THEN s[i] ELSE t[i - Len(s)]

Rest(w, s, n) ==
    /\ Len(w) = Len(s) - n
    /\ \A i \in 1 .. Len(s) - n : w[i] = s[n + i]

LEMMA ConcatJoined ==
    ASSUME NEW S, NEW s \in Seq(S), NEW t \in Seq(S)
    PROVE  s \o t \in Seq(S) /\ Joined(s \o t, s, t)
BY ConcatProperties DEF Joined

LEMMA AfterRest ==
    ASSUME NEW S, NEW s \in Seq(S), NEW n \in 0 .. Len(s)
    PROVE  After(s, n) \in Seq(S) /\ Rest(After(s, n), s, n)
BY DEF After, Rest

(* A cut in the middle one of three sequences, element by element.         *)
LEMMA CutElements ==
    ASSUME NEW S, NEW a \in Seq(S), NEW c \in Seq(S), NEW b \in Seq(S),
           NEW len \in Nat, Len(a) <= len, len < Len(a) + Len(c),
           NEW ac \in Seq(S), Joined(ac, a, c),
           NEW all \in Seq(S), Joined(all, ac, b),
           After(all, len) \in Seq(S), Rest(After(all, len), all, len),
           NEW h \in Seq(S), Rest(h, c, len - Len(a)),
           NEW v \in Seq(S), Joined(v, h, b)
    PROVE  IsAfter(v, all, len)
<1> DEFINE u == After(all, len)
           n == Len(a) + Len(c) + Len(b) - len
<1>1. /\ Len(a) \in Nat /\ Len(b) \in Nat /\ Len(c) \in Nat
      /\ Len(ac) = Len(a) + Len(c) /\ Len(all) = Len(a) + Len(c) + Len(b)
      /\ Len(h) = Len(a) + Len(c) - len
      /\ Len(u) = n /\ Len(v) = n /\ n \in Nat
    BY LenProperties DEF Joined, Rest
<1>2. /\ \A j \in 1 .. Len(a) + Len(c) :
             ac[j] = IF j <= Len(a) THEN a[j] ELSE c[j - Len(a)]
      /\ \A j \in 1 .. Len(ac) + Len(b) :
             all[j] = IF j <= Len(ac) THEN ac[j] ELSE b[j - Len(ac)]
    BY Zenon DEF Joined
<1>3. ASSUME NEW i \in 1 .. n
      PROVE  u[i] = v[i]
    <2>1. u[i] = all[len + i]
        BY <1>1 DEF Rest
    <2>2. all[len + i] = IF len + i <= Len(ac) THEN ac[len + i] ELSE b[len + i - Len(ac)]
        <3>1. len + i \in 1 .. Len(ac) + Len(b)
            BY <1>1
        <3>2. QED
            BY <1>2, <3>1
    <2>3. v[i] = IF i <= Len(h) THEN h[i] ELSE b[i - Len(h)]
        BY <1>1 DEF Joined
    <2>4. CASE i <= Len(h)
        <3>1. h[i] = c[len - Len(a) + i]
            <4>1. i \in 1 .. Len(c) - (len - Len(a))
                BY <1>1, <2>4
            <4>2. QED
                BY Zenon, <4>1 DEF Rest
        <3>2. ac[len + i] = c[len + i - Len(a)]
            <4>1. len + i \in 1 .. Len(a) + Len(c) /\ ~ (len + i <= Len(a))
                BY <1>1, <2>4
            <4>2. QED
                BY <1>2, <4>1
        <3>3. len + i <= Len(ac) /\ len + i - Len(a) = len - Len(a) + i
            BY <1>1, <2>4
        <3>4. QED
            BY <2>1, <2>2, <2>3, <2>4, <3>1, <3>2, <3>3
    <2>5. CASE ~ (i <= Len(h))
        <3>1. ~ (len + i <= Len(ac)) /\ len + i - Len(ac) = i - Len(h)
            BY <1>1, <2>5
        <3>2. QED
            BY <2>1, <2>2, <2>3, <2>5, <3>1
    <2>6. QED
        BY <2>4, <2>5
<1>4. u = v
    <2> HIDE DEF n, u
    <2>1. u \in Seq(S)
        BY DEF u
    <2>2. QED
        BY <1>1, <1>3, <2>1, SeqEqual
<1>5. QED
    BY <1>4 DEF IsAfter

(* The same for the sequences themselves.                                  *)
LEMMA CutInside ==
    ASSUME NEW S, NEW a \in Seq(S), NEW c \in Seq(S), NEW b \in Seq(S),
           NEW len \in Nat, Len(a) <= len, len < Len(a) + Len(c),
           NEW all, all = (a \o c) \o b
    PROVE  IsAfter(After(c, len - Len(a)) \o b, all, len)
<1> DEFINE ac == a \o c
           h == After(c, len - Len(a))
           v == h \o b
<1>1. ac \in Seq(S) /\ Joined(ac, a, c)
    BY ConcatJoined
<1>2. all = ac \o b
    OBVIOUS
<1> HIDE DEF ac
<1>3. all \in Seq(S) /\ Joined(all, ac, b)
    BY Zenon, <1>1, <1>2, ConcatJoined
<1>4. len \in 0 .. Len(all) /\ len - Len(a) \in 0 .. Len(c)
    BY <1>1, <1>3, LenProperties DEF Joined
<1>5. After(all, len) \in Seq(S) /\ Rest(After(all, len), all, len)
    BY Zenon, <1>3, <1>4, AfterRest
<1>6. h \in Seq(S) /\ Rest(h, c, len - Len(a))
    BY Zenon, <1>4, AfterRest
<1> HIDE DEF h
<1>7. v \in Seq(S) /\ Joined(v, h, b)
    BY Zenon, <1>6, ConcatJoined
<1> HIDE DEF v
<1>8. IsAfter(v, all, len)
    BY Zenon, <1>1, <1>3, <1>5, <1>6, <1>7, CutElements
<1>9. QED
    BY <1>8 DEF h, v

(* A sequence cut in two.                                                  *)
LEMMA CutTwo ==
    ASSUME NEW S, NEW s \in Seq(S), NEW n \in 0 .. Len(s)
    PROVE  SubSeq(s, 1, n) \o SubSeq(s, n + 1, Len(s)) = s
<1>1. 1 \in 1 .. Len(s) + 1 /\ n \in 1 - 1 .. Len(s) /\ Len(s) \in n .. Len(s)
    OBVIOUS
<1>2. SubSeq(s, 1, n) \o SubSeq(s, n + 1, Len(s)) = SubSeq(s, 1, Len(s))
    BY <1>1, ConcatAdjacentSubSeq
<1>3. QED
    BY <1>2, SubSeqFull

(* The bytes of a list, taken apart at one of its chunks.                  *)
LEMMA FlatPrefix ==
    ASSUME NEW S, NEW list \in Seq(Seq(S)), NEW k \in 0 .. Len(list) - 1
    PROVE  /\ Flat(SubSeq(list, 1, k + 1)) = Flat(SubSeq(list, 1, k)) \o list[k + 1]
           /\ Flat(list) = (Flat(SubSeq(list, 1, k)) \o list[k + 1])
                               \o Flat(SubSeq(list, k + 2, Len(list)))
<1> DEFINE p == SubSeq(list, 1, k)
           q == SubSeq(list, 1, k + 1)
           b == SubSeq(list, k + 2, Len(list))
<1>1. p \in Seq(Seq(S)) /\ q \in Seq(Seq(S)) /\ b \in Seq(Seq(S)) /\ list[k + 1] \in Seq(S)
    OBVIOUS
<1>2. q = Append(p, list[k + 1])
    OBVIOUS
<1>3. list = q \o b
    <2>1. k + 1 \in 0 .. Len(list) /\ k + 1 + 1 = k + 2
        OBVIOUS
    <2>2. SubSeq(list, 1, k + 1) \o SubSeq(list, k + 1 + 1, Len(list)) = list
        BY <2>1, CutTwo
    <2>3. QED
        BY Zenon, <2>1, <2>2
<1> HIDE DEF p, q, b
<1>4. Flat(q) = Flat(p) \o list[k + 1]
    BY Zenon, <1>1, <1>2, FlatAppend
<1>5. Flat(list) = Flat(q) \o Flat(b)
    <2>1. Flat(q \o b) = Flat(q) \o Flat(b)
        BY Zenon, <1>1, FlatConcat
    <2>2. QED
        BY Zenon, <1>3, <2>1
<1>6. QED
    BY Zenon, <1>4, <1>5 DEF p, q, b

(* Split keeps exactly the bytes after the first len, wherever the cut     *)
(* falls: inside a chunk, between two, on an empty one or at the end.      *)
LEMMA SplitFlat ==
    ASSUME NEW S, NEW list \in Seq(Seq(S)), NEW len \in 0 .. FullLength(list)
    PROVE  /\ SplitAfter(len, list) \in Seq(Seq(S))
           /\ Flat(SplitAfter(len, list)) = SubSeq(Flat(list), len + 1, FullLength(list))
<1> DEFINE k == CHOOSE i \in Whole(len, list) : \A j \in Whole(len, list) : j <= i
           p == SubSeq(list, 1, k)
           c == list[k + 1]
           b == SubSeq(list, k + 2, Len(list))
           h == SubSeq(c, len - FullLength(p) + 1, Len(c))
<1>1. Flat(list) \in Seq(S) /\ FullLength(list) \in Nat /\ len \in Nat
    BY FlatType DEF FullLength
<1>2. Len(list) \in Nat /\ Whole(len, list) \subseteq 0 .. Len(list)
    BY DEF Whole
<1>3. 0 \in Whole(len, list)
    <2>1. SubSeq(list, 1, 0) = <<>>
        BY SubSeqEmpty
    <2>2. FullLength(SubSeq(list, 1, 0)) = 0
        BY Zenon, <2>1, FlatNil
    <2>3. QED
        BY <1>1, <1>2, <2>2 DEF Whole
<1>4. k \in Whole(len, list) /\ \A j \in Whole(len, list) : j <= k
    <2>1. \E i \in Whole(len, list) : \A j \in Whole(len, list) : j <= i
        BY <1>2, <1>3, Greatest
    <2>2. QED
        BY Zenon, <2>1
<1>5. SplitAfter(len, list) = IF k = Len(list) THEN <<>> ELSE <<h>> \o b
    BY DEF SplitAfter
<1> HIDE DEF k
<1>6. k \in 0 .. Len(list) /\ FullLength(p) <= len
    BY <1>4 DEF Whole
<1>7. CASE k = Len(list)
    <2>1. p = list
        BY <1>7, SubSeqFull
    <2> HIDE DEF p, c, b, h
    <2>2. len = FullLength(list)
        BY <1>1, <1>6, <2>1
    <2>3. SubSeq(Flat(list), len + 1, FullLength(list)) = <<>>
        BY <1>1, <2>2, SubSeqEmpty
    <2>4. QED
        <3>1. SplitAfter(len, list) = <<>> /\ <<>> \in Seq(Seq(S))
            BY <1>5, <1>7
        <3>2. QED
            BY Zenon, <2>3, <3>1, FlatNil
<1>8. CASE k # Len(list)
    <2>1. k \in 0 .. Len(list) - 1 /\ k + 1 \in 0 .. Len(list) /\ k \in Nat
        BY <1>2, <1>6, <1>8
    <2>2. k + 1 \notin Whole(len, list)
        BY <1>4, <2>1
    <2>3. /\ p \in Seq(Seq(S)) /\ b \in Seq(Seq(S)) /\ c \in Seq(S)
          /\ SubSeq(list, 1, k + 1) \in Seq(Seq(S))
        BY <2>1
    <2>4. /\ Flat(SubSeq(list, 1, k + 1)) = Flat(p) \o c
          /\ Flat(list) = (Flat(p) \o c) \o Flat(b)
        BY <2>1, FlatPrefix
    <2> HIDE DEF p, c, b
    <2>5. Flat(p) \in Seq(S) /\ Flat(b) \in Seq(S)
        BY <2>3, FlatType
    <2>6. Len(Flat(p)) <= len /\ len < Len(Flat(p)) + Len(c)
        <3>1. ~ (Len(Flat(p) \o c) <= len)
            BY <2>1, <2>2, <2>4 DEF Whole, FullLength
        <3>2. Len(Flat(p) \o c) = Len(Flat(p)) + Len(c)
            BY <2>3, <2>5, ConcatProperties
        <3>3. Len(Flat(p)) \in Nat /\ Len(c) \in Nat
            BY <2>3, <2>5, LenProperties
        <3>4. QED
            BY <1>1, <1>6, <3>1, <3>2, <3>3 DEF FullLength
    <2>7. SubSeq(Flat(list), len + 1, FullLength(list)) = h \o Flat(b)
        <3>1. len \in Nat /\ c \in Seq(S) /\ Flat(list) = (Flat(p) \o c) \o Flat(b)
            BY <1>1, <2>3, <2>4
        <3>2. IsAfter(After(c, len - Len(Flat(p))) \o Flat(b), Flat(list), len)
            BY Zenon, <2>5, <2>6, <3>1, CutInside
        <3>3. QED
            BY Zenon, <3>2 DEF FullLength, After, IsAfter
    <2>8. h \in Seq(S)
        <3>1. Len(Flat(p)) \in Nat /\ Len(c) \in Nat
            BY <2>3, <2>5, LenProperties
        <3>2. QED
            BY <1>1, <2>3, <2>6, <3>1 DEF FullLength
    <2> HIDE DEF h
    <2>9. Flat(<<h>> \o b) = h \o Flat(b) /\ <<h>> \o b \in Seq(Seq(S))
        <3>1. <<h>> \in Seq(Seq(S)) /\ Flat(<<h>>) = h
            BY <2>8, FlatOne
        <3>2. Flat(<<h>> \o b) = Flat(<<h>>) \o Flat(b)
            BY <2>3, <3>1, FlatConcat
        <3>3. QED
            BY <2>3, <3>1, <3>2, ConcatProperties
    <2>10. QED
        BY <1>5, <1>8, <2>7, <2>9
<1>9. QED
    BY <1>7, <1>8

(* The lengths of the first i chunks of a message, as chunks.              *)
Heads(m, i) == [j \in 1 .. i |-> Bytes(0, m[j])]

(* The chunks of a message hold the bytes that come next in the stream.    *)
LEMMA ChunksFlat ==
    ASSUME NEW m \in Seq(Nat), accepted \in Nat
    PROVE  /\ Chunks(m) \in Seq(Seq(Nat))
           /\ FullLength(Chunks(m)) \in Nat
           /\ Flat(Chunks(m)) = Bytes(accepted, FullLength(Chunks(m)))
<1> DEFINE L(i) == FullLength(Heads(m, i))
           P(k) == SubSeq(Chunks(m), 1, k)
           N == {k \in Nat : k <= Len(m) => Flat(P(k)) = Bytes(accepted, L(k))}
<1>1. Len(m) \in Nat /\ \A i \in 1 .. Len(m) : m[i] \in Nat
    OBVIOUS
<1>2. ASSUME NEW i \in 0 .. Len(m)
      PROVE  Heads(m, i) \in Seq(Seq(Nat)) /\ L(i) \in Nat
    <2>1. ASSUME NEW j \in 1 .. i
          PROVE  Bytes(0, m[j]) \in Seq(Nat)
        <3>1. m[j] \in Nat /\ 0 \in Nat
            BY <1>1
        <3>2. QED
            BY Zenon, <3>1, BytesType
    <2>2. Heads(m, i) \in Seq(Seq(Nat))
        BY <2>1 DEF Heads
    <2>3. QED
        BY <2>2, FlatType, LenProperties DEF FullLength
<1>3. ASSUME NEW i \in 0 .. Len(m) - 1
      PROVE  L(i + 1) = L(i) + m[i + 1]
    <2>1. Bytes(0, m[i + 1]) \in Seq(Nat) /\ Len(Bytes(0, m[i + 1])) = m[i + 1]
        <3>1. m[i + 1] \in Nat /\ 0 \in Nat
            BY <1>1
        <3>2. QED
            BY Zenon, <3>1, BytesType
    <2>2. Heads(m, i + 1) = Append(Heads(m, i), Bytes(0, m[i + 1]))
        BY DEF Heads
    <2>3. Heads(m, i) \in Seq(Seq(Nat))
        BY <1>1, <1>2
    <2>4. Flat(Heads(m, i + 1)) = Flat(Heads(m, i)) \o Bytes(0, m[i + 1])
        BY Zenon, <2>3, <2>1, <2>2, FlatAppend
    <2>5. Flat(Heads(m, i)) \in Seq(Nat)
        BY Zenon, <2>3, FlatType
    <2>6. QED
        BY <2>1, <2>4, <2>5, ConcatProperties DEF FullLength
<1>4. /\ Chunks(m) \in Seq(Seq(Nat))
      /\ Len(Chunks(m)) = Len(m)
      /\ \A i \in 0 .. Len(m) - 1 : Chunks(m)[i + 1] = Bytes(accepted + L(i), m[i + 1])
    <2>1. Chunks(m) = [i \in 1 .. Len(m) |-> Bytes(accepted + L(i - 1), m[i])]
        BY DEF Chunks, Heads
    <2>2. \A i \in 1 .. Len(m) : Bytes(accepted + L(i - 1), m[i]) \in Seq(Nat)
        <3> SUFFICES ASSUME NEW i \in 1 .. Len(m)
                     PROVE  Bytes(accepted + L(i - 1), m[i]) \in Seq(Nat)
            OBVIOUS
        <3>1. L(i - 1) \in Nat
            BY <1>1, <1>2
        <3>2. accepted + L(i - 1) \in Nat /\ m[i] \in Nat
            BY <1>1, <3>1
        <3>3. QED
            BY <3>2, BytesType
    <2> HIDE DEF L
    <2>3. QED
        BY <2>1, <2>2
<1> HIDE DEF L
<1>5. 0 \in N
    <2>1. P(0) = <<>> /\ Heads(m, 0) = <<>> /\ Flat(<<>>) = <<>>
        BY <1>4, SubSeqEmpty DEF Heads, Flat
    <2>2. L(0) = 0
        BY <2>1 DEF L, FullLength
    <2>3. Bytes(accepted, 0) = <<>>
        BY DEF Bytes
    <2>4. Flat(P(0)) = Bytes(accepted, L(0))
        BY <2>1, <2>2, <2>3
    <2>5. QED
        BY <2>4
<1>6. ASSUME NEW k \in N
      PROVE  k + 1 \in N
    <2> SUFFICES ASSUME k + 1 <= Len(m)
                 PROVE  Flat(P(k + 1)) = Bytes(accepted, L(k + 1))
        OBVIOUS
    <2>1. k \in Nat /\ k <= Len(m)
        BY <1>1
    <2>2. Flat(P(k)) = Bytes(accepted, L(k))
        BY <2>1
    <2> HIDE DEF N
    <2>3. k \in 0 .. Len(Chunks(m)) - 1 /\ k \in 0 .. Len(m) - 1 /\ k \in 0 .. Len(m)
        BY <1>1, <1>4, <2>1
    <2>4. Flat(P(k + 1)) = Flat(P(k)) \o Chunks(m)[k + 1]
        BY <1>4, <2>3, FlatPrefix
    <2> HIDE DEF P
    <2>5. Chunks(m)[k + 1] = Bytes(accepted + L(k), m[k + 1])
        BY <1>4, <2>3
    <2>6. L(k) \in Nat /\ m[k + 1] \in Nat /\ L(k + 1) = L(k) + m[k + 1]
        BY <1>1, <1>2, <1>3, <2>3
    <2>7. Bytes(accepted, L(k)) \o Bytes(accepted + L(k), m[k + 1])
          = Bytes(accepted, L(k) + m[k + 1])
        BY <2>6, BytesJoin
    <2>8. QED
        BY <2>2, <2>4, <2>5, <2>6, <2>7
<1>7. N = Nat
    <2>1. N \subseteq Nat
        OBVIOUS
    <2> HIDE DEF N
    <2>2. QED
        BY <1>5, <1>6, <2>1, SetInduction
<1>8. Flat(P(Len(m))) = Bytes(accepted, L(Len(m)))
    <2>1. Len(m) \in N
        <3> HIDE DEF N
        <3>1. QED
            BY <1>1, <1>7
    <2>2. QED
        BY <1>1, <2>1
<1>9. P(Len(m)) = Chunks(m)
    BY <1>4, SubSeqFull
<1>10. L(Len(m)) \in Nat
    BY <1>1, <1>2
<1>11. FullLength(Chunks(m)) = L(Len(m))
    BY <1>8, <1>9, <1>10, BytesType DEF FullLength
<1>12. QED
    BY <1>4, <1>8, <1>9, <1>10, <1>11

-----------------------------------------------------------------------------

(* The part of the types the proofs need.                                  *)
Shape ==
    /\ asleep \subseteq Senders
    /\ ready \subseteq asleep
    /\ keep \in [Senders -> Nat]

SInv == Shape /\ QueuedIsScheduled /\ NoStrayWake

(* A Flush that does not let its caller through has something queued.      *)
LEMMA LongIsNotEmpty ==
    ASSUME NEW k \in Nat, NEW list, FullLength(list) > k
    PROVE  list # <<>>
BY FlatNil

(* The loop of Flush touches only the sender it runs for, and leaves Wake_ *)
(* cleared or naming that sender asleep.                                   *)
LEMMA FlushLoopShape ==
    ASSUME NEW c \in Senders, NEW k \in Nat, NEW list, NEW how,
           Shape, NoStrayWake, FlushLoop(c, k, list, how)
    PROVE  /\ asleep' \subseteq Senders
           /\ asleep \ {c} \subseteq asleep'
           /\ NoStrayWake'
           /\ c \in asleep' => Wake' = c /\ list # <<>> /\ ~Err
<1>1. CASE FullLength(list) <= k /\ Wake' = (IF c \in asleep THEN NoCont ELSE Wake)
           /\ asleep' = asleep \ {c}
    BY <1>1 DEF Shape, NoStrayWake
<1>2. CASE FullLength(list) > k /\ Err
           /\ Wake' = (IF c \in asleep THEN NoCont ELSE Wake)
           /\ asleep' = asleep \ {c}
    BY <1>2 DEF Shape, NoStrayWake
<1>3. CASE FullLength(list) > k /\ ~Err /\ Wake' = c /\ asleep' = asleep \cup {c}
    BY <1>3, LongIsNotEmpty DEF Shape, NoStrayWake
<1>4. QED
    BY <1>1, <1>2, <1>3 DEF FlushLoop

(* A step of one sender preserves the invariant.                           *)
LEMMA SenderStep ==
    ASSUME SInv, NEW c \in Senders,
           (\E m \in Messages : DoSend(c, m)) \/ Flush(c) \/ Resume(c)
    PROVE  SInv'
<1> USE QueueAssumption
<1>1. CASE \E m \in Messages : DoSend(c, m)
    <2>1. PICK m \in Messages : DoSend(c, m)
        BY <1>1
    <2>2. /\ c \notin asleep
          /\ scheduled' = TRUE
          /\ keep' = [keep EXCEPT ![c] = MaxInQueue]
          /\ FlushLoop(c, MaxInQueue, W', "sent")
          /\ ready' = ready
        BY <2>1 DEF DoSend
    <2>3. asleep' \subseteq Senders /\ asleep \ {c} \subseteq asleep' /\ NoStrayWake'
        BY <2>2, FlushLoopShape DEF SInv
    <2>4. Shape'
        BY <2>2, <2>3 DEF SInv, Shape
    <2>5. QED
        BY <2>2, <2>3, <2>4 DEF SInv, QueuedIsScheduled
<1>2. CASE Flush(c)
    <2>1. /\ c \notin asleep
          /\ keep' = [keep EXCEPT ![c] = 0]
          /\ FlushLoop(c, 0, W, "flushed")
          /\ ready' = ready
          /\ W' = W /\ scheduled' = scheduled /\ Err' = Err
        BY <1>2 DEF Flush, queueVars
    <2>2. asleep' \subseteq Senders /\ asleep \ {c} \subseteq asleep' /\ NoStrayWake'
        BY <2>1, FlushLoopShape DEF SInv
    <2>3. Shape'
        BY <2>1, <2>2 DEF SInv, Shape
    <2>4. QED
        BY <2>1, <2>2, <2>3 DEF SInv, QueuedIsScheduled
<1>3. CASE Resume(c)
    <2>1. /\ ready' = ready \ {c}
          /\ FlushLoop(c, keep[c], W, IF keep[c] = 0 THEN "flushed" ELSE "sent")
          /\ W' = W /\ scheduled' = scheduled /\ Err' = Err /\ keep' = keep
        BY <1>3 DEF Resume, queueVars
    <2>2. keep[c] \in Nat
        BY DEF SInv, Shape
    <2>3. asleep' \subseteq Senders /\ asleep \ {c} \subseteq asleep' /\ NoStrayWake'
        BY <2>1, <2>2, FlushLoopShape DEF SInv
    <2>4. Shape'
        BY <2>1, <2>3 DEF SInv, Shape
    <2>5. QED
        BY <2>1, <2>3, <2>4 DEF SInv, QueuedIsScheduled
<1>4. QED
    BY <1>1, <1>2, <1>3

(* A step of the scheduler or of Abort preserves the invariant.            *)
LEMMA SchedulerStep ==
    ASSUME SInv, OnPollEvent \/ PollFails \/ Abort
    PROVE  SInv'
<1>1. CASE OnPollError
    BY <1>1 DEF OnPollError, WakeSender, SInv, Shape, QueuedIsScheduled, NoStrayWake
<1>2. CASE OnPollFull
    BY <1>2 DEF OnPollFull, WakeSender, SInv, Shape, QueuedIsScheduled, NoStrayWake
<1>3. CASE \E res \in 1 .. FullLength(W) - 1 : OnPollPart(res)
    <2>1. PICK res : OnPollPart(res)
        BY <1>3
    <2>2. /\ scheduled /\ scheduled' = scheduled
          /\ ready' = (IF Wake = NoCont THEN ready ELSE ready \cup {Wake})
          /\ UNCHANGED <<Wake, asleep, keep>>
        BY <2>1 DEF OnPollPart, WakeSender
    <2>3. QED
        BY <2>2 DEF SInv, Shape, QueuedIsScheduled, NoStrayWake
<1>4. CASE PollFails
    BY <1>4 DEF PollFails, queueVars, SInv, Shape, QueuedIsScheduled, NoStrayWake
<1>5. CASE Abort
    BY <1>5 DEF Abort, queueVars, SInv, Shape, QueuedIsScheduled, NoStrayWake
<1>6. QED
    BY SMTT(30), <1>1, <1>2, <1>3, <1>4, <1>5 DEF OnPollEvent

(* The inductive invariant, for any number of senders and any messages.    *)
THEOREM SocketOutInvariance == Spec => []SInv
<1>1. Init => SInv
    BY DEF Init, SInv, Shape, QueuedIsScheduled, NoStrayWake
<1>2. SInv /\ [Next]_vars => SInv'
    <2> SUFFICES ASSUME SInv, [Next]_vars
                 PROVE  SInv'
        OBVIOUS
    <2>1. CASE Next
        BY <2>1, SenderStep, SchedulerStep DEF Next
    <2>2. CASE UNCHANGED vars
        BY <2>2 DEF vars, queueVars, senderVars, SInv, Shape, QueuedIsScheduled,
                    NoStrayWake
    <2>3. QED
        BY <2>1, <2>2
<1>3. QED
    BY <1>1, <1>2, PTL DEF Spec

(* Queued data is always in the poller's list until the socket fails.      *)
THEOREM QueuedAlwaysScheduled == Spec => []QueuedIsScheduled
<1>1. SInv => QueuedIsScheduled
    BY DEF SInv
<1>2. QED
    BY <1>1, SocketOutInvariance, PTL

(* The callback never reschedules a coroutine that is not in Flush.        *)
THEOREM WakeNamesASleeper == Spec => []NoStrayWake
<1>1. SInv => NoStrayWake
    BY DEF SInv
<1>2. QED
    BY <1>1, SocketOutInvariance, PTL

(* A sender that has the output to itself (every TSocketOut but that of a  *)
(* SPDY connection) is never forgotten in Flush.                           *)
THEOREM LoneSenderHeard ==
    ASSUME NEW s, Senders = {s}
    PROVE  Spec => []SleeperHeard
<1>1. Init => SleeperHeard
    BY DEF Init, SleeperHeard
<1>2. SInv /\ SleeperHeard /\ [Next]_vars => SleeperHeard'
    <2> SUFFICES ASSUME SInv, SleeperHeard, [Next]_vars
                 PROVE  SleeperHeard'
        OBVIOUS
    <2> USE QueueAssumption
    <2>1. ASSUME NEW m, DoSend(s, m)
          PROVE  SleeperHeard'
        <3>1. scheduled' = TRUE /\ FlushLoop(s, MaxInQueue, W', "sent")
            BY <2>1 DEF DoSend
        <3>2. asleep' \subseteq Senders /\ (s \in asleep' => Wake' = s)
            BY <3>1, FlushLoopShape DEF SInv
        <3>3. QED
            BY <3>1, <3>2 DEF SleeperHeard
    <2>2. CASE Flush(s)
        <3>1. /\ FlushLoop(s, 0, W, "flushed")
              /\ scheduled' = scheduled
            BY <2>2 DEF Flush, queueVars
        <3>2. asleep' \subseteq Senders
              /\ (s \in asleep' => Wake' = s /\ W # <<>> /\ ~Err)
            BY <3>1, FlushLoopShape DEF SInv
        <3>3. QED
            BY <3>1, <3>2 DEF SleeperHeard, SInv, QueuedIsScheduled
    <2>3. CASE Resume(s)
        <3>1. /\ FlushLoop(s, keep[s], W, IF keep[s] = 0 THEN "flushed" ELSE "sent")
              /\ scheduled' = scheduled
            BY <2>3 DEF Resume, queueVars
        <3>2. keep[s] \in Nat
            BY DEF SInv, Shape
        <3>3. asleep' \subseteq Senders
              /\ (s \in asleep' => Wake' = s /\ W # <<>> /\ ~Err)
            BY <3>1, <3>2, FlushLoopShape DEF SInv
        <3>4. QED
            BY <3>1, <3>3 DEF SleeperHeard, SInv, QueuedIsScheduled
    <2>4. CASE OnPollError \/ OnPollFull
        BY <2>4, NoContAssumption
        DEF OnPollError, OnPollFull, WakeSender, SleeperHeard, SInv, Shape
    <2>5. ASSUME NEW res, OnPollPart(res)
          PROVE  SleeperHeard'
        <3>1. /\ scheduled /\ scheduled' = scheduled
              /\ ready \subseteq ready'
              /\ UNCHANGED <<Wake, asleep, stuck>>
            BY <2>5 DEF OnPollPart, WakeSender
        <3>2. QED
            BY <3>1 DEF SleeperHeard
    <2>6. CASE PollFails \/ Abort
        BY <2>6 DEF PollFails, Abort, SleeperHeard
    <2>7. CASE UNCHANGED vars
        BY <2>7 DEF vars, queueVars, senderVars, SleeperHeard
    <2>8. QED
        BY SMTT(30), <2>1, <2>2, <2>3, <2>4, <2>5, <2>6, <2>7 DEF Next, OnPollEvent
<1>3. QED
    BY <1>1, <1>2, SocketOutInvariance, PTL DEF Spec

-----------------------------------------------------------------------------
(* What is queued and what is on the wire.                                 *)
StreamInv ==
    /\ W \in Seq(Seq(Nat))
    /\ wire \in Seq(Nat)
    /\ accepted \in 0 .. MaxAccepted
    /\ StreamIntact

(* DoSend adds the bytes it accepts at the end of the stream.              *)
LEMMA SendStream ==
    ASSUME StreamInv, NEW c \in Senders, NEW m \in Messages, DoSend(c, m)
    PROVE  StreamInv'
<1> DEFINE n == FullLength(Chunks(m))
<1>1. /\ accepted \in Nat /\ accepted + n <= MaxAccepted
      /\ accepted' = accepted + n
      /\ W' = W \o Chunks(m)
      /\ wire' = wire
    BY QueueAssumption DEF StreamInv, DoSend
<1>2. Chunks(m) \in Seq(Seq(Nat)) /\ n \in Nat /\ Flat(Chunks(m)) = Bytes(accepted, n)
    <2>1. m \in Seq(Nat)
        BY MessagesAssumption
    <2>2. QED
        BY <1>1, <2>1, ChunksFlat
<1>3. /\ W' \in Seq(Seq(Nat))
      /\ Flat(W') = Flat(W) \o Bytes(accepted, n)
    <2>1. Flat(W \o Chunks(m)) = Flat(W) \o Flat(Chunks(m))
        BY <1>2, FlatConcat DEF StreamInv
    <2>2. W \o Chunks(m) \in Seq(Seq(Nat))
        BY <1>2, ConcatProperties DEF StreamInv
    <2>3. QED
        BY <1>1, <1>2, <2>1, <2>2
<1> HIDE DEF n
<1>4. wire' \o Flat(W') = Bytes(0, accepted')
    <2>1. Flat(W) \in Seq(Nat) /\ Bytes(accepted, n) \in Seq(Nat)
        BY <1>1, <1>2, FlatType, BytesType DEF StreamInv
    <2>2. Assoc(wire, Flat(W), Bytes(accepted, n))
        BY Zenon, <2>1, ConcatThree DEF StreamInv
    <2>3. wire \o Flat(W) = Bytes(0, accepted)
        BY DEF StreamInv, StreamIntact
    <2>4. Bytes(0, accepted) \o Bytes(0 + accepted, n) = Bytes(0, accepted + n)
        BY <1>1, <1>2, BytesJoin
    <2>5. 0 + accepted = accepted
        BY <1>1
    <2>6. QED
        BY Zenon, <1>1, <1>3, <2>2, <2>3, <2>4, <2>5 DEF Assoc
<1>5. accepted' \in 0 .. MaxAccepted
    BY <1>1, <1>2, QueueAssumption
<1>6. QED
    BY <1>1, <1>3, <1>4, <1>5 DEF StreamInv, StreamIntact

(* A partial writev moves a first part of the queue to the wire.           *)
LEMMA PartStream ==
    ASSUME StreamInv, NEW res \in 1 .. FullLength(W) - 1, OnPollPart(res)
    PROVE  StreamInv' /\ FullLength(W) \in Nat /\ FullLength(W') = FullLength(W) - res
<1> DEFINE f == Flat(W)
<1>1. /\ wire' = wire \o SubSeq(f, 1, res)
      /\ W' = SplitAfter(res, W)
      /\ accepted' = accepted
    BY DEF OnPollPart
<1>2. W \in Seq(Seq(Nat)) /\ f \in Seq(Nat) /\ FullLength(W) = Len(f) /\ Len(f) \in Nat
    BY FlatType, LenProperties DEF StreamInv, FullLength
<1>3. W' \in Seq(Seq(Nat)) /\ Flat(W') = SubSeq(f, res + 1, Len(f))
    <2>1. res \in 0 .. FullLength(W)
        BY <1>2
    <2>2. QED
        BY <1>1, <1>2, <2>1, SplitFlat
<1> HIDE DEF f
<1>4. /\ SubSeq(f, 1, res) \in Seq(Nat) /\ SubSeq(f, res + 1, Len(f)) \in Seq(Nat)
      /\ Len(SubSeq(f, res + 1, Len(f))) = Len(f) - res
      /\ SubSeq(f, 1, res) \o SubSeq(f, res + 1, Len(f)) = f
    <2>1. res \in 1 .. Len(f) - 1 /\ res \in 0 .. Len(f)
        BY <1>2
    <2>2. SubSeq(f, 1, res) \o SubSeq(f, res + 1, Len(f)) = f
        BY <1>2, <2>1, CutTwo
    <2>3. SubSeq(f, 1, res) \in Seq(Nat)
        BY <1>2, <2>1
    <2>4. /\ SubSeq(f, res + 1, Len(f)) \in Seq(Nat)
          /\ Len(SubSeq(f, res + 1, Len(f))) = Len(f) - res
        BY <1>2, <2>1
    <2>5. QED
        BY <2>2, <2>3, <2>4
<1>5. wire' \o Flat(W') = wire \o f
    <2>1. Assoc(wire, SubSeq(f, 1, res), SubSeq(f, res + 1, Len(f)))
        BY Zenon, <1>4, ConcatThree DEF StreamInv
    <2>2. QED
        BY Zenon, <1>1, <1>3, <1>4, <2>1 DEF Assoc
<1>6. wire' \in Seq(Nat)
    BY <1>1, <1>4, ConcatProperties DEF StreamInv
<1>7. QED
    BY <1>1, <1>2, <1>3, <1>4, <1>5, <1>6 DEF StreamInv, StreamIntact, FullLength, f

(* A writev that takes the whole queue.                                    *)
LEMMA FullStream ==
    ASSUME StreamInv, OnPollFull
    PROVE  StreamInv' /\ FullLength(W') = 0
<1>1. wire' = wire \o Flat(W) /\ W' = <<>> /\ accepted' = accepted
    BY DEF OnPollFull
<1>2. wire' \in Seq(Nat)
    BY <1>1, FlatType, ConcatProperties DEF StreamInv
<1>3. Flat(W') = <<>> /\ FullLength(W') = 0 /\ W' \in Seq(Seq(Nat))
    BY <1>1, FlatNil
<1>4. wire' \o <<>> = wire'
    BY <1>2, ConcatEmptySeq
<1>5. wire' \o Flat(W') = Bytes(0, accepted')
    BY Zenon, <1>1, <1>3, <1>4 DEF StreamInv, StreamIntact
<1>6. QED
    BY <1>1, <1>2, <1>3, <1>5 DEF StreamInv, StreamIntact

(* A Flush with nothing to keep that returns leaves nothing unwritten.     *)
LEMMA NothingLeft ==
    ASSUME StreamInv, FullLength(W) <= 0
    PROVE  wire = Bytes(0, accepted)
<1>1. Flat(W) \in Seq(Nat)
    BY FlatType DEF StreamInv
<1>2. Flat(W) = <<>>
    BY <1>1, EmptySeq, LenProperties DEF FullLength
<1>3. wire \o <<>> = wire
    BY ConcatEmptySeq DEF StreamInv
<1>4. QED
    BY Zenon, <1>2, <1>3 DEF StreamInv, StreamIntact

(* Every step keeps the stream in one piece.                               *)
LEMMA StreamStep ==
    ASSUME StreamInv, [Next]_vars
    PROVE  StreamInv'
<1>1. CASE \E c \in Senders, m \in Messages : DoSend(c, m)
    BY <1>1, SendStream
<1>2. CASE OnPollFull
    BY <1>2, FullStream
<1>3. CASE \E res \in 1 .. FullLength(W) - 1 : OnPollPart(res)
    BY <1>3, PartStream
<1>4. CASE UNCHANGED <<W, wire, accepted>>
    BY <1>4 DEF StreamInv, StreamIntact
<1>5. ASSUME NEW c \in Senders, Flush(c) \/ Resume(c)
      PROVE  UNCHANGED <<W, wire, accepted>>
    BY <1>5 DEF Flush, Resume, queueVars
<1>6. OnPollError \/ PollFails \/ Abort \/ UNCHANGED vars
          => UNCHANGED <<W, wire, accepted>>
    BY DEF OnPollError, PollFails, Abort, vars, queueVars
<1>7. QED
    BY <1>1, <1>2, <1>3, <1>4, <1>5, <1>6 DEF Next, OnPollEvent

(* The types of what the senders and the callback leave behind.            *)
CallType ==
    /\ Wake \in Senders \cup {NoCont}
    /\ Err \in BOOLEAN
    /\ scheduled \in BOOLEAN
    /\ keep \in [Senders -> {0, MaxInQueue}]
    /\ last \in [Senders -> Outcomes]
    /\ aborted \in BOOLEAN
    /\ stuck \in Senders \cup {NoCont}

(* The loop of Flush keeps the types of what it assigns.                   *)
LEMMA FlushLoopType ==
    ASSUME CallType, NEW c \in Senders, NEW k, NEW list, NEW how \in Outcomes,
           FlushLoop(c, k, list, how)
    PROVE  /\ Wake' \in Senders \cup {NoCont}
           /\ last' \in [Senders -> Outcomes]
           /\ stuck' \in Senders \cup {NoCont}
<1>1. Wake' \in {Wake, NoCont, c} /\ stuck' \in {stuck, c}
    BY DEF FlushLoop
<1>2. \/ last' = last
      \/ \E o \in Outcomes : last' = [last EXCEPT ![c] = o]
    BY DEF FlushLoop, Outcomes
<1>3. QED
    BY <1>1, <1>2 DEF CallType

(* And so does every step.                                                 *)
LEMMA CallTypeStep ==
    ASSUME CallType, [Next]_vars
    PROVE  CallType'
<1>1. ASSUME NEW c \in Senders, NEW m \in Messages, DoSend(c, m)
      PROVE  CallType'
    <2>1. /\ FlushLoop(c, MaxInQueue, W', "sent")
          /\ keep' = [keep EXCEPT ![c] = MaxInQueue]
          /\ scheduled' = TRUE /\ Err' = Err /\ aborted' = aborted
        BY <1>1 DEF DoSend
    <2>2. "sent" \in Outcomes
        BY DEF Outcomes
    <2>3. QED
        BY <2>1, <2>2, FlushLoopType DEF CallType
<1>2. ASSUME NEW c \in Senders, Flush(c)
      PROVE  CallType'
    <2>1. /\ FlushLoop(c, 0, W, "flushed")
          /\ keep' = [keep EXCEPT ![c] = 0]
          /\ scheduled' = scheduled /\ Err' = Err /\ aborted' = aborted
        BY <1>2 DEF Flush, queueVars
    <2>2. "flushed" \in Outcomes
        BY DEF Outcomes
    <2>3. QED
        BY <2>1, <2>2, FlushLoopType DEF CallType
<1>3. ASSUME NEW c \in Senders, Resume(c)
      PROVE  CallType'
    <2> DEFINE how == IF keep[c] = 0 THEN "flushed" ELSE "sent"
    <2>1. /\ FlushLoop(c, keep[c], W, how)
          /\ keep' = keep
          /\ scheduled' = scheduled /\ Err' = Err /\ aborted' = aborted
        BY <1>3 DEF Resume, queueVars
    <2>2. how \in Outcomes
        BY DEF Outcomes
    <2> HIDE DEF how
    <2>3. QED
        BY <2>1, <2>2, FlushLoopType DEF CallType
<1>4. ASSUME NEW res, OnPollPart(res)
      PROVE  CallType'
    BY <1>4 DEF OnPollPart, CallType
<1>5. CASE OnPollError \/ OnPollFull
    BY <1>5 DEF OnPollError, OnPollFull, CallType
<1>6. CASE PollFails \/ Abort
    BY <1>6 DEF PollFails, Abort, queueVars, CallType
<1>7. CASE UNCHANGED vars
    BY <1>7 DEF vars, queueVars, senderVars, CallType
<1>8. QED
    BY SMTT(30), <1>1, <1>2, <1>3, <1>4, <1>5, <1>6, <1>7 DEF Next, OnPollEvent

(* Whoever lets a Flush through sees a short enough queue.                 *)
LEMMA FlushLoopHolds ==
    ASSUME NEW c \in Senders, NEW k, NEW list, NEW how, FlushLoop(c, k, list, how)
    PROVE  FullLength(list) <= k \/ Err \/ asleep' # {}
BY DEF FlushLoop

(* No step lets the queue grow beyond the limit with nobody held back      *)
(* for it.                                                                 *)
LEMMA PressureStep ==
    ASSUME StreamInv, CallType, BackPressure, [Next]_vars
    PROVE  BackPressure'
<1>1. StreamInv'
    BY StreamStep
<1>2. FullLength(W) \in Nat /\ FullLength(W') \in Nat /\ MaxInQueue \in Nat
    <2>1. Flat(W) \in Seq(Nat) /\ Flat(W') \in Seq(Nat)
        BY <1>1, FlatType DEF StreamInv
    <2>2. QED
        BY <2>1, LenProperties, QueueAssumption DEF FullLength
<1>3. ASSUME NEW c \in Senders, NEW m \in Messages, DoSend(c, m)
      PROVE  BackPressure'
    <2>1. FlushLoop(c, MaxInQueue, W', "sent") /\ Err' = Err
        BY <1>3 DEF DoSend
    <2>2. FullLength(W') <= MaxInQueue \/ Err \/ asleep' # {}
        BY <2>1, FlushLoopHolds
    <2>3. QED
        BY <1>2, <2>1, <2>2 DEF BackPressure
<1>4. ASSUME NEW c \in Senders, Flush(c) \/ Resume(c)
      PROVE  BackPressure'
    <2>1. PICK k, how : FlushLoop(c, k, W, how) /\ k \in {0, MaxInQueue}
        BY <1>4 DEF Flush, Resume, CallType
    <2>2. W' = W /\ Err' = Err
        BY <1>4 DEF Flush, Resume, queueVars
    <2>3. FullLength(W) <= k \/ Err \/ asleep' # {}
        BY <2>1, FlushLoopHolds
    <2>4. QED
        BY <1>2, <2>1, <2>2, <2>3 DEF BackPressure
<1>5. ASSUME NEW res \in 1 .. FullLength(W) - 1, OnPollPart(res)
      PROVE  BackPressure'
    <2>1. FullLength(W') = FullLength(W) - res
        BY <1>5, PartStream
    <2>2. Err' = Err /\ asleep' = asleep
        BY <1>5 DEF OnPollPart
    <2>3. QED
        BY <1>2, <2>1, <2>2 DEF BackPressure
<1>6. CASE OnPollFull
    BY <1>2, <1>6, FullStream DEF BackPressure
<1>7. CASE OnPollError
    BY <1>7 DEF OnPollError, BackPressure
<1>8. CASE PollFails \/ Abort \/ UNCHANGED vars
    <2>1. W' = W /\ Err' = Err /\ asleep' = asleep
        BY <1>8 DEF PollFails, Abort, vars, queueVars, senderVars
    <2>2. QED
        BY <2>1 DEF BackPressure
<1>9. QED
    BY SMTT(30), <1>3, <1>4, <1>5, <1>6, <1>7, <1>8 DEF Next, OnPollEvent

(* The inductive invariant about the data.                                 *)
DInv == StreamInv /\ CallType /\ BackPressure

(* What SocketOut keeps true of the bytes, of the calls and of the queue's *)
(* length, for any senders, any messages and any way writev cuts them.     *)
THEOREM SocketOutData == Spec => []DInv
<1>1. Init => DInv
    <2> SUFFICES ASSUME Init
                 PROVE  DInv
        OBVIOUS
    <2>1. Bytes(0, 0) = <<>>
        BY DEF Bytes
    <2>2. StreamIntact
        BY <2>1, FlatNil, ConcatEmptySeq DEF Init, StreamIntact
    <2>3. StreamInv
        BY <2>2, QueueAssumption DEF Init, StreamInv
    <2>4. CallType
        BY DEF Init, CallType, Outcomes
    <2>5. BackPressure
        BY FlatNil, QueueAssumption DEF Init, BackPressure
    <2>6. QED
        BY <2>3, <2>4, <2>5 DEF DInv
<1>2. DInv /\ [Next]_vars => DInv'
    BY StreamStep, CallTypeStep, PressureStep DEF DInv
<1>3. QED
    BY <1>1, <1>2, PTL DEF Spec

(* The variables of SocketOut keep their types.                            *)
THEOREM SocketOutTypes == Spec => []TypeOK
<1>1. SInv /\ DInv => TypeOK
    BY DEF SInv, Shape, DInv, StreamInv, CallType, TypeOK
<1>2. QED
    BY <1>1, SocketOutInvariance, SocketOutData, PTL

(* However writev cuts the queue across its chunks, Split loses nothing,   *)
(* repeats nothing and keeps the order.                                    *)
THEOREM StreamStaysIntact == Spec => []StreamIntact
<1>1. DInv => StreamIntact
    BY DEF DInv, StreamInv
<1>2. QED
    BY <1>1, SocketOutData, PTL

(* The queue exceeds MaxInQueue_ only while some sender is held back.      *)
THEOREM QueueHoldsSenders == Spec => []BackPressure
<1>1. DInv => BackPressure
    BY DEF DInv
<1>2. QED
    BY <1>1, SocketOutData, PTL

(* Flush() returns without an exception only when everything accepted is   *)
(* on the wire.                                                            *)
THEOREM FlushWritesAll == Spec => FlushedMeansWritten
<1>1. DInv /\ [Next]_vars => [FlushedStep]_vars
    <2> SUFFICES ASSUME DInv, Next
                 PROVE  FlushedStep
        OBVIOUS
    <2>1. ASSUME NEW c \in Senders, NEW m \in Messages, DoSend(c, m)
          PROVE  FlushedStep
        <3>1. FlushLoop(c, MaxInQueue, W', "sent")
            BY <2>1 DEF DoSend
        <3>2. \A d \in Senders : last'[d] \in {last[d], "sent", "thrown"}
            BY <3>1 DEF FlushLoop, DInv, CallType
        <3>3. QED
            BY <3>2 DEF FlushedStep
    <2>2. ASSUME NEW c \in Senders, Flush(c)
          PROVE  FlushedStep
        <3>1. FlushLoop(c, 0, W, "flushed") /\ wire' = wire /\ accepted' = accepted
            BY <2>2 DEF Flush, queueVars
        <3>2. CASE FullLength(W) <= 0
            BY <3>1, <3>2, NothingLeft DEF DInv, FlushedStep
        <3>3. CASE ~ (FullLength(W) <= 0)
            <4>1. \A d \in Senders : last'[d] \in {last[d], "thrown"}
                BY <3>1, <3>3 DEF FlushLoop, DInv, CallType
            <4>2. QED
                BY <4>1 DEF FlushedStep
        <3>4. QED
            BY <3>2, <3>3
    <2>3. ASSUME NEW c \in Senders, Resume(c)
          PROVE  FlushedStep
        <3>1. /\ FlushLoop(c, keep[c], W, IF keep[c] = 0 THEN "flushed" ELSE "sent")
              /\ wire' = wire /\ accepted' = accepted
            BY <2>3 DEF Resume, queueVars
        <3>2. CASE keep[c] = 0 /\ FullLength(W) <= 0
            BY <3>1, <3>2, NothingLeft DEF DInv, FlushedStep
        <3>3. CASE ~ (keep[c] = 0 /\ FullLength(W) <= 0)
            <4>1. \A d \in Senders : last'[d] \in {last[d], "sent", "thrown"}
                BY <3>1, <3>3 DEF FlushLoop, DInv, CallType
            <4>2. QED
                BY <4>1 DEF FlushedStep
        <3>4. QED
            BY <3>2, <3>3
    <2>4. ASSUME last' = last
          PROVE  FlushedStep
        BY <2>4 DEF FlushedStep
    <2>5. OnPollEvent \/ PollFails \/ Abort => last' = last
        BY DEF OnPollEvent, OnPollError, OnPollFull, OnPollPart, PollFails, Abort
    <2>6. QED
        BY <2>1, <2>2, <2>3, <2>4, <2>5 DEF Next
<1>2. QED
    BY <1>1, SocketOutData, PTL DEF Spec, FlushedMeansWritten
=============================================================================
