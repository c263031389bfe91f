---------------------------- MODULE LibraryProofs ----------------------------
(***************************************************************************)
(* Proofs about the parts the object system is built on: the rules of      *)
(* comparison and the encodings of Collate, and the containers of Buffers. *)
(*                                                                         *)
(* CollateSpecOrders, CollateSpecMeans and CollateSpecExact hold of        *)
(* functions over bytes and numbers, for every base, width and set of      *)
(* entries. That a recursive function exists and meets its equations is    *)
(* Recursion; statements about all lengths are proved by induction, with   *)
(* the set of lengths they hold of (Induct).                               *)
(*                                                                         *)
(* BufSpecImplements and BufSpecWalksAll rest on BufInv, which says of     *)
(* each kind of container which sequence its array, its nodes or its       *)
(* chains stand for.                                                       *)
(***************************************************************************)
EXTENDS Collate, Buffers, FiniteSetTheorems, SequenceTheorems, WellFoundedInduction, TLAPS

-----------------------------------------------------------------------------
(***************************************************************************)
(* Induction and recursion over the naturals.                              *)
(***************************************************************************)

\* Every set of numbers has a smallest one (the first place where two keys differ).
LEMMA Smallest ==
  ASSUME NEW T, T \subseteq Nat, T # {}
  PROVE  \E m \in T : \A k \in T : m <= k
<1>1. IsWellFoundedOn(OpToRel(<, Nat), Nat)
  BY NatLessThanWellFounded
<1>2. PICK m \in T : \A k \in T : ~ (<<k, m>> \in OpToRel(<, Nat))
  <2>. HIDE DEF OpToRel
  <2>. QED BY <1>1, WFMin
<1>3. \A k \in T : k \in Nat /\ m \in Nat /\ ~ (k < m)
  BY <1>2 DEF OpToRel
<1>4. \A k \in T : m <= k
  BY <1>3
<1>. QED BY <1>4

\* Induction, with the numbers the statement holds of as a set.
LEMMA Induct ==
  ASSUME NEW T, 0 \in T, \A n \in Nat : n \in T => n + 1 \in T
  PROVE  \A n \in Nat : n \in T
<1>1. SUFFICES ASSUME Nat \ T # {} PROVE FALSE
  OBVIOUS
<1>2. PICK m \in Nat \ T : \A k \in Nat \ T : m <= k
  BY <1>1, Smallest
<1>3. m # 0 /\ m - 1 \in Nat
  BY <1>2
<1>4. m - 1 \in T
  BY <1>2, <1>3
<1>. QED BY <1>2, <1>3, <1>4

\* g is what a recursion over 0 .. m computes that starts with c.
Solves(g, V, c, d, m) ==
  /\ g \in [0 .. m -> V]
  /\ g[0] = c
  /\ \A i \in 1 .. m : g[i] = d[i][g[i - 1]]

\* Recursion over 0 .. m, with the step of each place as a function.
LEMMA Recursion ==
  ASSUME NEW V, NEW c \in V, NEW d \in [Nat -> [V -> V]], NEW m \in Nat
  PROVE  \E g : Solves(g, V, c, d, m)
<1> DEFINE T == {n \in Nat : \E g : Solves(g, V, c, d, n)}
<1>1. 0 \in T
  <2> DEFINE g == [i \in 0 .. 0 |-> c]
  <2>1. g \in [0 .. 0 -> V] /\ g[0] = c /\ \A i \in 1 .. 0 : g[i] = d[i][g[i - 1]]
    OBVIOUS
  <2>. HIDE DEF g
  <2>2. Solves(g, V, c, d, 0)
    BY <2>1 DEF Solves
  <2>. QED BY <2>2
<1>2. ASSUME NEW n \in Nat, n \in T PROVE n + 1 \in T
  <2>1. PICK g \in [0 .. n -> V] : g[0] = c /\ \A i \in 1 .. n : g[i] = d[i][g[i - 1]]
    BY <1>2 DEF Solves
  <2> DEFINE h == [i \in 0 .. n + 1 |-> IF i = n + 1 THEN d[n + 1][g[n]] ELSE g[i]]
  <2>2. g[n] \in V /\ d[n + 1] \in [V -> V]
    OBVIOUS
  <2>3. d[n + 1][g[n]] \in V
    BY <2>2
  <2>4. h \in [0 .. n + 1 -> V]
    BY <2>3
  <2>5. h[0] = c
    BY <2>1
  <2>6. ASSUME NEW i \in 1 .. n + 1 PROVE h[i] = d[i][h[i - 1]]
    <3>1. CASE i = n + 1
      BY <3>1
    <3>2. CASE i # n + 1
      <4>1. i \in 1 .. n /\ h[i] = g[i] /\ h[i - 1] = g[i - 1]
        BY <3>2
      <4>. QED BY <4>1, <2>1
    <3>. QED BY <3>1, <3>2
  <2>. HIDE DEF h
  <2>7. Solves(h, V, c, d, n + 1)
    BY <2>4, <2>5, <2>6 DEF Solves
  <2>. QED BY <2>7
<1>. HIDE DEF T
<1>3. m \in T
  BY <1>1, <1>2, Induct
<1>. QED BY <1>3 DEF T
-----------------------------------------------------------------------------
(***************************************************************************)
(* Sequences, place by place.                                              *)
(***************************************************************************)

\* A function over 1 .. n is a sequence of length n.
LEMMA SeqIs ==
  ASSUME NEW S, NEW n \in Nat, NEW f \in [1 .. n -> S]
  PROVE  f \in Seq(S) /\ Len(f) = n /\ DOMAIN f = 1 .. n
<1>1. f \in Seq(S)
  BY DEF Seq
<1>. QED BY <1>1

\* Two sequences of one length that agree at every place are equal.
LEMMA SameSeq ==
  ASSUME NEW S, NEW s \in Seq(S), NEW t \in Seq(S), Len(s) = Len(t),
         \A i \in 1 .. Len(s) : s[i] = t[i]
  PROVE  s = t
OBVIOUS

\* t is s with x after its last place.
LEMMA AppendIs ==
  ASSUME NEW S, NEW s \in Seq(S), NEW x \in S, NEW t \in [1 .. Len(s) + 1 -> S],
         \A i \in 1 .. Len(s) : t[i] = s[i], t[Len(s) + 1] = x
  PROVE  t = Append(s, x)
<1>1. Len(s) + 1 \in Nat
  OBVIOUS
<1>2. t \in Seq(S) /\ Len(t) = Len(s) + 1
  BY <1>1, SeqIs
<1>3. Append(s, x) \in Seq(S) /\ Len(Append(s, x)) = Len(s) + 1
  OBVIOUS
<1>4. ASSUME NEW i \in 1 .. Len(t) PROVE t[i] = Append(s, x)[i]
  BY <1>2
<1>. QED BY <1>2, <1>3, <1>4, SameSeq

\* t is s without place n.
LEMMA RemoveIs ==
  ASSUME NEW S, NEW s \in Seq(S), NEW n \in 1 .. Len(s), NEW t \in [1 .. Len(s) - 1 -> S],
         \A i \in 1 .. n - 1 : t[i] = s[i], \A i \in n .. Len(s) - 1 : t[i] = s[i + 1]
  PROVE  t = SubSeq(s, 1, n - 1) \o SubSeq(s, n + 1, Len(s))
<1>0. Len(s) \in Nat /\ Len(s) - 1 \in Nat /\ n - 1 \in Nat /\ Len(s) - n \in Nat
  OBVIOUS
<1>1. t \in Seq(S) /\ Len(t) = Len(s) - 1
  BY <1>0, SeqIs
<1> DEFINE a == SubSeq(s, 1, n - 1)
           b == SubSeq(s, n + 1, Len(s))
<1>2. a \in Seq(S) /\ Len(a) = n - 1 /\ \A i \in 1 .. n - 1 : a[i] = s[i]
  OBVIOUS
<1>3. b \in Seq(S) /\ Len(b) = Len(s) - n /\ \A i \in 1 .. Len(s) - n : b[i] = s[n + i]
  OBVIOUS
<1>. HIDE DEF a, b
<1>4. /\ a \o b \in Seq(S) /\ Len(a \o b) = Len(s) - 1
      /\ \A i \in 1 .. n - 1 : (a \o b)[i] = a[i]
      /\ \A i \in n .. Len(s) - 1 : (a \o b)[i] = b[i - (n - 1)]
  BY <1>0, <1>2, <1>3
<1>5. ASSUME NEW i \in 1 .. Len(t) PROVE t[i] = (a \o b)[i]
  <2>0. i < n \/ i >= n
    BY <1>1
  <2>1. CASE i < n
    <3>1. i \in 1 .. n - 1
      BY <2>1
    <3>. QED BY <3>1, <1>2, <1>4
  <2>2. CASE i >= n
    <3>1. i \in n .. Len(s) - 1 /\ i - (n - 1) \in 1 .. Len(s) - n /\ n + (i - (n - 1)) = i + 1
      BY <2>2, <1>1
    <3>2. (a \o b)[i] = b[i - (n - 1)] /\ b[i - (n - 1)] = s[n + (i - (n - 1))]
      BY <3>1, <1>3, <1>4
    <3>. QED BY <3>1, <3>2
  <2>. QED BY <2>0, <2>1, <2>2, Zenon
<1>6. t = a \o b
  BY <1>1, <1>4, <1>5, SameSeq
<1>. QED BY <1>6 DEF a, b

\* t is s with x at place n, in front of what was there.
LEMMA InsertIs ==
  ASSUME NEW S, NEW s \in Seq(S), NEW x \in S, NEW n \in 1 .. Len(s) + 1,
         NEW t \in [1 .. Len(s) + 1 -> S],
         \A i \in 1 .. n - 1 : t[i] = s[i], t[n] = x,
         \A i \in n + 1 .. Len(s) + 1 : t[i] = s[i - 1]
  PROVE  t = SubSeq(s, 1, n - 1) \o <<x>> \o SubSeq(s, n, Len(s))
<1>0. Len(s) \in Nat /\ Len(s) + 1 \in Nat /\ n - 1 \in Nat /\ Len(s) - (n - 1) \in Nat
  OBVIOUS
<1>1. t \in Seq(S) /\ Len(t) = Len(s) + 1
  BY <1>0, SeqIs
<1> DEFINE a == SubSeq(s, 1, n - 1)
           b == SubSeq(s, n, Len(s))
           c == a \o <<x>>
<1>2. a \in Seq(S) /\ Len(a) = n - 1 /\ \A i \in 1 .. n - 1 : a[i] = s[i]
  OBVIOUS
<1>3. b \in Seq(S) /\ Len(b) = Len(s) - (n - 1)
      /\ \A i \in 1 .. Len(s) - (n - 1) : b[i] = s[n + i - 1]
  OBVIOUS
<1>. HIDE DEF a, b
<1>4. c \in Seq(S) /\ Len(c) = n /\ c[n] = x /\ \A i \in 1 .. n - 1 : c[i] = a[i]
  <2>1. <<x>> \in Seq(S) /\ Len(<<x>>) = 1 /\ <<x>>[1] = x /\ n \in Nat
    OBVIOUS
  <2>. DEFINE y == <<x>>
  <2>. HIDE DEF y
  <2>2. y \in Seq(S) /\ Len(y) = 1 /\ y[1] = x /\ n \in Nat
    BY <2>1 DEF y
  <2>3. /\ a \o y \in Seq(S) /\ Len(a \o y) = Len(a) + Len(y)
        /\ \A i \in 1 .. Len(a) + Len(y) :
             (a \o y)[i] = IF i <= Len(a) THEN a[i] ELSE y[i - Len(a)]
    BY ONLY <1>2, <2>2, ConcatProperties
  <2>4. Len(a) = n - 1 /\ Len(y) = 1 /\ Len(a) + Len(y) = n
    BY <1>2, <2>2
  <2>5. (a \o y)[n] = x
    BY <2>2, <2>3, <2>4
  <2>6. \A i \in 1 .. n - 1 : (a \o y)[i] = a[i]
    BY <2>2, <2>3, <2>4
  <2>7. c = a \o y
    BY DEF y
  <2>. QED BY <2>3, <2>4, <2>5, <2>6, <2>7
<1>. HIDE DEF c
<1>5. /\ c \o b \in Seq(S) /\ Len(c \o b) = Len(s) + 1
      /\ \A i \in 1 .. n : (c \o b)[i] = c[i]
      /\ \A i \in n + 1 .. Len(s) + 1 : (c \o b)[i] = b[i - n]
  BY <1>0, <1>3, <1>4
<1>6. ASSUME NEW i \in 1 .. Len(t) PROVE t[i] = (c \o b)[i]
  <2>0. i < n \/ i = n \/ i > n
    BY <1>1
  <2>1. CASE i < n
    <3>1. i \in 1 .. n - 1 /\ i \in 1 .. n
      BY <2>1
    <3>. QED BY <3>1, <1>2, <1>4, <1>5
  <2>2. CASE i = n
    <3>1. i \in 1 .. n
      BY <2>2
    <3>. QED BY <2>2, <3>1, <1>4, <1>5
  <2>3. CASE i > n
    <3>1. i \in n + 1 .. Len(s) + 1 /\ i - n \in 1 .. Len(s) - (n - 1) /\ n + (i - n) - 1 = i - 1
      BY <2>3, <1>1
    <3>2. (c \o b)[i] = b[i - n] /\ b[i - n] = s[n + (i - n) - 1]
      BY <3>1, <1>3, <1>5
    <3>. QED BY <3>1, <3>2
  <2>. QED BY <2>0, <2>1, <2>2, <2>3, Zenon
<1>7. t = c \o b
  BY <1>1, <1>5, <1>6, SameSeq
<1>. QED BY <1>7 DEF a, b, c
-----------------------------------------------------------------------------
(***************************************************************************)
(* The weights of the bytes.                                               *)
(***************************************************************************)

\* The powers of the base, as the recursion gives them (little-endian, ofs_collate.c).
LEMMA PowIs ==
  /\ Pow \in [0 .. Width -> Nat]
  /\ Pow[0] = 1
  /\ \A i \in 1 .. Width : Pow[i] = Base * Pow[i - 1]
<1>0. Width \in Nat /\ 1 \in Nat /\ Base \in Nat
  BY CollateAssumption
<1> DEFINE d == [i \in Nat |-> [v \in Nat |-> Base * v]]
<1>1. d \in [Nat -> [Nat -> Nat]]
  BY <1>0
<1>2. PICK g \in [0 .. Width -> Nat] :
        g[0] = 1 /\ \A i \in 1 .. Width : g[i] = d[i][g[i - 1]]
  <2>. HIDE DEF d
  <2>1. PICK g : Solves(g, Nat, 1, d, Width)
    BY <1>0, <1>1, Recursion
  <2>. QED BY <2>1 DEF Solves
<1>3. ASSUME NEW i \in 1 .. Width PROVE g[i - 1] \in Nat /\ g[i] = Base * g[i - 1]
  <2>1. i \in Nat /\ i - 1 \in 0 .. Width
    BY <1>0
  <2>2. g[i - 1] \in Nat
    BY <2>1
  <2>3. d[i][g[i - 1]] = Base * g[i - 1]
    BY <2>1, <2>2
  <2>. QED BY <1>2, <2>2, <2>3
<1>4. g = [n \in 0 .. Width |-> IF n = 0 THEN 1 ELSE Base * g[n - 1]]
  <2>1. ASSUME NEW n \in 0 .. Width PROVE g[n] = IF n = 0 THEN 1 ELSE Base * g[n - 1]
    <3>1. CASE n = 0
      BY <3>1, <1>2
    <3>2. CASE n # 0
      <4>1. n \in 1 .. Width
        BY <3>2, <1>0
      <4>. QED BY <4>1, <3>2, <1>3
    <3>. QED BY <3>1, <3>2
  <2>. QED BY <2>1, Zenon
<1>5. Pow = [n \in 0 .. Width |-> IF n = 0 THEN 1 ELSE Base * Pow[n - 1]]
  BY <1>4 DEF Pow
<1>6. Pow[0] = 1 /\ \A i \in 1 .. Width : Pow[i] = Base * Pow[i - 1]
  <2>1. 0 \in 0 .. Width /\ \A i \in 1 .. Width : i \in 0 .. Width /\ i # 0
    BY <1>0
  <2>. QED BY <1>5, <2>1, Zenon
<1>7. \A i \in 0 .. Width : Pow[i] = g[i]
  <2> DEFINE T == {n \in Nat : n <= Width => Pow[n] = g[n]}
  <2>1. 0 \in T
    BY <1>2, <1>6
  <2>2. ASSUME NEW n \in Nat, n \in T PROVE n + 1 \in T
    <3>1. CASE n + 1 <= Width
      <4>1. n + 1 \in 1 .. Width /\ (n + 1) - 1 = n /\ Pow[n] = g[n]
        BY <2>2, <3>1, <1>0
      <4>2. Pow[n + 1] = Base * Pow[n] /\ g[n + 1] = Base * g[n]
        BY <4>1, <1>3, <1>6
      <4>. QED BY <4>1, <4>2
    <3>. QED BY <3>1, <1>0
  <2>3. \A n \in Nat : n \in T
    <3>. HIDE DEF T
    <3>. QED BY <2>1, <2>2, Induct
  <2>. QED BY <2>3
<1>. QED BY <1>5, <1>6, <1>7, <1>2

\* A product does not shrink when a factor grows.
LEMMA Product ==
  ASSUME NEW p \in Nat, NEW c \in Nat, NEW d \in Nat, c <= d
  PROVE  /\ c * p \in Nat
         /\ d * p \in Nat
         /\ c * p <= d * p
<1>1. (d - c) * p >= 0
  OBVIOUS
<1>. QED BY <1>1

\* The weights grow with the place.
LEMMA PowGrows ==
  /\ \A i \in 0 .. Width : Pow[i] \in Nat /\ Pow[i] >= 1
  /\ \A i, j \in 0 .. Width : i <= j => Pow[i] <= Pow[j]
<1>0. Width \in Nat /\ Base \in Nat /\ Base > 3
  BY CollateAssumption
<1>1. ASSUME NEW i \in 1 .. Width PROVE Pow[i - 1] \in Nat /\ Pow[i] >= Pow[i - 1]
  <2>1. i - 1 \in 0 .. Width /\ Pow[i - 1] \in Nat
    BY <1>0, PowIs
  <2>2. 1 * Pow[i - 1] <= Base * Pow[i - 1]
    BY <2>1, <1>0, Product
  <2>. QED BY <2>1, <2>2, PowIs
<1>2. ASSUME NEW i \in 0 .. Width PROVE \A j \in 0 .. Width : i <= j => Pow[i] <= Pow[j]
  <2> DEFINE T == {n \in Nat : i + n <= Width => Pow[i] <= Pow[i + n]}
  <2>1. 0 \in T
    <3>1. i + 0 = i /\ Pow[i] \in Nat
      BY PowIs
    <3>. QED BY <3>1
  <2>2. ASSUME NEW n \in Nat, n \in T PROVE n + 1 \in T
    <3>1. CASE i + n + 1 <= Width
      <4>1. i + n + 1 \in 1 .. Width /\ (i + n + 1) - 1 = i + n /\ Pow[i] <= Pow[i + n]
        BY <2>2, <3>1, <1>0
      <4>2. Pow[i + n] \in Nat /\ Pow[i + n + 1] >= Pow[i + n]
        BY <4>1, <1>1
      <4>3. Pow[i] \in Nat /\ Pow[i + n + 1] \in Nat /\ i + (n + 1) = i + n + 1
        BY <4>1, PowIs
      <4>. QED BY <4>1, <4>2, <4>3
    <3>. QED BY <3>1, <1>0
  <2>. HIDE DEF T
  <2>3. \A n \in Nat : n \in T
    BY <2>1, <2>2, Induct
  <2>4. ASSUME NEW j \in 0 .. Width, i <= j PROVE Pow[i] <= Pow[j]
    <3>1. j - i \in Nat /\ i + (j - i) = j
      BY <2>4
    <3>2. j - i \in T
      BY <2>3, <3>1
    <3>. QED BY <3>1, <3>2 DEF T
  <2>. QED BY <2>4
<1>3. ASSUME NEW i \in 0 .. Width PROVE Pow[i] \in Nat /\ Pow[i] >= 1
  <2>1. 0 \in 0 .. Width /\ 0 <= i
    BY <1>0
  <2>2. Pow[0] <= Pow[i]
    BY <2>1, <1>2
  <2>. QED BY <2>2, PowIs
<1>. QED BY <1>2, <1>3

\* A byte in front of a number of less weight.
LEMMA Digit ==
  ASSUME NEW p \in Nat, NEW c \in Byte, NEW r \in 0 .. p - 1
  PROVE  r + c * p \in 0 .. Base * p - 1
<1>1. c \in Nat /\ Base - 1 \in Nat /\ c <= Base - 1
  BY CollateAssumption DEF Byte
<1>2. c * p \in Nat /\ c * p <= (Base - 1) * p
  BY <1>1, Product
<1>3. (Base - 1) * p = Base * p - p /\ Base * p \in Int
  BY CollateAssumption
<1>. QED BY <1>2, <1>3
-----------------------------------------------------------------------------
(***************************************************************************)
(* Numbers and their strings.                                              *)
(***************************************************************************)

\* Strings of bytes that fit a number.
Strs == {b \in Seq(Byte) : Len(b) <= Width}

\* What the loop of os_bstr_to_u64 has read after each byte.
Reads(b, s) ==
  /\ s \in [0 .. Len(b) -> Nat]
  /\ s[0] = 0
  /\ \A i \in 1 .. Len(b) : s[i] = s[i - 1] + b[i] * Pow[i - 1]

\* The bytes of a string are below the base, its places are those of a number.
LEMMA StrBytes ==
  ASSUME NEW b \in Strs
  PROVE  /\ Len(b) \in 0 .. Width
         /\ \A i \in 1 .. Len(b) : /\ b[i] \in Byte
                                   /\ b[i] \in Nat
                                   /\ i - 1 \in 0 .. Width
                                   /\ i - 1 \in 0 .. Len(b)
                                   /\ Pow[i - 1] \in Nat
<1>1. b \in Seq(Byte) /\ Len(b) <= Width /\ Width \in Nat
  BY CollateAssumption DEF Strs
<1>2. Len(b) \in Nat /\ \A i \in 1 .. Len(b) : b[i] \in Byte
  BY <1>1, ElementOfSeq, LenProperties
<1>3. \A i \in 1 .. Len(b) : i - 1 \in 0 .. Width /\ i - 1 \in 0 .. Len(b)
  BY <1>1, <1>2
<1>. QED BY <1>1, <1>2, <1>3, PowIs DEF Byte

\* The recursion is well defined, and any reading of a string is the same one
\* (os_bstr_to_u64 in ofs_collate.c).
LEMMA ReadsIs ==
  ASSUME NEW b \in Strs
  PROVE  \E s : Reads(b, s) /\ os_bstr_to_u64(b) = s[Len(b)]
<1> DEFINE Eq(s) == s = [i \in 0 .. Len(b) |->
                           IF i = 0 THEN 0 ELSE s[i - 1] + b[i] * Pow[i - 1]]
           term == [i \in Nat |-> IF i \in 1 .. Len(b) THEN b[i] * Pow[i - 1] ELSE 0]
           d == [i \in Nat |-> [v \in Nat |-> v + term[i]]]
<1>0. Len(b) \in Nat
  BY StrBytes
<1>1. term \in [Nat -> Nat]
  <2>1. ASSUME NEW i \in Nat, i \in 1 .. Len(b) PROVE b[i] * Pow[i - 1] \in Nat
    <3>1. b[i] \in Nat /\ Pow[i - 1] \in Nat
      BY <2>1, StrBytes
    <3>. QED BY <3>1
  <2>. QED BY <2>1
<1>1a. ASSUME NEW i \in 1 .. Len(b) PROVE i \in Nat /\ term[i] = b[i] * Pow[i - 1]
  BY <1>0
<1>. HIDE DEF term
<1>2. d \in [Nat -> [Nat -> Nat]]
  BY <1>1
<1>3. PICK g : Solves(g, Nat, 0, d, Len(b))
  <2>. HIDE DEF d
  <2>. QED BY <1>2, <1>0, Recursion
<1>4. ASSUME NEW i \in 1 .. Len(b)
      PROVE  g[i - 1] \in Nat /\ g[i] = g[i - 1] + b[i] * Pow[i - 1]
  <2>0. i \in Nat /\ i - 1 \in 0 .. Len(b)
    BY <1>0
  <2>1. g[i - 1] \in Nat /\ i \in Nat /\ g[i] = d[i][g[i - 1]]
    <3>. HIDE DEF d
    <3>. QED BY <2>0, <1>3 DEF Solves
  <2>2. d[i][g[i - 1]] = g[i - 1] + term[i]
    BY <2>1
  <2>. QED BY <2>1, <2>2, <1>1a
<1>5. Reads(b, g)
  BY <1>3, <1>4 DEF Reads, Solves
<1>6. Eq(g)
  <2>1. ASSUME NEW i \in 0 .. Len(b)
        PROVE  g[i] = IF i = 0 THEN 0 ELSE g[i - 1] + b[i] * Pow[i - 1]
    <3>1. CASE i = 0
      BY <3>1, <1>5 DEF Reads
    <3>2. CASE i # 0
      <4>1. i \in 1 .. Len(b)
        BY <3>2, <1>0
      <4>. QED BY <4>1, <3>2, <1>4
    <3>. QED BY <3>1, <3>2
  <2>2. g \in [0 .. Len(b) -> Nat]
    BY <1>5 DEF Reads
  <2>. QED BY <2>1, <2>2, Zenon
<1>7. ASSUME NEW s, Eq(s) PROVE s[Len(b)] = g[Len(b)]
  <2> DEFINE T == {n \in Nat : n <= Len(b) => s[n] = g[n]}
  <2>0. \A i \in 0 .. Len(b) : s[i] = IF i = 0 THEN 0 ELSE s[i - 1] + b[i] * Pow[i - 1]
    BY <1>7, Zenon
  <2>1. 0 \in T
    <3>1. 0 \in 0 .. Len(b)
      BY <1>0
    <3>2. s[0] = 0
      BY <2>0, <3>1, Zenon
    <3>. QED BY <3>2, <1>5 DEF Reads
  <2>2. ASSUME NEW n \in Nat, n \in T PROVE n + 1 \in T
    <3>1. CASE n + 1 <= Len(b)
      <4>1. n + 1 \in 1 .. Len(b) /\ (n + 1) - 1 = n /\ n + 1 # 0 /\ s[n] = g[n]
        BY <2>2, <3>1, <1>0
      <4>2. n + 1 \in 0 .. Len(b)
        BY <4>1
      <4>3. s[n + 1] = s[(n + 1) - 1] + b[n + 1] * Pow[(n + 1) - 1]
        BY <4>1, <4>2, <2>0, Zenon
      <4>4. g[n + 1] = g[(n + 1) - 1] + b[n + 1] * Pow[(n + 1) - 1]
        BY <4>1, <1>4
      <4>5. s[n + 1] = g[n + 1]
        BY <4>1, <4>3, <4>4
      <4>. QED BY <4>5
    <3>. QED BY <3>1, <1>0
  <2>3. Len(b) \in T
    <3>. HIDE DEF T
    <3>. QED BY <2>1, <2>2, <1>0, Induct
  <2>. QED BY <2>3
<1>8. os_bstr_to_u64(b) = g[Len(b)]
  <2> DEFINE h == CHOOSE s : Eq(s)
  <2>1. Eq(h)
    BY <1>6
  <2>2. os_bstr_to_u64(b) = h[Len(b)]
    BY DEF os_bstr_to_u64
  <2>. QED BY <2>1, <2>2, <1>7
<1>. QED BY <1>5, <1>8

\* What has been read stays below the weight of the next byte.
LEMMA ReadsBelow ==
  ASSUME NEW b \in Strs, NEW s, Reads(b, s)
  PROVE  \A i \in 0 .. Len(b) : s[i] \in 0 .. Pow[i] - 1
<1> DEFINE T == {n \in Nat : n <= Len(b) => s[n] \in 0 .. Pow[n] - 1}
<1>0. Len(b) \in 0 .. Width /\ Width \in Nat
  BY StrBytes, CollateAssumption
<1>1. 0 \in T
  BY PowIs DEF Reads
<1>2. ASSUME NEW n \in Nat, n \in T PROVE n + 1 \in T
  <2>1. CASE n + 1 <= Len(b)
    <3>1. n + 1 \in 1 .. Len(b) /\ (n + 1) - 1 = n /\ s[n] \in 0 .. Pow[n] - 1
      BY <1>2, <2>1, <1>0
    <3>2. b[n + 1] \in Byte /\ Pow[n] \in Nat
      BY <3>1, StrBytes
    <3>3. s[n] + b[n + 1] * Pow[n] \in 0 .. Base * Pow[n] - 1
      BY <3>1, <3>2, Digit
    <3>4. s[n + 1] = s[n] + b[n + 1] * Pow[n]
      BY <3>1 DEF Reads
    <3>5. Pow[n + 1] = Base * Pow[n]
      <4>1. n + 1 \in 1 .. Width
        BY <3>1, <1>0
      <4>. QED BY <4>1, <3>1, PowIs
    <3>. QED BY <3>3, <3>4, <3>5
  <2>. QED BY <2>1, <1>0
<1>3. ASSUME NEW i \in 0 .. Len(b) PROVE i \in T
  <2>1. i \in Nat
    OBVIOUS
  <2>. HIDE DEF T
  <2>. QED BY <1>1, <1>2, <2>1, Induct
<1>. QED BY <1>3

\* A string of n bytes is a number below the weight of the byte behind it.
LEMMA U64Below ==
  ASSUME NEW b \in Strs
  PROVE  /\ os_bstr_to_u64(b) \in 0 .. Pow[Len(b)] - 1
         /\ os_bstr_to_u64(b) \in 0 .. Pow[Width] - 1
         /\ os_bstr_to_u64(b) \in Nat
<1>1. PICK s : Reads(b, s) /\ os_bstr_to_u64(b) = s[Len(b)]
  BY ReadsIs
<1>2. Len(b) \in 0 .. Width /\ Len(b) \in 0 .. Len(b) /\ Width \in 0 .. Width
  BY StrBytes, CollateAssumption
<1>3. s[Len(b)] \in 0 .. Pow[Len(b)] - 1
  BY <1>1, <1>2, ReadsBelow
<1>4. Pow[Len(b)] \in Nat /\ Pow[Width] \in Nat /\ Pow[Len(b)] <= Pow[Width]
  BY <1>2, PowGrows
<1>. QED BY <1>1, <1>3, <1>4

\* The size is that of the highest byte that is not zero, and 1 for zero
\* (os_u64_size in ofs_collate.c).
LEMMA SizeIs ==
  ASSUME NEW n \in 0 .. Pow[Width] - 1
  PROVE  /\ os_u64_size(n) \in 1 .. Width
         /\ n < Pow[os_u64_size(n)]
         /\ n # 0 => Pow[os_u64_size(n) - 1] <= n
<1>0. Width \in Nat /\ Width >= 1 /\ n \in Nat /\ n < Pow[Width]
  BY PowGrows, CollateAssumption
<1>1. CASE n = 0
  <2>1. os_u64_size(n) = 1 /\ 1 \in 1 .. Width /\ 1 \in 0 .. Width
    BY <1>1, <1>0 DEF os_u64_size
  <2>. QED BY <1>1, <2>1, PowGrows
<1>2. CASE n # 0
  <2> DEFINE T == {w \in Nat : w <= Width /\ n < Pow[w]}
             At(w) == Pow[w - 1] <= n /\ n < Pow[w]
  <2>1. Width \in T
    BY <1>0
  <2>2. PICK w \in T : \A v \in T : w <= v
    <3>1. T \subseteq Nat /\ T # {}
      BY <2>1
    <3>. HIDE DEF T
    <3>. QED BY <3>1, Smallest
  <2>3. w # 0
    BY <2>2, <1>2, <1>0, PowIs
  <2>4. w \in 1 .. Width /\ w - 1 \in Nat /\ w - 1 \in 0 .. Width
    BY <2>2, <2>3, <1>0
  <2>5. ~ (n < Pow[w - 1]) /\ Pow[w - 1] \in Nat
    BY <2>2, <2>4, <1>0, PowGrows
  <2>6. At(w)
    BY <2>2, <2>5, <1>0
  <2>7. os_u64_size(n) = CHOOSE v \in 1 .. Width : At(v)
    BY <1>2 DEF os_u64_size
  <2>8. os_u64_size(n) \in 1 .. Width /\ At(os_u64_size(n))
    <3>. HIDE DEF At
    <3>. QED BY <2>4, <2>6, <2>7
  <2>. QED BY <2>8
<1>. QED BY <1>1, <1>2

\* What is below a weight needs no more bytes (the shortest form).
LEMMA SizeLeast ==
  ASSUME NEW k \in 1 .. Width, NEW n \in 0 .. Pow[k] - 1
  PROVE  os_u64_size(n) <= k
<1>0. Width \in Nat /\ k \in 0 .. Width /\ Width \in 0 .. Width
  BY CollateAssumption
<1>1. n \in 0 .. Pow[Width] - 1
  BY <1>0, PowGrows
<1>2. os_u64_size(n) \in 1 .. Width
  BY <1>1, SizeIs
<1>3. CASE n = 0
  BY <1>3, <1>0 DEF os_u64_size
<1>4. CASE n # 0
  <2>1. Pow[os_u64_size(n) - 1] <= n
    BY <1>1, <1>4, SizeIs
  <2>2. os_u64_size(n) - 1 \in 0 .. Width
    BY <1>2, <1>0
  <2>3. SUFFICES ASSUME os_u64_size(n) > k PROVE FALSE
    BY <1>0, <1>2
  <2>4. k <= os_u64_size(n) - 1
    BY <2>3, <1>2, <1>0
  <2>5. Pow[k] <= Pow[os_u64_size(n) - 1]
    BY <2>4, <2>2, <1>0, PowGrows
  <2>6. Pow[k] \in Nat /\ Pow[os_u64_size(n) - 1] \in Nat
    BY <2>2, <1>0, PowGrows
  <2>. QED BY <2>1, <2>5, <2>6
<1>. QED BY <1>3, <1>4

\* Quotient and remainder.
LEMMA Division ==
  ASSUME NEW n \in Nat, NEW p \in Nat, p >= 1
  PROVE  /\ n \div p \in Nat
         /\ n % p \in 0 .. p - 1
         /\ n = p * (n \div p) + (n % p)
OBVIOUS

\* The next byte of a number is taken off what is left above the place.
LEMMA NextByte ==
  ASSUME NEW n \in Nat, NEW p \in Nat, p >= 1
  PROVE  /\ n \div p \in Nat
         /\ (n \div p) % Base \in Byte
         /\ n = p * (n \div p) + (n % p)
         /\ n % p \in 0 .. p - 1
         /\ Base * p \in Nat /\ Base * p >= 1
         /\ n = (Base * p) * ((n \div p) \div Base) + ((n % p) + ((n \div p) % Base) * p)
<1>0. Base \in Nat /\ Base > 3
  BY CollateAssumption
<1> DEFINE q == n \div p
           r == n % p
<1>1. q \in Nat /\ r \in 0 .. p - 1 /\ n = (p * q) + r
  OBVIOUS
<1>. HIDE DEF q, r
<1> DEFINE a == q \div Base
           c == q % Base
<1>2. a \in Nat /\ c \in 0 .. Base - 1 /\ q = (Base * a) + c
  BY <1>0, <1>1
<1>. HIDE DEF a, c
<1>3. n = p * ((Base * a) + c) + r
  BY <1>1, <1>2
<1>4. n = (Base * p) * a + (r + c * p)
  BY <1>0, <1>1, <1>2, <1>3
<1>5. Base * p \in Nat /\ Base * p >= 1
  <2>1. 1 * p <= Base * p
    BY <1>0, Product
  <2>. QED BY <2>1, <1>0
<1>6. n \div p \in Nat /\ n = p * (n \div p) + (n % p) /\ n % p \in 0 .. p - 1
  BY Division
<1>7. c \in Byte
  BY <1>2 DEF Byte
<1>8. (n \div p) % Base \in Byte
  BY <1>7 DEF c, q
<1>9. n = (Base * p) * ((n \div p) \div Base) + ((n % p) + ((n \div p) % Base) * p)
  BY <1>4 DEF a, c, q, r
<1>. QED BY <1>5, <1>6, <1>8, <1>9

\* Quotient and remainder are the only ones.
LEMMA OneQuotient ==
  ASSUME NEW n \in Nat, NEW p \in Nat, p >= 1,
         NEW a \in Nat, NEW r \in 0 .. p - 1, n = p * a + r
  PROVE  a = n \div p /\ r = n % p
<1> DEFINE q == n \div p
           t == n % p
<1>1. q \in Nat /\ t \in 0 .. p - 1 /\ n = p * q + t
  BY NextByte
<1>. HIDE DEF q, t
<1>2. (a - q) * p = t - r
  BY <1>1
<1>3. CASE a > q
  <2>1. (a - q - 1) * p >= 0
    BY <1>1, <1>3
  <2>. QED BY <1>1, <1>2, <1>3, <2>1
<1>4. CASE a < q
  <2>1. (q - a - 1) * p >= 0
    BY <1>1, <1>4
  <2>. QED BY <1>1, <1>2, <1>4, <2>1
<1>5. a = q /\ r = t
  BY <1>1, <1>2, <1>3, <1>4
<1>. QED BY <1>5 DEF q, t

\* The bytes of a number (os_u64_to_bstr in ofs_collate.c).
LEMMA BstrIs ==
  ASSUME NEW n \in 0 .. Pow[Width] - 1
  PROVE  /\ os_u64_to_bstr(n) \in Strs
         /\ Len(os_u64_to_bstr(n)) = os_u64_size(n)
         /\ Len(os_u64_to_bstr(n)) \in 1 .. Width
         /\ os_u64_to_bstr(n) # <<>>
<1>0. Width \in Nat /\ n \in Nat /\ os_u64_size(n) \in 1 .. Width
  BY CollateAssumption, SizeIs, PowGrows
<1>1. ASSUME NEW i \in 1 .. os_u64_size(n)
      PROVE  (n \div Pow[i - 1]) % Base \in Byte
  <2>1. i - 1 \in 0 .. Width
    BY <1>0
  <2>2. Pow[i - 1] \in Nat /\ Pow[i - 1] >= 1
    BY <2>1, PowGrows
  <2>. QED BY <1>0, <2>2, NextByte
<1>2. os_u64_to_bstr(n) \in [1 .. os_u64_size(n) -> Byte]
  BY <1>1 DEF os_u64_to_bstr
<1>3. os_u64_to_bstr(n) \in Seq(Byte) /\ Len(os_u64_to_bstr(n)) = os_u64_size(n)
  <2>. HIDE DEF os_u64_to_bstr
  <2>1. os_u64_size(n) \in Nat
    BY <1>0
  <2>. QED BY <1>2, <2>1
<1>4. Len(os_u64_to_bstr(n)) # 0
  BY <1>0, <1>3
<1>. QED BY <1>0, <1>3, <1>4 DEF Strs

\* A number comes back from its string.
LEMMA RoundTrip ==
  ASSUME NEW n \in 0 .. Pow[Width] - 1
  PROVE  os_bstr_to_u64(os_u64_to_bstr(n)) = n
<1> DEFINE b == os_u64_to_bstr(n)
           w == os_u64_size(n)
<1>0. /\ Width \in Nat /\ n \in Nat
      /\ b \in Strs /\ Len(b) = w /\ w \in 1 .. Width /\ w \in 0 .. Width
      /\ n < Pow[w]
  BY BstrIs, SizeIs, PowGrows, CollateAssumption
<1>1. \A i \in 1 .. w : b[i] = (n \div Pow[i - 1]) % Base
  BY DEF os_u64_to_bstr
<1>. HIDE DEF b, w
<1>2. PICK s : Reads(b, s) /\ os_bstr_to_u64(b) = s[w]
  BY <1>0, ReadsIs
<1>3. \A i \in 0 .. w : s[i] \in 0 .. Pow[i] - 1
  BY <1>0, <1>2, ReadsBelow
<1> DEFINE T == {i \in Nat : i <= w => \E a \in Nat : n = Pow[i] * a + s[i]}
<1>4. 0 \in T
  <2>1. n = Pow[0] * n + s[0]
    BY <1>0, <1>2, PowIs DEF Reads
  <2>. QED BY <2>1, <1>0
<1>5. ASSUME NEW i \in Nat, i \in T PROVE i + 1 \in T
  <2>1. CASE i + 1 <= w
    <3>1. PICK a \in Nat : n = Pow[i] * a + s[i]
      BY <1>5, <2>1, <1>0
    <3>2. /\ i \in 0 .. w /\ i \in 0 .. Width /\ i + 1 \in 1 .. w /\ i + 1 \in 1 .. Width
          /\ (i + 1) - 1 = i
      BY <2>1, <1>0
    <3>3. Pow[i] \in Nat /\ Pow[i] >= 1 /\ s[i] \in 0 .. Pow[i] - 1
      BY <3>2, <1>3, PowGrows
    <3>4. s[i] = n % Pow[i]
      BY <3>1, <3>3, <1>0, OneQuotient
    <3>5. b[i + 1] = (n \div Pow[i]) % Base
      BY <3>2, <1>1
    <3>6. s[i + 1] = s[i] + b[i + 1] * Pow[i]
      BY <3>2, <1>0, <1>2 DEF Reads
    <3>7. Pow[i + 1] = Base * Pow[i]
      BY <3>2, PowIs
    <3>8. n = (Base * Pow[i]) * ((n \div Pow[i]) \div Base)
                + ((n % Pow[i]) + ((n \div Pow[i]) % Base) * Pow[i])
      BY <3>3, <1>0, NextByte
    <3>9. n = Pow[i + 1] * ((n \div Pow[i]) \div Base) + s[i + 1]
      BY <3>4, <3>5, <3>6, <3>7, <3>8, Zenon
    <3>10. (n \div Pow[i]) \div Base \in Nat
      <4>1. n \div Pow[i] \in Nat
        BY <3>3, <1>0, NextByte
      <4>2. Base \in Nat /\ Base >= 1
        BY CollateAssumption
      <4>. QED BY <4>1, <4>2, NextByte
    <3>. QED BY <3>9, <3>10
  <2>. QED BY <2>1, <1>0
<1>6. w \in T
  <2>1. w \in Nat
    BY <1>0
  <2>. HIDE DEF T
  <2>. QED BY <1>4, <1>5, <2>1, Induct
<1>7. PICK a \in Nat : n = Pow[w] * a + s[w]
  BY <1>6, <1>0
<1>8. a = 0
  <2>1. Pow[w] \in Nat /\ s[w] \in 0 .. Pow[w] - 1
    BY <1>0, <1>3, PowGrows
  <2>2. SUFFICES ASSUME a >= 1 PROVE FALSE
    OBVIOUS
  <2>3. 1 * Pow[w] <= a * Pow[w]
    BY <2>1, <2>2, Product
  <2>. QED BY <2>1, <2>3, <1>0, <1>7
<1>9. s[w] = n
  <2>1. Pow[w] \in Nat /\ s[w] \in Nat
    BY <1>0, <1>3, PowGrows
  <2>. QED BY <1>7, <1>8, <2>1
<1>. QED BY <1>2, <1>9 DEF b
-----------------------------------------------------------------------------
(***************************************************************************)
(* Lexical order.                                                          *)
(***************************************************************************)

\* a comes before b: it is smaller at the first place where they differ, or
\* ends there.
Before(a, b) ==
  \E i \in 1 .. Len(b) :
    /\ i <= Len(a) + 1
    /\ \A j \in 1 .. i - 1 : a[j] = b[j]
    /\ i <= Len(a) => a[i] < b[i]

\* A comparison returns one of three values (all rules of ofs_collate.c).
Signs == {-1, 0, 1}

\* The result r of comparing a with b.
Shows(r, a, b) ==
  \/ r = -1 /\ Before(a, b) /\ ~Before(b, a) /\ a # b
  \/ r = 1 /\ Before(b, a) /\ ~Before(a, b) /\ a # b
  \/ r = 0 /\ a = b /\ ~Before(b, a) /\ ~Before(a, b)

\* The comparison of two numbers.
LEMMA CompareIs ==
  ASSUME NEW m \in Int, NEW n \in Int
  PROVE  /\ Compare(m, n) \in Signs
         /\ Compare(m, n) = -Compare(n, m)
         /\ Compare(m, n) <= 0 <=> m <= n
         /\ Compare(m, n) = 0 <=> m = n
         /\ Compare(m, n) = 1 <=> m > n
         /\ Compare(m, n) = -1 <=> m < n
BY DEF Compare, Signs

\* Nothing comes before itself, and of two strings one at most before the other.
LEMMA BeforeOnce ==
  ASSUME NEW a \in Seq(Int), NEW b \in Seq(Int), Before(a, b)
  PROVE  ~Before(b, a) /\ a # b
<1>0. /\ Len(a) \in Nat /\ Len(b) \in Nat
      /\ \A i \in 1 .. Len(a) : a[i] \in Int
      /\ \A i \in 1 .. Len(b) : b[i] \in Int
  BY ElementOfSeq, LenProperties
<1>1. PICK i \in 1 .. Len(b) : /\ i <= Len(a) + 1
                               /\ \A j \in 1 .. i - 1 : a[j] = b[j]
                               /\ i <= Len(a) => a[i] < b[i]
  BY DEF Before
<1>2. ASSUME NEW k \in 1 .. Len(a), k <= Len(b) + 1,
             \A j \in 1 .. k - 1 : b[j] = a[j],
             k <= Len(b) => b[k] < a[k]
      PROVE  FALSE
  <2>1. CASE k < i
    <3>1. k \in 1 .. i - 1 /\ k <= Len(b) /\ k \in 1 .. Len(b)
      BY <2>1, <1>0
    <3>2. a[k] = b[k] /\ b[k] < a[k] /\ a[k] \in Int
      BY <3>1, <1>0, <1>1, <1>2
    <3>. QED BY <3>2
  <2>2. CASE i < k
    <3>1. i \in 1 .. k - 1 /\ i <= Len(a) /\ i \in 1 .. Len(a)
      BY <2>2, <1>0
    <3>2. a[i] = b[i] /\ a[i] < b[i] /\ a[i] \in Int
      BY <3>1, <1>0, <1>1, <1>2
    <3>. QED BY <3>2
  <2>3. CASE i = k
    <3>1. a[i] < b[i] /\ b[i] < a[i] /\ a[i] \in Int /\ b[i] \in Int
      BY <2>3, <1>0, <1>1, <1>2
    <3>. QED BY <3>1
  <2>4. i \in Int /\ k \in Int
    BY <1>0
  <2>. QED BY <2>1, <2>2, <2>3, <2>4
<1>3. ~Before(b, a)
  BY <1>2 DEF Before
<1>4. a # b
  <2>1. SUFFICES ASSUME a = b PROVE FALSE
    OBVIOUS
  <2>2. i <= Len(a) /\ a[i] < a[i] /\ a[i] \in Int
    BY <2>1, <1>0, <1>1
  <2>. QED BY <2>2
<1>. QED BY <1>3, <1>4

\* The comparison loops of os_collate_ansi_string and os_collate_unicode_string
\* find the order of the strings.
LEMMA LexicalIs ==
  ASSUME NEW a \in Seq(Int), NEW b \in Seq(Int)
  PROVE  Shows(Lexical(a, b), a, b)
<1>0. /\ Len(a) \in Nat /\ Len(b) \in Nat
      /\ \A i \in 1 .. Len(a) : a[i] \in Int
      /\ \A i \in 1 .. Len(b) : b[i] \in Int
  BY ElementOfSeq, LenProperties
<1> DEFINE n == Shorter(a, b)
           at == {i \in 1 .. n : a[i] # b[i]}
           i0 == Differ(a, b, n)
<1>1. n \in Nat /\ n <= Len(a) /\ n <= Len(b) /\ (n = Len(a) \/ n = Len(b))
  BY <1>0 DEF Shorter
<1>2. Lexical(a, b) = IF i0 = 0 THEN Compare(Len(a), Len(b)) ELSE Compare(a[i0], b[i0])
  BY DEF Lexical
<1>3. CASE at = {}
  <2>1. i0 = 0 /\ \A i \in 1 .. n : a[i] = b[i]
    BY <1>3 DEF Differ
  <2>2. Lexical(a, b) = Compare(Len(a), Len(b))
    BY <1>2, <2>1
  <2>. HIDE DEF n, i0
  <2>3. CASE Len(a) = Len(b)
    <3>1. a = b
      BY <2>1, <2>3, <1>1, SeqEqual
    <3>2. ~Before(a, b) /\ ~Before(b, a)
      BY <3>1, BeforeOnce
    <3>. QED BY <3>1, <3>2, <2>2, <2>3, <1>0, CompareIs DEF Shows
  <2>4. CASE Len(a) < Len(b)
    <3>1. PICK i \in 1 .. Len(b) : i = Len(a) + 1
      BY <2>4, <1>0
    <3>2. i <= Len(a) + 1 /\ ~ (i <= Len(a)) /\ \A j \in 1 .. i - 1 : a[j] = b[j]
      BY <3>1, <2>1, <2>4, <1>0, <1>1
    <3>3. Before(a, b)
      BY <3>2 DEF Before
    <3>. QED BY <3>3, <2>2, <2>4, <1>0, CompareIs, BeforeOnce DEF Shows
  <2>5. CASE Len(b) < Len(a)
    <3>1. PICK i \in 1 .. Len(a) : i = Len(b) + 1
      BY <2>5, <1>0
    <3>2. i <= Len(b) + 1 /\ ~ (i <= Len(b)) /\ \A j \in 1 .. i - 1 : b[j] = a[j]
      BY <3>1, <2>1, <2>5, <1>0, <1>1
    <3>3. Before(b, a)
      BY <3>2 DEF Before
    <3>. QED BY <3>3, <2>2, <2>5, <1>0, CompareIs, BeforeOnce DEF Shows
  <2>. QED BY <2>3, <2>4, <2>5, <1>0
<1>4. CASE at # {}
  <2>1. at \subseteq Nat
    BY <1>1
  <2>2. \E i \in at : \A j \in at : i <= j
    <3>. HIDE DEF at
    <3>. QED BY <1>4, <2>1, Smallest
  <2>3. i0 = CHOOSE i \in at : \A j \in at : i <= j
    BY <1>4 DEF Differ
  <2>. HIDE DEF i0
  <2>4. i0 \in at /\ \A j \in at : i0 <= j
    <3>. HIDE DEF at
    <3>. QED BY <2>2, <2>3
  <2>. HIDE DEF n
  <2>5. /\ i0 \in 1 .. n /\ i0 \in 1 .. Len(a) /\ i0 \in 1 .. Len(b) /\ i0 # 0
        /\ a[i0] # b[i0]
    BY <2>4, <1>0, <1>1
  <2>6. \A j \in 1 .. i0 - 1 : a[j] = b[j]
    <3>1. ASSUME NEW j \in 1 .. i0 - 1, a[j] # b[j] PROVE FALSE
      <4>1. j \in 1 .. n
        BY <2>5, <1>1
      <4>2. i0 <= j
        BY <4>1, <3>1, <2>4
      <4>. QED BY <4>2, <2>5, <1>1
    <3>. QED BY <3>1
  <2>7. a[i0] \in Int /\ b[i0] \in Int /\ Lexical(a, b) = Compare(a[i0], b[i0])
    BY <2>5, <1>0, <1>2
  <2>8. CASE a[i0] < b[i0]
    <3>1. Before(a, b)
      BY <2>5, <2>6, <2>8, <1>0 DEF Before
    <3>. QED BY <3>1, <2>7, <2>8, CompareIs, BeforeOnce DEF Shows
  <2>9. CASE b[i0] < a[i0]
    <3>1. i0 <= Len(b) + 1 /\ \A j \in 1 .. i0 - 1 : b[j] = a[j]
      BY <2>5, <2>6, <1>0
    <3>2. Before(b, a)
      BY <3>1, <2>5, <2>9 DEF Before
    <3>. QED BY <3>2, <2>7, <2>9, CompareIs, BeforeOnce DEF Shows
  <2>. QED BY <2>5, <2>7, <2>8, <2>9
<1>. QED BY <1>3, <1>4

\* What comes before something comes before what follows it.
LEMMA BeforeTransitive ==
  ASSUME NEW a \in Seq(Int), NEW b \in Seq(Int), NEW c \in Seq(Int),
         Before(a, b), Before(b, c)
  PROVE  Before(a, c)
<1>0. /\ Len(a) \in Nat /\ Len(b) \in Nat /\ Len(c) \in Nat
      /\ \A i \in 1 .. Len(a) : a[i] \in Int
      /\ \A i \in 1 .. Len(b) : b[i] \in Int
      /\ \A i \in 1 .. Len(c) : c[i] \in Int
  BY ElementOfSeq, LenProperties
<1>1. PICK i \in 1 .. Len(b) : /\ i <= Len(a) + 1
                               /\ \A j \in 1 .. i - 1 : a[j] = b[j]
                               /\ i <= Len(a) => a[i] < b[i]
  BY DEF Before
<1>2. PICK k \in 1 .. Len(c) : /\ k <= Len(b) + 1
                               /\ \A j \in 1 .. k - 1 : b[j] = c[j]
                               /\ k <= Len(b) => b[k] < c[k]
  BY DEF Before
<1>3. CASE i <= k
  <2>1. i \in 1 .. Len(c) /\ i <= Len(a) + 1 /\ i - 1 <= k - 1 /\ i \in Nat /\ k \in Nat
    BY <1>0, <1>1, <1>2, <1>3
  <2>2. \A j \in 1 .. i - 1 : a[j] = c[j]
    BY <2>1, <1>1, <1>2
  <2>3. ASSUME i <= Len(a) PROVE a[i] < c[i]
    <3>1. a[i] < b[i] /\ a[i] \in Int /\ b[i] \in Int /\ c[i] \in Int
      BY <2>1, <2>3, <1>0, <1>1
    <3>2. CASE i = k
      <4>1. b[i] < c[i]
        BY <3>2, <1>1, <1>2
      <4>. QED BY <3>1, <4>1
    <3>3. CASE i < k
      <4>1. b[i] = c[i]
        BY <3>3, <2>1, <1>2
      <4>. QED BY <3>1, <4>1
    <3>. QED BY <3>2, <3>3, <2>1, <1>3
  <2>. QED BY <2>1, <2>2, <2>3 DEF Before
<1>4. CASE k < i
  <2>1. /\ k \in 1 .. Len(a) /\ k \in 1 .. Len(b) /\ k \in 1 .. i - 1
        /\ k - 1 <= i - 1 /\ i \in Nat /\ k \in Nat
    BY <1>0, <1>1, <1>2, <1>4
  <2>2. \A j \in 1 .. k - 1 : a[j] = c[j]
    BY <2>1, <1>1, <1>2
  <2>3. a[k] = b[k] /\ b[k] < c[k]
    BY <2>1, <1>0, <1>1, <1>2
  <2>4. k <= Len(a) + 1 /\ a[k] < c[k]
    BY <2>1, <2>3, <1>0
  <2>. QED BY <2>2, <2>4 DEF Before
<1>. QED BY <1>3, <1>4, <1>0

\* Lexical comparison is a total order.
LEMMA LexicalOrders ==
  ASSUME NEW a \in Seq(Int), NEW b \in Seq(Int), NEW c \in Seq(Int)
  PROVE  /\ Lexical(a, b) \in Signs
         /\ Lexical(a, b) = -Lexical(b, a)
         /\ Lexical(a, b) <= 0 /\ Lexical(b, c) <= 0 => Lexical(a, c) <= 0
<1>1. Shows(Lexical(a, b), a, b) /\ Shows(Lexical(b, a), b, a)
  BY LexicalIs
<1>2. Shows(Lexical(b, c), b, c) /\ Shows(Lexical(a, c), a, c)
  BY LexicalIs
<1>3. Lexical(a, b) \in Signs /\ Lexical(a, b) = -Lexical(b, a)
  BY <1>1 DEF Shows, Signs
<1>4. ASSUME Lexical(a, b) <= 0, Lexical(b, c) <= 0 PROVE Lexical(a, c) <= 0
  <2>1. Before(a, b) \/ a = b
    BY <1>1, <1>4 DEF Shows
  <2>2. Before(b, c) \/ b = c
    BY <1>2, <1>4 DEF Shows
  <2>3. Before(a, c) \/ a = c
    BY <2>1, <2>2, BeforeTransitive
  <2>. QED BY <2>3, <1>2 DEF Shows
<1>. QED BY <1>3, <1>4
-----------------------------------------------------------------------------
(***************************************************************************)
(* Binary keys are big-endian numbers.                                     *)
(***************************************************************************)

\* The number the bytes read so far stand for, highest byte first.
BigReads(b, s) ==
  /\ s \in [0 .. Len(b) -> Nat]
  /\ s[0] = 0
  /\ \A i \in 1 .. Len(b) : s[i] = s[i - 1] * Base + b[i]

\* The bytes of a key.
LEMMA KeyBytes ==
  ASSUME NEW b \in Seq(Byte)
  PROVE  /\ Len(b) \in Nat
         /\ \A i \in 1 .. Len(b) : /\ b[i] \in Byte
                                   /\ b[i] \in Nat
                                   /\ b[i] < Base
                                   /\ i \in Nat
                                   /\ i - 1 \in 0 .. Len(b)
         /\ Base \in Nat /\ Base > 3
<1>1. Len(b) \in Nat /\ \A i \in 1 .. Len(b) : b[i] \in Byte
  BY ElementOfSeq, LenProperties
<1>2. \A i \in 1 .. Len(b) : i \in Nat /\ i - 1 \in 0 .. Len(b)
  BY <1>1
<1>. QED BY <1>1, <1>2, CollateAssumption DEF Byte

\* Reading a key gives its number (the meaning of CR_BINARY, ofs_collate.c).
LEMMA BigReadsIs ==
  ASSUME NEW b \in Seq(Byte)
  PROVE  \E s : BigReads(b, s) /\ Big(b) = s[Len(b)]
<1> DEFINE Eq(s) == s = [i \in 0 .. Len(b) |-> IF i = 0 THEN 0 ELSE s[i - 1] * Base + b[i]]
           byte == [i \in Nat |-> IF i \in 1 .. Len(b) THEN b[i] ELSE 0]
           d == [i \in Nat |-> [v \in Nat |-> v * Base + byte[i]]]
<1>0. Len(b) \in Nat /\ Base \in Nat
  BY KeyBytes
<1>1. byte \in [Nat -> Nat]
  BY KeyBytes
<1>1a. ASSUME NEW i \in 1 .. Len(b) PROVE i \in Nat /\ byte[i] = b[i]
  BY <1>0
<1>. HIDE DEF byte
<1>2. d \in [Nat -> [Nat -> Nat]]
  <2>1. ASSUME NEW i \in Nat, NEW v \in Nat PROVE v * Base + byte[i] \in Nat
    <3>1. v * Base \in Nat /\ byte[i] \in Nat
      BY <1>0, <1>1
    <3>. QED BY <3>1
  <2>. QED BY <2>1
<1>3. PICK g : Solves(g, Nat, 0, d, Len(b))
  <2>. HIDE DEF d
  <2>. QED BY <1>2, <1>0, Recursion
<1>4. ASSUME NEW i \in 1 .. Len(b)
      PROVE  g[i - 1] \in Nat /\ g[i] = g[i - 1] * Base + b[i]
  <2>0. i \in Nat /\ i - 1 \in 0 .. Len(b)
    BY <1>0
  <2>1. g[i - 1] \in Nat /\ i \in Nat /\ g[i] = d[i][g[i - 1]]
    <3>. HIDE DEF d
    <3>. QED BY <2>0, <1>3 DEF Solves
  <2>2. d[i][g[i - 1]] = g[i - 1] * Base + byte[i]
    BY <2>1
  <2>. QED BY <2>1, <2>2, <1>1a
<1>5. BigReads(b, g)
  BY <1>3, <1>4 DEF BigReads, Solves
<1>6. Eq(g)
  <2>1. ASSUME NEW i \in 0 .. Len(b)
        PROVE  g[i] = IF i = 0 THEN 0 ELSE g[i - 1] * Base + b[i]
    <3>1. CASE i = 0
      BY <3>1, <1>5 DEF BigReads
    <3>2. CASE i # 0
      <4>1. i \in 1 .. Len(b)
        BY <3>2, <1>0
      <4>. QED BY <4>1, <3>2, <1>4
    <3>. QED BY <3>1, <3>2
  <2>2. g \in [0 .. Len(b) -> Nat]
    BY <1>5 DEF BigReads
  <2>. QED BY <2>1, <2>2, Zenon
<1>7. ASSUME NEW s, Eq(s) PROVE s[Len(b)] = g[Len(b)]
  <2> DEFINE T == {n \in Nat : n <= Len(b) => s[n] = g[n]}
  <2>0. \A i \in 0 .. Len(b) : s[i] = IF i = 0 THEN 0 ELSE s[i - 1] * Base + b[i]
    BY <1>7, Zenon
  <2>1. 0 \in T
    <3>1. 0 \in 0 .. Len(b)
      BY <1>0
    <3>2. s[0] = 0
      BY <2>0, <3>1, Zenon
    <3>. QED BY <3>2, <1>5 DEF BigReads
  <2>2. ASSUME NEW n \in Nat, n \in T PROVE n + 1 \in T
    <3>1. CASE n + 1 <= Len(b)
      <4>1. n + 1 \in 1 .. Len(b) /\ (n + 1) - 1 = n /\ n + 1 # 0 /\ s[n] = g[n]
        BY <2>2, <3>1, <1>0
      <4>2. n + 1 \in 0 .. Len(b)
        BY <4>1
      <4>3. s[n + 1] = s[(n + 1) - 1] * Base + b[n + 1]
        BY <4>1, <4>2, <2>0, Zenon
      <4>4. g[n + 1] = g[(n + 1) - 1] * Base + b[n + 1]
        BY <4>1, <1>4
      <4>5. s[n + 1] = g[n + 1]
        BY <4>1, <4>3, <4>4
      <4>. QED BY <4>5
    <3>. QED BY <3>1, <1>0
  <2>3. Len(b) \in T
    <3>. HIDE DEF T
    <3>. QED BY <2>1, <2>2, <1>0, Induct
  <2>. QED BY <2>3
<1>8. Big(b) = g[Len(b)]
  <2> DEFINE h == CHOOSE s : Eq(s)
  <2>1. Eq(h)
    BY <1>6
  <2>2. Big(b) = h[Len(b)]
    BY DEF Big
  <2>. QED BY <2>1, <2>2, <1>7
<1>. QED BY <1>5, <1>8

\* A number that is smaller stays smaller, whatever bytes follow.
LEMMA StaysSmaller ==
  ASSUME NEW m \in Nat, NEW n \in Nat, m < n, NEW c \in Byte, NEW d \in Byte
  PROVE  m * Base + c < n * Base + d
<1>1. c \in Nat /\ d \in Nat /\ c < Base /\ Base \in Nat
  BY CollateAssumption DEF Byte
<1>2. (m + 1) * Base <= n * Base /\ m * Base \in Nat /\ n * Base \in Nat
  BY <1>1, Product
<1>3. (m + 1) * Base = m * Base + Base
  BY <1>1
<1>. QED BY <1>1, <1>2, <1>3

\* And to the end of two keys, when as many bytes are left in both.
LEMMA SmallerToTheEnd ==
  ASSUME NEW a \in Seq(Byte), NEW b \in Seq(Byte), NEW r, NEW s,
         BigReads(a, r), BigReads(b, s),
         NEW p \in 0 .. Len(a), NEW q \in 0 .. Len(b),
         r[p] < s[q], Len(a) - p = Len(b) - q
  PROVE  r[Len(a)] < s[Len(b)]
<1> DEFINE T == {n \in Nat : p + n <= Len(a) => r[p + n] < s[q + n]}
<1>0. Len(a) \in Nat /\ Len(b) \in Nat
  BY KeyBytes
<1>1. 0 \in T
  BY <1>0
<1>2. ASSUME NEW n \in Nat, n \in T PROVE n + 1 \in T
  <2>1. CASE p + n + 1 <= Len(a)
    <3>1. /\ p + n + 1 \in 1 .. Len(a) /\ (p + n + 1) - 1 = p + n /\ p + n \in 0 .. Len(a)
          /\ q + n + 1 \in 1 .. Len(b) /\ (q + n + 1) - 1 = q + n /\ q + n \in 0 .. Len(b)
          /\ p + (n + 1) = p + n + 1 /\ q + (n + 1) = q + n + 1
          /\ r[p + n] < s[q + n]
      BY <2>1, <1>0, <1>2
    <3>2. r[p + n] \in Nat /\ s[q + n] \in Nat
      BY <3>1 DEF BigReads
    <3>3. a[p + n + 1] \in Byte /\ b[q + n + 1] \in Byte
      BY <3>1, KeyBytes
    <3>4. r[p + n + 1] = r[p + n] * Base + a[p + n + 1]
      BY <3>1 DEF BigReads
    <3>5. s[q + n + 1] = s[q + n] * Base + b[q + n + 1]
      BY <3>1 DEF BigReads
    <3>6. r[p + n + 1] < s[q + n + 1]
      BY <3>1, <3>2, <3>3, <3>4, <3>5, StaysSmaller
    <3>. QED BY <3>1, <3>6
  <2>. QED BY <2>1, <1>0
<1>3. Len(a) - p \in T
  <2>1. Len(a) - p \in Nat
    BY <1>0
  <2>. HIDE DEF T
  <2>. QED BY <1>1, <1>2, <2>1, Induct
<1>4. p + (Len(a) - p) = Len(a) /\ q + (Len(a) - p) = Len(b)
  BY <1>0
<1>. QED BY <1>3, <1>4, <1>0

\* The k bytes behind place p of a and place q of b.
SameBytes(a, p, b, q, k) == \A j \in 1 .. k : a[p + j] = b[q + j]

\* Equal bytes leave equal numbers equal.
LEMMA EqualSoFar ==
  ASSUME NEW a \in Seq(Byte), NEW b \in Seq(Byte), NEW r, NEW s,
         BigReads(a, r), BigReads(b, s),
         NEW p \in 0 .. Len(a), NEW q \in 0 .. Len(b), r[p] = s[q],
         NEW k \in Nat, p + k <= Len(a), q + k <= Len(b),
         SameBytes(a, p, b, q, k)
  PROVE  r[p + k] = s[q + k]
<1> DEFINE T == {n \in Nat : n <= k => r[p + n] = s[q + n]}
<1>0. Len(a) \in Nat /\ Len(b) \in Nat
  BY KeyBytes
<1>1. 0 \in T
  BY <1>0
<1>2. ASSUME NEW n \in Nat, n \in T PROVE n + 1 \in T
  <2>1. CASE n + 1 <= k
    <3>1. /\ p + n + 1 \in 1 .. Len(a) /\ (p + n + 1) - 1 = p + n
          /\ q + n + 1 \in 1 .. Len(b) /\ (q + n + 1) - 1 = q + n
          /\ p + (n + 1) = p + n + 1 /\ q + (n + 1) = q + n + 1
          /\ n + 1 \in 1 .. k /\ r[p + n] = s[q + n]
      BY <2>1, <1>0, <1>2
    <3>2. a[p + n + 1] = b[q + n + 1]
      <4>1. a[p + (n + 1)] = b[q + (n + 1)]
        BY <3>1, Zenon DEF SameBytes
      <4>. QED BY <4>1, <3>1, Zenon
    <3>3. r[p + n + 1] = r[p + n] * Base + a[p + n + 1]
      BY <3>1 DEF BigReads
    <3>4. s[q + n + 1] = s[q + n] * Base + b[q + n + 1]
      BY <3>1 DEF BigReads
    <3>5. r[p + n + 1] = s[q + n + 1]
      BY <3>1, <3>2, <3>3, <3>4, Zenon
    <3>. QED BY <3>1, <3>5
  <2>. QED BY <2>1
<1>3. k \in T
  <2>. HIDE DEF T
  <2>. QED BY <1>1, <1>2, Induct
<1>. QED BY <1>3

\* A number does not shrink when bytes follow, so one that starts with a byte
\* that is not zero is at least one.
LEMMA NotZero ==
  ASSUME NEW b \in Seq(Byte), NEW s, BigReads(b, s),
         NEW q \in 0 .. Len(b), NEW k \in Nat, k >= 1, q + k <= Len(b), b[q + 1] # 0
  PROVE  s[q + k] >= 1
<1> DEFINE T == {n \in Nat : q + n + 1 <= Len(b) => s[q + n + 1] >= 1}
<1>0. Len(b) \in Nat /\ Base \in Nat /\ Base > 3
  BY KeyBytes
<1>1. ASSUME NEW i \in 1 .. Len(b), s[i - 1] >= 1 \/ b[i] >= 1
      PROVE  s[i] >= 1
  <2>1. s[i - 1] \in Nat /\ b[i] \in Nat /\ s[i] = s[i - 1] * Base + b[i]
    BY KeyBytes DEF BigReads
  <2>2. CASE s[i - 1] >= 1
    <3>1. 1 * Base <= s[i - 1] * Base
      BY <2>1, <2>2, <1>0, Product
    <3>. QED BY <2>1, <3>1, <1>0
  <2>3. CASE b[i] >= 1
    <3>1. s[i - 1] * Base \in Nat
      BY <2>1, <1>0
    <3>. QED BY <2>1, <2>3, <3>1
  <2>. QED BY <1>1, <2>2, <2>3
<1>2. 0 \in T
  <2>1. CASE q + 0 + 1 <= Len(b)
    <3>1. q + 0 + 1 = q + 1 /\ q + 1 \in 1 .. Len(b)
      BY <2>1, <1>0
    <3>2. b[q + 1] >= 1
      BY <3>1, KeyBytes
    <3>. QED BY <3>1, <3>2, <1>1
  <2>. QED BY <2>1, <1>0
<1>3. ASSUME NEW n \in Nat, n \in T PROVE n + 1 \in T
  <2>1. CASE q + (n + 1) + 1 <= Len(b)
    <3>1. PICK i \in 1 .. Len(b) : i = q + (n + 1) + 1
      BY <2>1, <1>0
    <3>2. i - 1 = q + n + 1 /\ q + n + 1 <= Len(b)
      BY <3>1, <1>0
    <3>3. s[i - 1] >= 1
      BY <3>2, <1>3
    <3>4. s[i] >= 1
      BY <3>3, <1>1
    <3>. QED BY <3>1, <3>4
  <2>. QED BY <2>1, <1>0
<1>4. k - 1 \in T
  <2>1. k - 1 \in Nat
    OBVIOUS
  <2>. HIDE DEF T
  <2>. QED BY <1>2, <1>3, <2>1, Induct
<1>5. q + (k - 1) + 1 = q + k
  OBVIOUS
<1>. QED BY <1>4, <1>5

\* z zeros are all a key starts with.
Zeros(b, z) ==
  /\ z \in 0 .. Len(b)
  /\ \A i \in 1 .. z : b[i] = 0
  /\ z < Len(b) => b[z + 1] # 0

\* The loops over leading zeros in os_collate_binary.
LEMMA StrippedIs ==
  ASSUME NEW b \in Seq(Byte)
  PROVE  \E z : /\ Zeros(b, z)
                /\ Stripped(b) = SubSeq(b, z + 1, Len(b))
                /\ Stripped(b) \in Seq(Int)
                /\ Len(Stripped(b)) = Len(b) - z
                /\ \A i \in 1 .. Len(b) - z : Stripped(b)[i] = b[z + i]
<1>0. Len(b) \in Nat /\ \A i \in 1 .. Len(b) : b[i] \in Int
  BY KeyBytes
<1> DEFINE zeros == {n \in 0 .. Len(b) : \A i \in 1 .. n : b[i] = 0}
           Most(n) == \A m \in zeros : m <= n
           back == {Len(b) - n : n \in zeros}
<1>1. 0 \in zeros
  BY <1>0
<1>2. \E n \in zeros : Most(n)
  <2>1. back \subseteq Nat /\ back # {}
    BY <1>0, <1>1
  <2>2. PICK k \in back : \A j \in back : k <= j
    <3>. HIDE DEF back
    <3>. QED BY <2>1, Smallest
  <2>3. PICK n \in zeros : k = Len(b) - n
    BY <2>2
  <2>4. ASSUME NEW m \in zeros PROVE m <= n
    <3>1. Len(b) - m \in back
      OBVIOUS
    <3>2. k <= Len(b) - m
      <4>. HIDE DEF back
      <4>. QED BY <3>1, <2>2
    <3>3. m \in Nat /\ n \in Nat
      OBVIOUS
    <3>. QED BY <3>2, <3>3, <2>3, <1>0
  <2>. QED BY <2>4
<1>3. PICK z \in zeros : Most(z) /\ z = CHOOSE n \in zeros : Most(n)
  <2>. HIDE DEF zeros, Most
  <2>. QED BY <1>2
<1>4. Stripped(b) = SubSeq(b, 1 + z, Len(b))
  BY <1>3 DEF Stripped
<1>5. Zeros(b, z)
  <2>1. z \in 0 .. Len(b) /\ \A i \in 1 .. z : b[i] = 0
    OBVIOUS
  <2>2. ASSUME z < Len(b), b[z + 1] = 0 PROVE FALSE
    <3>1. z + 1 \in 0 .. Len(b) /\ \A i \in 1 .. z + 1 : b[i] = 0
      BY <2>1, <2>2, <1>0
    <3>2. z + 1 <= z
      BY <3>1, <1>3
    <3>. QED BY <3>2, <2>1, <1>0
  <2>. QED BY <2>1, <2>2 DEF Zeros
<1>6. z \in Int /\ 1 + z = z + 1 /\ z + 1 \in Int /\ z <= Len(b) /\ z >= 0
  BY <1>0, <1>5 DEF Zeros
<1>. HIDE DEF zeros
<1>7. \A i \in z + 1 .. Len(b) : b[i] \in Int
  BY <1>0, <1>6
<1>8. /\ SubSeq(b, z + 1, Len(b)) \in Seq(Int)
      /\ Len(SubSeq(b, z + 1, Len(b))) = IF z + 1 <= Len(b) THEN Len(b) - (z + 1) + 1 ELSE 0
      /\ \A i \in 1 .. Len(b) - (z + 1) + 1 : SubSeq(b, z + 1, Len(b))[i] = b[(z + 1) + i - 1]
  BY <1>0, <1>6, <1>7, SubSeqProperties
<1>9. Len(b) - (z + 1) + 1 = Len(b) - z /\ \A i \in Int : (z + 1) + i - 1 = z + i
  BY <1>0, <1>6
<1>10. Len(SubSeq(b, z + 1, Len(b))) = Len(b) - z
  BY <1>0, <1>6, <1>8
<1>11. ASSUME NEW i \in 1 .. Len(b) - z PROVE SubSeq(b, z + 1, Len(b))[i] = b[z + i]
  <2>1. i \in 1 .. Len(b) - (z + 1) + 1 /\ i \in Int
    BY <1>9
  <2>2. SubSeq(b, z + 1, Len(b))[i] = b[(z + 1) + i - 1]
    BY <2>1, <1>8
  <2>. QED BY <2>1, <2>2, <1>9
<1>. QED BY <1>4, <1>5, <1>6, <1>8, <1>10, <1>11

\* Leading zeros add nothing.
LEMMA ZerosRead ==
  ASSUME NEW b \in Seq(Byte), NEW s, BigReads(b, s), NEW z, Zeros(b, z)
  PROVE  z \in 0 .. Len(b) /\ s[z] = 0
<1> DEFINE T == {n \in Nat : n <= z => s[n] = 0}
<1>0. Len(b) \in Nat /\ z \in 0 .. Len(b) /\ z \in Nat /\ Base \in Nat
  BY KeyBytes DEF Zeros
<1>1. 0 \in T
  BY DEF BigReads
<1>2. ASSUME NEW n \in Nat, n \in T PROVE n + 1 \in T
  <2>1. CASE n + 1 <= z
    <3>1. n + 1 \in 1 .. z /\ n + 1 \in 1 .. Len(b) /\ (n + 1) - 1 = n /\ s[n] = 0
      BY <2>1, <1>0, <1>2
    <3>2. s[n + 1] = s[n] * Base + b[n + 1] /\ b[n + 1] = 0
      BY <3>1 DEF BigReads, Zeros
    <3>3. s[n + 1] = 0 * Base + 0
      BY <3>1, <3>2
    <3>. QED BY <3>3, <1>0
  <2>. QED BY <2>1, <1>0
<1>3. z \in T
  <2>. HIDE DEF T
  <2>. QED BY <1>0, <1>1, <1>2, Induct
<1>. QED BY <1>0, <1>3

\* The number of key a is smaller: without their leading zeros it is shorter,
\* or as long and first in order.
LEMMA BinaryLess ==
  ASSUME NEW a \in Seq(Byte), NEW b \in Seq(Byte),
         \/ Len(Stripped(a)) < Len(Stripped(b))
         \/ Len(Stripped(a)) = Len(Stripped(b)) /\ Before(Stripped(a), Stripped(b))
  PROVE  Big(a) < Big(b)
<1>1. PICK r : BigReads(a, r) /\ Big(a) = r[Len(a)]
  BY BigReadsIs
<1>2. PICK s : BigReads(b, s) /\ Big(b) = s[Len(b)]
  BY BigReadsIs
<1>3. PICK u : /\ Zeros(a, u)
               /\ Len(Stripped(a)) = Len(a) - u
               /\ \A i \in 1 .. Len(a) - u : Stripped(a)[i] = a[u + i]
  BY StrippedIs
<1>4. PICK v : /\ Zeros(b, v)
               /\ Len(Stripped(b)) = Len(b) - v
               /\ \A i \in 1 .. Len(b) - v : Stripped(b)[i] = b[v + i]
  BY StrippedIs
<1>5. /\ Len(a) \in Nat /\ u \in 0 .. Len(a) /\ r[u] = 0
      /\ Len(b) \in Nat /\ v \in 0 .. Len(b) /\ s[v] = 0
  BY <1>1, <1>2, <1>3, <1>4, KeyBytes, ZerosRead
<1>6. CASE Len(a) - u < Len(b) - v
  <2>0. (Len(b) - v) - (Len(a) - u) \in Nat /\ (Len(b) - v) - (Len(a) - u) >= 1
    BY <1>5, <1>6
  <2>1. PICK k \in Nat : k >= 1 /\ k = (Len(b) - v) - (Len(a) - u)
    BY <2>0
  <2>2. /\ v + k <= Len(b) /\ v < Len(b) /\ v + k \in 0 .. Len(b)
        /\ Len(a) - u = Len(b) - (v + k)
    BY <1>5, <1>6, <2>1
  <2>3. b[v + 1] # 0
    BY <2>2, <1>4 DEF Zeros
  <2>4. s[v + k] >= 1
    BY <2>1, <2>2, <2>3, <1>2, <1>5, NotZero
  <2>5. s[v + k] \in Nat
    BY <2>2, <1>2 DEF BigReads
  <2>6. r[u] < s[v + k]
    BY <2>4, <2>5, <1>5
  <2>. QED BY <2>2, <2>6, <1>1, <1>2, <1>5, SmallerToTheEnd
<1>7. CASE Len(a) - u = Len(b) - v /\ Before(Stripped(a), Stripped(b))
  <2>1. PICK i \in 1 .. Len(b) - v :
          /\ \A j \in 1 .. i - 1 : Stripped(a)[j] = Stripped(b)[j]
          /\ i <= Len(a) - u => Stripped(a)[i] < Stripped(b)[i]
    BY <1>3, <1>4, <1>7 DEF Before
  <2>2. PICK k \in Nat : k = i - 1
    BY <1>5
  <2>3. /\ k + 1 = i /\ u + k \in 0 .. Len(a) /\ v + k \in 0 .. Len(b)
        /\ u + k + 1 \in 1 .. Len(a) /\ v + k + 1 \in 1 .. Len(b)
        /\ (u + k + 1) - 1 = u + k /\ (v + k + 1) - 1 = v + k
        /\ u + k + 1 = u + i /\ v + k + 1 = v + i
        /\ i \in 1 .. Len(a) - u /\ i <= Len(a) - u
        /\ u + k <= Len(a) /\ v + k <= Len(b)
    BY <1>5, <1>7, <2>1, <2>2
  <2>4. SameBytes(a, u, b, v, k)
    <3>1. ASSUME NEW j \in 1 .. k PROVE a[u + j] = b[v + j]
      <4>1. j \in 1 .. i - 1 /\ j \in 1 .. Len(a) - u /\ j \in 1 .. Len(b) - v
        BY <1>5, <1>7, <2>1, <2>2
      <4>2. Stripped(a)[j] = Stripped(b)[j]
        BY <4>1, <2>1
      <4>3. Stripped(a)[j] = a[u + j] /\ Stripped(b)[j] = b[v + j]
        BY <4>1, <1>3, <1>4
      <4>. QED BY <4>2, <4>3
    <3>. QED BY <3>1 DEF SameBytes
  <2>5. r[u] = s[v]
    BY <1>5
  <2>6. r[u + k] = s[v + k]
    BY <2>3, <2>4, <2>5, <1>1, <1>2, <1>5, EqualSoFar
  <2>7. a[u + k + 1] < b[v + k + 1]
    <3>1. Stripped(a)[i] < Stripped(b)[i]
      BY <2>1, <2>3
    <3>2. Stripped(a)[i] = a[u + i] /\ Stripped(b)[i] = b[v + i]
      BY <2>1, <2>3, <1>3, <1>4
    <3>. QED BY <3>1, <3>2, <2>3
  <2>8. r[u + k + 1] = r[u + k] * Base + a[u + k + 1]
    BY <2>3, <1>1 DEF BigReads
  <2>9. s[v + k + 1] = s[v + k] * Base + b[v + k + 1]
    BY <2>3, <1>2 DEF BigReads
  <2>10. r[u + k + 1] < s[v + k + 1]
    <3>1. a[u + k + 1] \in Nat /\ b[v + k + 1] \in Nat /\ Base \in Nat
      BY <2>3, KeyBytes
    <3>2. PICK m \in Nat : m = r[u + k]
      BY <2>3, <1>1 DEF BigReads
    <3>3. r[u + k + 1] = m * Base + a[u + k + 1] /\ s[v + k + 1] = m * Base + b[v + k + 1]
      BY <2>6, <2>8, <2>9, <3>2
    <3>4. m * Base \in Nat
      BY <3>1
    <3>. QED BY <2>7, <3>1, <3>3, <3>4
  <2>11. /\ u + k + 1 \in 0 .. Len(a) /\ v + k + 1 \in 0 .. Len(b)
         /\ Len(a) - (u + k + 1) = Len(b) - (v + k + 1)
    BY <2>3, <1>5, <1>7
  <2>. QED BY <2>10, <2>11, <1>1, <1>2, SmallerToTheEnd
<1>. QED BY <1>3, <1>4, <1>6, <1>7

\* os_collate_binary compares the numbers, whatever zeros they start with.
LEMMA BinaryIs ==
  ASSUME NEW a \in Seq(Byte), NEW b \in Seq(Byte)
  PROVE  /\ Big(a) \in Nat
         /\ Big(b) \in Nat
         /\ os_collate_binary(a, b) = Compare(Big(a), Big(b))
<1> DEFINE s == Stripped(a)
           t == Stripped(b)
<1>1. s \in Seq(Int) /\ t \in Seq(Int) /\ Len(s) \in Nat /\ Len(t) \in Nat
  BY StrippedIs, LenProperties
<1>2. \A c \in Seq(Byte) : Big(c) \in Nat
  <2>1. ASSUME NEW c \in Seq(Byte) PROVE Big(c) \in Nat
    <3>1. PICK r : BigReads(c, r) /\ Big(c) = r[Len(c)]
      BY BigReadsIs
    <3>2. Len(c) \in 0 .. Len(c)
      BY KeyBytes
    <3>. QED BY <3>1, <3>2 DEF BigReads
  <2>. QED BY <2>1
<1>3. os_collate_binary(a, b)
        = IF Len(s) # Len(t) THEN Compare(Len(s), Len(t)) ELSE Lexical(s, t)
  BY DEF os_collate_binary
<1>4. Len(s) < Len(t) => Big(a) < Big(b)
  BY BinaryLess
<1>5. Len(t) < Len(s) => Big(b) < Big(a)
  BY BinaryLess
<1>6. Len(s) = Len(t) /\ Before(s, t) => Big(a) < Big(b)
  BY BinaryLess
<1>7. Len(s) = Len(t) /\ Before(t, s) => Big(b) < Big(a)
  BY BinaryLess
<1>8. s = t => Big(a) = Big(b)
  <2>0. SUFFICES ASSUME s = t PROVE Big(a) = Big(b)
    OBVIOUS
  <2>1. PICK f : BigReads(a, f) /\ Big(a) = f[Len(a)]
    BY BigReadsIs
  <2>2. PICK g : BigReads(b, g) /\ Big(b) = g[Len(b)]
    BY BigReadsIs
  <2>3. PICK u : /\ Zeros(a, u)
                 /\ Len(s) = Len(a) - u
                 /\ \A i \in 1 .. Len(a) - u : s[i] = a[u + i]
    BY StrippedIs
  <2>4. PICK v : /\ Zeros(b, v)
                 /\ Len(t) = Len(b) - v
                 /\ \A i \in 1 .. Len(b) - v : t[i] = b[v + i]
    BY StrippedIs
  <2>5. /\ Len(a) \in Nat /\ u \in 0 .. Len(a) /\ f[u] = 0
        /\ Len(b) \in Nat /\ v \in 0 .. Len(b) /\ g[v] = 0
    BY <2>1, <2>2, <2>3, <2>4, KeyBytes, ZerosRead
  <2>6. PICK k \in Nat : k = Len(a) - u
    <3>1. Len(a) - u \in Nat
      BY <2>5
    <3>. QED BY <3>1
  <2>11. Len(s) = Len(t)
    BY <2>0
  <2>7. k = Len(b) - v /\ u + k = Len(a) /\ v + k = Len(b)
    <3>1. Len(a) - u = Len(b) - v
      BY <2>11, <2>3, <2>4
    <3>. QED BY <3>1, <2>5, <2>6
  <2>8. SameBytes(a, u, b, v, k)
    BY <2>0, <2>3, <2>4, <2>6, <2>7 DEF SameBytes
  <2>9. f[u] = g[v] /\ u + k <= Len(a) /\ v + k <= Len(b)
    BY <2>5, <2>7
  <2>10. f[u + k] = g[v + k]
    BY <2>1, <2>2, <2>5, <2>8, <2>9, EqualSoFar
  <2>. QED BY <2>1, <2>2, <2>7, <2>10
<1>. HIDE DEF s, t
<1>9. CASE Len(s) # Len(t)
  <2>1. os_collate_binary(a, b) = Compare(Len(s), Len(t))
    BY <1>3, <1>9
  <2>. QED BY <2>1, <1>1, <1>2, <1>4, <1>5, <1>9 DEF Compare
<1>10. CASE Len(s) = Len(t)
  <2>1. os_collate_binary(a, b) = Lexical(s, t) /\ Shows(Lexical(s, t), s, t)
    BY <1>1, <1>3, <1>10, LexicalIs
  <2>. QED BY <2>1, <1>2, <1>6, <1>7, <1>8, <1>10 DEF Compare, Shows
<1>. QED BY <1>2, <1>9, <1>10
-----------------------------------------------------------------------------
(***************************************************************************)
(* Extents.                                                                *)
(***************************************************************************)

\* A stored extent comes back (os_extent_to_extent_pair and
\* os_extent_pair_to_extent in ofs_collate.c).
LEMMA PairTrip ==
  ASSUME NEW m \in 0 .. Pow[Width] - 1, NEW n \in 0 .. Pow[Width] - 1, n # 0
  PROVE  /\ os_extent_to_extent_pair(m, n) # <<>>
         /\ os_extent_pair_to_extent(os_extent_to_extent_pair(m, n)) = [pa |-> m, len |-> n]
<1>1. PICK w : w = os_u64_size(m)
  OBVIOUS
<1>2. PICK a : a = os_u64_to_bstr(m)
  OBVIOUS
<1>3. PICK b : b = os_u64_to_bstr(n)
  OBVIOUS
<1>4. /\ w \in Nat /\ w >= 1 /\ Len(a) = w /\ a \in Seq(Nat)
      /\ Len(b) \in Nat /\ Len(b) >= 1 /\ b \in Seq(Nat)
      /\ os_bstr_to_u64(a) = m /\ os_bstr_to_u64(b) = n
  <2>1. a \in Seq(Byte) /\ b \in Seq(Byte)
    BY <1>2, <1>3, BstrIs DEF Strs
  <2>2. Byte \subseteq Nat
    BY CollateAssumption DEF Byte
  <2>3. a \in Seq(Nat) /\ b \in Seq(Nat)
    BY <2>1, <2>2, SeqMonotonic
  <2>. QED BY <2>3, <1>1, <1>2, <1>3, BstrIs, RoundTrip, CollateAssumption
<1>5. PICK h : h = <<w>>
  OBVIOUS
<1>6. h \in Seq(Nat) /\ Len(h) = 1 /\ h[1] = w
  BY <1>4, <1>5
<1>7. PICK f : f = h \o a
  OBVIOUS
<1>8. /\ f \in Seq(Nat) /\ Len(f) = 1 + w
      /\ \A i \in 1 .. 1 + w : f[i] = IF i <= 1 THEN h[i] ELSE a[i - 1]
  <2>1. /\ h \o a \in Seq(Nat) /\ Len(h \o a) = Len(h) + Len(a)
        /\ \A i \in 1 .. Len(h) + Len(a) :
             (h \o a)[i] = IF i <= Len(h) THEN h[i] ELSE a[i - Len(h)]
    BY <1>4, <1>6, ConcatProperties
  <2>2. Len(h) = 1 /\ Len(a) = w
    BY <1>4, <1>6
  <2>. QED BY <2>1, <2>2, <1>7
<1>9. PICK p : p = f \o b
  OBVIOUS
<1>10. /\ p \in Seq(Nat) /\ Len(p) = 1 + w + Len(b)
       /\ \A i \in 1 .. 1 + w + Len(b) : p[i] = IF i <= 1 + w THEN f[i] ELSE b[i - (1 + w)]
  <2>1. /\ f \o b \in Seq(Nat) /\ Len(f \o b) = Len(f) + Len(b)
        /\ \A i \in 1 .. Len(f) + Len(b) :
             (f \o b)[i] = IF i <= Len(f) THEN f[i] ELSE b[i - Len(f)]
    <3>1. f \in Seq(Nat) /\ b \in Seq(Nat)
      BY <1>4, <1>8
    <3>. QED BY ONLY <3>1, ConcatProperties
  <2>. QED BY <2>1, <1>8, <1>9
<1>11. os_extent_to_extent_pair(m, n) = p
  BY <1>1, <1>2, <1>3, <1>5, <1>7, <1>9 DEF os_extent_to_extent_pair
<1>12. p[1] = w /\ ~ (Len(p) <= p[1] + 1) /\ p # <<>>
  <2>1. 1 \in 1 .. 1 + w + Len(b) /\ 1 \in 1 .. 1 + w /\ 1 <= 1 + w
    BY <1>4
  <2>2. p[1] = f[1] /\ f[1] = h[1]
    BY <2>1, <1>8, <1>10
  <2>3. Len(p) # 0
    BY <1>4, <1>10
  <2>. QED BY <2>2, <2>3, <1>4, <1>6, <1>10
<1>13. \A i \in 1 .. Len(p) : p[i] \in Nat
  BY <1>10, ElementOfSeq
<1>14. SubSeq(p, 2, w + 1) = a
  <2>1. \A i \in 2 .. w + 1 : p[i] \in Nat
    BY <1>13, <1>10, <1>4
  <2>2. /\ SubSeq(p, 2, w + 1) \in Seq(Nat)
        /\ Len(SubSeq(p, 2, w + 1)) = w
        /\ \A i \in 1 .. w + 1 - 2 + 1 : SubSeq(p, 2, w + 1)[i] = p[2 + i - 1]
    BY <2>1, <1>4, SubSeqProperties
  <2>3. ASSUME NEW i \in 1 .. w PROVE SubSeq(p, 2, w + 1)[i] = a[i]
    <3>1. i \in 1 .. w + 1 - 2 + 1 /\ 2 + i - 1 = i + 1 /\ i + 1 \in 1 .. 1 + w
          /\ (i + 1) - 1 = i /\ i + 1 \in 1 .. 1 + w + Len(b)
      BY <1>4
    <3>2. p[i + 1] = a[i]
      BY <3>1, <1>4, <1>8, <1>10
    <3>. QED BY <3>1, <3>2, <2>2
  <2>. QED BY <2>2, <2>3, <1>4, SeqEqual
<1>15. SubSeq(p, w + 2, Len(p)) = b
  <2>1. \A i \in w + 2 .. Len(p) : p[i] \in Nat
    BY <1>13, <1>10, <1>4
  <2>2. /\ SubSeq(p, w + 2, Len(p)) \in Seq(Nat)
        /\ Len(SubSeq(p, w + 2, Len(p))) = Len(b)
        /\ \A i \in 1 .. Len(p) - (w + 2) + 1 : SubSeq(p, w + 2, Len(p))[i] = p[w + 2 + i - 1]
    BY <2>1, <1>4, <1>10, SubSeqProperties
  <2>3. ASSUME NEW i \in 1 .. Len(b) PROVE SubSeq(p, w + 2, Len(p))[i] = b[i]
    <3>1. i \in 1 .. Len(p) - (w + 2) + 1 /\ w + 2 + i - 1 = 1 + w + i
          /\ 1 + w + i \in 1 .. 1 + w + Len(b) /\ (1 + w + i) - (1 + w) = i
          /\ ~ (1 + w + i <= 1 + w)
      BY <1>4, <1>10
    <3>2. p[1 + w + i] = b[i]
      BY <3>1, <1>10
    <3>. QED BY <3>1, <3>2, <2>2
  <2>. QED BY <2>2, <2>3, <1>4, SeqEqual
<1>16. os_extent_pair_to_extent(p)
         = [pa |-> os_bstr_to_u64(SubSeq(p, 2, p[1] + 1)),
            len |-> os_bstr_to_u64(SubSeq(p, p[1] + 2, Len(p)))]
  BY <1>12 DEF os_extent_pair_to_extent
<1>17. os_extent_pair_to_extent(p) = [pa |-> os_bstr_to_u64(a), len |-> os_bstr_to_u64(b)]
  BY <1>12, <1>14, <1>15, <1>16
<1>. QED BY <1>4, <1>11, <1>12, <1>17

\* Ranges that end below the largest number do not wrap.
LEMMA RangesIs ==
  ASSUME NEW m \in Nat, NEW k \in Nat, NEW n \in Nat, NEW l \in Nat,
         m + k < Pow[Width], n + l < Pow[Width]
  PROVE  Ranges(m, k, n, l) = IF m >= n + l THEN 1 ELSE IF m + k <= n THEN -1 ELSE 0
<1>1. Pow[Width] \in Nat /\ Pow[Width] >= 1
  BY PowGrows, CollateAssumption
<1>2. ASSUME NEW x \in Nat, x < Pow[Width] PROVE x = x % Pow[Width]
  <2>1. x = Pow[Width] * 0 + x /\ x \in 0 .. Pow[Width] - 1
    BY <1>1, <1>2
  <2>. QED BY <2>1, <1>1, OneQuotient
<1>3. (m + k) % Pow[Width] = m + k /\ (n + l) % Pow[Width] = n + l
  BY <1>2
<1>. QED BY <1>3 DEF Ranges

\* x is the entry of an extent of length n at address a.
Extent(x, a, n) ==
  /\ a \in 0 .. MaxAddr
  /\ n \in 0 .. MaxExtent
  /\ a + n < Pow[Width]
  /\ x.key \in Strs
  /\ os_bstr_to_u64(x.key) = a
  /\ x.value = <<>> <=> n = 0

\* Addresses and lengths are numbers.
LEMMA SmallNumbers ==
  /\ \A a \in 0 .. MaxAddr, n \in 0 .. MaxExtent : a \in Nat /\ n \in Nat /\ a + n < Pow[Width]
  /\ \A a \in 0 .. MaxAddr : a \in 0 .. Pow[Width] - 1
  /\ \A n \in 0 .. MaxExtent : n \in 0 .. Pow[Width] - 1
<1>1. Pow[Width] \in Nat /\ MaxAddr \in Nat /\ MaxExtent \in Nat
      /\ MaxAddr + MaxExtent < Pow[Width]
  BY PowGrows, CollateAssumption
<1>. QED BY <1>1

\* The entries a tree of extents or a search of it may hold.
LEMMA ExtentEntry ==
  ASSUME NEW x \in Extents
  PROVE  \E a, n : /\ Extent(x, a, n)
                   /\ x.value # <<>> => os_bstr_to_u64(x.value) = n
<1>1. PICK a \in 0 .. MaxAddr : \E n \in 0 .. MaxExtent :
        x = [key |-> os_u64_to_bstr(a), value |-> IF n = 0 THEN <<>> ELSE os_u64_to_bstr(n)]
  BY DEF Extents
<1>2. PICK n \in 0 .. MaxExtent :
        x = [key |-> os_u64_to_bstr(a), value |-> IF n = 0 THEN <<>> ELSE os_u64_to_bstr(n)]
  BY <1>1
<1>3. x.key = os_u64_to_bstr(a) /\ x.value = IF n = 0 THEN <<>> ELSE os_u64_to_bstr(n)
  BY <1>2
<1>4. a \in 0 .. Pow[Width] - 1 /\ n \in 0 .. Pow[Width] - 1 /\ a + n < Pow[Width]
  BY SmallNumbers
<1>5. /\ os_u64_to_bstr(a) \in Strs /\ os_bstr_to_u64(os_u64_to_bstr(a)) = a
      /\ os_u64_to_bstr(n) # <<>> /\ os_bstr_to_u64(os_u64_to_bstr(n)) = n
  BY <1>4, BstrIs, RoundTrip
<1>6. x.value = <<>> <=> n = 0
  BY <1>3, <1>5
<1>7. Extent(x, a, n)
  BY <1>3, <1>4, <1>5, <1>6 DEF Extent
<1>. QED BY <1>3, <1>5, <1>6, <1>7

\* x maps the extent of length n at a of a file to p on the disk.
MapEntry(x, a, n, p) ==
  /\ Extent(x, a, n)
  /\ p \in 0 .. MaxAddr
  /\ x.value # <<>> => os_extent_pair_to_extent(x.value) = [pa |-> p, len |-> n]

\* The entries of a tree of mapped extents.
LEMMA MappedEntry ==
  ASSUME NEW x \in Mapped
  PROVE  \E a, n, p : MapEntry(x, a, n, p)
<1>0. MaxAddr \in Nat /\ {0, MaxAddr} \subseteq 0 .. MaxAddr
  BY CollateAssumption
<1>1. PICK a \in 0 .. MaxAddr : \E p \in {0, MaxAddr}, n \in 0 .. MaxExtent :
        x = [key |-> os_u64_to_bstr(a), value |-> os_extent_to_extent_pair(p, n)]
  BY DEF Mapped
<1>2. PICK p \in {0, MaxAddr} : \E n \in 0 .. MaxExtent :
        x = [key |-> os_u64_to_bstr(a), value |-> os_extent_to_extent_pair(p, n)]
  BY <1>1
<1>3. PICK n \in 0 .. MaxExtent :
        x = [key |-> os_u64_to_bstr(a), value |-> os_extent_to_extent_pair(p, n)]
  BY <1>2
<1>4. x.key = os_u64_to_bstr(a) /\ x.value = os_extent_to_extent_pair(p, n)
  BY <1>3
<1>5. p \in 0 .. MaxAddr
  BY <1>0
<1>6. /\ a \in 0 .. Pow[Width] - 1 /\ p \in 0 .. Pow[Width] - 1
      /\ n \in 0 .. Pow[Width] - 1 /\ a + n < Pow[Width]
  BY <1>5, SmallNumbers
<1>7. os_u64_to_bstr(a) \in Strs /\ os_bstr_to_u64(os_u64_to_bstr(a)) = a
  BY <1>6, BstrIs, RoundTrip
<1>8. n # 0 => /\ os_extent_to_extent_pair(p, n) # <<>>
               /\ os_extent_pair_to_extent(os_extent_to_extent_pair(p, n)) = [pa |-> p, len |-> n]
  BY <1>6, PairTrip
<1>9. n = 0 => os_extent_to_extent_pair(p, n) = <<>>
  BY DEF os_extent_to_extent_pair
<1>10. x.value = <<>> <=> n = 0
  BY <1>4, <1>8, <1>9
<1>11. Extent(x, a, n)
  BY <1>4, <1>6, <1>7, <1>10 DEF Extent
<1>12. MapEntry(x, a, n, p)
  BY <1>4, <1>5, <1>8, <1>10, <1>11 DEF MapEntry
<1>. QED BY <1>12
-----------------------------------------------------------------------------
(***************************************************************************)
(* The rules.                                                              *)
(***************************************************************************)

\* The entries compared are of one rule's tree.
CollateInv == entries = NoEntries \/ \E cr \in Rules : entries \in Triples(cr)

\* A key without a value.
LEMMA PlainEntry ==
  ASSUME NEW x \in Plain
  PROVE  /\ x.key \in Seq(Byte)
         /\ x.key \in Strs
         /\ Len(x.key) \in 1 .. Width
         /\ x.value = <<>>
<1>1. x.key \in BStr /\ x.value = <<>>
  BY DEF Plain
<1>2. PICK n \in 1 .. Width : x.key \in [1 .. n -> Byte]
  BY <1>1 DEF BStr
<1>3. n \in Nat /\ n <= Width
  BY CollateAssumption
<1>4. x.key \in Seq(Byte) /\ Len(x.key) = n
  BY <1>2, <1>3
<1>. QED BY <1>1, <1>2, <1>3, <1>4 DEF Strs

\* The strings the two rules for names compare (toupper, conversion to char).
Upper(s) == [i \in DOMAIN s |-> os_to_upper(s[i])]
UpperSigned(s) == [i \in DOMAIN s |-> Signed(os_to_upper(s[i]))]

\* They are strings of numbers.
LEMMA Uppers ==
  ASSUME NEW b \in Seq(Byte)
  PROVE  Upper(b) \in Seq(Int) /\ UpperSigned(b) \in Seq(Int)
<1>1. Len(b) \in Nat /\ DOMAIN b = 1 .. Len(b) /\ \A i \in 1 .. Len(b) : b[i] \in Nat
  BY KeyBytes, LenProperties
<1>2. Base \in Nat
  BY CollateAssumption
<1>3. ASSUME NEW i \in 1 .. Len(b)
      PROVE  os_to_upper(b[i]) \in Int /\ Signed(os_to_upper(b[i])) \in Int
  <2>1. os_to_upper(b[i]) \in Int
    BY <1>1 DEF os_to_upper
  <2>. QED BY <2>1, <1>2 DEF Signed
<1>4. Upper(b) \in [1 .. Len(b) -> Int] /\ UpperSigned(b) \in [1 .. Len(b) -> Int]
  BY <1>1, <1>3 DEF Upper, UpperSigned
<1>5. ASSUME NEW f \in [1 .. Len(b) -> Int] PROVE f \in Seq(Int)
  BY <1>1
<1>. QED BY <1>4, <1>5

\* Exchanging the operands reverses the result f of a comparison, and what is
\* not larger than something is not larger than what that is not larger than.
Orders(xy, yx, yz, xz) ==
  /\ xy = -yx
  /\ xy <= 0 /\ yz <= 0 => xz <= 0

\* Names and numbers are in one order (the four rules for keys without values).
LEMMA PlainOrders ==
  ASSUME NEW cr \in Rules \ {"CR_EXTENT", "CR_EXTENT_MAP"},
         NEW x \in Plain, NEW y \in Plain, NEW z \in Plain
  PROVE  Orders(collate_key(cr, x, y), collate_key(cr, y, x),
                collate_key(cr, y, z), collate_key(cr, x, z))
<1>1. /\ x.key \in Seq(Byte) /\ y.key \in Seq(Byte) /\ z.key \in Seq(Byte)
      /\ x.key \in Strs /\ y.key \in Strs /\ z.key \in Strs
  BY PlainEntry
<1>2. ASSUME NEW a \in Nat, NEW b \in Nat, NEW c \in Nat
      PROVE  Orders(Compare(a, b), Compare(b, a), Compare(b, c), Compare(a, c))
  <2>1. Compare(a, b) = -Compare(b, a)
    BY CompareIs
  <2>2. /\ Compare(a, b) <= 0 <=> a <= b
        /\ Compare(b, c) <= 0 <=> b <= c
        /\ Compare(a, c) <= 0 <=> a <= c
    BY CompareIs
  <2>. QED BY <2>1, <2>2 DEF Orders
<1>3. CASE cr = "CR_BINARY"
  <2>1. \A u, v : collate_key(cr, u, v) = os_collate_binary(u.key, v.key)
    BY <1>3 DEF collate_key
  <2>2. Big(x.key) \in Nat /\ Big(y.key) \in Nat /\ Big(z.key) \in Nat
    BY <1>1, BinaryIs
  <2>3. /\ os_collate_binary(x.key, y.key) = Compare(Big(x.key), Big(y.key))
        /\ os_collate_binary(y.key, x.key) = Compare(Big(y.key), Big(x.key))
        /\ os_collate_binary(y.key, z.key) = Compare(Big(y.key), Big(z.key))
        /\ os_collate_binary(x.key, z.key) = Compare(Big(x.key), Big(z.key))
    BY <1>1, BinaryIs
  <2>. QED BY <2>1, <2>2, <2>3, <1>2
<1>4. CASE cr = "CR_ANSI_STRING"
  <2>1. \A u, v : collate_key(cr, u, v) = Lexical(UpperSigned(u.key), UpperSigned(v.key))
    BY <1>4 DEF collate_key, os_collate_ansi_string, UpperSigned
  <2>2. /\ UpperSigned(x.key) \in Seq(Int) /\ UpperSigned(y.key) \in Seq(Int)
        /\ UpperSigned(z.key) \in Seq(Int)
    BY <1>1, Uppers
  <2>. QED BY <2>1, <2>2, LexicalOrders DEF Orders
<1>5. CASE cr = "CR_UNICODE_STRING"
  <2>1. \A u, v : collate_key(cr, u, v) = Lexical(Upper(u.key), Upper(v.key))
    BY <1>5 DEF collate_key, os_collate_unicode_string, Upper
  <2>2. Upper(x.key) \in Seq(Int) /\ Upper(y.key) \in Seq(Int) /\ Upper(z.key) \in Seq(Int)
    BY <1>1, Uppers
  <2>. QED BY <2>1, <2>2, LexicalOrders DEF Orders
<1>6. CASE cr = "CR_U64"
  <2>1. \A u, v : collate_key(cr, u, v)
                    = Compare(os_bstr_to_u64(u.key), os_bstr_to_u64(v.key))
    BY <1>6 DEF collate_key, os_collate_u64
  <2>2. /\ os_bstr_to_u64(x.key) \in Nat /\ os_bstr_to_u64(y.key) \in Nat
        /\ os_bstr_to_u64(z.key) \in Nat
    BY <1>1, U64Below
  <2>. QED BY <2>1, <2>2, <1>2
<1>. QED BY <1>3, <1>4, <1>5, <1>6 DEF Rules

\* What os_collate_extent returns for two extents m .. m + k - 1 and n .. n + l - 1.
Places(r, m, k, n, l) ==
  IF k = 0 \/ l = 0 THEN r = Compare(m, n)
  ELSE r = IF m >= n + l THEN 1 ELSE IF m + k <= n THEN -1 ELSE 0

\* os_collate_extent tells extents by their addresses.
LEMMA ExtentIs ==
  ASSUME NEW x, NEW y, NEW m, NEW k, NEW n, NEW l,
         Extent(x, m, k), x.value # <<>> => os_bstr_to_u64(x.value) = k,
         Extent(y, n, l), y.value # <<>> => os_bstr_to_u64(y.value) = l
  PROVE  Places(collate_key("CR_EXTENT", x, y), m, k, n, l)
<1>1. collate_key("CR_EXTENT", x, y) = os_collate_extent(x, y)
  BY DEF collate_key
<1>2. /\ m \in Nat /\ k \in Nat /\ n \in Nat /\ l \in Nat
      /\ m + k < Pow[Width] /\ n + l < Pow[Width]
      /\ os_bstr_to_u64(x.key) = m /\ os_bstr_to_u64(y.key) = n
      /\ x.value = <<>> <=> k = 0
      /\ y.value = <<>> <=> l = 0
  BY SmallNumbers DEF Extent
<1>3. CASE k = 0 \/ l = 0
  <2>1. os_collate_extent(x, y) = Compare(m, n)
    BY <1>2, <1>3 DEF os_collate_extent, os_collate_u64
  <2>. QED BY <1>1, <1>3, <2>1 DEF Places
<1>4. CASE ~ (k = 0 \/ l = 0)
  <2>1. os_collate_extent(x, y) = Ranges(m, k, n, l)
    BY <1>2, <1>4 DEF os_collate_extent
  <2>. QED BY <1>1, <1>2, <1>4, <2>1, RangesIs DEF Places
<1>. QED BY <1>3, <1>4

\* What os_collate_extent_map returns for m .. m + k - 1 at p and n .. n + l - 1 at q.
MapPlaces(r, m, k, n, l, p, q) ==
  IF k = 0 \/ l = 0 THEN r = Compare(m, n)
  ELSE IF m >= n + l THEN r = 1
  ELSE IF m + k <= n THEN r = -1
  ELSE Places(r, p, k, q, l)

\* os_collate_extent_map looks at the addresses on the disk only where the
\* extents of the file overlap.
LEMMA ExtentMapIs ==
  ASSUME NEW x, NEW y, NEW m, NEW k, NEW n, NEW l, NEW p, NEW q,
         MapEntry(x, m, k, p), MapEntry(y, n, l, q)
  PROVE  MapPlaces(collate_key("CR_EXTENT_MAP", x, y), m, k, n, l, p, q)
<1>1. collate_key("CR_EXTENT_MAP", x, y) = os_collate_extent_map(x, y)
  BY DEF collate_key
<1>2. /\ m \in Nat /\ k \in Nat /\ n \in Nat /\ l \in Nat /\ p \in Nat /\ q \in Nat
      /\ m + k < Pow[Width] /\ n + l < Pow[Width]
      /\ p + k < Pow[Width] /\ q + l < Pow[Width]
      /\ os_bstr_to_u64(x.key) = m /\ os_bstr_to_u64(y.key) = n
      /\ x.value = <<>> <=> k = 0
      /\ y.value = <<>> <=> l = 0
  BY SmallNumbers DEF Extent, MapEntry
<1>3. CASE k = 0 \/ l = 0
  <2>1. os_collate_extent_map(x, y) = Compare(m, n)
    BY <1>2, <1>3 DEF os_collate_extent_map, os_collate_u64
  <2>. QED BY <1>1, <1>3, <2>1 DEF MapPlaces
<1>4. CASE ~ (k = 0 \/ l = 0)
  <2>1. /\ os_extent_pair_to_extent(x.value).pa = p /\ os_extent_pair_to_extent(x.value).len = k
        /\ os_extent_pair_to_extent(y.value).pa = q /\ os_extent_pair_to_extent(y.value).len = l
    BY <1>2, <1>4 DEF MapEntry
  <2>2. os_collate_extent_map(x, y)
          = IF Ranges(m, k, n, l) # 0 THEN Ranges(m, k, n, l) ELSE Ranges(p, k, q, l)
    BY <1>2, <1>4, <2>1 DEF os_collate_extent_map
  <2>0. /\ m \in Nat /\ k \in Nat /\ n \in Nat /\ l \in Nat /\ p \in Nat /\ q \in Nat
        /\ m + k < Pow[Width] /\ n + l < Pow[Width] /\ p + k < Pow[Width] /\ q + l < Pow[Width]
    BY <1>2
  <2>3. Ranges(m, k, n, l) = IF m >= n + l THEN 1 ELSE IF m + k <= n THEN -1 ELSE 0
    BY ONLY <2>0, RangesIs
  <2>4. Ranges(p, k, q, l) = IF p >= q + l THEN 1 ELSE IF p + k <= q THEN -1 ELSE 0
    BY ONLY <2>0, RangesIs
  <2>. QED BY <1>1, <1>2, <1>4, <2>2, <2>3, <2>4 DEF Places, MapPlaces
<1>. QED BY <1>3, <1>4

\* The triple that is compared, and its rule.
LEMMA TripleIs ==
  ASSUME CollateInv, Collating
  PROVE  /\ entries.cr \in Rules
         /\ entries.x \in Samples(entries.cr)
         /\ entries.y \in Samples(entries.cr)
         /\ entries.z \in Samples(entries.cr)
<1>1. PICK cr \in Rules : entries \in Triples(cr)
  BY DEF CollateInv, Collating
<1>2. entries.cr = cr
  BY <1>1 DEF Triples
<1>. QED BY <1>1, <1>2 DEF Triples

\* The numbers of two extents, with the result r of comparing them and the
\* result s of comparing them the other way round.
LEMMA PlacesReversed ==
  ASSUME NEW m \in Nat, NEW k \in Nat, NEW n \in Nat, NEW l \in Nat, NEW r, NEW s,
         Places(r, m, k, n, l), Places(s, n, l, m, k)
  PROVE  r = -s
<1>1. CASE k = 0 \/ l = 0
  <2>1. r = Compare(m, n) /\ s = Compare(n, m)
    BY <1>1 DEF Places
  <2>. QED BY <2>1, CompareIs
<1>2. CASE ~ (k = 0 \/ l = 0)
  <2>1. /\ r = IF m >= n + l THEN 1 ELSE IF m + k <= n THEN -1 ELSE 0
        /\ s = IF n >= m + k THEN 1 ELSE IF n + l <= m THEN -1 ELSE 0
    BY <1>2 DEF Places
  <2>. QED BY <2>1, <1>2
<1>. QED BY <1>1, <1>2

\* The length an extent has for the property is the one it was stored with.
LEMMA LengthIs ==
  ASSUME NEW x, NEW a, NEW n, Extent(x, a, n),
         \/ /\ entries.cr = "CR_EXTENT"
            /\ x.value # <<>> => os_bstr_to_u64(x.value) = n
         \/ entries.cr = "CR_EXTENT_MAP" /\ \E p : MapEntry(x, a, n, p)
  PROVE  Num(x) = a /\ Length(x) = n /\ a \in Nat /\ n \in Nat
<1>1. a \in Nat /\ n \in Nat /\ os_bstr_to_u64(x.key) = a /\ (x.value = <<>> <=> n = 0)
  BY SmallNumbers DEF Extent
<1>2. CASE x.value = <<>>
  BY <1>1, <1>2 DEF Num, Length
<1>3. CASE x.value # <<>> /\ entries.cr = "CR_EXTENT"
  BY <1>1, <1>3 DEF Num, Length
<1>4. CASE x.value # <<>> /\ entries.cr = "CR_EXTENT_MAP"
  <2>1. PICK p : os_extent_pair_to_extent(x.value) = [pa |-> p, len |-> n]
    BY <1>4 DEF MapEntry
  <2>2. os_extent_pair_to_extent(x.value).len = n
    BY <2>1
  <2>. QED BY <1>1, <1>4, <2>2 DEF Num, Length
<1>. QED BY <1>2, <1>3, <1>4

\* In a tree of extents that do not overlap.
LEMMA ExtentOrders ==
  ASSUME NEW m \in Nat, NEW k \in Nat, NEW n \in Nat, NEW l \in Nat, NEW u \in Nat, NEW v \in Nat,
         NEW xy, NEW yz, NEW xz,
         k > 0, l > 0, v > 0,
         xy = IF m >= n + l THEN 1 ELSE IF m + k <= n THEN -1 ELSE 0,
         yz = IF n >= u + v THEN 1 ELSE IF n + l <= u THEN -1 ELSE 0,
         xz = IF m >= u + v THEN 1 ELSE IF m + k <= u THEN -1 ELSE 0,
         m + k <= n \/ n + l <= m,
         n + l <= u \/ u + v <= n,
         xy <= 0, yz <= 0
  PROVE  xz <= 0
OBVIOUS

\* Every rule is an order on what a tree may hold (ofs_collate.c).
LEMMA InvOrders ==
  ASSUME CollateInv
  PROVE  CollateOrders
<1>0. SUFFICES ASSUME Collating PROVE CollateOrders
  BY DEF CollateOrders
<1>1. PICK cr : cr = entries.cr
  OBVIOUS
<1>2. PICK x : x = entries.x
  OBVIOUS
<1>3. PICK y : y = entries.y
  OBVIOUS
<1>4. PICK z : z = entries.z
  OBVIOUS
<1>5. cr \in Rules /\ x \in Samples(cr) /\ y \in Samples(cr) /\ z \in Samples(cr)
  BY <1>0, <1>1, <1>2, <1>3, <1>4, TripleIs
<1> DEFINE Ordered == \/ cr \notin {"CR_EXTENT", "CR_EXTENT_MAP"}
                      \/ Apart(x, y) /\ Apart(y, z) /\ Apart(x, z)
<1>6. SUFFICES /\ collate_key(cr, x, y) = -collate_key(cr, y, x)
               /\ Ordered /\ collate_key(cr, x, y) <= 0 /\ collate_key(cr, y, z) <= 0
                    => collate_key(cr, x, z) <= 0
  BY <1>0, <1>1, <1>2, <1>3, <1>4 DEF CollateOrders, Le
<1>7. CASE cr \notin {"CR_EXTENT", "CR_EXTENT_MAP"}
  <2>1. x \in Plain /\ y \in Plain /\ z \in Plain
    BY <1>5, <1>7 DEF Samples
  <2>2. Orders(collate_key(cr, x, y), collate_key(cr, y, x),
               collate_key(cr, y, z), collate_key(cr, x, z))
    BY <1>5, <1>7, <2>1, PlainOrders
  <2>. QED BY <2>2 DEF Orders
<1>8. CASE cr = "CR_EXTENT"
  <2>1. x \in Extents /\ y \in Extents /\ z \in Extents
    BY <1>5, <1>8 DEF Samples
  <2>2. PICK m, k : Extent(x, m, k) /\ (x.value # <<>> => os_bstr_to_u64(x.value) = k)
    BY <2>1, ExtentEntry
  <2>3. PICK n, l : Extent(y, n, l) /\ (y.value # <<>> => os_bstr_to_u64(y.value) = l)
    BY <2>1, ExtentEntry
  <2>4. PICK u, v : Extent(z, u, v) /\ (z.value # <<>> => os_bstr_to_u64(z.value) = v)
    BY <2>1, ExtentEntry
  <2>5. /\ Num(x) = m /\ Length(x) = k /\ m \in Nat /\ k \in Nat
        /\ Num(y) = n /\ Length(y) = l /\ n \in Nat /\ l \in Nat
        /\ Num(z) = u /\ Length(z) = v /\ u \in Nat /\ v \in Nat
    BY <1>1, <1>8, <2>2, <2>3, <2>4, LengthIs
  <2>6. /\ Places(collate_key(cr, x, y), m, k, n, l)
        /\ Places(collate_key(cr, y, x), n, l, m, k)
        /\ Places(collate_key(cr, y, z), n, l, u, v)
        /\ Places(collate_key(cr, x, z), m, k, u, v)
    BY <1>8, <2>2, <2>3, <2>4, ExtentIs
  <2>7. collate_key(cr, x, y) = -collate_key(cr, y, x)
    BY <2>5, <2>6, PlacesReversed
  <2>8. ASSUME Ordered, collate_key(cr, x, y) <= 0, collate_key(cr, y, z) <= 0
        PROVE  collate_key(cr, x, z) <= 0
    <3>1. /\ k > 0 /\ l > 0 /\ v > 0
          /\ m + k <= n \/ n + l <= m
          /\ n + l <= u \/ u + v <= n
      BY <1>8, <2>5, <2>8 DEF Apart
    <3>2. /\ collate_key(cr, x, y) = IF m >= n + l THEN 1 ELSE IF m + k <= n THEN -1 ELSE 0
          /\ collate_key(cr, y, z) = IF n >= u + v THEN 1 ELSE IF n + l <= u THEN -1 ELSE 0
          /\ collate_key(cr, x, z) = IF m >= u + v THEN 1 ELSE IF m + k <= u THEN -1 ELSE 0
      BY <2>5, <2>6, <3>1 DEF Places
    <3>. QED BY <2>5, <2>8, <3>1, <3>2, ExtentOrders
  <2>. QED BY <2>7, <2>8
<1>9. CASE cr = "CR_EXTENT_MAP"
  <2>1. x \in Mapped /\ y \in Mapped /\ z \in Mapped
    BY <1>5, <1>9 DEF Samples
  <2>2. PICK m, k, p : MapEntry(x, m, k, p)
    BY <2>1, MappedEntry
  <2>3. PICK n, l, q : MapEntry(y, n, l, q)
    BY <2>1, MappedEntry
  <2>4. PICK u, v, w : MapEntry(z, u, v, w)
    BY <2>1, MappedEntry
  <2>5. /\ Num(x) = m /\ Length(x) = k /\ m \in Nat /\ k \in Nat
        /\ Num(y) = n /\ Length(y) = l /\ n \in Nat /\ l \in Nat
        /\ Num(z) = u /\ Length(z) = v /\ u \in Nat /\ v \in Nat
    <3>1. Extent(x, m, k) /\ Extent(y, n, l) /\ Extent(z, u, v)
      BY <2>2, <2>3, <2>4 DEF MapEntry
    <3>. QED BY <3>1, <1>1, <1>9, <2>2, <2>3, <2>4, LengthIs
  <2>6. /\ MapPlaces(collate_key(cr, x, y), m, k, n, l, p, q)
        /\ MapPlaces(collate_key(cr, y, x), n, l, m, k, q, p)
        /\ MapPlaces(collate_key(cr, y, z), n, l, u, v, q, w)
        /\ MapPlaces(collate_key(cr, x, z), m, k, u, v, p, w)
    BY <1>9, <2>2, <2>3, <2>4, ExtentMapIs
  <2>7. collate_key(cr, x, y) = -collate_key(cr, y, x)
    <3>1. p \in Nat /\ q \in Nat
      BY <2>2, <2>3 DEF MapEntry
    <3>2. CASE k = 0 \/ l = 0
      <4>1. collate_key(cr, x, y) = Compare(m, n) /\ collate_key(cr, y, x) = Compare(n, m)
        BY <2>6, <3>2 DEF MapPlaces
      <4>. QED BY <4>1, <2>5, CompareIs
    <3>3. CASE ~ (k = 0 \/ l = 0) /\ (m >= n + l \/ m + k <= n)
      BY <2>5, <2>6, <3>3 DEF MapPlaces
    <3>4. CASE ~ (k = 0 \/ l = 0) /\ ~ (m >= n + l \/ m + k <= n)
      <4>1. /\ Places(collate_key(cr, x, y), p, k, q, l)
            /\ Places(collate_key(cr, y, x), q, l, p, k)
        BY <2>5, <2>6, <3>4 DEF MapPlaces
      <4>. QED BY <4>1, <3>1, <2>5, PlacesReversed
    <3>. QED BY <3>2, <3>3, <3>4
  <2>8. ASSUME Ordered, collate_key(cr, x, y) <= 0, collate_key(cr, y, z) <= 0
        PROVE  collate_key(cr, x, z) <= 0
    <3>1. /\ k > 0 /\ l > 0 /\ v > 0
          /\ m + k <= n \/ n + l <= m
          /\ n + l <= u \/ u + v <= n
          /\ m + k <= u \/ u + v <= m
      BY <1>9, <2>5, <2>8 DEF Apart
    <3>2. /\ collate_key(cr, x, y) = IF m >= n + l THEN 1 ELSE IF m + k <= n THEN -1 ELSE 0
          /\ collate_key(cr, y, z) = IF n >= u + v THEN 1 ELSE IF n + l <= u THEN -1 ELSE 0
          /\ collate_key(cr, x, z) = IF m >= u + v THEN 1 ELSE IF m + k <= u THEN -1 ELSE 0
      BY <2>5, <2>6, <3>1 DEF MapPlaces
    <3>. QED BY <2>5, <2>8, <3>1, <3>2, ExtentOrders
  <2>. QED BY <2>7, <2>8
<1>. QED BY <1>7, <1>8, <1>9

\* A range finds what it has a block in common with (os_collate_extent), a
\* binary key is a number (os_collate_binary).
LEMMA InvMeans ==
  ASSUME CollateInv
  PROVE  CollateMeans
<1>0. SUFFICES ASSUME Collating PROVE CollateMeans
  BY DEF CollateMeans
<1>1. PICK cr : cr = entries.cr
  OBVIOUS
<1>2. PICK x : x = entries.x
  OBVIOUS
<1>3. PICK y : y = entries.y
  OBVIOUS
<1>4. cr \in Rules /\ x \in Samples(cr) /\ y \in Samples(cr)
  BY <1>0, <1>1, <1>2, <1>3, TripleIs
<1> DEFINE r == collate_key(cr, x, y)
           full == x.value # <<>> /\ y.value # <<>>
<1>5. SUFFICES /\ cr = "CR_BINARY" => r = Compare(Big(x.key), Big(y.key))
               /\ cr = "CR_EXTENT" /\ full => (r = 0 <=> ~Apart(x, y))
               /\ cr = "CR_EXTENT" /\ ~full => r = Compare(Num(x), Num(y))
               /\ cr = "CR_EXTENT_MAP" /\ full => (Apart(x, y) => r # 0)
  BY <1>1, <1>2, <1>3 DEF CollateMeans
<1>6. CASE cr = "CR_BINARY"
  <2>1. x \in Plain /\ y \in Plain
    BY <1>4, <1>6 DEF Samples
  <2>2. x.key \in Seq(Byte) /\ y.key \in Seq(Byte)
    BY <2>1, PlainEntry
  <2>3. r = os_collate_binary(x.key, y.key)
    BY <1>6 DEF collate_key
  <2>. QED BY <1>6, <2>2, <2>3, BinaryIs
<1>7. CASE cr = "CR_EXTENT"
  <2>1. x \in Extents /\ y \in Extents
    BY <1>4, <1>7 DEF Samples
  <2>2. PICK m, k : Extent(x, m, k) /\ (x.value # <<>> => os_bstr_to_u64(x.value) = k)
    BY <2>1, ExtentEntry
  <2>3. PICK n, l : Extent(y, n, l) /\ (y.value # <<>> => os_bstr_to_u64(y.value) = l)
    BY <2>1, ExtentEntry
  <2>4. /\ Num(x) = m /\ Length(x) = k /\ m \in Nat /\ k \in Nat
        /\ Num(y) = n /\ Length(y) = l /\ n \in Nat /\ l \in Nat
    BY <1>1, <1>7, <2>2, <2>3, LengthIs
  <2>5. Places(r, m, k, n, l)
    BY <1>7, <2>2, <2>3, ExtentIs
  <2>6. (x.value = <<>> <=> k = 0) /\ (y.value = <<>> <=> l = 0)
    BY <2>2, <2>3 DEF Extent
  <2>. HIDE DEF r
  <2>7. ASSUME full PROVE r = 0 <=> ~Apart(x, y)
    <3>1. k > 0 /\ l > 0
      BY <2>4, <2>6, <2>7
    <3>2. r = IF m >= n + l THEN 1 ELSE IF m + k <= n THEN -1 ELSE 0
      BY <2>5, <3>1 DEF Places
    <3>3. Apart(x, y) <=> m + k <= n \/ n + l <= m
      BY <2>4, <3>1 DEF Apart
    <3>. QED BY <2>4, <3>1, <3>2, <3>3
  <2>8. ASSUME ~full PROVE r = Compare(Num(x), Num(y))
    BY <2>4, <2>5, <2>6, <2>8 DEF Places
  <2>. QED BY <1>7, <2>7, <2>8
<1>8. CASE cr = "CR_EXTENT_MAP"
  <2>1. x \in Mapped /\ y \in Mapped
    BY <1>4, <1>8 DEF Samples
  <2>2. PICK m, k, p : MapEntry(x, m, k, p)
    BY <2>1, MappedEntry
  <2>3. PICK n, l, q : MapEntry(y, n, l, q)
    BY <2>1, MappedEntry
  <2>4. Extent(x, m, k) /\ Extent(y, n, l)
    BY <2>2, <2>3 DEF MapEntry
  <2>5. /\ Num(x) = m /\ Length(x) = k /\ m \in Nat /\ k \in Nat
        /\ Num(y) = n /\ Length(y) = l /\ n \in Nat /\ l \in Nat
    BY <1>1, <1>8, <2>2, <2>3, <2>4, LengthIs
  <2>6. MapPlaces(r, m, k, n, l, p, q)
    BY <1>8, <2>2, <2>3, ExtentMapIs
  <2>. HIDE DEF r
  <2>7. ASSUME Apart(x, y) PROVE r # 0
    <3>1. k > 0 /\ l > 0 /\ (m + k <= n \/ n + l <= m)
      BY <2>5, <2>7 DEF Apart
    <3>. QED BY <2>5, <2>6, <3>1 DEF MapPlaces
  <2>. QED BY <1>8, <2>7
<1>. QED BY <1>4, <1>6, <1>7, <1>8

\* Numbers and extents survive being stored, in the shortest form.
LEMMA InvExact ==
  ASSUME CollateInv
  PROVE  EncodingsExact
<1>0. SUFFICES ASSUME Collating, entries.cr = "CR_U64" PROVE EncodingsExact
  BY DEF EncodingsExact
<1>1. PICK x : x = entries.x
  OBVIOUS
<1>2. PICK y : y = entries.y
  OBVIOUS
<1>3. x \in Plain /\ y \in Plain
  BY <1>0, <1>1, <1>2, TripleIs DEF Samples
<1>4. x.key \in Strs /\ Len(x.key) \in 1 .. Width /\ y.key \in Strs
  BY <1>3, PlainEntry
<1>5. PICK m : m = Num(x)
  OBVIOUS
<1>6. PICK n : n = Num(y)
  OBVIOUS
<1>7. m \in 0 .. Pow[Len(x.key)] - 1 /\ m \in 0 .. Pow[Width] - 1 /\ n \in 0 .. Pow[Width] - 1
  BY <1>4, <1>5, <1>6, U64Below DEF Num
<1>8. os_bstr_to_u64(os_u64_to_bstr(m)) = m
  BY <1>7, RoundTrip
<1>9. Len(os_u64_to_bstr(m)) <= Len(x.key)
  BY <1>4, <1>7, BstrIs, SizeLeast
<1>10. n # 0 => os_extent_pair_to_extent(os_extent_to_extent_pair(m, n)) = [pa |-> m, len |-> n]
  BY <1>7, PairTrip
<1>. QED BY <1>1, <1>2, <1>5, <1>6, <1>8, <1>9, <1>10 DEF EncodingsExact

\* The entries compared are those a tree may hold.
LEMMA CollateSteps ==
  /\ CollateInit => CollateInv
  /\ CollateInv /\ [CollateNext]_entries => CollateInv'
<1>1. CollateInit => CollateInv
  BY DEF CollateInit, CollateInv
<1>2. ASSUME CollateInv, [CollateNext]_entries PROVE CollateInv'
  <2>1. CASE \E cr \in Rules : entries' \in Triples(cr)
    BY <2>1 DEF CollateInv, Triples, Samples, Plain, Extents, Mapped
  <2>2. CASE entries' = NoEntries
    BY <2>2 DEF CollateInv, NoEntries
  <2>3. CASE entries' = entries
    BY <2>3, <1>2 DEF CollateInv
  <2>. QED BY <1>2, <2>1, <2>2, <2>3 DEF CollateNext
<1>. QED BY <1>1, <1>2

\* Whatever the base, the width of a number and the entries, each of the six
\* rules of ofs_collate.c is an order on the entries a tree may hold together:
\* a search goes the way the insertion went.
THEOREM CollateSpecOrders == CollateInit /\ [][CollateNext]_entries => []CollateOrders
<1>1. CollateInv => CollateOrders
  BY InvOrders
<1>. QED BY <1>1, CollateSteps, PTL

\* A range finds exactly the extents it has a block in common with, and binary
\* keys are compared as the big-endian numbers they are, leading zeros or not.
THEOREM CollateSpecMeans == CollateInit /\ [][CollateNext]_entries => []CollateMeans
<1>1. CollateInv => CollateMeans
  BY InvMeans
<1>. QED BY <1>1, CollateSteps, PTL

\* Inode numbers, addresses and lengths come back from the shortest string that
\* holds them, and an extent pair gives back its address and its length.
THEOREM CollateSpecExact == CollateInit /\ [][CollateNext]_entries => []EncodingsExact
<1>1. CollateInv => EncodingsExact
  BY InvExact
<1>. QED BY <1>1, CollateSteps, PTL
-----------------------------------------------------------------------------
(***************************************************************************)
(* Ring buffer, queue and stack.                                           *)
(***************************************************************************)

\* Where place n of the array is once n has passed its end (ring_buffer.h, queue.h).
Wrap(n) == IF n >= Limit THEN n - Limit ELSE n

Stored == Items \cup {Junk}

\* The indices of a ring buffer or a queue: the tail is num places behind the head.
RingInv(q) ==
  /\ q \in [kind : {"ring", "queue"}, member : [0 .. Limit - 1 -> Stored],
            head : 0 .. Limit - 1, tail : 0 .. Limit - 1, num : 0 .. Limit]
  /\ q.tail = Wrap(q.head + q.num)

RingSeq(q) == [i \in 1 .. q.num |-> q.member[Wrap(q.head + i - 1)]]

StackInv(q) ==
  q \in [kind : {"stack"}, memb : [0 .. Limit - 1 -> Stored], num : 0 .. Limit]

StackSeq(q) == [i \in 1 .. q.num |-> q.memb[i - 1]]

\* The places of n items from place h on, and what follows them.
ArrayPlaces(h, n) ==
  /\ Wrap(h + n) \in 0 .. Limit - 1
  /\ n < Limit => Wrap(h + (n + 1)) = Wrap(Wrap(h + n) + 1)
  /\ n > 0 => Wrap(Wrap(h + 1) + (n - 1)) = Wrap(h + n)
  /\ \A i \in 1 .. n : Wrap(h + i - 1) \in 0 .. Limit - 1
  /\ n < Limit => \A i \in 1 .. n : Wrap(h + i - 1) # Wrap(h + n)
  /\ \A i \in 1 .. n - 1 : Wrap(Wrap(h + 1) + i - 1) = Wrap(h + (i + 1) - 1)

\* Stepping the head or the count by one is stepping the place by one, around the
\* end of the array as well (NextIndex, ring_buffer.h and queue.h).
LEMMA Wraps ==
  ASSUME NEW h \in 0 .. Limit - 1, NEW n \in 0 .. Limit
  PROVE  ArrayPlaces(h, n)
<1>1. Limit \in Nat /\ Limit > 0
  BY BuffersAssumption
<1>2. Wrap(h + n) \in 0 .. Limit - 1
  BY <1>1 DEF Wrap
<1>3. n < Limit => Wrap(h + (n + 1)) = Wrap(Wrap(h + n) + 1)
  BY <1>1 DEF Wrap
<1>4. n > 0 => Wrap(Wrap(h + 1) + (n - 1)) = Wrap(h + n)
  BY <1>1 DEF Wrap
<1>5. ASSUME NEW i \in 1 .. n
      PROVE  Wrap(h + i - 1) \in 0 .. Limit - 1 /\ (n < Limit => Wrap(h + i - 1) # Wrap(h + n))
  BY <1>1 DEF Wrap
<1>6. ASSUME NEW i \in 1 .. n - 1
      PROVE  Wrap(Wrap(h + 1) + i - 1) = Wrap(h + (i + 1) - 1)
  BY <1>1 DEF Wrap
<1>. QED BY <1>2, <1>3, <1>4, <1>5, <1>6 DEF ArrayPlaces

\* The comparison of the ring buffer and the remainder of the queue are one.
LEMMA NextIs ==
  ASSUME NEW k, NEW i \in 0 .. Limit - 1
  PROVE  NextIndex(k, i) = Wrap(i + 1)
<1>1. Limit \in Nat /\ Limit > 0
  BY BuffersAssumption
<1>2. CASE i + 1 = Limit
  <2>1. (i + 1) % Limit = 0
    BY <1>1, <1>2
  <2>. QED BY <2>1, <1>1, <1>2 DEF NextIndex, Wrap
<1>3. CASE i + 1 # Limit
  <2>1. (i + 1) % Limit = i + 1
    BY <1>1, <1>3
  <2>. QED BY <2>1, <1>1, <1>3 DEF NextIndex, Wrap
<1>. QED BY <1>2, <1>3

\* ring_buffer_walk_all shows the items from the head on (ring_buffer.h).
LEMMA RingIs ==
  ASSUME NEW q, RingInv(q)
  PROVE  ring_buffer_walk_all(q) = RingSeq(q)
<1>0. /\ Limit \in Nat /\ Limit > 0
      /\ q.head \in 0 .. Limit - 1 /\ q.num \in 0 .. Limit
      /\ DOMAIN q.member = 0 .. Limit - 1
  BY BuffersAssumption DEF RingInv
<1> DEFINE g == [i \in 1 .. q.num |-> Wrap(q.head + i - 1)]
           at[i \in 1 .. q.num] == IF i = 1 THEN q.head ELSE NextIndex(q.kind, at[i - 1])
<1>1. ASSUME NEW i \in 1 .. q.num PROVE g[i] \in 0 .. Limit - 1
  BY <1>0 DEF Wrap
<1>2. ASSUME NEW i \in 1 .. q.num
      PROVE g[i] = IF i = 1 THEN q.head ELSE NextIndex(q.kind, g[i - 1])
  <2>1. CASE i = 1
    BY <2>1, <1>0 DEF Wrap
  <2>2. CASE i # 1
    <3>0. i - 1 \in 1 .. q.num
      BY <2>2, <1>0
    <3>1. g[i - 1] \in 0 .. Limit - 1
      <4>. HIDE DEF g
      <4>. QED BY <3>0, <1>1
    <3>2. NextIndex(q.kind, g[i - 1]) = Wrap(g[i - 1] + 1)
      BY <3>1, NextIs
    <3>3. g[i - 1] = Wrap(q.head + (i - 1) - 1)
      BY <3>0
    <3>4. g[i] = Wrap(g[i - 1] + 1)
      <4>1. g[i] = Wrap(q.head + i - 1)
        OBVIOUS
      <4>2. i \in Nat /\ i >= 2 /\ i <= Limit
        BY <2>2, <1>0
      <4>. HIDE DEF g
      <4>3. Wrap(Wrap(q.head + (i - 1) - 1) + 1) = Wrap(q.head + i - 1)
        BY <4>2, <1>0 DEF Wrap
      <4>. QED BY <4>1, <4>3, <3>3
    <3>. QED BY <3>2, <3>4, <2>2
  <2>. QED BY <2>1, <2>2
<1>3. g = [i \in 1 .. q.num |-> IF i = 1 THEN q.head ELSE NextIndex(q.kind, g[i - 1])]
  <2>. HIDE DEF g
  <2>1. g \in [1 .. q.num -> {g[i] : i \in 1 .. q.num}]
    BY DEF g
  <2>. QED BY <2>1, <1>2, Zenon
<1>4. at = [i \in 1 .. q.num |-> IF i = 1 THEN q.head ELSE NextIndex(q.kind, at[i - 1])]
  <2>. HIDE DEF g
  <2>. QED BY <1>3
<1>5. \A i \in 1 .. q.num : at[i] = g[i]
  <2>. HIDE DEF at, g
  <2> DEFINE T == {n \in Nat : n + 1 \in 1 .. q.num => at[n + 1] = g[n + 1]}
  <2>1. 0 \in T
    <3>1. CASE 1 \in 1 .. q.num
      <4>1. at[1] = q.head /\ g[1] = q.head
        BY <1>2, <1>4, <3>1
      <4>. QED BY <4>1
    <3>. QED BY <3>1
  <2>2. ASSUME NEW n \in Nat, n \in T PROVE n + 1 \in T
    <3>1. CASE (n + 1) + 1 \in 1 .. q.num
      <4>1. n + 1 \in 1 .. q.num /\ ((n + 1) + 1) - 1 = n + 1 /\ (n + 1) + 1 # 1
        BY <3>1, <1>0
      <4>2. at[n + 1] = g[n + 1]
        BY <4>1, <2>2
      <4>3. /\ at[(n + 1) + 1] = NextIndex(q.kind, at[n + 1])
            /\ g[(n + 1) + 1] = NextIndex(q.kind, g[n + 1])
        <5>1. g[(n + 1) + 1] = IF (n + 1) + 1 = 1 THEN q.head
                               ELSE NextIndex(q.kind, g[((n + 1) + 1) - 1])
          BY <1>2, <3>1
        <5>2. at[(n + 1) + 1] = IF (n + 1) + 1 = 1 THEN q.head
                               ELSE NextIndex(q.kind, at[((n + 1) + 1) - 1])
          BY <1>4, <3>1
        <5>. QED BY ONLY <5>1, <5>2, <4>1
      <4>. QED BY <4>2, <4>3
    <3>. QED BY <3>1
  <2>3. \A n \in Nat : n \in T
    <3>. HIDE DEF T
    <3>. QED BY <2>1, <2>2, Induct
  <2>4. ASSUME NEW i \in 1 .. q.num PROVE at[i] = g[i]
    <3>1. i - 1 \in Nat /\ (i - 1) + 1 = i
      BY <1>0
    <3>2. i - 1 \in T
      BY <3>1, <2>3
    <3>. QED BY <3>1, <3>2
  <2>. QED BY <2>4
<1>6. ASSUME NEW i \in 1 .. q.num PROVE Cell(q, at[i]) = q.member[Wrap(q.head + i - 1)]
  <2>. HIDE DEF at
  <2>. QED BY <1>0, <1>1, <1>5 DEF Cell
<1>7. ring_buffer_walk_all(q) = [i \in 1 .. q.num |-> Cell(q, at[i])]
  BY DEF ring_buffer_walk_all
<1>. QED
  <2>. HIDE DEF at
  <2>. QED BY <1>6, <1>7 DEF RingSeq

\* A push puts the item behind the others and does not touch them (ring_buffer_push).
LEMMA RingPush ==
  ASSUME NEW q, RingInv(q), NEW x \in Items, q.num < Limit
  PROVE  /\ RingInv(Push(q, x)) /\ Push(q, x).kind = q.kind
         /\ RingSeq(Push(q, x)) = Append(RingSeq(q), x)
<1> DEFINE p == Push(q, x)
<1>0. /\ Limit \in Nat /\ Limit > 0
      /\ q.head \in 0 .. Limit - 1 /\ q.num \in 0 .. Limit
      /\ q.member \in [0 .. Limit - 1 -> Stored] /\ x \in Stored
      /\ q.tail \in 0 .. Limit - 1 /\ q.tail = Wrap(q.head + q.num)
  BY BuffersAssumption DEF RingInv, Stored
<1>a. ArrayPlaces(q.head, q.num)
  BY <1>0, Wraps
<1>1. NextIndex(q.kind, q.tail) = Wrap(q.tail + 1)
  BY <1>0, NextIs
<1>2. /\ p.kind = q.kind /\ p.head = q.head /\ p.num = q.num + 1
      /\ p.tail = Wrap(q.tail + 1)
      /\ p.member = [i \in 0 .. Limit - 1 |-> IF i = q.tail THEN x ELSE q.member[i]]
  BY <1>0, <1>1 DEF RingInv, Push
<1>3. p = [kind |-> p.kind, member |-> p.member, head |-> p.head, tail |-> p.tail,
           num |-> p.num]
  <2>1. q = [kind |-> q.kind, member |-> q.member, head |-> q.head, tail |-> q.tail,
             num |-> q.num]
    BY DEF RingInv
  <2> DEFINE m == [i \in DOMAIN q.member |-> IF i = q.tail THEN x ELSE q.member[i]]
  <2>2. p = [q EXCEPT !.member = m, !.tail = NextIndex(q.kind, q.tail), !.num = q.num + 1]
    BY DEF Push
  <2>. HIDE DEF p, m
  <2>3. p = [kind |-> q.kind, member |-> m, head |-> q.head,
             tail |-> NextIndex(q.kind, q.tail), num |-> q.num + 1]
    BY <2>2 DEF RingInv
  <2>. QED BY ONLY <2>3
<1>4. p.tail \in 0 .. Limit - 1 /\ p.tail = Wrap(p.head + p.num)
  <2>1. q.num < Limit /\ q.num + 1 \in 0 .. Limit
    BY <1>0
  <2>2. ArrayPlaces(q.head, q.num + 1)
    BY <2>1, <1>0, Wraps
  <2>. HIDE DEF p
  <2>. QED BY <2>1, <2>2, <1>0, <1>2, <1>a DEF ArrayPlaces
<1>5. p.num \in 0 .. Limit
  BY <1>0, <1>2
<1>6. p.member \in [0 .. Limit - 1 -> Stored]
  BY <1>0, <1>2
<1>7. RingInv(p)
  <2>. HIDE DEF p
  <2>. QED BY <1>0, <1>2, <1>3, <1>4, <1>5, <1>6 DEF RingInv
<1>8. RingSeq(p) = Append(RingSeq(q), x)
  <2>. HIDE DEF p
  <2>1. ASSUME NEW i \in 1 .. q.num
        PROVE  Wrap(q.head + i - 1) \in 0 .. Limit - 1 /\ Wrap(q.head + i - 1) # q.tail
    BY <1>0, <1>a, Zenon DEF ArrayPlaces
  <2>2. ASSUME NEW i \in 1 .. q.num PROVE RingSeq(p)[i] = RingSeq(q)[i]
    BY <2>1, <1>0, <1>2 DEF RingSeq
  <2>3. q.num + 1 \in 1 .. q.num + 1 /\ q.head + (q.num + 1) - 1 = q.head + q.num
    BY <1>0
  <2>4. RingSeq(p)[q.num + 1] = x
    BY <2>3, <1>0, <1>2 DEF RingSeq
  <2>5. Len(RingSeq(q)) = q.num /\ RingSeq(q) \in Seq(Stored)
    <3>1. ASSUME NEW i \in 1 .. q.num PROVE q.member[Wrap(q.head + i - 1)] \in Stored
      BY <2>1, <1>0
    <3>2. RingSeq(q) \in [1 .. q.num -> Stored] /\ q.num \in Nat
      BY <3>1, <1>0 DEF RingSeq
    <3>. QED BY <3>2, SeqIs
  <2>6. RingSeq(p) \in [1 .. q.num + 1 -> Stored]
    <3>1. DOMAIN RingSeq(p) = 1 .. q.num + 1
          /\ RingSeq(p) = [i \in 1 .. q.num + 1 |-> RingSeq(p)[i]]
      BY <1>2 DEF RingSeq
    <3>2. ASSUME NEW i \in 1 .. q.num + 1 PROVE RingSeq(p)[i] \in Stored
      <4>1. CASE i = q.num + 1
        BY <4>1, <2>4, <1>0
      <4>2. CASE i # q.num + 1
        <5>1. i \in 1 .. q.num
          BY <4>2, <1>0
        <5>. QED BY <5>1, <2>2, <2>5
      <4>. QED BY <4>1, <4>2
    <3>. QED BY <3>1, <3>2
  <2>. QED BY <2>2, <2>4, <2>5, <2>6, <1>0, AppendIs
<1>. QED BY <1>2, <1>7, <1>8

\* A pop returns the item at the head and leaves the others (ring_buffer_pop).
LEMMA RingPop ==
  ASSUME NEW q, RingInv(q), q.num # 0,
         NEW p, p = [q EXCEPT !.head = NextIndex(q.kind, @), !.num = @ - 1]
  PROVE  /\ RingInv(p) /\ p.kind = q.kind
         /\ RingSeq(q) # <<>> /\ 1 \in 1 .. Len(RingSeq(q))
         /\ Cell(q, q.head) = RingSeq(q)[1]
         /\ RingSeq(p) = SubSeq(RingSeq(q), 1, 1 - 1) \o SubSeq(RingSeq(q), 1 + 1, Len(RingSeq(q)))
<1>0. /\ Limit \in Nat /\ Limit > 0
      /\ q.head \in 0 .. Limit - 1 /\ q.num \in 0 .. Limit
      /\ q.member \in [0 .. Limit - 1 -> Stored]
      /\ q.tail \in 0 .. Limit - 1 /\ q.tail = Wrap(q.head + q.num)
  BY BuffersAssumption DEF RingInv, Stored
<1>a. ArrayPlaces(q.head, q.num)
  BY <1>0, Wraps
<1>1. NextIndex(q.kind, q.head) = Wrap(q.head + 1)
  BY <1>0, NextIs
<1>2. /\ p.kind = q.kind /\ p.head = Wrap(q.head + 1) /\ p.num = q.num - 1
      /\ p.tail = q.tail /\ p.member = q.member
  BY <1>0, <1>1 DEF RingInv
<1>3. p = [kind |-> p.kind, member |-> p.member, head |-> p.head, tail |-> p.tail,
           num |-> p.num]
  BY DEF RingInv
<1>4. p.head \in 0 .. Limit - 1 /\ p.tail = Wrap(p.head + p.num) /\ p.num \in 0 .. Limit
  <2>1. q.num > 0 /\ q.num - 1 \in 0 .. Limit /\ 1 \in 0 .. Limit
    BY <1>0
  <2>2. ArrayPlaces(q.head, 1)
    BY <2>1, <1>0, Wraps
  <2>. QED BY <2>1, <2>2, <1>0, <1>2, <1>a DEF ArrayPlaces
<1>5. RingInv(p)
  BY <1>0, <1>2, <1>3, <1>4 DEF RingInv
<1>6. RingSeq(q) \in Seq(Stored) /\ Len(RingSeq(q)) = q.num
  <2>1. ASSUME NEW i \in 1 .. q.num PROVE Wrap(q.head + i - 1) \in 0 .. Limit - 1
    BY <1>a, Zenon DEF ArrayPlaces
  <2>2. ASSUME NEW i \in 1 .. q.num PROVE q.member[Wrap(q.head + i - 1)] \in Stored
    BY <2>1, <1>0
  <2>3. RingSeq(q) \in [1 .. q.num -> Stored] /\ q.num \in Nat
    BY <2>2, <1>0 DEF RingSeq
  <2>. QED BY <2>3, SeqIs
<1>7. Cell(q, q.head) = RingSeq(q)[1]
  <2>1. 1 \in 1 .. q.num /\ Wrap(q.head + 1 - 1) = q.head
    BY <1>0 DEF Wrap
  <2>. QED BY <2>1, <1>0 DEF Cell, RingSeq
<1>8. RingSeq(p) = [i \in 1 .. q.num - 1 |-> RingSeq(q)[i + 1]]
  <2>1. ASSUME NEW i \in 1 .. q.num - 1 PROVE RingSeq(p)[i] = RingSeq(q)[i + 1]
    <3>1. i + 1 \in 1 .. q.num /\ i \in 1 .. p.num
      BY <1>0, <1>2
    <3>2. Wrap(Wrap(q.head + 1) + i - 1) = Wrap(q.head + (i + 1) - 1)
      BY <1>0, <1>a DEF ArrayPlaces
    <3>. QED BY <3>1, <3>2, <1>2 DEF RingSeq
  <2>2. RingSeq(p) = [i \in 1 .. q.num - 1 |-> RingSeq(p)[i]]
    BY <1>2 DEF RingSeq
  <2>. QED BY <2>1, <2>2
<1>9. RingSeq(p) = SubSeq(RingSeq(q), 1, 1 - 1) \o SubSeq(RingSeq(q), 1 + 1, Len(RingSeq(q)))
  <2>1. 1 \in 1 .. Len(RingSeq(q)) /\ q.num \in Nat
    BY <1>0, <1>6
  <2>2. ASSUME NEW i \in 1 .. q.num - 1 PROVE RingSeq(q)[i + 1] \in Stored
    <3>1. i + 1 \in 1 .. q.num
      BY <1>0
    <3>. QED BY <3>1, <1>6
  <2>3. RingSeq(p) \in [1 .. Len(RingSeq(q)) - 1 -> Stored]
    BY <2>2, <1>6, <1>8
  <2>4. \A i \in 1 .. 1 - 1 : RingSeq(p)[i] = RingSeq(q)[i]
    OBVIOUS
  <2>5. \A i \in 1 .. Len(RingSeq(q)) - 1 : RingSeq(p)[i] = RingSeq(q)[i + 1]
    BY <1>6, <1>8
  <2>. QED BY ONLY <2>1, <2>3, <2>4, <2>5, <1>6, RemoveIs
<1>10. RingSeq(q) # <<>> /\ 1 \in 1 .. Len(RingSeq(q))
  BY <1>0, <1>6
<1>. QED BY <1>2, <1>5, <1>7, <1>9, <1>10

\* A push adds at the top and a pop takes the newest member (stack.h).
LEMMA StackSteps ==
  ASSUME NEW q, StackInv(q)
  PROVE  /\ StackSeq(q) \in Seq(Stored) /\ Len(StackSeq(q)) = q.num
         /\ \A x \in Items : q.num < Limit =>
              LET p == [q EXCEPT !.memb[q.num] = x, !.num = @ + 1]
              IN  StackInv(p) /\ StackSeq(p) = Append(StackSeq(q), x)
         /\ q.num > 0 =>
              LET p == [q EXCEPT !.num = @ - 1]  n == Len(StackSeq(q))
              IN  /\ StackInv(p) /\ q.memb[q.num - 1] = StackSeq(q)[n]
                  /\ StackSeq(p) = SubSeq(StackSeq(q), 1, n - 1) \o SubSeq(StackSeq(q), n + 1, n)
<1>0. /\ Limit \in Nat /\ Limit > 0
      /\ q.num \in 0 .. Limit /\ q.memb \in [0 .. Limit - 1 -> Stored]
  BY BuffersAssumption DEF StackInv
<1>1. StackSeq(q) \in Seq(Stored) /\ Len(StackSeq(q)) = q.num
  <2>1. ASSUME NEW i \in 1 .. q.num PROVE q.memb[i - 1] \in Stored
    BY <1>0
  <2>2. StackSeq(q) \in [1 .. q.num -> Stored] /\ q.num \in Nat
    BY <2>1, <1>0 DEF StackSeq
  <2>. QED BY <2>2, SeqIs
<1>2. ASSUME NEW x \in Items, q.num < Limit,
             NEW p, p = [q EXCEPT !.memb[q.num] = x, !.num = @ + 1]
      PROVE  StackInv(p) /\ StackSeq(p) = Append(StackSeq(q), x)
  <2>1. p = [kind |-> "stack", memb |-> [q.memb EXCEPT ![q.num] = x], num |-> q.num + 1]
    BY <1>2 DEF StackInv
  <2>2. x \in Stored /\ q.num \in 0 .. Limit - 1 /\ q.num + 1 \in 0 .. Limit
    BY <1>0, <1>2 DEF Stored
  <2>3. StackInv(p)
    BY <2>1, <2>2, <1>0 DEF StackInv
  <2>4. ASSUME NEW i \in 1 .. q.num + 1
        PROVE  p.memb[i - 1] = IF i = q.num + 1 THEN x ELSE StackSeq(q)[i]
    BY <2>1, <2>2, <1>0 DEF StackSeq
  <2>5. StackSeq(p) = [i \in 1 .. q.num + 1 |-> IF i = q.num + 1 THEN x ELSE StackSeq(q)[i]]
    BY <2>1, <2>4 DEF StackSeq
  <2>6. ASSUME NEW i \in 1 .. q.num + 1, i # q.num + 1 PROVE StackSeq(q)[i] \in Stored
    <3>1. i \in 1 .. q.num
      BY <2>6, <1>0
    <3>. QED BY <3>1, <1>1
  <2>7. StackSeq(p) \in [1 .. q.num + 1 -> Stored]
    BY <2>2, <2>5, <2>6
  <2>8. StackSeq(p)[q.num + 1] = x /\ \A i \in 1 .. q.num : StackSeq(p)[i] = StackSeq(q)[i]
    BY <2>5, <1>0
  <2>9. StackSeq(p) = Append(StackSeq(q), x)
    BY <2>2, <2>7, <2>8, <1>1, AppendIs
  <2>. QED BY <2>3, <2>9
<1>3. ASSUME q.num > 0, NEW p, p = [q EXCEPT !.num = @ - 1], NEW n, n = Len(StackSeq(q))
      PROVE  /\ StackInv(p) /\ q.memb[q.num - 1] = StackSeq(q)[n]
             /\ StackSeq(p) = SubSeq(StackSeq(q), 1, n - 1) \o SubSeq(StackSeq(q), n + 1, n)
  <2>1. p = [kind |-> "stack", memb |-> q.memb, num |-> q.num - 1]
    BY <1>3 DEF StackInv
  <2>2. StackInv(p)
    BY <2>1, <1>0, <1>3 DEF StackInv
  <2>3. q.memb[q.num - 1] = StackSeq(q)[n]
    BY <1>0, <1>1, <1>3 DEF StackSeq
  <2>4. StackSeq(p) = [i \in 1 .. q.num - 1 |-> StackSeq(q)[i]]
    BY <2>1, <1>0 DEF StackSeq
  <2>5. n \in 1 .. Len(StackSeq(q)) /\ n = q.num /\ \A i \in 1 .. q.num - 1 : i \in 1 .. q.num
    BY <1>0, <1>1, <1>3
  <2>6. StackSeq(p) \in [1 .. Len(StackSeq(q)) - 1 -> Stored]
    BY <2>4, <2>5, <1>1
  <2>7. /\ \A i \in 1 .. n - 1 : StackSeq(p)[i] = StackSeq(q)[i]
        /\ \A i \in n .. Len(StackSeq(q)) - 1 : StackSeq(p)[i] = StackSeq(q)[i + 1]
    BY <2>4, <2>5, <1>1, <1>0
  <2>8. StackSeq(p) = SubSeq(StackSeq(q), 1, n - 1) \o SubSeq(StackSeq(q), n + 1, Len(StackSeq(q)))
    BY ONLY <2>5, <2>6, <2>7, <1>1, RemoveIs
  <2>. QED BY <2>2, <2>3, <2>8, <1>3
<1>4. \A x \in Items : q.num < Limit =>
        LET p == [q EXCEPT !.memb[q.num] = x, !.num = @ + 1]
        IN  StackInv(p) /\ StackSeq(p) = Append(StackSeq(q), x)
  BY <1>2
<1>. QED BY <1>1, <1>3, <1>4
-----------------------------------------------------------------------------
(***************************************************************************)
(* The doubly linked list.                                                 *)
(***************************************************************************)

Ends == Links \cup {Poison1, Poison2}

AnyList == [kind : {"list"}, next : [Links -> Ends], prev : [Links -> Ends]]

\* The node at place i of s; before the first and behind the last is the head.
NodeAt(s, i) == IF i \in 1 .. Len(s) THEN s[i] ELSE ListHead

Distinct(s) == s \in Seq(Items) /\ \A i, j \in 1 .. Len(s) : s[i] = s[j] => i = j

\* The links of l are those of the nodes s, in both directions.
Chain(l, s) ==
  /\ l \in AnyList /\ Distinct(s)
  /\ \A i \in 0 .. Len(s) : /\ l.next[NodeAt(s, i)] = NodeAt(s, i + 1)
                            /\ l.prev[NodeAt(s, i + 1)] = NodeAt(s, i)

\* A node that is not in the list is poisoned: list_add can tell.
Loose(l, s) == \A x \in Items : x \notin ToSet(s) => l.next[x] = Poison1

\* The nodes of a chain differ from each other and from the list head.
LEMMA NodesDiffer ==
  ASSUME NEW s, Distinct(s)
  PROVE  /\ Len(s) \in Nat /\ ListHead \notin Items
         /\ \A i \in Int : NodeAt(s, i) \in Links
         /\ \A i, j \in 0 .. Len(s) : NodeAt(s, i) = NodeAt(s, j) => i = j
         /\ \A i, j \in 1 .. Len(s) + 1 : NodeAt(s, i) = NodeAt(s, j) => i = j
<1>0. Len(s) \in Nat /\ s \in Seq(Items) /\ ListHead \notin Items
  BY BuffersAssumption DEF Distinct, ListHead
<1>1. ASSUME NEW i \in 1 .. Len(s) PROVE s[i] \in Items /\ s[i] # ListHead
  BY <1>0
<1>2. ASSUME NEW i \in Int PROVE NodeAt(s, i) \in Links
  BY <1>1 DEF NodeAt, Links
<1>3. ASSUME NEW i \in Int, NEW j \in Int, NodeAt(s, i) = NodeAt(s, j)
      PROVE  \/ i = j
             \/ i \notin 1 .. Len(s) /\ j \notin 1 .. Len(s)
  <2>1. CASE i \in 1 .. Len(s) /\ j \in 1 .. Len(s)
    BY <2>1, <1>3 DEF NodeAt, Distinct
  <2>2. CASE i \in 1 .. Len(s) /\ j \notin 1 .. Len(s)
    BY <2>2, <1>1, <1>3 DEF NodeAt
  <2>3. CASE i \notin 1 .. Len(s) /\ j \in 1 .. Len(s)
    BY <2>3, <1>1, <1>3 DEF NodeAt
  <2>4. CASE i \notin 1 .. Len(s) /\ j \notin 1 .. Len(s)
    BY <2>4
  <2>. QED BY <2>1, <2>2, <2>3, <2>4
<1>4. ASSUME NEW i \in 0 .. Len(s), NEW j \in 0 .. Len(s), NodeAt(s, i) = NodeAt(s, j)
      PROVE  i = j
  <2>1. i \in Int /\ j \in Int
    OBVIOUS
  <2>2. i = j \/ (i \notin 1 .. Len(s) /\ j \notin 1 .. Len(s))
    BY <2>1, <1>3, <1>4
  <2>. QED BY <2>2, <1>0
<1>5. ASSUME NEW i \in 1 .. Len(s) + 1, NEW j \in 1 .. Len(s) + 1, NodeAt(s, i) = NodeAt(s, j)
      PROVE  i = j
  <2>1. i \in Int /\ j \in Int
    OBVIOUS
  <2>2. i = j \/ (i \notin 1 .. Len(s) /\ j \notin 1 .. Len(s))
    BY <2>1, <1>3, <1>5
  <2>. QED BY <2>2, <1>0
<1>. QED BY <1>0, <1>2, <1>4, <1>5

\* What list_del assigns, also where a link is poisoned (dlist.h).
LEMMA DelIs ==
  ASSUME NEW l \in AnyList, NEW x \in Items
  PROVE  /\ list_del(l, x) \in AnyList
         /\ \A y \in Links : list_del(l, x).next[y] =
              IF y = x THEN Poison1 ELSE IF y = l.prev[x] THEN l.next[x] ELSE l.next[y]
         /\ \A y \in Links : list_del(l, x).prev[y] =
              IF y = x THEN Poison2 ELSE IF y = l.next[x] THEN l.prev[x] ELSE l.prev[y]
<1>0. x \in Links /\ Poison1 \in Ends /\ Poison2 \in Ends
  BY DEF Links, Ends
<1>1. /\ l = [kind |-> "list", next |-> l.next, prev |-> l.prev]
      /\ l.next \in [Links -> Ends] /\ l.prev \in [Links -> Ends]
  BY DEF AnyList
<1> DEFINE n == [l.next EXCEPT ![l.prev[x]] = l.next[x], ![x] = Poison1]
           p == [l.prev EXCEPT ![l.next[x]] = l.prev[x], ![x] = Poison2]
<1>2. l.next[x] \in Ends /\ l.prev[x] \in Ends
  BY <1>0, <1>1
<1>3. n \in [Links -> Ends] /\ p \in [Links -> Ends]
  BY <1>0, <1>1, <1>2
<1>4. ASSUME NEW y \in Links
      PROVE  /\ n[y] = IF y = x THEN Poison1 ELSE IF y = l.prev[x] THEN l.next[x] ELSE l.next[y]
             /\ p[y] = IF y = x THEN Poison2 ELSE IF y = l.next[x] THEN l.prev[x] ELSE l.prev[y]
  BY <1>0, <1>1
<1>5. list_del(l, x) = [l EXCEPT !.prev = p, !.next = n]
  BY DEF list_del
<1>6. list_del(l, x) = [kind |-> "list", next |-> n, prev |-> p]
  <2>. HIDE DEF n, p
  <2>. QED BY <1>5 DEF AnyList
<1>. QED
  <2>. HIDE DEF n, p
  <2>. QED BY <1>3, <1>4, <1>6 DEF AnyList

\* What list_add assigns between two nodes of the list (dlist.h, __list_add).
LEMMA LinkIs ==
  ASSUME NEW l \in AnyList, NEW x \in Items, NEW a \in Links, NEW b \in Links, x # a, x # b
  PROVE  /\ LinkIn(l, x, a, b) \in AnyList
         /\ \A y \in Links : LinkIn(l, x, a, b).next[y] =
              IF y = x THEN b ELSE IF y = a THEN x ELSE l.next[y]
         /\ \A y \in Links : LinkIn(l, x, a, b).prev[y] =
              IF y = x THEN a ELSE IF y = b THEN x ELSE l.prev[y]
<1>0. x \in Links /\ x \in Ends /\ a \in Ends /\ b \in Ends
  BY DEF Links, Ends
<1>1. /\ l = [kind |-> "list", next |-> l.next, prev |-> l.prev]
      /\ l.next \in [Links -> Ends] /\ l.prev \in [Links -> Ends]
  BY DEF AnyList
<1> DEFINE n == [l.next EXCEPT ![x] = b, ![a] = x]
           p == [l.prev EXCEPT ![b] = x, ![x] = a]
<1>3. n \in [Links -> Ends] /\ p \in [Links -> Ends]
  BY <1>0, <1>1
<1>4. ASSUME NEW y \in Links
      PROVE  /\ n[y] = IF y = x THEN b ELSE IF y = a THEN x ELSE l.next[y]
             /\ p[y] = IF y = x THEN a ELSE IF y = b THEN x ELSE l.prev[y]
  BY <1>0, <1>1
<1>5. LinkIn(l, x, a, b) = [l EXCEPT !.prev = p, !.next = n]
  BY DEF LinkIn
<1>6. LinkIn(l, x, a, b) = [kind |-> "list", next |-> n, prev |-> p]
  <2>. HIDE DEF n, p
  <2>. QED BY <1>5 DEF AnyList
<1>. QED
  <2>. HIDE DEF n, p
  <2>. QED BY <1>3, <1>4, <1>6 DEF AnyList

\* A node between two neighbours is linked in both directions (list_add).
LEMMA ChainAdd ==
  ASSUME NEW l, NEW s, Chain(l, s), Loose(l, s), NEW x \in Items, x \notin ToSet(s),
         NEW n \in 0 .. Len(s), NEW t \in Seq(Items), Len(t) = Len(s) + 1,
         \A i \in 1 .. n : t[i] = s[i], t[n + 1] = x,
         \A i \in n + 2 .. Len(t) : t[i] = s[i - 1],
         NEW k, k = LinkIn(l, x, NodeAt(s, n), NodeAt(s, n + 1))
  PROVE  Chain(k, t) /\ Loose(k, t)
<1>0. /\ l \in AnyList /\ Distinct(s) /\ s \in Seq(Items)
      /\ Len(s) \in Nat /\ n \in Nat /\ n <= Len(s) /\ n + 1 \in 1 .. Len(t) /\ n + 1 \in Nat
  BY DEF Chain, Distinct
<1>1. ASSUME NEW i \in 1 .. Len(s) PROVE s[i] # x /\ s[i] \in Items
  BY <1>0 DEF ToSet
<1>2. ASSUME NEW i \in Int PROVE NodeAt(s, i) # x /\ NodeAt(s, i) \in Links
  BY <1>0, <1>1, NodesDiffer DEF NodeAt
<1>3. /\ k \in AnyList
      /\ \A y \in Links : k.next[y] =
           IF y = x THEN NodeAt(s, n + 1) ELSE IF y = NodeAt(s, n) THEN x ELSE l.next[y]
      /\ \A y \in Links : k.prev[y] =
           IF y = x THEN NodeAt(s, n) ELSE IF y = NodeAt(s, n + 1) THEN x ELSE l.prev[y]
  <2>1. n \in Int /\ n + 1 \in Int
    BY <1>0
  <2>2. /\ NodeAt(s, n) \in Links /\ NodeAt(s, n + 1) \in Links
        /\ x # NodeAt(s, n) /\ x # NodeAt(s, n + 1)
    BY <2>1, <1>2
  <2>. QED BY <2>2, <1>0, LinkIs
<1>4. ASSUME NEW i \in 0 .. Len(t) + 1
      PROVE  NodeAt(t, i) = IF i <= n THEN NodeAt(s, i)
                            ELSE IF i = n + 1 THEN x ELSE NodeAt(s, i - 1)
  <2>1. CASE i <= n
    <3>1. i \in 1 .. Len(t) <=> i \in 1 .. Len(s)
      BY <2>1, <1>0
    <3>2. i \in 1 .. Len(s) => i \in 1 .. n
      BY <2>1, <1>0
    <3>. QED BY <2>1, <3>1, <3>2 DEF NodeAt
  <2>2. CASE i = n + 1
    BY <2>2, <1>0 DEF NodeAt
  <2>3. CASE i > n + 1
    <3>1. i \in 1 .. Len(t) <=> i - 1 \in 1 .. Len(s)
      BY <2>3, <1>0
    <3>2. i \in 1 .. Len(t) => i \in n + 2 .. Len(t)
      BY <2>3, <1>0
    <3>3. ~(i <= n) /\ i # n + 1
      BY <2>3, <1>0
    <3>. QED BY <3>1, <3>2, <3>3 DEF NodeAt
  <2>. QED BY <2>1, <2>2, <2>3, <1>0
<1>5. Distinct(t)
  <2>1. ASSUME NEW i \in 1 .. Len(t), NEW j \in 1 .. Len(t), t[i] = t[j], i < j PROVE FALSE
    <3>1. CASE j = n + 1
      <4>1. i \in 1 .. n /\ i \in 1 .. Len(s)
        BY <3>1, <2>1, <1>0
      <4>. QED BY <4>1, <3>1, <2>1, <1>1
    <3>2. CASE i = n + 1
      <4>1. j \in n + 2 .. Len(t) /\ j - 1 \in 1 .. Len(s)
        BY <3>2, <2>1, <1>0
      <4>. QED BY <4>1, <3>2, <2>1, <1>1
    <3>3. CASE i # n + 1 /\ j # n + 1
      <4> DEFINE u == IF i <= n THEN i ELSE i - 1
                 v == IF j <= n THEN j ELSE j - 1
      <4>1. u \in 1 .. Len(s) /\ v \in 1 .. Len(s) /\ u # v
        BY <3>3, <2>1, <1>0
      <4>2. t[i] = s[u] /\ t[j] = s[v]
        <5>1. /\ i <= n => i \in 1 .. n
              /\ j <= n => j \in 1 .. n
              /\ ~(i <= n) => i \in n + 2 .. Len(t)
              /\ ~(j <= n) => j \in n + 2 .. Len(t)
          BY <3>3, <1>0
        <5>. QED BY <5>1
      <4>. HIDE DEF u, v
      <4>. QED BY <4>1, <4>2, <2>1, <1>0 DEF Distinct
    <3>. QED BY <3>1, <3>2, <3>3
  <2>2. ASSUME NEW i \in 1 .. Len(t), NEW j \in 1 .. Len(t), t[i] = t[j] PROVE i = j
    <3>1. ~(i < j) /\ ~(j < i)
      BY <2>1, <2>2
    <3>. QED BY <3>1
  <2>. QED BY <2>2 DEF Distinct
<1>6. ASSUME NEW i \in 0 .. Len(t)
      PROVE  k.next[NodeAt(t, i)] = NodeAt(t, i + 1) /\ k.prev[NodeAt(t, i + 1)] = NodeAt(t, i)
  <2>0. /\ i \in Nat /\ i <= Len(s) + 1 /\ i \in 0 .. Len(t) + 1 /\ i + 1 \in 0 .. Len(t) + 1
        /\ (i + 1) - 1 = i /\ x \in Links
    BY <1>0 DEF Links
  <2>1. CASE i < n
    <3>1. i \in 0 .. Len(s) /\ n \in 0 .. Len(s) /\ i # n /\ i + 1 \in 1 .. Len(s) + 1
          /\ n + 1 \in 1 .. Len(s) + 1
          /\ i + 1 # n + 1 /\ i + 1 <= n /\ i <= n
      BY <2>0, <2>1, <1>0
    <3>2. NodeAt(t, i) = NodeAt(s, i) /\ NodeAt(t, i + 1) = NodeAt(s, i + 1)
      BY <2>0, <3>1, <1>4
    <3>3. NodeAt(s, i) # NodeAt(s, n) /\ NodeAt(s, i + 1) # NodeAt(s, n + 1)
      BY <3>1, <1>0, NodesDiffer
    <3>4. /\ NodeAt(s, i) # x /\ NodeAt(s, i) \in Links
          /\ NodeAt(s, i + 1) # x /\ NodeAt(s, i + 1) \in Links
      BY <2>0, <1>2
    <3>5. l.next[NodeAt(s, i)] = NodeAt(s, i + 1) /\ l.prev[NodeAt(s, i + 1)] = NodeAt(s, i)
      BY <3>1 DEF Chain
    <3>. QED BY <3>2, <3>3, <3>4, <3>5, <1>3
  <2>2. CASE i = n
    <3>1. NodeAt(t, i) = NodeAt(s, n) /\ NodeAt(t, i + 1) = x
      BY <2>0, <2>2, <1>0, <1>4
    <3>2. NodeAt(s, n) # x /\ NodeAt(s, n) \in Links
      BY <2>0, <2>2, <1>2
    <3>. QED BY <3>1, <3>2, <2>0, <1>3
  <2>3. CASE i = n + 1
    <3>1. NodeAt(t, i) = x /\ NodeAt(t, i + 1) = NodeAt(s, n + 1)
      <4>1. ~(i <= n) /\ ~(i + 1 <= n) /\ i + 1 # n + 1
        BY <2>0, <2>3, <1>0
      <4>. QED BY <4>1, <2>0, <2>3, <1>4
    <3>2. NodeAt(s, n + 1) # x /\ NodeAt(s, n + 1) \in Links
      BY <2>0, <2>3, <1>2
    <3>. QED BY <3>1, <3>2, <2>0, <1>3
  <2>4. CASE i > n + 1
    <3>1. i - 1 \in 0 .. Len(s) /\ n \in 0 .. Len(s) /\ i - 1 # n /\ i \in 1 .. Len(s) + 1
          /\ n + 1 \in 1 .. Len(s) + 1 /\ i # n + 1 /\ (i - 1) + 1 = i
          /\ ~(i <= n) /\ ~(i + 1 <= n) /\ i + 1 # n + 1 /\ i - 1 \in Int
      BY <2>0, <2>4, <1>0
    <3>2. NodeAt(t, i) = NodeAt(s, i - 1) /\ NodeAt(t, i + 1) = NodeAt(s, i)
      BY <2>0, <3>1, <1>4
    <3>3. NodeAt(s, i - 1) # NodeAt(s, n) /\ NodeAt(s, i) # NodeAt(s, n + 1)
      BY <3>1, <1>0, NodesDiffer
    <3>4. /\ NodeAt(s, i - 1) # x /\ NodeAt(s, i - 1) \in Links
          /\ NodeAt(s, i) # x /\ NodeAt(s, i) \in Links
      BY <2>0, <3>1, <1>2
    <3>5. l.next[NodeAt(s, i - 1)] = NodeAt(s, i) /\ l.prev[NodeAt(s, i)] = NodeAt(s, i - 1)
      <4>1. /\ l.next[NodeAt(s, i - 1)] = NodeAt(s, (i - 1) + 1)
            /\ l.prev[NodeAt(s, (i - 1) + 1)] = NodeAt(s, i - 1)
        BY <3>1 DEF Chain
      <4>. QED BY <4>1, <3>1
    <3>. QED BY <3>2, <3>3, <3>4, <3>5, <1>3
  <2>. QED BY <2>0, <2>1, <2>2, <2>3, <2>4, <1>0
<1>7. Chain(k, t)
  BY <1>3, <1>5, <1>6 DEF Chain
<1>8. ASSUME NEW y \in Items, y \notin ToSet(t) PROVE k.next[y] = Poison1
  <2>1. y # x
    BY <1>8, <1>0 DEF ToSet
  <2>2. y \notin ToSet(s)
    <3>1. SUFFICES ASSUME NEW i \in 1 .. Len(s), y = s[i] PROVE FALSE
      BY <1>0 DEF ToSet
    <3>2. CASE i <= n
      <4>1. i \in 1 .. n /\ i \in DOMAIN t
        BY <3>2, <1>0
      <4>. QED BY <4>1, <3>1, <1>8 DEF ToSet
    <3>3. CASE i > n
      <4>1. i + 1 \in n + 2 .. Len(t) /\ i + 1 \in DOMAIN t /\ (i + 1) - 1 = i
        BY <3>3, <1>0
      <4>2. t[i + 1] = y
        BY <4>1, <3>1
      <4>. QED BY <4>1, <4>2, <1>8 DEF ToSet
    <3>. QED BY <3>2, <3>3, <1>0
  <2>3. y # NodeAt(s, n) /\ y \in Links
    <3>1. \A i \in 1 .. Len(s) : y # s[i]
      BY <2>2, <1>0 DEF ToSet
    <3>. QED BY <3>1, <1>0, NodesDiffer DEF NodeAt, Links
  <2>4. l.next[y] = Poison1
    BY <2>2 DEF Loose
  <2>. QED BY <2>1, <2>3, <2>4, <1>3
<1>. QED BY <1>7, <1>8 DEF Loose

\* A node taken out leaves its neighbours linked in both directions (list_del).
LEMMA ChainDel ==
  ASSUME NEW l, NEW s, Chain(l, s), NEW n \in 1 .. Len(s),
         NEW t \in Seq(Items), Len(t) = Len(s) - 1,
         \A i \in 1 .. n - 1 : t[i] = s[i], \A i \in n .. Len(t) : t[i] = s[i + 1],
         NEW k, k = list_del(l, s[n])
  PROVE  Chain(k, t) /\ (Loose(l, s) => Loose(k, t))
<1> DEFINE x == s[n]
           a == NodeAt(s, n - 1)
           b == NodeAt(s, n + 1)
<1>0. /\ l \in AnyList /\ Distinct(s) /\ s \in Seq(Items) /\ Len(s) \in Nat /\ Len(s) >= 1
      /\ n \in Nat /\ n >= 1 /\ n <= Len(s) /\ x \in Items /\ x \in Links /\ x = NodeAt(s, n)
  <2>1. l \in AnyList /\ Distinct(s) /\ s \in Seq(Items) /\ Len(s) \in Nat
    BY DEF Chain, Distinct
  <2>2. s[n] \in Items
    BY <2>1
  <2>. QED BY <2>1, <2>2 DEF NodeAt, Links
<1>1. l.next[x] = b /\ l.prev[x] = a
  <2>1. n - 1 \in 0 .. Len(s) /\ n \in 0 .. Len(s) /\ (n - 1) + 1 = n
    BY <1>0
  <2>2. l.next[NodeAt(s, n)] = NodeAt(s, n + 1)
    BY <2>1 DEF Chain
  <2>3. l.prev[NodeAt(s, (n - 1) + 1)] = NodeAt(s, n - 1)
    BY <2>1 DEF Chain
  <2>. QED BY <1>0, <2>1, <2>2, <2>3
<1>2. ASSUME NEW i \in Int PROVE NodeAt(s, i) \in Links /\ (i # n => NodeAt(s, i) # x)
  <2>1. CASE i \in 0 .. Len(s)
    <3>1. n \in 0 .. Len(s)
      BY <1>0
    <3>. QED BY <2>1, <3>1, <1>0, NodesDiffer
  <2>2. CASE i \notin 0 .. Len(s)
    <3>1. i \notin 1 .. Len(s) /\ ListHead \in Links /\ ListHead \notin Items
      BY <2>2, <1>0, NodesDiffer DEF Links
    <3>. QED BY <3>1, <1>0 DEF NodeAt
  <2>. QED BY <2>1, <2>2
<1>3. /\ k \in AnyList
      /\ \A y \in Links : k.next[y] = IF y = x THEN Poison1 ELSE IF y = a THEN b ELSE l.next[y]
      /\ \A y \in Links : k.prev[y] = IF y = x THEN Poison2 ELSE IF y = b THEN a ELSE l.prev[y]
  <2>. HIDE DEF a, b, x
  <2>1. k = list_del(l, x)
    BY DEF x
  <2>2. /\ list_del(l, x) \in AnyList
        /\ \A y \in Links : list_del(l, x).next[y] =
             IF y = x THEN Poison1 ELSE IF y = l.prev[x] THEN l.next[x] ELSE l.next[y]
        /\ \A y \in Links : list_del(l, x).prev[y] =
             IF y = x THEN Poison2 ELSE IF y = l.next[x] THEN l.prev[x] ELSE l.prev[y]
    <3>1. l \in AnyList /\ x \in Items
      BY <1>0
    <3>. QED BY ONLY <3>1, DelIs, Zenon
  <2>. QED BY ONLY <2>1, <2>2, <1>1
<1>4. ASSUME NEW i \in 0 .. Len(s)
      PROVE  NodeAt(t, i) = IF i < n THEN NodeAt(s, i) ELSE NodeAt(s, i + 1)
  <2>1. CASE i < n
    <3>1. i \in 1 .. Len(t) <=> i \in 1 .. Len(s)
      BY <2>1, <1>0
    <3>2. i \in 1 .. Len(s) => i \in 1 .. n - 1
      BY <2>1, <1>0
    <3>. QED BY <2>1, <3>1, <3>2 DEF NodeAt
  <2>2. CASE i >= n
    <3>1. i \in 1 .. Len(t) <=> i + 1 \in 1 .. Len(s)
      BY <2>2, <1>0
    <3>2. i \in 1 .. Len(t) => i \in n .. Len(t)
      BY <2>2, <1>0
    <3>3. ~(i < n)
      BY <2>2, <1>0
    <3>. QED BY <3>1, <3>2, <3>3 DEF NodeAt
  <2>. QED BY <2>1, <2>2, <1>0
<1>5. Distinct(t)
  <2>1. ASSUME NEW i \in 1 .. Len(t), NEW j \in 1 .. Len(t), t[i] = t[j] PROVE i = j
    <3> DEFINE u == IF i < n THEN i ELSE i + 1
               v == IF j < n THEN j ELSE j + 1
    <3>1. u \in 1 .. Len(s) /\ v \in 1 .. Len(s) /\ (u = v => i = j)
      BY <1>0
    <3>2. t[i] = s[u] /\ t[j] = s[v]
      <4>1. /\ i < n => i \in 1 .. n - 1
            /\ j < n => j \in 1 .. n - 1
            /\ ~(i < n) => i \in n .. Len(t)
            /\ ~(j < n) => j \in n .. Len(t)
        BY <1>0
      <4>. QED BY <4>1
    <3>. HIDE DEF u, v
    <3>. QED BY <3>1, <3>2, <2>1, <1>0 DEF Distinct
  <2>. QED BY <2>1 DEF Distinct
<1>6. ASSUME NEW i \in 0 .. Len(t)
      PROVE  k.next[NodeAt(t, i)] = NodeAt(t, i + 1) /\ k.prev[NodeAt(t, i + 1)] = NodeAt(t, i)
  <2>0. /\ i \in Nat /\ i <= Len(s) - 1 /\ i \in 0 .. Len(s) /\ i + 1 \in 0 .. Len(s)
        /\ i \in Int /\ i + 1 \in Int /\ (i + 1) + 1 \in Int /\ n - 1 \in 0 .. Len(s)
        /\ n + 1 \in 1 .. Len(s) + 1
    BY <1>0
  <2>1. CASE i < n - 1
    <3>1. /\ i # n - 1 /\ i < n /\ i + 1 < n /\ i # n
          /\ i + 1 # n /\ i + 1 # n + 1 /\ i + 1 \in 1 .. Len(s) + 1
      <4>1. i \in Nat /\ n \in Nat /\ Len(s) \in Nat /\ i <= Len(s) - 1
        BY <2>0, <1>0
      <4>. QED BY ONLY <4>1, <2>1
    <3>2. NodeAt(t, i) = NodeAt(s, i) /\ NodeAt(t, i + 1) = NodeAt(s, i + 1)
      BY <2>0, <3>1, <1>4
    <3>3. NodeAt(s, i) # a /\ NodeAt(s, i + 1) # b
      BY <2>0, <3>1, <1>0, NodesDiffer
    <3>4. /\ NodeAt(s, i) # x /\ NodeAt(s, i) \in Links
          /\ NodeAt(s, i + 1) # x /\ NodeAt(s, i + 1) \in Links
      BY <2>0, <3>1, <1>2
    <3>5. l.next[NodeAt(s, i)] = NodeAt(s, i + 1) /\ l.prev[NodeAt(s, i + 1)] = NodeAt(s, i)
      BY <2>0 DEF Chain
    <3>. QED
      <4>. HIDE DEF a, b, x
      <4>. QED BY <3>2, <3>3, <3>4, <3>5, <1>3
  <2>2. CASE i = n - 1
    <3>1. i < n /\ ~(i + 1 < n) /\ (i + 1) + 1 = n + 1 /\ n - 1 # n /\ n + 1 # n
          /\ n - 1 \in Int /\ n + 1 \in Int
      BY <2>0, <2>2, <1>0
    <3>2. NodeAt(t, i) = a /\ NodeAt(t, i + 1) = b
      BY <2>0, <2>2, <3>1, <1>4
    <3>3. a \in Links /\ a # x /\ b \in Links /\ b # x
      BY <3>1, <1>2
    <3>. QED
      <4>. HIDE DEF a, b, x
      <4>. QED BY <3>2, <3>3, <1>3
  <2>3. CASE i > n - 1
    <3>1. /\ ~(i < n) /\ ~(i + 1 < n) /\ i + 1 # n - 1 /\ (i + 1) + 1 # n + 1 /\ i + 1 # n
          /\ (i + 1) + 1 # n
          /\ (i + 1) + 1 \in 1 .. Len(s) + 1
      BY <2>0, <2>3, <1>0
    <3>2. NodeAt(t, i) = NodeAt(s, i + 1) /\ NodeAt(t, i + 1) = NodeAt(s, (i + 1) + 1)
      BY <2>0, <3>1, <1>4
    <3>3. NodeAt(s, i + 1) # a /\ NodeAt(s, (i + 1) + 1) # b
      BY <2>0, <3>1, <1>0, NodesDiffer
    <3>4. /\ NodeAt(s, i + 1) # x /\ NodeAt(s, i + 1) \in Links
          /\ NodeAt(s, (i + 1) + 1) # x /\ NodeAt(s, (i + 1) + 1) \in Links
      BY <2>0, <3>1, <1>2
    <3>5. /\ l.next[NodeAt(s, i + 1)] = NodeAt(s, (i + 1) + 1)
          /\ l.prev[NodeAt(s, (i + 1) + 1)] = NodeAt(s, i + 1)
      BY <2>0 DEF Chain
    <3>. QED
      <4>. HIDE DEF a, b, x
      <4>. QED BY <3>2, <3>3, <3>4, <3>5, <1>3
  <2>. QED BY <2>0, <2>1, <2>2, <2>3, <1>0
<1>7. Chain(k, t)
  BY <1>3, <1>5, <1>6 DEF Chain
<1>8. ASSUME Loose(l, s), NEW y \in Items, y \notin ToSet(t) PROVE k.next[y] = Poison1
  <2>1. CASE y = x
    BY <2>1, <1>0, <1>3
  <2>2. CASE y # x
    <3>1. \A i \in 1 .. Len(s) : s[i] # y
      <4>1. SUFFICES ASSUME NEW i \in 1 .. Len(s), s[i] = y PROVE FALSE
        OBVIOUS
      <4>2. CASE i < n
        <5>1. i \in 1 .. n - 1 /\ i \in DOMAIN t
          BY <4>2, <1>0
        <5>. QED BY <5>1, <4>1, <1>8 DEF ToSet
      <4>3. CASE i = n
        BY <4>3, <4>1, <2>2
      <4>4. CASE i > n
        <5>1. i - 1 \in n .. Len(t) /\ i - 1 \in DOMAIN t /\ (i - 1) + 1 = i
          BY <4>4, <1>0
        <5>2. t[i - 1] = y
          BY <5>1, <4>1
        <5>. QED BY <5>1, <5>2, <1>8 DEF ToSet
      <4>. QED BY <4>2, <4>3, <4>4, <1>0
    <3>2. y \notin ToSet(s)
      BY <3>1, <1>0 DEF ToSet
    <3>3. y # a /\ y \in Links
      BY <3>1, <1>0, NodesDiffer DEF NodeAt, Links
    <3>4. l.next[y] = Poison1
      BY <3>2, <1>8 DEF Loose
    <3>. QED
      <4>. HIDE DEF a, b, x
      <4>. QED BY <2>2, <3>3, <3>4, <1>3
  <2>. QED BY <2>1, <2>2
<1>. QED BY <1>7, <1>8 DEF Loose

\* The list read the other way is a list of the same nodes in reverse.
LEMMA ChainMirror ==
  ASSUME NEW l, NEW s, Chain(l, s), NEW k, k = [l EXCEPT !.next = l.prev, !.prev = l.next]
  PROVE  Chain(k, Reverse(s))
<1> DEFINE r == Reverse(s)
<1>0. l \in AnyList /\ Distinct(s) /\ s \in Seq(Items) /\ Len(s) \in Nat
  BY DEF Chain, Distinct
<1>1. k = [kind |-> "list", next |-> l.prev, prev |-> l.next] /\ k \in AnyList
  BY <1>0 DEF AnyList
<1>2. ASSUME NEW i \in 1 .. Len(s) PROVE Len(s) - i + 1 \in 1 .. Len(s)
  BY <1>0
<1>3. /\ r \in Seq(Items) /\ Len(r) = Len(s)
      /\ \A i \in 1 .. Len(s) : r[i] = s[Len(s) - i + 1]
  <2>1. ASSUME NEW i \in 1 .. Len(s) PROVE s[Len(s) - i + 1] \in Items
    BY <1>0, <1>2
  <2>2. r \in [1 .. Len(s) -> Items]
    BY <2>1 DEF Reverse
  <2>3. r \in Seq(Items) /\ Len(r) = Len(s)
    BY <2>2, <1>0, SeqIs
  <2>. QED BY <2>3 DEF Reverse
<1>. HIDE DEF r
<1>4. Distinct(r)
  <2>1. ASSUME NEW i \in 1 .. Len(r), NEW j \in 1 .. Len(r), r[i] = r[j] PROVE i = j
    <3>1. /\ Len(s) - i + 1 \in 1 .. Len(s) /\ Len(s) - j + 1 \in 1 .. Len(s)
          /\ s[Len(s) - i + 1] = s[Len(s) - j + 1]
      BY <2>1, <1>2, <1>3
    <3>2. Len(s) - i + 1 = Len(s) - j + 1
      BY <3>1, <1>0 DEF Distinct
    <3>. QED BY <3>2, <1>0, <1>3
  <2>. QED BY <2>1, <1>3 DEF Distinct
<1>5. ASSUME NEW i \in Int PROVE NodeAt(r, i) = NodeAt(s, Len(s) - i + 1)
  <2>1. i \in 1 .. Len(r) <=> Len(s) - i + 1 \in 1 .. Len(s)
    BY <1>0, <1>3
  <2>. QED BY <2>1, <1>3 DEF NodeAt
<1>6. ASSUME NEW i \in 0 .. Len(r)
      PROVE  k.next[NodeAt(r, i)] = NodeAt(r, i + 1) /\ k.prev[NodeAt(r, i + 1)] = NodeAt(r, i)
  <2> DEFINE j == Len(s) - i
  <2>1. j \in 0 .. Len(s) /\ Len(s) - i + 1 = j + 1 /\ Len(s) - (i + 1) + 1 = j
        /\ i \in Int /\ i + 1 \in Int
    BY <1>0, <1>3
  <2>2. NodeAt(r, i) = NodeAt(s, j + 1) /\ NodeAt(r, i + 1) = NodeAt(s, j)
    <3>1. NodeAt(r, i) = NodeAt(s, Len(s) - i + 1)
          /\ NodeAt(r, i + 1) = NodeAt(s, Len(s) - (i + 1) + 1)
      BY <2>1, <1>5
    <3>. QED BY <3>1, <2>1
  <2>. HIDE DEF j
  <2>3. l.next[NodeAt(s, j)] = NodeAt(s, j + 1) /\ l.prev[NodeAt(s, j + 1)] = NodeAt(s, j)
    BY <2>1 DEF Chain
  <2>. QED BY <2>2, <2>3, <1>1
<1>7. Chain(k, r)
  BY <1>1, <1>4, <1>6 DEF Chain
<1>. QED BY <1>7 DEF r

\* t are the nodes of s without those of gone among its first i; f says where
\* each of them is in s.
Kept(t, f, s, i, gone) ==
  /\ t \in Seq(Items) /\ f \in [1 .. Len(t) -> 1 .. Len(s)]
  /\ \A p \in 1 .. Len(t) : t[p] = s[f[p]]
  /\ \A p, q \in 1 .. Len(t) : p < q => f[p] < f[q]
  /\ \A m \in 1 .. Len(s) : (m > i \/ s[m] \notin gone) <=> \E p \in 1 .. Len(t) : f[p] = m

\* The walk before it has met place i + 1 of s.
Walked(w, s, i, gone) ==
  /\ w.node = NodeAt(s, i + 1) /\ w.seen = SubSeq(s, 1, i)
  /\ \E t, f : Chain(w.l, t) /\ Kept(t, f, s, i, gone)

\* A node met is in the list still, and when it goes the others stay in order.
LEMMA KeptStep ==
  ASSUME NEW l, NEW s, Distinct(s), NEW i \in 0 .. Len(s) - 1, NEW gone \in SUBSET Items,
         NEW t, NEW f, Chain(l, t), Kept(t, f, s, i, gone)
  PROVE  /\ l.next[s[i + 1]] = NodeAt(s, i + 2)
         /\ \E u, g : /\ Chain(IF s[i + 1] \in gone THEN list_del(l, s[i + 1]) ELSE l, u)
                      /\ Kept(u, g, s, i + 1, gone)
<1> DEFINE x == s[i + 1]
<1>0. /\ s \in Seq(Items) /\ Len(s) \in Nat /\ i \in Nat /\ i + 1 \in 1 .. Len(s) /\ i + 1 > i
      /\ t \in Seq(Items) /\ Len(t) \in Nat /\ x \in Items
      /\ f \in [1 .. Len(t) -> 1 .. Len(s)]
  BY DEF Distinct, Kept
<1>1. PICK n \in 1 .. Len(t) : f[n] = i + 1
  BY <1>0 DEF Kept
<1>2. t[n] = x /\ NodeAt(t, n) = x
  BY <1>1 DEF Kept, NodeAt
<1>3. NodeAt(t, n + 1) = NodeAt(s, i + 2)
  <2>1. CASE i + 1 = Len(s)
    <3>1. n = Len(t)
      <4>1. SUFFICES ASSUME n < Len(t) PROVE FALSE
        BY <1>0
      <4>2. n + 1 \in 1 .. Len(t) /\ n < n + 1
        BY <4>1, <1>0
      <4>3. f[n] < f[n + 1] /\ f[n + 1] \in 1 .. Len(s)
        BY <4>2, <1>0 DEF Kept
      <4>. QED BY <4>3, <2>1, <1>0, <1>1
    <3>. QED BY <2>1, <3>1, <1>0 DEF NodeAt
  <2>2. CASE i + 1 < Len(s)
    <3>1. i + 2 \in 1 .. Len(s) /\ i + 2 > i
      BY <2>2, <1>0
    <3>2. PICK m \in 1 .. Len(t) : f[m] = i + 2
      BY <3>1 DEF Kept
    <3>3. n < m
      <4>1. SUFFICES ASSUME m < n \/ m = n PROVE FALSE
        BY <1>0
      <4>2. m < n => f[m] < f[n]
        BY DEF Kept
      <4>. QED BY <4>1, <4>2, <3>2, <1>0, <1>1
    <3>4. n + 1 \in 1 .. Len(t) /\ n < n + 1
      BY <3>3, <1>0
    <3>5. m = n + 1
      <4>1. SUFFICES ASSUME n + 1 < m PROVE FALSE
        BY <3>3, <1>0
      <4>2. f[n] < f[n + 1] /\ f[n + 1] < f[m] /\ f[n + 1] \in 1 .. Len(s)
        BY <4>1, <3>4, <1>0 DEF Kept
      <4>. QED BY <4>2, <3>2, <1>0, <1>1
    <3>6. t[n + 1] = s[i + 2]
      BY <3>2, <3>5 DEF Kept
    <3>. QED BY <3>1, <3>4, <3>6 DEF NodeAt
  <2>. QED BY <2>1, <2>2, <1>0
<1>4. l.next[x] = NodeAt(s, i + 2)
  <2>1. n \in 0 .. Len(t)
    BY <1>0
  <2>2. l.next[NodeAt(t, n)] = NodeAt(t, n + 1)
    BY <2>1 DEF Chain
  <2>. QED BY <2>2, <1>2, <1>3
<1>5. CASE x \notin gone
  <2>1. ASSUME NEW m \in 1 .. Len(s)
        PROVE  (m > i + 1 \/ s[m] \notin gone) <=> (m > i \/ s[m] \notin gone)
    BY <1>0, <1>5
  <2>2. Kept(t, f, s, i + 1, gone)
    BY <2>1 DEF Kept
  <2>. QED BY <2>2, <1>4, <1>5
<1>6. CASE x \in gone
  <2> DEFINE u == [p \in 1 .. Len(t) - 1 |-> IF p < n THEN t[p] ELSE t[p + 1]]
             g == [p \in 1 .. Len(t) - 1 |-> IF p < n THEN f[p] ELSE f[p + 1]]
             at(p) == IF p < n THEN p ELSE p + 1
  <2>1. ASSUME NEW p \in 1 .. Len(t) - 1
        PROVE  at(p) \in 1 .. Len(t) /\ at(p) # n /\ u[p] = t[at(p)] /\ g[p] = f[at(p)]
    BY <1>0
  <2>2. u \in [1 .. Len(t) - 1 -> Items] /\ g \in [1 .. Len(t) - 1 -> 1 .. Len(s)]
    BY <1>0
  <2>3. /\ u \in Seq(Items) /\ Len(u) = Len(t) - 1
        /\ \A p \in 1 .. n - 1 : u[p] = t[p]
        /\ \A p \in n .. Len(t) - 1 : u[p] = t[p + 1]
    <3>1. Len(t) - 1 \in Nat
      BY <1>0
    <3>2. u \in Seq(Items) /\ Len(u) = Len(t) - 1
      <4>. HIDE DEF u
      <4>. QED BY <3>1, <2>2, SeqIs
    <3>3. /\ \A p \in 1 .. n - 1 : u[p] = t[p]
          /\ \A p \in n .. Len(t) - 1 : u[p] = t[p + 1]
      BY <1>0
    <3>. QED BY <3>2, <3>3
  <2>. HIDE DEF u, g
  <2>4. Chain(list_del(l, x), u)
    <3>1. list_del(l, x) = list_del(l, t[n])
      BY <1>2
    <3>2. /\ u \in Seq(Items) /\ Len(u) = Len(t) - 1
          /\ \A p \in 1 .. n - 1 : u[p] = t[p]
          /\ \A p \in n .. Len(u) : u[p] = t[p + 1]
      BY <2>3
    <3>. HIDE DEF x
    <3>. QED BY <3>1, <3>2, ChainDel
  <2>5. \A p \in 1 .. Len(u) : u[p] = s[g[p]]
    <3>1. ASSUME NEW p \in 1 .. Len(t) - 1 PROVE u[p] = s[g[p]]
      <4>1. at(p) \in 1 .. Len(t) /\ u[p] = t[at(p)] /\ g[p] = f[at(p)]
        BY <2>1
      <4>. HIDE DEF at
      <4>. QED BY <4>1 DEF Kept
    <3>. QED BY <3>1, <2>3
  <2>6. \A p, q \in 1 .. Len(u) : p < q => g[p] < g[q]
    <3>1. ASSUME NEW p \in 1 .. Len(t) - 1, NEW q \in 1 .. Len(t) - 1, p < q PROVE g[p] < g[q]
      <4>1. /\ at(p) \in 1 .. Len(t) /\ g[p] = f[at(p)]
            /\ at(q) \in 1 .. Len(t) /\ g[q] = f[at(q)]
        BY <2>1
      <4>2. at(p) < at(q)
        BY <3>1, <1>0
      <4>. HIDE DEF at
      <4>. QED BY <4>1, <4>2 DEF Kept
    <3>. QED BY <3>1, <2>3
  <2>7. ASSUME NEW m \in 1 .. Len(s)
        PROVE  (m > i + 1 \/ s[m] \notin gone) <=> \E p \in 1 .. Len(u) : g[p] = m
    <3>1. (m > i \/ s[m] \notin gone) <=> \E p \in 1 .. Len(t) : f[p] = m
      BY DEF Kept
    <3>2. (m > i + 1 \/ s[m] \notin gone) <=> ((m > i \/ s[m] \notin gone) /\ m # i + 1)
      BY <1>0, <1>6
    <3>3. ASSUME NEW p \in 1 .. Len(u)
          PROVE f[at(p)] = g[p] /\ at(p) \in 1 .. Len(t) /\ g[p] # i + 1
      <4>1. p \in 1 .. Len(t) - 1
        BY <2>3
      <4>2. at(p) \in 1 .. Len(t) /\ at(p) # n /\ g[p] = f[at(p)]
        BY <4>1, <2>1
      <4>3. at(p) \in Int /\ n \in Int /\ (at(p) < n \/ n < at(p))
        BY <4>2, <1>0
      <4>. HIDE DEF at
      <4>4. f[at(p)] # f[n]
        <5>1. at(p) < n => f[at(p)] < f[n]
          BY <4>2 DEF Kept
        <5>2. n < at(p) => f[n] < f[at(p)]
          BY <4>2 DEF Kept
        <5>3. f[n] \in Int /\ f[at(p)] \in Int
          BY <4>2, <1>0
        <5>. QED BY <5>1, <5>2, <5>3, <4>3
      <4>. QED BY <4>2, <4>4, <1>1
    <3>4. ASSUME NEW q \in 1 .. Len(t), f[q] = m, m # i + 1 PROVE \E p \in 1 .. Len(u) : g[p] = m
      <4> DEFINE p == IF q < n THEN q ELSE q - 1
      <4>1. q # n
        BY <3>4, <1>1
      <4>2. p \in 1 .. Len(t) - 1 /\ at(p) = q
        BY <4>1, <1>0
      <4>. HIDE DEF p, at
      <4>3. g[p] = m /\ p \in 1 .. Len(u)
        BY <4>2, <3>4, <2>1, <2>3
      <4>. QED BY <4>3
    <3>. HIDE DEF at
    <3>. QED BY <3>1, <3>2, <3>3, <3>4
  <2>8. Kept(u, g, s, i + 1, gone)
    BY <2>2, <2>3, <2>5, <2>6, <2>7 DEF Kept
  <2>. QED BY <2>4, <2>8, <1>4, <1>6
<1>. QED BY <1>5, <1>6

\* No list is longer than there are nodes.
LEMMA Fits ==
  ASSUME NEW s, Distinct(s)
  PROVE  Cardinality(Items) \in Nat /\ Len(s) <= Cardinality(Items)
<1>1. Len(s) \in Nat /\ s \in [1 .. Len(s) -> Items] /\ IsFiniteSet(Items)
  BY BuffersAssumption DEF Distinct
<1>2. s \in Injection(1 .. Len(s), Items)
  BY <1>1 DEF Distinct, Injection, IsInjective
<1>3. Cardinality(1 .. Len(s)) <= Cardinality(Items)
  BY <1>1, <1>2, FS_Injection
<1>4. Cardinality(1 .. Len(s)) = Len(s)
  <2>1. 1 \in Int /\ Len(s) \in Int
    BY <1>1
  <2>2. Cardinality(1 .. Len(s)) = IF 1 > Len(s) THEN 0 ELSE Len(s) - 1 + 1
    BY <2>1, FS_Interval
  <2>. QED BY <2>2, <1>1
<1>5. Cardinality(Items) \in Nat
  BY <1>1, FS_CardinalityType
<1>. QED BY <1>3, <1>4, <1>5

\* The walk meets the nodes in their order, ends in the head and leaves a list of
\* those the callback did not take out (list_walk_all).
LEMMA WalkIs ==
  ASSUME NEW l, NEW s, Chain(l, s), NEW gone \in SUBSET Items
  PROVE  /\ list_walk_all(l, gone).node = ListHead /\ list_walk_all(l, gone).seen = s
         /\ \E t, f : Chain(list_walk_all(l, gone).l, t) /\ Kept(t, f, s, Len(s), gone)
<1>0. /\ l \in AnyList /\ Distinct(s) /\ s \in Seq(Items) /\ Len(s) \in Nat
      /\ Rounds \in Nat /\ Len(s) + 1 <= Rounds
  BY Fits DEF Chain, Distinct, Rounds
<1> DEFINE W == [l : AnyList, node : Ends, seen : Seq(Items)]
           step(w) == IF w.node \in Items THEN ListWalk(w, gone) ELSE w
           first == [l |-> l, node |-> l.next[ListHead], seen |-> <<>>]
           d == [i \in Nat |-> [w \in W |-> step(w)]]
           go[i \in 0 .. Rounds] ==
             IF i = 0 THEN first
             ELSE IF go[i - 1].node \in Items THEN ListWalk(go[i - 1], gone) ELSE go[i - 1]
<1>1. first \in W
  <2>1. ListHead \in Links
    BY DEF Links
  <2>2. l.next[ListHead] \in Ends
    BY <2>1, <1>0 DEF AnyList
  <2>. QED BY <2>2, <1>0
<1>2. ASSUME NEW w \in W PROVE step(w) \in W
  <2>1. CASE w.node \in Items
    <3>1. w.l \in AnyList /\ w.seen \in Seq(Items) /\ w.node \in Links
      BY <2>1 DEF Links
    <3>2. list_del(w.l, w.node) \in AnyList
      BY <3>1, <2>1, DelIs
    <3>3. w.l.next[w.node] \in Ends
      BY <3>1 DEF AnyList
    <3>4. Append(w.seen, w.node) \in Seq(Items)
      BY <3>1, <2>1
    <3>5. ListWalk(w, gone) \in W
      BY <3>1, <3>2, <3>3, <3>4 DEF ListWalk
    <3>. QED BY <3>5, <2>1
  <2>2. CASE w.node \notin Items
    BY <2>2
  <2>. QED BY <2>1, <2>2
<1>3. d \in [Nat -> [W -> W]]
  <2>. HIDE DEF W, step
  <2>. QED BY <1>2
<1>4. PICK h : Solves(h, W, first, d, Rounds)
  <2>. HIDE DEF W, first, d
  <2>. QED BY <1>0, <1>1, <1>3, Recursion
<1>5. h \in [0 .. Rounds -> W] /\ h[0] = first /\ \A i \in 1 .. Rounds : h[i] = step(h[i - 1])
  <2>1. h \in [0 .. Rounds -> W] /\ h[0] = first /\ \A i \in 1 .. Rounds : h[i] = d[i][h[i - 1]]
    <3>. HIDE DEF W, first, d
    <3>. QED BY <1>4 DEF Solves
  <2>2. ASSUME NEW i \in 1 .. Rounds PROVE h[i] = step(h[i - 1])
    <3>1. i - 1 \in 0 .. Rounds /\ i \in Nat
      BY <1>0
    <3>. HIDE DEF W, first, step
    <3>2. h[i - 1] \in W
      BY <3>1, <2>1
    <3>3. d[i][h[i - 1]] = step(h[i - 1])
      BY <3>1, <3>2
    <3>. HIDE DEF d
    <3>. QED BY <3>3, <2>1
  <2>. QED BY <2>1, <2>2
<1>6. h = [i \in 0 .. Rounds |-> IF i = 0 THEN first
             ELSE IF h[i - 1].node \in Items THEN ListWalk(h[i - 1], gone) ELSE h[i - 1]]
  <2>1. ASSUME NEW i \in 0 .. Rounds
        PROVE  h[i] = IF i = 0 THEN first
                      ELSE IF h[i - 1].node \in Items THEN ListWalk(h[i - 1], gone) ELSE h[i - 1]
    <3>1. i # 0 => i \in 1 .. Rounds
      BY <1>0
    <3>. HIDE DEF W, first
    <3>. QED BY <3>1, <1>5
  <2>. HIDE DEF W, first
  <2>. QED BY <2>1, <1>5, Zenon
<1>7. go = [i \in 0 .. Rounds |-> IF i = 0 THEN first
              ELSE IF go[i - 1].node \in Items THEN ListWalk(go[i - 1], gone) ELSE go[i - 1]]
  <2>. HIDE DEF first
  <2>. QED BY <1>6
<1>. HIDE DEF go
<1>8. list_walk_all(l, gone) = go[Rounds]
  BY DEF list_walk_all, go
<1>9. go[0] = first /\ \A i \in 1 .. Rounds : go[i] = step(go[i - 1])
  <2>1. 0 \in 0 .. Rounds
    BY <1>0
  <2>2. go[0] = first
    <3>. HIDE DEF first
    <3>. QED BY <2>1, <1>7
  <2>3. ASSUME NEW i \in 1 .. Rounds PROVE go[i] = step(go[i - 1])
    <3>1. i \in 0 .. Rounds /\ i # 0
      BY <1>0
    <3>. HIDE DEF first
    <3>. QED BY <3>1, <1>7, Zenon
  <2>. QED BY <2>2, <2>3
<1>10. Walked(go[0], s, 0, gone)
  <2>1. l.next[ListHead] = NodeAt(s, 0 + 1)
    <3>1. 0 \in 0 .. Len(s) /\ NodeAt(s, 0) = ListHead
      BY <1>0 DEF NodeAt
    <3>. QED BY <3>1 DEF Chain
  <2>2. SubSeq(s, 1, 0) = <<>>
    BY <1>0
  <2>3. Kept(s, [p \in 1 .. Len(s) |-> p], s, 0, gone)
    BY <1>0 DEF Kept
  <2>. QED BY <2>1, <2>2, <2>3, <1>9 DEF Walked
<1>11. ASSUME NEW i \in 0 .. Len(s) - 1, NEW w, Walked(w, s, i, gone)
       PROVE  Walked(step(w), s, i + 1, gone)
  <2>1. i + 1 \in 1 .. Len(s) /\ i \in Nat /\ (i + 1) + 1 = i + 2
    BY <1>0
  <2>2. w.node = s[i + 1] /\ s[i + 1] \in Items /\ w.seen = SubSeq(s, 1, i)
    BY <2>1, <1>0, <1>11 DEF Walked, NodeAt
  <2>3. step(w) = [l |-> IF w.node \in gone THEN list_del(w.l, w.node) ELSE w.l,
                   node |-> w.l.next[w.node], seen |-> Append(w.seen, w.node)]
    BY <2>2 DEF ListWalk
  <2>4. PICK t, f : Chain(w.l, t) /\ Kept(t, f, s, i, gone)
    BY <1>11 DEF Walked
  <2>5. /\ w.l.next[s[i + 1]] = NodeAt(s, i + 2)
        /\ \E u, g : /\ Chain(IF s[i + 1] \in gone THEN list_del(w.l, s[i + 1]) ELSE w.l, u)
                     /\ Kept(u, g, s, i + 1, gone)
    BY <2>4, <1>0, KeptStep
  <2>6. Append(SubSeq(s, 1, i), s[i + 1]) = SubSeq(s, 1, i + 1)
    BY <2>1, <1>0
  <2>. HIDE DEF step
  <2>7. /\ step(w).node = NodeAt(s, (i + 1) + 1) /\ step(w).seen = SubSeq(s, 1, i + 1)
        /\ step(w).l = IF s[i + 1] \in gone THEN list_del(w.l, s[i + 1]) ELSE w.l
    BY <2>1, <2>2, <2>3, <2>5, <2>6
  <2>. QED BY <2>5, <2>7 DEF Walked
<1>12. \A n \in Nat : n <= Len(s) => Walked(go[n], s, n, gone)
  <2> DEFINE T == {n \in Nat : n <= Len(s) => Walked(go[n], s, n, gone)}
  <2>. HIDE DEF step, first
  <2>1. 0 \in T
    BY <1>10
  <2>2. ASSUME NEW n \in Nat, n \in T PROVE n + 1 \in T
    <3>1. CASE n + 1 <= Len(s)
      <4>1. n \in 0 .. Len(s) - 1 /\ n + 1 \in 1 .. Rounds /\ (n + 1) - 1 = n /\ n <= Len(s)
        BY <3>1, <1>0
      <4>2. go[n + 1] = step(go[n])
        BY <4>1, <1>9
      <4>3. Walked(step(go[n]), s, n + 1, gone)
        BY <4>1, <2>2, <1>11
      <4>. QED BY <4>2, <4>3
    <3>. QED BY <3>1
  <2>3. \A n \in Nat : n \in T
    <3>. HIDE DEF T
    <3>. QED BY <2>1, <2>2, Induct
  <2>. QED BY <2>3
<1>13. Walked(go[Len(s)], s, Len(s), gone)
  BY <1>0, <1>12
<1>14. go[Len(s)].node = ListHead /\ ListHead \notin Items
  BY <1>0, <1>13, NodesDiffer DEF Walked, NodeAt
<1>15. go[Rounds] = go[Len(s)]
  <2> DEFINE T == {n \in Nat : Len(s) + n <= Rounds => go[Len(s) + n] = go[Len(s)]}
  <2>. HIDE DEF first
  <2>1. 0 \in T
    BY <1>0
  <2>2. ASSUME NEW n \in Nat, n \in T PROVE n + 1 \in T
    <3>1. CASE Len(s) + (n + 1) <= Rounds
      <4>1. /\ Len(s) + (n + 1) \in 1 .. Rounds /\ (Len(s) + (n + 1)) - 1 = Len(s) + n
            /\ Len(s) + n <= Rounds
        BY <3>1, <1>0
      <4>2. go[Len(s) + n] = go[Len(s)]
        BY <4>1, <2>2
      <4>3. go[Len(s) + (n + 1)] = step(go[Len(s) + n])
        <5>. HIDE DEF step
        <5>. QED BY <4>1, <1>9
      <4>4. step(go[Len(s)]) = go[Len(s)]
        BY <1>14
      <4>. QED
        <5>. HIDE DEF step
        <5>. QED BY <4>2, <4>3, <4>4
    <3>. QED BY <3>1
  <2>3. \A n \in Nat : n \in T
    <3>. HIDE DEF T
    <3>. QED BY <2>1, <2>2, Induct
  <2>4. Rounds - Len(s) \in Nat /\ Len(s) + (Rounds - Len(s)) = Rounds
    BY <1>0
  <2>5. Rounds - Len(s) \in T
    BY <2>3, <2>4
  <2>. QED BY <2>4, <2>5
<1>16. SubSeq(s, 1, Len(s)) = s
  BY <1>0
<1>. QED
  <2>. HIDE DEF step, first
  <2>. QED BY <1>8, <1>13, <1>14, <1>15, <1>16 DEF Walked

\* The two walks meet the members of a chain in order, one in each direction
\* (list_walk_all, dlist.h).
LEMMA ForwardIs ==
  ASSUME NEW l, NEW s, Chain(l, s)
  PROVE  Forward(l) = s /\ Backward(l) = Reverse(s)
<1>1. ASSUME NEW k, NEW t, Chain(k, t) PROVE Forward(k) = t
  <2>1. {} \in SUBSET Items
    OBVIOUS
  <2>2. list_walk_all(k, {}).node = ListHead /\ list_walk_all(k, {}).seen = t
    BY <2>1, <1>1, WalkIs
  <2>. QED BY <2>2 DEF Forward
<1>2. Chain([l EXCEPT !.next = l.prev, !.prev = l.next], Reverse(s))
  BY ChainMirror
<1>3. Backward(l) = Reverse(s)
  <2> DEFINE k == [l EXCEPT !.next = l.prev, !.prev = l.next]
  <2>1. Backward(l) = Forward(k)
    BY DEF Backward
  <2>2. Chain(k, Reverse(s))
    BY <1>2
  <2>. HIDE DEF k
  <2>. QED BY <2>1, <2>2, <1>1
<1>. QED BY <1>1, <1>3

\* The nodes that were not taken out are left, in their order.
LEMMA KeptMeans ==
  ASSUME NEW s, Distinct(s), NEW gone, NEW t, NEW f, Kept(t, f, s, Len(s), gone)
  PROVE  /\ ToSet(t) = ToSet(s) \ gone
         /\ \A i, j \in DOMAIN t : i < j =>
              \E p, q \in DOMAIN s : p < q /\ t[i] = s[p] /\ t[j] = s[q]
<1>0. /\ s \in Seq(Items) /\ Len(s) \in Nat /\ t \in Seq(Items) /\ Len(t) \in Nat
      /\ DOMAIN s = 1 .. Len(s) /\ DOMAIN t = 1 .. Len(t)
      /\ f \in [1 .. Len(t) -> 1 .. Len(s)]
  BY DEF Distinct, Kept
<1>1. ASSUME NEW i \in 1 .. Len(t) PROVE t[i] = s[f[i]] /\ f[i] \in 1 .. Len(s) /\ t[i] \notin gone
  <2>1. t[i] = s[f[i]] /\ f[i] \in 1 .. Len(s)
    BY <1>0 DEF Kept
  <2>2. f[i] > Len(s) \/ s[f[i]] \notin gone
    BY <2>1 DEF Kept
  <2>. QED BY <2>1, <2>2, <1>0
<1>2. ASSUME NEW m \in 1 .. Len(s), s[m] \notin gone PROVE \E p \in 1 .. Len(t) : t[p] = s[m]
  <2>1. PICK p \in 1 .. Len(t) : f[p] = m
    BY <1>2 DEF Kept
  <2>. QED BY <2>1, <1>1
<1>3. ToSet(t) = ToSet(s) \ gone
  <2>1. /\ \A y : y \in ToSet(t) <=> \E p \in 1 .. Len(t) : t[p] = y
        /\ \A y : y \in ToSet(s) <=> \E p \in 1 .. Len(s) : s[p] = y
    BY <1>0 DEF ToSet
  <2>2. ASSUME NEW y \in ToSet(t) PROVE y \in ToSet(s) \ gone
    BY <2>1, <1>1
  <2>3. ASSUME NEW y \in ToSet(s) \ gone PROVE y \in ToSet(t)
    BY <2>1, <1>2
  <2>. QED BY <2>2, <2>3
<1>4. ASSUME NEW i \in 1 .. Len(t), NEW j \in 1 .. Len(t), i < j
      PROVE  \E p, q \in 1 .. Len(s) : p < q /\ t[i] = s[p] /\ t[j] = s[q]
  <2>1. f[i] < f[j]
    BY <1>4 DEF Kept
  <2>. QED BY <2>1, <1>1
<1>5. \A i, j \in DOMAIN t : i < j =>
        \E p, q \in DOMAIN s : p < q /\ t[i] = s[p] /\ t[j] = s[q]
  <2>1. ASSUME NEW i \in DOMAIN t, NEW j \in DOMAIN t, i < j
        PROVE  \E p, q \in DOMAIN s : p < q /\ t[i] = s[p] /\ t[j] = s[q]
    <3>1. i \in 1 .. Len(t) /\ j \in 1 .. Len(t)
      BY <1>0
    <3>2. PICK p \in 1 .. Len(s), q \in 1 .. Len(s) : p < q /\ t[i] = s[p] /\ t[j] = s[q]
      BY <3>1, <2>1, <1>4
    <3>3. p \in DOMAIN s /\ q \in DOMAIN s
      BY <1>0
    <3>. QED BY <3>2, <3>3
  <2>. QED BY <2>1, Zenon
<1>. QED BY <1>3, <1>5

\* list_add at either end, list_del of the node at a place, on what the links mean.
ListSeq(l, s) == Chain(l, s) /\ Loose(l, s)

\* A new list is the empty chain, and every node is outside it (list_init_head).
LEMMA ListInit ==
  ListSeq(list_init_head, <<>>)
<1>1. ListHead \in Links /\ Poison1 \in Ends /\ Poison2 \in Ends /\ ListHead \in Ends
      /\ ListHead \notin Items
  BY BuffersAssumption DEF Links, Ends, ListHead
<1>2. list_init_head \in AnyList
  BY <1>1 DEF list_init_head, AnyList
<1>3. Distinct(<<>>) /\ Len(<<>>) = 0
  BY DEF Distinct
<1>4. NodeAt(<<>>, 0) = ListHead /\ NodeAt(<<>>, 0 + 1) = ListHead
  BY DEF NodeAt
<1>5. /\ list_init_head.next[ListHead] = ListHead /\ list_init_head.prev[ListHead] = ListHead
      /\ \A x \in Items : list_init_head.next[x] = Poison1
  BY <1>1 DEF list_init_head, Links
<1>6. Chain(list_init_head, <<>>)
  <2>1. \A i \in 0 .. 0 : i = 0
    OBVIOUS
  <2>. QED BY <2>1, <1>2, <1>3, <1>4, <1>5 DEF Chain
<1>. QED BY <1>5, <1>6 DEF ListSeq, Loose

\* Adding a node that is in no list puts it first or last (list_add_head and
\* list_add_tail).
LEMMA ListAdd ==
  ASSUME NEW l, NEW s, ListSeq(l, s), NEW x \in Items, l.next[x] = Poison1
  PROVE  /\ x \notin ToSet(s)
         /\ ListSeq(LinkIn(l, x, ListHead, l.next[ListHead]), <<x>> \o s)
         /\ ListSeq(LinkIn(l, x, l.prev[ListHead], ListHead), Append(s, x))
<1>0. /\ Chain(l, s) /\ Loose(l, s) /\ Distinct(s) /\ s \in Seq(Items) /\ Len(s) \in Nat
      /\ DOMAIN s = 1 .. Len(s)
  BY DEF ListSeq, Chain, Distinct
<1>1. x \notin ToSet(s)
  <2>1. SUFFICES ASSUME NEW i \in 1 .. Len(s), s[i] = x PROVE FALSE
    BY <1>0 DEF ToSet
  <2>2. i \in 0 .. Len(s) /\ NodeAt(s, i) = x /\ i + 1 \in Int
    BY <2>1, <1>0 DEF NodeAt
  <2>3. l.next[x] = NodeAt(s, i + 1)
    BY <2>2, <1>0 DEF Chain
  <2>4. NodeAt(s, i + 1) \in Links
    BY <2>2, <1>0, NodesDiffer
  <2>5. Poison1 \notin Links
    BY BuffersAssumption DEF Poison1, Links, ListHead
  <2>. QED BY <2>3, <2>4, <2>5
<1>2. l.next[ListHead] = NodeAt(s, 1) /\ l.prev[ListHead] = NodeAt(s, Len(s))
  <2>1. 0 \in 0 .. Len(s) /\ Len(s) \in 0 .. Len(s) /\ 0 + 1 = 1
    BY <1>0
  <2>2. NodeAt(s, 0) = ListHead /\ NodeAt(s, Len(s) + 1) = ListHead
    BY <1>0 DEF NodeAt
  <2>3. l.next[NodeAt(s, 0)] = NodeAt(s, 0 + 1)
    BY <2>1, <1>0 DEF Chain
  <2>4. l.prev[NodeAt(s, Len(s) + 1)] = NodeAt(s, Len(s))
    BY <2>1, <1>0 DEF Chain
  <2>. QED BY <2>1, <2>2, <2>3, <2>4
<1>3. ListSeq(LinkIn(l, x, ListHead, l.next[ListHead]), <<x>> \o s)
  <2> DEFINE t == <<x>> \o s
  <2>1. /\ t \in Seq(Items) /\ Len(t) = Len(s) + 1 /\ t[1] = x
        /\ \A i \in 2 .. Len(s) + 1 : t[i] = s[i - 1]
    BY <1>0
  <2>2. NodeAt(s, 0) = ListHead /\ 0 + 1 = 1 /\ 0 \in 0 .. Len(s) /\ 0 + 2 = 2
    BY <1>0 DEF NodeAt
  <2>. HIDE DEF t
  <2>3. LinkIn(l, x, ListHead, l.next[ListHead]) = LinkIn(l, x, NodeAt(s, 0), NodeAt(s, 0 + 1))
    BY <2>2, <1>2
  <2>4. /\ \A i \in 1 .. 0 : t[i] = s[i]
        /\ t[0 + 1] = x
        /\ \A i \in 0 + 2 .. Len(t) : t[i] = s[i - 1]
    BY <2>1, <2>2
  <2>5. Chain(LinkIn(l, x, ListHead, l.next[ListHead]), t)
        /\ Loose(LinkIn(l, x, ListHead, l.next[ListHead]), t)
    BY ONLY <2>1, <2>2, <2>3, <2>4, <1>0, <1>1, x \in Items, ChainAdd
  <2>6. ListSeq(LinkIn(l, x, ListHead, l.next[ListHead]), t)
    BY <2>5 DEF ListSeq
  <2>. QED BY <2>6 DEF t
<1>4. ListSeq(LinkIn(l, x, l.prev[ListHead], ListHead), Append(s, x))
  <2> DEFINE t == Append(s, x)
             n == Len(s)
  <2>1. /\ t \in Seq(Items) /\ Len(t) = Len(s) + 1 /\ t[n + 1] = x
        /\ \A i \in 1 .. n : t[i] = s[i]
    BY <1>0
  <2>2. NodeAt(s, n + 1) = ListHead /\ n \in 0 .. Len(s)
    BY <1>0 DEF NodeAt
  <2>. HIDE DEF t
  <2>3. LinkIn(l, x, l.prev[ListHead], ListHead) = LinkIn(l, x, NodeAt(s, n), NodeAt(s, n + 1))
    BY <2>2, <1>2
  <2>4. \A i \in n + 2 .. Len(t) : t[i] = s[i - 1]
    BY <2>1, <1>0
  <2>5. Chain(LinkIn(l, x, l.prev[ListHead], ListHead), t)
        /\ Loose(LinkIn(l, x, l.prev[ListHead], ListHead), t)
    BY ONLY <2>1, <2>2, <2>3, <2>4, <1>0, <1>1, x \in Items, ChainAdd
  <2>6. ListSeq(LinkIn(l, x, l.prev[ListHead], ListHead), t)
    BY <2>5 DEF ListSeq
  <2>. QED BY <2>6 DEF t
<1>. QED BY <1>1, <1>3, <1>4

\* Removing the node at place n leaves the others in order (list_del).
LEMMA ListDel ==
  ASSUME NEW l, NEW s, ListSeq(l, s), NEW n \in 1 .. Len(s)
  PROVE  ListSeq(list_del(l, s[n]), SubSeq(s, 1, n - 1) \o SubSeq(s, n + 1, Len(s)))
<1>0. Chain(l, s) /\ Loose(l, s) /\ s \in Seq(Items) /\ Len(s) \in Nat
  BY DEF ListSeq, Chain, Distinct
<1> DEFINE t == [i \in 1 .. Len(s) - 1 |-> IF i < n THEN s[i] ELSE s[i + 1]]
<1>1. t \in [1 .. Len(s) - 1 -> Items] /\ Len(s) - 1 \in Nat
  BY <1>0
<1>2. /\ \A i \in 1 .. n - 1 : t[i] = s[i]
      /\ \A i \in n .. Len(s) - 1 : t[i] = s[i + 1]
  BY <1>0
<1>. HIDE DEF t
<1>3. t \in Seq(Items) /\ Len(t) = Len(s) - 1
  BY <1>1, SeqIs
<1>4. t = SubSeq(s, 1, n - 1) \o SubSeq(s, n + 1, Len(s))
  BY <1>0, <1>1, <1>2, RemoveIs
<1>5. \A i \in n .. Len(t) : t[i] = s[i + 1]
  BY <1>2, <1>3
<1>6. Chain(list_del(l, s[n]), t) /\ Loose(list_del(l, s[n]), t)
  BY <1>0, <1>2, <1>3, <1>5, ChainDel
<1>. QED BY <1>4, <1>6 DEF ListSeq
-----------------------------------------------------------------------------
(***************************************************************************)
(* The hash table.                                                         *)
(***************************************************************************)

Table == [0 .. Buckets - 1 -> Seq(Items)]

Sorted(s) == \A i, j \in 1 .. Len(s) : i < j => s[i] < s[j]

\* Every chain is ascending and holds keys of its bucket only.
TableInv(t) ==
  /\ t \in [kind : {"hashtab"}, htable : Table, num : 0 .. Limit]
  /\ \A h \in 0 .. Buckets - 1 :
       /\ Sorted(t.htable[h])
       /\ \A i \in 1 .. Len(t.htable[h]) : hash_value(t.htable[h][i]) = h
  /\ t.num = Len(AllChains(t))

\* t is s with x put in at place n.
Inserted(s, n, x, t) ==
  /\ t \in Seq(Items) /\ Len(t) = Len(s) + 1
  /\ n \in 1 .. Len(s) + 1
  /\ \A i \in 1 .. n - 1 : t[i] = s[i]
  /\ t[n] = x
  /\ \A i \in n + 1 .. Len(s) + 1 : t[i] = s[i - 1]

\* Inserted names the places of what InsertAt computes.
LEMMA InsertedIs ==
  ASSUME NEW s \in Seq(Items), NEW n \in 1 .. Len(s) + 1, NEW x \in Items, NEW t
  PROVE  Inserted(s, n, x, t) <=> t = InsertAt(s, n, x)
<1>0. Len(s) \in Nat /\ Len(s) + 1 \in Nat
  OBVIOUS
<1>1. ASSUME NEW u, Inserted(s, n, x, u) PROVE u = InsertAt(s, n, x)
  <2>1. u \in [1 .. Len(s) + 1 -> Items]
    BY <1>1 DEF Inserted
  <2>2. u = SubSeq(s, 1, n - 1) \o <<x>> \o SubSeq(s, n, Len(s))
    BY <2>1, <1>1, InsertIs DEF Inserted
  <2>. QED BY <2>2 DEF InsertAt
<1> DEFINE v == [i \in 1 .. Len(s) + 1 |-> IF i < n THEN s[i] ELSE IF i = n THEN x ELSE s[i - 1]]
<1>2. v \in [1 .. Len(s) + 1 -> Items]
  BY <1>0
<1>3. /\ \A i \in 1 .. n - 1 : v[i] = s[i]
      /\ v[n] = x
      /\ \A i \in n + 1 .. Len(s) + 1 : v[i] = s[i - 1]
  BY <1>0
<1>. HIDE DEF v
<1>4. v \in Seq(Items) /\ Len(v) = Len(s) + 1
  BY <1>0, <1>2, SeqIs
<1>5. Inserted(s, n, x, v)
  BY <1>3, <1>4 DEF Inserted
<1>6. v = InsertAt(s, n, x)
  BY <1>5, <1>1
<1>. QED BY <1>1, <1>5, <1>6

\* What is put into a part is put into the whole, where the part begins.
LEMMA InsertedRight ==
  ASSUME NEW a \in Seq(Items), NEW s \in Seq(Items), NEW n, NEW x, NEW t, Inserted(s, n, x, t)
  PROVE  Inserted(a \o s, Len(a) + n, x, a \o t)
<1>0. /\ Len(a) \in Nat /\ Len(s) \in Nat /\ n \in 1 .. Len(s) + 1 /\ t \in Seq(Items)
      /\ Len(t) = Len(s) + 1
  BY DEF Inserted
<1>1. /\ a \o s \in Seq(Items) /\ Len(a \o s) = Len(a) + Len(s)
      /\ \A i \in 1 .. Len(a) + Len(s) : (a \o s)[i] = IF i <= Len(a) THEN a[i] ELSE s[i - Len(a)]
  BY ONLY a \in Seq(Items), s \in Seq(Items), ConcatProperties
<1>2. /\ a \o t \in Seq(Items) /\ Len(a \o t) = Len(a) + Len(t)
      /\ \A i \in 1 .. Len(a) + Len(t) : (a \o t)[i] = IF i <= Len(a) THEN a[i] ELSE t[i - Len(a)]
  BY ONLY a \in Seq(Items), <1>0, ConcatProperties
<1> DEFINE u == a \o s
           v == a \o t
<1>. HIDE DEF u, v
<1>3. ASSUME NEW i \in 1 .. (Len(a) + n) - 1 PROVE v[i] = u[i]
  <2>1. CASE i <= Len(a)
    <3>1. i \in 1 .. Len(a) + Len(s) /\ i \in 1 .. Len(a) + Len(t)
      BY <2>1, <1>0
    <3>. QED BY <3>1, <2>1, <1>1, <1>2 DEF u, v
  <2>2. CASE ~(i <= Len(a))
    <3>1. /\ i \in 1 .. Len(a) + Len(s) /\ i \in 1 .. Len(a) + Len(t)
          /\ i - Len(a) \in 1 .. n - 1
      BY <2>2, <1>0
    <3>2. t[i - Len(a)] = s[i - Len(a)]
      BY <3>1 DEF Inserted
    <3>. QED BY <3>1, <3>2, <2>2, <1>1, <1>2 DEF u, v
  <2>. QED BY <2>1, <2>2
<1>4. v[Len(a) + n] = x
  <2>1. /\ Len(a) + n \in 1 .. Len(a) + Len(t) /\ ~(Len(a) + n <= Len(a))
        /\ (Len(a) + n) - Len(a) = n
    BY <1>0
  <2>2. t[n] = x
    BY DEF Inserted
  <2>. QED BY <2>1, <2>2, <1>2 DEF v
<1>5. ASSUME NEW i \in (Len(a) + n) + 1 .. Len(u) + 1 PROVE v[i] = u[i - 1]
  <2>0. Len(u) = Len(a) + Len(s)
    BY <1>1 DEF u
  <2>1. /\ i \in 1 .. Len(a) + Len(t) /\ ~(i <= Len(a)) /\ i - Len(a) \in n + 1 .. Len(s) + 1
        /\ i - 1 \in 1 .. Len(a) + Len(s) /\ ~(i - 1 <= Len(a))
        /\ (i - 1) - Len(a) = (i - Len(a)) - 1
    BY <1>0, <2>0
  <2>2. t[i - Len(a)] = s[(i - Len(a)) - 1]
    BY <2>1 DEF Inserted
  <2>3. v[i] = t[i - Len(a)] /\ u[i - 1] = s[(i - 1) - Len(a)]
    BY <2>1, <1>1, <1>2 DEF u, v
  <2>. QED BY <2>1, <2>2, <2>3
<1>6. /\ v \in Seq(Items) /\ Len(v) = Len(u) + 1 /\ Len(a) + n \in 1 .. Len(u) + 1
  BY <1>0, <1>1, <1>2 DEF u, v
<1>7. Inserted(u, Len(a) + n, x, v)
  BY <1>3, <1>4, <1>5, <1>6 DEF Inserted
<1>. QED BY <1>7 DEF u, v

\* ... and in the first of two sequences it is an insertion into both together.
LEMMA InsertedLeft ==
  ASSUME NEW s \in Seq(Items), NEW a \in Seq(Items), NEW n, NEW x, NEW t, Inserted(s, n, x, t)
  PROVE  Inserted(s \o a, n, x, t \o a)
<1>0. /\ Len(a) \in Nat /\ Len(s) \in Nat /\ n \in 1 .. Len(s) + 1 /\ t \in Seq(Items)
      /\ Len(t) = Len(s) + 1
  BY DEF Inserted
<1>1. /\ s \o a \in Seq(Items) /\ Len(s \o a) = Len(s) + Len(a)
      /\ \A i \in 1 .. Len(s) + Len(a) : (s \o a)[i] = IF i <= Len(s) THEN s[i] ELSE a[i - Len(s)]
  BY ONLY a \in Seq(Items), s \in Seq(Items), ConcatProperties
<1>2. /\ t \o a \in Seq(Items) /\ Len(t \o a) = Len(t) + Len(a)
      /\ \A i \in 1 .. Len(t) + Len(a) : (t \o a)[i] = IF i <= Len(t) THEN t[i] ELSE a[i - Len(t)]
  BY ONLY a \in Seq(Items), <1>0, ConcatProperties
<1> DEFINE u == s \o a
           v == t \o a
<1>. HIDE DEF u, v
<1>3. ASSUME NEW i \in 1 .. n - 1 PROVE v[i] = u[i]
  <2>1. /\ i \in 1 .. Len(s) + Len(a) /\ i \in 1 .. Len(t) + Len(a) /\ i <= Len(s) /\ i <= Len(t)
    BY <1>0
  <2>2. t[i] = s[i]
    BY DEF Inserted
  <2>. QED BY <2>1, <2>2, <1>1, <1>2 DEF u, v
<1>4. v[n] = x
  <2>1. n \in 1 .. Len(t) + Len(a) /\ n <= Len(t)
    BY <1>0
  <2>2. t[n] = x
    BY DEF Inserted
  <2>. QED BY <2>1, <2>2, <1>2 DEF v
<1>5. ASSUME NEW i \in n + 1 .. Len(u) + 1 PROVE v[i] = u[i - 1]
  <2>0. Len(u) = Len(s) + Len(a)
    BY <1>1 DEF u
  <2>1. /\ i \in 1 .. Len(t) + Len(a) /\ i - 1 \in 1 .. Len(s) + Len(a)
    BY <1>0, <2>0
  <2>2. CASE i <= Len(t)
    <3>1. i - 1 <= Len(s) /\ i \in n + 1 .. Len(s) + 1
      BY <2>2, <1>0
    <3>2. t[i] = s[i - 1]
      BY <3>1 DEF Inserted
    <3>3. v[i] = t[i] /\ u[i - 1] = s[i - 1]
      BY <3>1, <2>1, <2>2, <1>1, <1>2 DEF u, v
    <3>. QED BY <3>2, <3>3
  <2>3. CASE ~(i <= Len(t))
    <3>1. ~(i - 1 <= Len(s)) /\ i - Len(t) = (i - 1) - Len(s)
      BY <2>3, <1>0
    <3>2. v[i] = a[i - Len(t)] /\ u[i - 1] = a[(i - 1) - Len(s)]
      BY <3>1, <2>1, <2>3, <1>1, <1>2 DEF u, v
    <3>. QED BY <3>1, <3>2
  <2>. QED BY <2>2, <2>3
<1>6. /\ v \in Seq(Items) /\ Len(v) = Len(u) + 1 /\ n \in 1 .. Len(u) + 1
  BY <1>0, <1>1, <1>2 DEF u, v
<1>7. Inserted(u, n, x, v)
  BY <1>3, <1>4, <1>5, <1>6 DEF Inserted
<1>. QED BY <1>7 DEF u, v

\* u[h] are the chains of the first h buckets, one behind the other.
Joined(u, c) ==
  /\ u \in [0 .. Buckets -> Seq(Items)]
  /\ u[0] = <<>>
  /\ \A h \in 1 .. Buckets : u[h] = u[h - 1] \o c[h - 1]

\* hashtab_destroy reaches the chains bucket by bucket (hashtab.c).
LEMMA ChainsIs ==
  ASSUME NEW t, t.htable \in Table
  PROVE  \E u : Joined(u, t.htable) /\ AllChains(t) = u[Buckets]
<1>0. Buckets \in Nat /\ Buckets > 0
  BY BuffersAssumption
<1> DEFINE S == Seq(Items)
           c == t.htable
           d == [h \in Nat |-> [s \in S |-> IF h \in 1 .. Buckets THEN s \o c[h - 1] ELSE s]]
           upto[h \in 0 .. Buckets] == IF h = 0 THEN <<>> ELSE upto[h - 1] \o t.htable[h - 1]
<1>1. <<>> \in S
  OBVIOUS
<1>2. ASSUME NEW h \in 1 .. Buckets PROVE c[h - 1] \in S /\ h - 1 \in 0 .. Buckets /\ h \in Nat
  <2>1. h - 1 \in 0 .. Buckets - 1
    BY <1>0
  <2>. QED BY <2>1, <1>0 DEF Table
<1>3. ASSUME NEW h \in Nat, NEW s \in S
      PROVE  (IF h \in 1 .. Buckets THEN s \o c[h - 1] ELSE s) \in S
  <2>1. CASE h \in 1 .. Buckets
    <3>1. c[h - 1] \in S
      BY <2>1, <1>2
    <3>. HIDE DEF c
    <3>. QED BY <2>1, <3>1
  <2>2. CASE h \notin 1 .. Buckets
    BY <2>2
  <2>. QED BY <2>1, <2>2
<1>4. d \in [Nat -> [S -> S]]
  <2>. HIDE DEF S, c
  <2>. QED BY <1>3
<1>5. PICK g : Solves(g, S, <<>>, d, Buckets)
  <2>. HIDE DEF S, d
  <2>. QED BY <1>0, <1>1, <1>4, Recursion
<1>6. /\ g \in [0 .. Buckets -> S] /\ g[0] = <<>>
      /\ \A h \in 1 .. Buckets : g[h] = d[h][g[h - 1]]
  <2>. HIDE DEF S, d
  <2>. QED BY <1>5 DEF Solves
<1>7. ASSUME NEW h \in 1 .. Buckets PROVE g[h] = g[h - 1] \o c[h - 1]
  <2>1. h \in Nat /\ h - 1 \in 0 .. Buckets
    BY <1>2
  <2>. HIDE DEF S, c
  <2>2. g[h - 1] \in S
    BY <2>1, <1>6
  <2>3. d[h][g[h - 1]] = g[h - 1] \o c[h - 1]
    BY <2>1, <2>2
  <2>. HIDE DEF d
  <2>. QED BY <2>3, <1>6
<1>8. g = [h \in 0 .. Buckets |-> IF h = 0 THEN <<>> ELSE g[h - 1] \o t.htable[h - 1]]
  <2>1. ASSUME NEW h \in 0 .. Buckets
        PROVE  g[h] = IF h = 0 THEN <<>> ELSE g[h - 1] \o t.htable[h - 1]
    <3>1. h # 0 => h \in 1 .. Buckets
      BY <1>0
    <3>. QED BY <3>1, <1>6, <1>7
  <2>. HIDE DEF S
  <2>. QED BY <2>1, <1>6, Zenon
<1>9. upto = [h \in 0 .. Buckets |-> IF h = 0 THEN <<>> ELSE upto[h - 1] \o t.htable[h - 1]]
  BY <1>8
<1>. HIDE DEF upto
<1>10. upto[0] = <<>> /\ \A h \in 1 .. Buckets : upto[h] = upto[h - 1] \o c[h - 1]
  <2>1. 0 \in 0 .. Buckets
    BY <1>0
  <2>2. ASSUME NEW h \in 1 .. Buckets PROVE upto[h] = upto[h - 1] \o c[h - 1]
    <3>1. h \in 0 .. Buckets /\ h # 0
      BY <1>0
    <3>. QED BY <3>1, <1>9, Zenon
  <2>. QED BY <2>1, <2>2, <1>9
<1>11. \A n \in Nat : n <= Buckets => upto[n] = g[n]
  <2> DEFINE T == {n \in Nat : n <= Buckets => upto[n] = g[n]}
  <2>1. 0 \in T
    BY <1>6, <1>10
  <2>2. ASSUME NEW n \in Nat, n \in T PROVE n + 1 \in T
    <3>1. CASE n + 1 <= Buckets
      <4>1. n + 1 \in 1 .. Buckets /\ (n + 1) - 1 = n /\ upto[n] = g[n]
        BY <3>1, <2>2, <1>0
      <4>2. upto[n + 1] = upto[n] \o c[n] /\ g[n + 1] = g[n] \o c[n]
        <5>. HIDE DEF c
        <5>1. /\ upto[n + 1] = upto[(n + 1) - 1] \o c[(n + 1) - 1]
              /\ g[n + 1] = g[(n + 1) - 1] \o c[(n + 1) - 1]
          BY <4>1, <1>7, <1>10
        <5>. QED BY ONLY <5>1, <4>1
      <4>3. upto[n + 1] = g[n + 1]
        BY ONLY <4>1, <4>2
      <4>. QED BY <4>3
    <3>. QED BY <3>1
  <2>3. \A n \in Nat : n \in T
    <3>. HIDE DEF T
    <3>. QED BY <2>1, <2>2, Induct
  <2>. QED BY <2>3
<1>12. AllChains(t) = g[Buckets]
  <2>1. AllChains(t) = upto[Buckets]
    BY DEF AllChains, upto
  <2>. QED BY <2>1, <1>0, <1>11
<1>13. Joined(g, t.htable)
  BY <1>6, <1>7 DEF Joined
<1>. QED BY <1>12, <1>13

\* A key put into one chain is put into the whole once.
LEMMA ChainsInsert ==
  ASSUME NEW t, t.htable \in Table, NEW k, k.htable \in Table,
         NEW b \in 0 .. Buckets - 1, NEW n, NEW x,
         Inserted(t.htable[b], n, x, k.htable[b]),
         \A h \in 0 .. Buckets - 1 : h # b => k.htable[h] = t.htable[h]
  PROVE  AllChains(t) \in Seq(Items) /\ \E p : Inserted(AllChains(t), p, x, AllChains(k))
<1>0. Buckets \in Nat /\ Buckets > 0 /\ b \in Nat /\ b < Buckets
  BY BuffersAssumption
<1> DEFINE c == t.htable
           e == k.htable
<1>. HIDE DEF c, e
<1>1. PICK u : Joined(u, c) /\ AllChains(t) = u[Buckets]
  BY ChainsIs DEF c
<1>2. PICK v : Joined(v, e) /\ AllChains(k) = v[Buckets]
  BY ChainsIs DEF e
<1>3. /\ Inserted(c[b], n, x, e[b]) /\ c \in Table /\ e \in Table
      /\ \A h \in 0 .. Buckets - 1 : h # b => e[h] = c[h]
  BY DEF c, e
<1>4. ASSUME NEW h \in Nat, h + 1 <= Buckets
      PROVE  /\ h + 1 \in 1 .. Buckets /\ h \in 0 .. Buckets - 1 /\ h \in 0 .. Buckets
             /\ u[h] \in Seq(Items) /\ v[h] \in Seq(Items) /\ c[h] \in Seq(Items)
             /\ e[h] \in Seq(Items)
             /\ u[h + 1] = u[h] \o c[h] /\ v[h + 1] = v[h] \o e[h]
  <2>1. h + 1 \in 1 .. Buckets /\ h \in 0 .. Buckets - 1 /\ h \in 0 .. Buckets /\ (h + 1) - 1 = h
    BY <1>0, <1>4
  <2>2. u[h] \in Seq(Items) /\ v[h] \in Seq(Items) /\ c[h] \in Seq(Items) /\ e[h] \in Seq(Items)
    BY <2>1, <1>1, <1>2, <1>3 DEF Joined, Table
  <2>3. u[h + 1] = u[(h + 1) - 1] \o c[(h + 1) - 1] /\ v[h + 1] = v[(h + 1) - 1] \o e[(h + 1) - 1]
    BY <2>1, <1>1, <1>2 DEF Joined
  <2>. QED BY <2>1, <2>2, <2>3
<1> DEFINE p == Len(u[b]) + n
<1>5. \A h \in Nat : h <= Buckets => IF h <= b THEN v[h] = u[h] ELSE Inserted(u[h], p, x, v[h])
  <2> DEFINE T == {h \in Nat : h <= Buckets =>
                     IF h <= b THEN v[h] = u[h] ELSE Inserted(u[h], p, x, v[h])}
  <2>. HIDE DEF p
  <2>1. 0 \in T
    BY <1>0, <1>1, <1>2 DEF Joined
  <2>2. ASSUME NEW h \in Nat, h \in T PROVE h + 1 \in T
    <3>1. CASE h + 1 <= Buckets
      <4>1. h <= Buckets
        BY <3>1, <1>0
      <4>2. CASE h < b
        <5>1. h <= b /\ h + 1 <= b /\ h # b
          BY <4>2, <1>0
        <5>2. v[h] = u[h] /\ e[h] = c[h]
          BY <5>1, <4>1, <3>1, <2>2, <1>3, <1>4
        <5>3. v[h + 1] = u[h + 1]
          BY <5>2, <3>1, <1>4
        <5>. QED BY <5>1, <5>3
      <4>3. CASE h = b
        <5>1. h <= b /\ ~(h + 1 <= b)
          BY <4>3, <1>0
        <5>2. v[b] = u[b]
          BY <5>1, <4>1, <4>3, <2>2
        <5>3. Inserted(u[b] \o c[b], Len(u[b]) + n, x, u[b] \o e[b])
          <6>1. u[b] \in Seq(Items) /\ c[b] \in Seq(Items)
            BY <3>1, <4>3, <1>4
          <6>. QED BY <6>1, <1>3, InsertedRight
        <5>4. Inserted(u[h + 1], p, x, v[h + 1])
          <6>1. u[h + 1] = u[b] \o c[b] /\ v[h + 1] = u[b] \o e[b]
            BY <3>1, <4>3, <5>2, <1>4
          <6>. QED BY <6>1, <5>3 DEF p
        <5>. QED BY <5>1, <5>4
      <4>4. CASE h > b
        <5>1. ~(h <= b) /\ ~(h + 1 <= b) /\ h # b
          BY <4>4, <1>0
        <5>2. Inserted(u[h], p, x, v[h]) /\ e[h] = c[h]
          BY <5>1, <4>1, <3>1, <2>2, <1>3, <1>4
        <5>3. Inserted(u[h] \o c[h], p, x, v[h] \o c[h])
          <6>1. u[h] \in Seq(Items) /\ c[h] \in Seq(Items)
            BY <3>1, <1>4
          <6>. QED BY <6>1, <5>2, InsertedLeft
        <5>4. Inserted(u[h + 1], p, x, v[h + 1])
          <6>1. u[h + 1] = u[h] \o c[h] /\ v[h + 1] = v[h] \o c[h]
            BY <3>1, <5>2, <1>4
          <6>. QED BY <6>1, <5>3
        <5>. QED BY <5>1, <5>4
      <4>. QED BY <4>2, <4>3, <4>4, <1>0
    <3>. QED BY <3>1
  <2>3. \A h \in Nat : h \in T
    <3>. HIDE DEF T
    <3>. QED BY <2>1, <2>2, Induct
  <2>. QED BY <2>3
<1>6. Inserted(u[Buckets], p, x, v[Buckets])
  <2>. HIDE DEF p
  <2>1. Buckets \in Nat /\ Buckets <= Buckets /\ ~(Buckets <= b)
    BY <1>0
  <2>. QED BY <2>1, <1>5
<1>7. u[Buckets] \in Seq(Items)
  BY <1>0, <1>1 DEF Joined
<1>. QED BY <1>1, <1>2, <1>6, <1>7

\* What the chains hold together is what each of them holds.
LEMMA ChainsHold ==
  ASSUME NEW t, t.htable \in Table
  PROVE  /\ AllChains(t) \in Seq(Items)
         /\ \A i \in 1 .. Len(AllChains(t)) :
              \E h \in 0 .. Buckets - 1 : \E m \in 1 .. Len(t.htable[h]) :
                AllChains(t)[i] = t.htable[h][m]
         /\ \A h \in 0 .. Buckets - 1 : Len(t.htable[h]) <= Len(AllChains(t))
<1>0. Buckets \in Nat /\ Buckets > 0
  BY BuffersAssumption
<1> DEFINE c == t.htable
<1>1. PICK u : Joined(u, c) /\ AllChains(t) = u[Buckets]
  BY ChainsIs
<1>2. c \in Table
  OBVIOUS
<1>. HIDE DEF c
<1>3. ASSUME NEW h \in Nat, h + 1 <= Buckets
      PROVE  /\ h \in 0 .. Buckets - 1 /\ u[h] \in Seq(Items) /\ c[h] \in Seq(Items)
             /\ Len(u[h]) \in Nat /\ Len(c[h]) \in Nat
             /\ u[h + 1] \in Seq(Items) /\ Len(u[h + 1]) = Len(u[h]) + Len(c[h])
             /\ \A i \in 1 .. Len(u[h]) + Len(c[h]) :
                  u[h + 1][i] = IF i <= Len(u[h]) THEN u[h][i] ELSE c[h][i - Len(u[h])]
  <2>1. h + 1 \in 1 .. Buckets /\ h \in 0 .. Buckets - 1 /\ h \in 0 .. Buckets /\ (h + 1) - 1 = h
    BY <1>0, <1>3
  <2>2. u[h] \in Seq(Items) /\ c[h] \in Seq(Items)
    BY <2>1, <1>1, <1>2 DEF Joined, Table
  <2>3. u[h + 1] = u[(h + 1) - 1] \o c[(h + 1) - 1]
    BY <2>1, <1>1 DEF Joined
  <2>4. u[h + 1] = u[h] \o c[h]
    BY ONLY <2>1, <2>3
  <2> DEFINE a == u[h]
             b == c[h]
  <2>5. a \in Seq(Items) /\ b \in Seq(Items)
    BY <2>2
  <2>. HIDE DEF a, b
  <2>6. /\ a \o b \in Seq(Items) /\ Len(a \o b) = Len(a) + Len(b)
        /\ \A i \in 1 .. Len(a) + Len(b) : (a \o b)[i] = IF i <= Len(a) THEN a[i] ELSE b[i - Len(a)]
    BY ONLY <2>5, ConcatProperties
  <2>7. Len(a) \in Nat /\ Len(b) \in Nat
    BY <2>5
  <2>. QED BY <2>1, <2>2, <2>4, <2>6, <2>7 DEF a, b
\* the first n buckets
<1> DEFINE Holds(n, i) == \E h \in 0 .. Buckets - 1 : \E m \in 1 .. Len(c[h]) : u[n][i] = c[h][m]
           T == {n \in Nat : n <= Buckets =>
                   /\ \A i \in 1 .. Len(u[n]) : Holds(n, i)
                   /\ \A h \in 0 .. Buckets - 1 : h < n => Len(c[h]) <= Len(u[n])}
<1>4. 0 \in T
  <2>1. u[0] = <<>> /\ Len(<<>>) = 0
    BY <1>1 DEF Joined
  <2>2. 1 .. Len(u[0]) = {} /\ \A h \in 0 .. Buckets - 1 : ~(h < 0)
    BY <2>1, <1>0
  <2>. QED BY <2>2
<1>5. ASSUME NEW n \in Nat, n \in T PROVE n + 1 \in T
  <2>1. CASE n + 1 <= Buckets
    <3>1. /\ n <= Buckets
          /\ \A i \in 1 .. Len(u[n]) : Holds(n, i)
          /\ \A h \in 0 .. Buckets - 1 : h < n => Len(c[h]) <= Len(u[n])
      BY <2>1, <1>0, <1>5
    <3>2. ASSUME NEW i \in 1 .. Len(u[n + 1]) PROVE Holds(n + 1, i)
      <4>1. i \in 1 .. Len(u[n]) + Len(c[n]) /\ Len(u[n]) \in Nat /\ Len(c[n]) \in Nat
        BY <2>1, <1>3
      <4>2. u[n + 1][i] = IF i <= Len(u[n]) THEN u[n][i] ELSE c[n][i - Len(u[n])]
        BY <4>1, <2>1, <1>3
      <4>3. CASE i <= Len(u[n])
        <5>1. i \in 1 .. Len(u[n])
          BY <4>1, <4>3
        <5>2. Holds(n, i)
          BY <5>1, <3>1
        <5>. QED BY <5>2, <4>2, <4>3
      <4>4. CASE ~(i <= Len(u[n]))
        <5>1. i - Len(u[n]) \in 1 .. Len(c[n]) /\ n \in 0 .. Buckets - 1
          <6>1. n \in 0 .. Buckets - 1
            BY <2>1, <1>3
          <6>2. \A p, q \in Nat : i \in 1 .. p + q /\ ~(i <= p) => i - p \in 1 .. q
            OBVIOUS
          <6>. QED BY <6>1, <6>2, <4>1, <4>4, Zenon
        <5>. QED BY <5>1, <4>2, <4>4
      <4>. QED BY <4>3, <4>4
    <3>3. ASSUME NEW h \in 0 .. Buckets - 1, h < n + 1 PROVE Len(c[h]) <= Len(u[n + 1])
      <4>1. /\ Len(u[n + 1]) = Len(u[n]) + Len(c[n]) /\ Len(u[n]) \in Nat /\ Len(c[n]) \in Nat
        BY <2>1, <1>3
      <4>2. Len(c[h]) \in Nat
        <5>1. h \in Nat /\ h + 1 <= Buckets
          BY <1>0
        <5>. QED BY <5>1, <1>3
      <4>3. h = n \/ h < n
        BY <3>3
      <4>4. h < n => Len(c[h]) <= Len(u[n])
        <5>. HIDE DEF Holds
        <5>. QED BY <3>1
      <4>5. \A p, q \in Nat : p <= p + q /\ q <= p + q
        OBVIOUS
      <4>6. \A p, q, r \in Nat : r <= p => r <= p + q
        OBVIOUS
      <4>7. CASE h = n
        BY <4>1, <4>5, <4>7, Zenon
      <4>8. CASE h < n
        BY <4>1, <4>2, <4>4, <4>6, <4>8, Zenon
      <4>. QED BY <4>3, <4>7, <4>8
    <3>. QED
      <4>. HIDE DEF Holds
      <4>. QED BY <3>2, <3>3
  <2>. QED BY <2>1
<1>6. \A n \in Nat : n \in T
  <2>. HIDE DEF T
  <2>. QED BY <1>4, <1>5, Induct
<1>7. /\ \A i \in 1 .. Len(u[Buckets]) : Holds(Buckets, i)
      /\ \A h \in 0 .. Buckets - 1 : Len(c[h]) <= Len(u[Buckets])
  <2>1. Buckets \in Nat /\ Buckets <= Buckets /\ \A h \in 0 .. Buckets - 1 : h < Buckets
    BY <1>0
  <2>2. Buckets \in T
    BY <2>1, <1>6
  <2>. HIDE DEF Holds
  <2>. QED BY <2>1, <2>2
<1>8. u[Buckets] \in Seq(Items)
  BY <1>0, <1>1 DEF Joined
<1>9. AllChains(t) = u[Buckets] /\ c = t.htable
  BY <1>1 DEF c
<1>. QED
  <2>1. \A i \in 1 .. Len(AllChains(t)) :
          \E h \in 0 .. Buckets - 1 : \E m \in 1 .. Len(t.htable[h]) :
            AllChains(t)[i] = t.htable[h][m]
    BY ONLY <1>7, <1>9
  <2>2. \A h \in 0 .. Buckets - 1 : Len(t.htable[h]) <= Len(AllChains(t))
    BY ONLY <1>7, <1>9
  <2>3. AllChains(t) \in Seq(Items)
    BY ONLY <1>8, <1>9
  <2>. QED BY ONLY <2>1, <2>2, <2>3

\* The loops over a chain stop at the first key that is not smaller (hashtab.c).
LEMMA StopIs ==
  ASSUME NEW s \in Seq(Items), NEW k \in Items
  PROVE  /\ StopAt(s, k) \in 1 .. Len(s) + 1
         /\ \A j \in 1 .. StopAt(s, k) - 1 : s[j] < k
         /\ StopAt(s, k) <= Len(s) => s[StopAt(s, k)] >= k
<1>0. Len(s) \in Nat /\ Items \subseteq Nat
  BY BuffersAssumption
<1> DEFINE T == {i \in 1 .. Len(s) + 1 : i <= Len(s) => s[i] >= k}
<1>1. T \subseteq Nat /\ Len(s) + 1 \in T
  BY <1>0
<1>2. PICK m \in T : \A i \in T : m <= i
  <2>. HIDE DEF T
  <2>. QED BY <1>1, Smallest
<1>3. ASSUME NEW j \in 1 .. m - 1 PROVE s[j] < k
  <2>1. j \in 1 .. Len(s) /\ ~(m <= j)
    BY <1>0, <1>2
  <2>2. s[j] \in Items
    BY <2>1
  <2>2a. s[j] \in Nat /\ k \in Nat
    BY ONLY <2>2, <1>0, k \in Items
  <2>3. j \notin T
    BY <2>1, <1>2
  <2>4. j \in 1 .. Len(s) + 1 /\ j <= Len(s)
    BY <2>1, <1>0
  <2>5. ~(s[j] >= k)
    BY <2>3, <2>4
  <2>. QED BY <2>2a, <2>5
<1>4. \E i \in 1 .. Len(s) + 1 : (\A j \in 1 .. i - 1 : s[j] < k) /\ (i <= Len(s) => s[i] >= k)
  BY <1>2, <1>3
<1>. QED BY <1>4 DEF StopAt

\* A key is found when it is in the chain, and put in where the order asks.
LEMMA ChainSteps ==
  ASSUME NEW s \in Seq(Items), Sorted(s), NEW k \in Items,
         NEW f, f = (StopAt(s, k) <= Len(s) /\ s[StopAt(s, k)] = k)
  PROVE  /\ f => Len(s) > 0
         /\ ~f => /\ \A i \in 1 .. Len(s) : s[i] # k
                  /\ Inserted(s, StopAt(s, k), k, NewChain(s, k))
                  /\ Sorted(NewChain(s, k))
<1> DEFINE n == StopAt(s, k)
           u == NewChain(s, k)
<1>0. /\ Len(s) \in Nat /\ n \in 1 .. Len(s) + 1 /\ k \in Nat
      /\ \A j \in 1 .. n - 1 : s[j] < k
      /\ n <= Len(s) => s[n] >= k
  BY BuffersAssumption, StopIs
<1>1. ASSUME NEW i \in 1 .. Len(s) PROVE s[i] \in Items /\ s[i] \in Nat
  <2>1. s[i] \in Items
    OBVIOUS
  <2>. QED BY ONLY <2>1, BuffersAssumption
<1>2. Inserted(s, n, k, u)
  BY <1>0, InsertedIs DEF NewChain
<1>3. f => Len(s) > 0
  <2>1. ASSUME f PROVE n <= Len(s)
    BY <2>1
  <2>. HIDE DEF n
  <2>. QED BY <2>1, <1>0
<1>4. ASSUME ~f, NEW i \in 1 .. Len(s), i >= n PROVE s[i] > k
  <2>1. n \in 1 .. Len(s) /\ n <= Len(s)
    BY <1>0, <1>4
  <2>2. s[n] > k
    <3>1. s[n] >= k /\ s[n] # k /\ s[n] \in Nat
      BY <2>1, <1>0, <1>1, <1>4
    <3>. QED BY <3>1, <1>0
  <2>3. n < i => s[n] < s[i]
    BY <2>1 DEF Sorted
  <2>4. n < i \/ n = i
    BY <2>1, <1>4
  <2>. HIDE DEF n
  <2>. QED BY <2>1, <2>2, <2>3, <2>4, <1>0, <1>1
<1>. HIDE DEF n, u
<1>5. ASSUME ~f, NEW i \in 1 .. Len(s) PROVE s[i] # k
  <2>1. CASE i >= n
    BY <2>1, <1>0, <1>1, <1>4, <1>5
  <2>2. CASE ~(i >= n)
    <3>1. i \in 1 .. n - 1
      BY <2>2, <1>0
    <3>. QED BY <3>1, <1>0, <1>1
  <2>. QED BY <2>1, <2>2
<1>6. ASSUME ~f, NEW i \in 1 .. Len(u), NEW j \in 1 .. Len(u), i < j PROVE u[i] < u[j]
  <2>0. Len(u) = Len(s) + 1 /\ u[n] = k
    BY <1>2 DEF Inserted
  <2>1. ASSUME NEW m \in 1 .. Len(u), m < n PROVE m \in 1 .. Len(s) /\ u[m] = s[m] /\ s[m] < k
    <3>1. m \in 1 .. n - 1 /\ m \in 1 .. Len(s)
      BY <2>0, <2>1, <1>0
    <3>. QED BY <3>1, <1>0, <1>2 DEF Inserted
  <2>2. ASSUME NEW m \in 1 .. Len(u), m > n
        PROVE  m - 1 \in 1 .. Len(s) /\ u[m] = s[m - 1] /\ s[m - 1] > k
    <3>1. m - 1 \in 1 .. Len(s) /\ m - 1 >= n /\ m \in n + 1 .. Len(s) + 1
      BY <2>0, <2>2, <1>0
    <3>2. u[m] = s[m - 1]
      BY <3>1, <1>2 DEF Inserted
    <3>. QED BY <3>1, <3>2, <1>4, <1>6
  <2>3. CASE j < n
    <3>1. i < n
      BY <2>3, <1>0, <1>6
    <3>2. u[i] = s[i] /\ u[j] = s[j] /\ i \in 1 .. Len(s) /\ j \in 1 .. Len(s)
      BY <3>1, <2>1, <2>3
    <3>. QED BY <3>2, <1>6 DEF Sorted
  <2>4. CASE j = n
    <3>1. u[i] = s[i] /\ s[i] < k
      BY <2>1, <2>4, <1>6
    <3>. QED BY <3>1, <2>0, <2>4
  <2>5. CASE j > n
    <3>1. j - 1 \in 1 .. Len(s) /\ u[j] = s[j - 1] /\ s[j - 1] > k
      BY <2>2, <2>5
    <3>2. CASE i < n
      <4>1. i \in 1 .. Len(s) /\ u[i] = s[i] /\ s[i] < k
        BY <2>1, <3>2
      <4>. QED BY <4>1, <3>1, <1>0, <1>1
    <3>3. CASE i = n
      BY <3>1, <3>3, <2>0, <1>0, <1>1
    <3>4. CASE i > n
      <4>1. i - 1 \in 1 .. Len(s) /\ u[i] = s[i - 1] /\ i - 1 < j - 1
        BY <2>2, <3>4, <1>6
      <4>. QED BY <4>1, <3>1 DEF Sorted
    <3>. QED BY <3>2, <3>3, <3>4, <1>0
  <2>. QED BY <2>3, <2>4, <2>5, <1>0
<1>7. ~f => Sorted(u)
  BY <1>6 DEF Sorted
<1>. QED BY <1>2, <1>3, <1>5, <1>7 DEF n, u
-----------------------------------------------------------------------------
(***************************************************************************)
(* The small containers: what they hold, and what a call makes of it.      *)
(***************************************************************************)

ContentOf(q) ==
  CASE q.kind \in {"ring", "queue"} -> ring_buffer_walk_all(q)
    [] q.kind = "stack"             -> [i \in 1 .. q.num |-> q.memb[i - 1]]
    [] q.kind = "list"              -> Forward(q)
    [] q.kind = "hashtab"           -> AllChains(q)

ListInv(q) == q.kind = "list" /\ \E s : ListSeq(q, s)

\* The inductive invariant: the indices of an array stand for the items behind
\* one another, the links for one sequence of nodes in both directions, the
\* chains are ascending and num counts them.
BufInv(q) == RingInv(q) \/ StackInv(q) \/ ListInv(q) \/ TableInv(q)

\* Each part of the invariant is about its own kinds of container.
LEMMA KindIs ==
  ASSUME NEW q
  PROVE  /\ RingInv(q) => q.kind \in {"ring", "queue"}
         /\ StackInv(q) => q.kind = "stack"
         /\ ListInv(q) => q.kind = "list"
         /\ TableInv(q) => q.kind = "hashtab"
BY DEF RingInv, StackInv, ListInv, TableInv

\* What the abstract container holds, in terms of the invariant.
LEMMA ContentIs ==
  ASSUME NEW q
  PROVE  /\ RingInv(q) => ContentOf(q) = RingSeq(q)
         /\ StackInv(q) => ContentOf(q) = StackSeq(q)
         /\ \A s : q.kind = "list" /\ ListSeq(q, s) => ContentOf(q) = s
         /\ TableInv(q) => ContentOf(q) = AllChains(q)
<1>1. ASSUME RingInv(q) PROVE ContentOf(q) = RingSeq(q)
  BY <1>1, KindIs, RingIs DEF ContentOf
<1>2. ASSUME StackInv(q) PROVE ContentOf(q) = StackSeq(q)
  BY <1>2, KindIs DEF ContentOf, StackSeq
<1>3. ASSUME NEW s, q.kind = "list", ListSeq(q, s) PROVE ContentOf(q) = s
  <2>1. Forward(q) = s
    BY <1>3, ForwardIs DEF ListSeq
  <2>. QED BY <2>1, <1>3 DEF ContentOf
<1>4. ASSUME TableInv(q) PROVE ContentOf(q) = AllChains(q)
  BY <1>4, KindIs DEF ContentOf
<1>. QED BY <1>1, <1>2, <1>3, <1>4

\* Calls as steps of BoundedContainer.
LEMMA AbstractAdd ==
  ASSUME NEW x \in Items, buf'.kind = buf.kind, out' = Ret("ok"),
         \/ /\ buf.kind \in {"ring", "queue", "stack"} /\ Len(Content) < Limit
            /\ Content' = Append(Content, x)
         \/ /\ buf.kind = "list" /\ x \notin ToSet(Content)
            /\ Content' = Append(Content, x) \/ Content' = <<x>> \o Content
         \/ /\ buf.kind = "hashtab" /\ Len(Content) < Limit /\ x \notin ToSet(Content)
            /\ \E i \in 1 .. Len(Content) + 1 : Content' = InsertAt(Content, i, x)
  PROVE  Abstract!Next
<1>1. Abstract!Ret("ok") = Ret("ok")
  BY DEF Abstract!Ret, Ret, Junk
<1>2. Abstract!Held = ToSet(Content)
  BY DEF Abstract!Held, Abstract!ToSet, ToSet
<1>3. Abstract!Insert(x)
  <2>1. CASE buf.kind \in {"ring", "queue", "stack"} /\ Len(Content) < Limit
             /\ Content' = Append(Content, x)
    BY <1>1, <2>1 DEF Abstract!Insert
  <2>2. CASE buf.kind = "list" /\ x \notin ToSet(Content)
             /\ (Content' = Append(Content, x) \/ Content' = <<x>> \o Content)
    BY <1>1, <1>2, <2>2 DEF Abstract!Insert
  <2>3. CASE /\ buf.kind = "hashtab" /\ Len(Content) < Limit /\ x \notin ToSet(Content)
             /\ \E i \in 1 .. Len(Content) + 1 : Content' = InsertAt(Content, i, x)
    BY <1>1, <1>2, <2>3 DEF Abstract!Insert, Abstract!InsertAt, InsertAt
  <2>. QED BY <2>1, <2>2, <2>3
<1>. QED BY <1>3 DEF Abstract!Next

\* Taking a member at the place that the order of the kind prescribes is a step of
\* the abstract container.
LEMMA AbstractTake ==
  ASSUME buf'.kind = buf.kind, NEW n \in 1 .. Len(Content), Content # <<>>,
         \/ buf.kind \in {"ring", "queue"} /\ n = 1
         \/ buf.kind = "stack" /\ n = Len(Content)
         \/ buf.kind = "list",
         out' = Got(Content[n]),
         Content' = SubSeq(Content, 1, n - 1) \o SubSeq(Content, n + 1, Len(Content))
  PROVE  Abstract!Next
<1>1. n \in Abstract!Place
  BY DEF Abstract!Place
<1>2. Abstract!Got(Content[n]) = Got(Content[n])
  BY DEF Abstract!Got, Got
<1>3. Abstract!RemoveAt(Content, n) = SubSeq(Content, 1, n - 1) \o SubSeq(Content, n + 1, Len(Content))
  BY DEF Abstract!RemoveAt
<1>4. Abstract!Take
  BY <1>1, <1>2, <1>3 DEF Abstract!Take
<1>. QED BY <1>4 DEF Abstract!Next

\* A call that changes nothing and says why is a step of the abstract container.
LEMMA AbstractRefuse ==
  ASSUME buf' = buf, Content' = Content,
         \/ buf.kind # "list" /\ Len(Content) = Limit /\ out' = Ret("full")
         \/ buf.kind = "hashtab" /\ Content # <<>> /\ out' = Ret("exist")
         \/ buf.kind \in {"ring", "queue", "stack"} /\ Content = <<>> /\ out' = Ret("empty")
         \/ buf.kind = "list" /\ out' = Ret("no node")
  PROVE  Abstract!Next
<1>1. \A r : Abstract!Ret(r) = Ret(r)
  BY DEF Abstract!Ret, Ret, Junk
<1>2. Abstract!Refuse
  BY <1>1 DEF Abstract!Refuse
<1>. QED BY <1>2 DEF Abstract!Next

\* Each call of each container is a step of BoundedContainer and keeps BufInv.
RingOps == (\E x \in Items : ring_buffer_push(x)) \/ ring_buffer_pop \/ ring_buffer_reset

StackOps == (\E x \in Items : stack_push(x)) \/ stack_pop

ListOps ==
  \/ \E x \in Items : list_add(x)
  \/ \E pos \in 0 .. Cardinality(Items) : list_remove_target_node(pos)

\* Every call of the ring buffer and the queue keeps the invariant and is a step of
\* the abstract container (ring_buffer.h, queue.h).
LEMMA RingCalls ==
  ASSUME RingInv(buf), RingOps
  PROVE  RingInv(buf') /\ Abstract!Next
<1>0. /\ Content = RingSeq(buf) /\ Content = ContentOf(buf) /\ Content' = ContentOf(buf')
      /\ buf.kind \in {"ring", "queue"} /\ buf.kind # "stack" /\ buf.kind # "list"
  BY ContentIs, KindIs DEF Content, ContentOf
<1>1. /\ buf.num \in 0 .. Limit /\ Limit \in Nat /\ Limit > 0
      /\ RingSeq(buf) = [i \in 1 .. buf.num |-> RingSeq(buf)[i]]
  BY BuffersAssumption DEF RingInv, RingSeq
<1>2. Len(Content) = buf.num
  <2>1. Len(RingSeq(buf)) = buf.num
    BY <1>1 DEF RingSeq
  <2>. QED BY <2>1, <1>0
<1>3. ASSUME buf' = buf PROVE Content' = Content
  BY <1>0, <1>3
<1>4. ASSUME RingInv(buf') PROVE Content' = RingSeq(buf')
  BY <1>0, <1>4, ContentIs
<1>5. ASSUME NEW x \in Items, ring_buffer_push(x) PROVE RingInv(buf') /\ Abstract!Next
  <2>1. CASE buf.num >= Limit
    <3>1. out' = Ret("full") /\ buf' = buf
      BY <1>5, <2>1 DEF ring_buffer_push
    <3>2. Len(Content) = Limit
      BY <2>1, <1>1, <1>2
    <3>. QED BY <3>1, <3>2, <1>0, <1>3, AbstractRefuse
  <2>2. CASE ~(buf.num >= Limit)
    <3>1. out' = Ret("ok") /\ buf' = Push(buf, x)
      BY <1>5, <2>2 DEF ring_buffer_push
    <3>2. buf.num < Limit
      BY <2>2, <1>1
    <3>3. /\ RingInv(buf') /\ buf'.kind = buf.kind
          /\ RingSeq(buf') = Append(RingSeq(buf), x)
      BY <3>1, <3>2, RingPush
    <3>4. Content' = Append(Content, x)
      BY <3>3, <1>0, <1>4
    <3>5. Len(Content) < Limit
      BY <3>2, <1>2
    <3>. QED BY <3>1, <3>3, <3>4, <3>5, <1>0, AbstractAdd
  <2>. QED BY <2>1, <2>2
<1>6. ASSUME ring_buffer_pop PROVE RingInv(buf') /\ Abstract!Next
  <2>1. CASE buf.num = 0
    <3>1. out' = Ret("empty") /\ buf' = buf
      BY <1>6, <2>1 DEF ring_buffer_pop
    <3>2. Content = <<>>
      BY <2>1, <1>0 DEF RingSeq
    <3>. QED BY <3>1, <3>2, <1>0, <1>3, AbstractRefuse
  <2>2. CASE buf.num # 0
    <3>1. /\ out' = Got(Cell(buf, buf.head))
          /\ buf' = [buf EXCEPT !.head = NextIndex(buf.kind, @), !.num = @ - 1]
      BY <1>6, <2>2 DEF ring_buffer_pop
    <3>2. /\ RingInv(buf') /\ buf'.kind = buf.kind
          /\ RingSeq(buf) # <<>> /\ 1 \in 1 .. Len(RingSeq(buf))
          /\ Cell(buf, buf.head) = RingSeq(buf)[1]
          /\ RingSeq(buf') = SubSeq(RingSeq(buf), 1, 1 - 1) \o SubSeq(RingSeq(buf), 1 + 1, Len(RingSeq(buf)))
      BY <3>1, <2>2, RingPop
    <3>3. /\ Content # <<>> /\ 1 \in 1 .. Len(Content) /\ out' = Got(Content[1])
          /\ Content' = SubSeq(Content, 1, 1 - 1) \o SubSeq(Content, 1 + 1, Len(Content))
      BY <3>1, <3>2, <1>0, <1>4
    <3>. QED BY <3>2, <3>3, <1>0, AbstractTake
  <2>. QED BY <2>1, <2>2
<1>7. ASSUME ring_buffer_reset PROVE RingInv(buf') /\ Abstract!Next
  <2>1. /\ buf.kind = "ring" /\ out' = Ret("ok")
        /\ buf' = [buf EXCEPT !.head = 0, !.tail = 0, !.num = 0]
    BY <1>7 DEF ring_buffer_reset
  <2>2. /\ buf' = [kind |-> buf.kind, member |-> buf.member, head |-> 0, tail |-> 0, num |-> 0]
        /\ buf.member \in [0 .. Limit - 1 -> Stored]
    BY <2>1 DEF RingInv
  <2>3. 0 \in 0 .. Limit - 1 /\ 0 \in 0 .. Limit /\ Wrap(0 + 0) = 0
    BY <1>1 DEF Wrap
  <2>4. RingInv(buf')
    <3>1. /\ buf'.head = 0 /\ buf'.tail = 0 /\ buf'.num = 0
      BY <2>2
    <3>2. buf' \in [kind : {"ring", "queue"}, member : [0 .. Limit - 1 -> Stored],
                    head : 0 .. Limit - 1, tail : 0 .. Limit - 1, num : 0 .. Limit]
      BY <2>1, <2>2, <2>3
    <3>. QED BY <3>1, <3>2, <2>3 DEF RingInv
  <2>5. Content' = <<>>
    <3>1. buf'.num = 0
      BY <2>2
    <3>. QED BY <3>1, <2>4, <1>4 DEF RingSeq
  <2>6. Abstract!Reset /\ buf'.kind = buf.kind
    BY <2>1, <2>2, <2>5 DEF Abstract!Reset, Abstract!Ret, Ret, Junk
  <2>. QED BY <2>4, <2>6 DEF Abstract!Next
<1>. QED BY <1>5, <1>6, <1>7 DEF RingOps

\* Every call of the stack is one (stack.h).
LEMMA StackCalls ==
  ASSUME StackInv(buf), StackOps
  PROVE  StackInv(buf') /\ Abstract!Next
<1>0. /\ Content = StackSeq(buf) /\ Content = ContentOf(buf) /\ Content' = ContentOf(buf')
      /\ buf.kind = "stack"
  BY ContentIs, KindIs DEF Content, ContentOf
<1>1. buf.num \in 0 .. Limit /\ Limit \in Nat /\ Limit > 0
  BY BuffersAssumption DEF StackInv
<1>2. Len(Content) = buf.num
  BY <1>0, StackSteps
<1>3. ASSUME buf' = buf PROVE Content' = Content
  BY <1>0, <1>3
<1>4. ASSUME StackInv(buf') PROVE Content' = StackSeq(buf') /\ buf'.kind = buf.kind
  BY <1>0, <1>4, ContentIs, KindIs
<1>5. ASSUME NEW x \in Items, stack_push(x) PROVE StackInv(buf') /\ Abstract!Next
  <2>1. CASE buf.num >= Limit
    <3>1. out' = Ret("full") /\ buf' = buf
      BY <1>5, <2>1 DEF stack_push
    <3>2. Len(Content) = Limit
      BY <2>1, <1>1, <1>2
    <3>. QED BY <3>1, <3>2, <1>0, <1>3, AbstractRefuse
  <2>2. CASE ~(buf.num >= Limit)
    <3>1. out' = Ret("ok") /\ buf' = [buf EXCEPT !.memb[buf.num] = x, !.num = @ + 1]
      BY <1>5, <2>2 DEF stack_push
    <3>2. buf.num < Limit
      BY <2>2, <1>1
    <3>3. StackInv(buf') /\ StackSeq(buf') = Append(StackSeq(buf), x)
      BY <3>1, <3>2, StackSteps
    <3>4. Content' = Append(Content, x) /\ buf'.kind = buf.kind
      BY <3>3, <1>0, <1>4
    <3>5. Len(Content) < Limit
      BY <3>2, <1>2
    <3>. QED BY <3>1, <3>3, <3>4, <3>5, <1>0, AbstractAdd
  <2>. QED BY <2>1, <2>2
<1>6. ASSUME stack_pop PROVE StackInv(buf') /\ Abstract!Next
  <2>1. CASE buf.num <= 0
    <3>1. out' = Ret("empty") /\ buf' = buf
      BY <1>6, <2>1 DEF stack_pop
    <3>2. Content = <<>>
      BY <2>1, <1>0, <1>1 DEF StackSeq
    <3>. QED BY <3>1, <3>2, <1>0, <1>3, AbstractRefuse
  <2>2. CASE ~(buf.num <= 0)
    <3>1. out' = Got(buf.memb[buf.num - 1]) /\ buf' = [buf EXCEPT !.num = @ - 1]
      BY <1>6, <2>2 DEF stack_pop
    <3>2. buf.num > 0
      BY <2>2, <1>1
    <3> DEFINE n == Len(StackSeq(buf))
    <3>3. /\ StackInv(buf') /\ buf.memb[buf.num - 1] = StackSeq(buf)[n]
          /\ StackSeq(buf') = SubSeq(StackSeq(buf), 1, n - 1) \o SubSeq(StackSeq(buf), n + 1, n)
      BY <3>1, <3>2, StackSteps
    <3>4. /\ out' = Got(Content[n]) /\ n = Len(Content)
          /\ Content' = SubSeq(Content, 1, n - 1) \o SubSeq(Content, n + 1, Len(Content))
          /\ buf'.kind = buf.kind
      BY <3>1, <3>3, <1>0, <1>4
    <3>5. n \in 1 .. Len(Content) /\ Content # <<>>
      <4>1. Len(Content) > 0 /\ Len(Content) \in Nat /\ n = Len(Content)
        BY <3>2, <1>0, <1>1, <1>2
      <4>. HIDE DEF n
      <4>. QED BY <4>1
    <3>. HIDE DEF n
    <3>. QED BY <3>3, <3>4, <3>5, <1>0, AbstractTake
  <2>. QED BY <2>1, <2>2
<1>. QED BY <1>5, <1>6 DEF StackOps

\* Every call of the list is one: additions at both ends and removals by position
\* (dlist.h).
LEMMA ListCalls ==
  ASSUME ListInv(buf), ListOps
  PROVE  ListInv(buf') /\ Abstract!Next
<1>1. PICK s : ListSeq(buf, s)
  BY DEF ListInv
<1>2. /\ Content = s /\ Content = ContentOf(buf) /\ Content' = ContentOf(buf')
      /\ buf.kind = "list" /\ Forward(buf) = s /\ s \in Seq(Items) /\ Len(s) \in Nat
      /\ buf \in AnyList
  BY <1>1, ContentIs, ForwardIs DEF Content, ContentOf, ListInv, ListSeq, Chain, Distinct
<1>3. ASSUME NEW t, ListSeq(buf', t)
      PROVE  ListInv(buf') /\ buf'.kind = buf.kind /\ Content' = t
  <2>1. buf'.kind = "list"
    BY <1>3 DEF ListSeq, Chain, AnyList
  <2>. QED BY <2>1, <1>2, <1>3, ContentIs DEF ListInv
<1>4. ASSUME NEW x \in Items, list_add(x) PROVE ListInv(buf') /\ Abstract!Next
  <2>1. /\ buf.next[x] = Poison1 /\ out' = Ret("ok")
        /\ \/ buf' = LinkIn(buf, x, ListHead, buf.next[ListHead])
           \/ buf' = LinkIn(buf, x, buf.prev[ListHead], ListHead)
    BY <1>4 DEF list_add
  <2>2. /\ x \notin ToSet(s)
        /\ ListSeq(LinkIn(buf, x, ListHead, buf.next[ListHead]), <<x>> \o s)
        /\ ListSeq(LinkIn(buf, x, buf.prev[ListHead], ListHead), Append(s, x))
    BY <2>1, <1>1, ListAdd
  <2>3. CASE buf' = LinkIn(buf, x, ListHead, buf.next[ListHead])
    <3>1. ListSeq(buf', <<x>> \o s)
      BY <2>2, <2>3
    <3>2. ListInv(buf') /\ buf'.kind = buf.kind /\ Content' = <<x>> \o s
      BY <3>1, <1>3
    <3>. QED BY <3>2, <2>1, <2>2, <1>2, AbstractAdd
  <2>4. CASE buf' = LinkIn(buf, x, buf.prev[ListHead], ListHead)
    <3>1. ListSeq(buf', Append(s, x))
      BY <2>2, <2>4
    <3>2. ListInv(buf') /\ buf'.kind = buf.kind /\ Content' = Append(s, x)
      BY <3>1, <1>3
    <3>. QED BY <3>2, <2>1, <2>2, <1>2, AbstractAdd
  <2>. QED BY <2>1, <2>3, <2>4
<1>5. ASSUME NEW pos \in 0 .. Cardinality(Items), list_remove_target_node(pos)
      PROVE  ListInv(buf') /\ Abstract!Next
  <2>0. Cardinality(Items) \in Nat /\ pos \in Nat
    BY BuffersAssumption, FS_CardinalityType
  <2> DEFINE x == list_get_node(buf, pos)
  <2>1. CASE x = ListHead
    <3>1. out' = Ret("no node") /\ buf' = buf
      BY <1>5, <2>1 DEF list_remove_target_node
    <3>2. Content' = Content /\ ListInv(buf')
      BY <3>1, <1>2
    <3>. QED BY <3>1, <3>2, <1>2, AbstractRefuse
  <2>2. CASE x # ListHead
    <3>1. out' = Got(x) /\ buf' = list_del(buf, x)
      BY <1>5, <2>2 DEF list_remove_target_node
    <3>2. pos < Len(s) /\ x = s[pos + 1]
      BY <2>2, <1>2 DEF list_get_node
    <3>3. PICK n \in Nat : n = pos + 1
      BY <2>0
    <3>4. n \in 1 .. Len(s) /\ x = s[n]
      BY <3>2, <3>3, <2>0, <1>2
    <3>. HIDE DEF x
    <3>5. ListSeq(buf', SubSeq(s, 1, n - 1) \o SubSeq(s, n + 1, Len(s)))
      BY <3>1, <3>4, <1>1, ListDel
    <3>6. /\ ListInv(buf') /\ buf'.kind = buf.kind
          /\ Content' = SubSeq(s, 1, n - 1) \o SubSeq(s, n + 1, Len(s))
      BY <3>5, <1>3
    <3>7. /\ out' = Got(Content[n]) /\ n \in 1 .. Len(Content) /\ Content # <<>>
          /\ Content' = SubSeq(Content, 1, n - 1) \o SubSeq(Content, n + 1, Len(Content))
      BY <3>1, <3>4, <3>6, <1>2
    <3>. QED BY <3>6, <3>7, <1>2, AbstractTake
  <2>. QED BY <2>1, <2>2
<1>. QED BY <1>4, <1>5 DEF ListOps

\* An insertion into the hash table is one, whether the key was there or not
\* (hashtab.c).
LEMMA TableCalls ==
  ASSUME TableInv(buf), NEW k \in Items, hashtab_insert(k)
  PROVE  TableInv(buf') /\ Abstract!Next
<1> DEFINE h == hash_value(k)
           c == buf.htable[h]
           n == StopAt(c, k)
           f == (n <= Len(c) /\ c[n] = k)
<1>0. /\ Content = AllChains(buf) /\ Content' = ContentOf(buf') /\ Content = ContentOf(buf)
      /\ buf.kind = "hashtab"
  BY ContentIs, KindIs DEF Content, ContentOf
<1>1. /\ buf.htable \in Table /\ buf.num \in 0 .. Limit /\ Limit \in Nat
      /\ buf.num = Len(AllChains(buf))
      /\ buf = [kind |-> "hashtab", htable |-> buf.htable, num |-> buf.num]
  BY BuffersAssumption DEF TableInv
<1>2. h \in 0 .. Buckets - 1
  BY BuffersAssumption DEF hash_value
<1>. HIDE DEF h
<1>3. c \in Seq(Items) /\ Sorted(c)
  BY <1>1, <1>2 DEF Table, TableInv
<1>. HIDE DEF c
<1>4. /\ f => Len(c) > 0
      /\ ~f => /\ \A i \in 1 .. Len(c) : c[i] # k
               /\ Inserted(c, n, k, NewChain(c, k))
               /\ Sorted(NewChain(c, k))
  BY <1>3, ChainSteps
<1>5. hashtab_search(buf, k) <=> f
  BY DEF hashtab_search, c, h
<1>. HIDE DEF f, n
<1>6. /\ AllChains(buf) \in Seq(Items)
      /\ \A i \in 1 .. Len(AllChains(buf)) :
           \E g \in 0 .. Buckets - 1 : \E m \in 1 .. Len(buf.htable[g]) :
             AllChains(buf)[i] = buf.htable[g][m]
      /\ \A g \in 0 .. Buckets - 1 : Len(buf.htable[g]) <= Len(AllChains(buf))
  BY <1>1, ChainsHold
<1>7. CASE buf.num = Limit
  <2>1. out' = Ret("full") /\ buf' = buf
    BY <1>7 DEF hashtab_insert
  <2>2. Content' = Content /\ Len(Content) = Limit /\ TableInv(buf')
    BY <2>1, <1>0, <1>1, <1>7
  <2>. QED BY <2>1, <2>2, <1>0, AbstractRefuse
<1>8. CASE buf.num # Limit /\ f
  <2>1. out' = Ret("exist") /\ buf' = buf
    BY <1>5, <1>8 DEF hashtab_insert
  <2>2. Content' = Content /\ TableInv(buf')
    BY <2>1, <1>0
  <2>3. Content # <<>>
    <3>1. Len(c) > 0 /\ Len(c) \in Nat
      BY <1>3, <1>4, <1>8
    <3>2. Len(c) <= Len(AllChains(buf))
      BY <1>2, <1>6 DEF c
    <3>3. Len(AllChains(buf)) \in Nat
      BY <1>6
    <3>4. Len(AllChains(buf)) # 0
      BY ONLY <3>1, <3>2, <3>3
    <3>5. Len(<<>>) = 0
      OBVIOUS
    <3>. QED BY <3>4, <3>5, <1>0, Zenon
  <2>. QED BY <2>1, <2>2, <2>3, <1>0, AbstractRefuse
<1>9. CASE buf.num # Limit /\ ~f
  <2>1. /\ out' = Ret("ok")
        /\ buf' = [buf EXCEPT !.htable[hash_value(k)] = NewChain(@, k), !.num = @ + 1]
    BY <1>5, <1>9 DEF hashtab_insert
  <2> DEFINE e == [buf.htable EXCEPT ![h] = NewChain(c, k)]
  <2>2. buf' = [kind |-> "hashtab", htable |-> e, num |-> buf.num + 1]
    <3>1. buf' = [buf EXCEPT !.htable = e, !.num = buf.num + 1]
      BY <2>1 DEF c, h
    <3>. HIDE DEF e
    <3>. QED BY <3>1, <1>1 DEF TableInv
  <2>3. Inserted(c, n, k, NewChain(c, k)) /\ Sorted(NewChain(c, k))
        /\ NewChain(c, k) \in Seq(Items)
    BY <1>4, <1>9 DEF Inserted
  <2>4. /\ e \in Table /\ e[h] = NewChain(c, k)
        /\ \A g \in 0 .. Buckets - 1 : g # h => e[g] = buf.htable[g]
    BY <2>3, <1>1, <1>2 DEF Table
  <2>. HIDE DEF e
  <2>5. /\ buf'.kind = "hashtab" /\ buf'.htable = e /\ buf'.num = buf.num + 1
    BY <2>2
  <2>6. PICK p : Inserted(AllChains(buf), p, k, AllChains(buf'))
    <3>1. /\ Inserted(buf.htable[h], n, k, buf'.htable[h]) /\ buf'.htable \in Table
          /\ \A g \in 0 .. Buckets - 1 : g # h => buf'.htable[g] = buf.htable[g]
      BY <2>3, <2>4, <2>5 DEF c
    <3>. QED BY <3>1, <1>1, <1>2, ChainsInsert
  <2>7. Len(AllChains(buf')) = Len(AllChains(buf)) + 1 /\ p \in 1 .. Len(AllChains(buf)) + 1
    BY <2>6 DEF Inserted
  <2>8. AllChains(buf') = InsertAt(AllChains(buf), p, k)
    BY <2>6, <2>7, <1>6, InsertedIs
  <2>9. k \notin ToSet(AllChains(buf))
    <3>1. SUFFICES ASSUME NEW i \in 1 .. Len(AllChains(buf)), AllChains(buf)[i] = k PROVE FALSE
      BY <1>6 DEF ToSet
    <3>2a. PICK g \in 0 .. Buckets - 1 : \E m \in 1 .. Len(buf.htable[g]) : k = buf.htable[g][m]
      BY <3>1, <1>6
    <3>2. PICK m \in 1 .. Len(buf.htable[g]) : k = buf.htable[g][m]
      BY <3>2a
    <3>3. hash_value(buf.htable[g][m]) = g
      BY <3>2 DEF TableInv
    <3>4. g = h
      BY <3>2, <3>3 DEF h
    <3>. QED BY <3>2, <3>4, <1>4, <1>9 DEF c
  <2>10. ASSUME NEW g \in 0 .. Buckets - 1
         PROVE  /\ Sorted(e[g])
                /\ \A i \in 1 .. Len(e[g]) : hash_value(e[g][i]) = g
    <3>1. CASE g = h
      <4>1. Sorted(e[g])
        BY <3>1, <2>3, <2>4
      <4>2. ASSUME NEW i \in 1 .. Len(e[g]) PROVE hash_value(e[g][i]) = g
        <5> DEFINE u == NewChain(c, k)
        <5>1. e[g] = u /\ Inserted(c, n, k, u)
          BY <3>1, <2>3, <2>4
        <5>. HIDE DEF u
        <5>2. i \in 1 .. Len(c) + 1 /\ n \in 1 .. Len(c) + 1 /\ Len(c) \in Nat
          BY <5>1, <1>3 DEF Inserted
        <5>3. \A m \in 1 .. Len(c) : hash_value(c[m]) = h
          BY <1>2 DEF TableInv, c
        <5>4. hash_value(k) = h
          BY DEF h
        <5>5. CASE i < n
          <6>1. i \in 1 .. n - 1 /\ i \in 1 .. Len(c)
            BY <5>2, <5>5
          <6>2. u[i] = c[i]
            BY <6>1, <5>1 DEF Inserted
          <6>. QED BY <6>1, <6>2, <5>1, <5>3, <3>1
        <5>6. CASE i = n
          <6>1. u[i] = k
            BY <5>1, <5>6 DEF Inserted
          <6>. QED BY <6>1, <5>1, <5>4, <3>1
        <5>7. CASE i > n
          <6>1. i \in n + 1 .. Len(c) + 1 /\ i - 1 \in 1 .. Len(c)
            BY <5>2, <5>7
          <6>2. u[i] = c[i - 1]
            BY <6>1, <5>1 DEF Inserted
          <6>. QED BY <6>1, <6>2, <5>1, <5>3, <3>1
        <5>8. i < n \/ i = n \/ i > n
          BY <5>2
        <5>. QED BY <5>5, <5>6, <5>7, <5>8, Zenon
      <4>. QED BY <4>1, <4>2
    <3>2. CASE g # h
      <4>1. e[g] = buf.htable[g]
        BY <3>2, <2>4
      <4>2. /\ Sorted(buf.htable[g])
            /\ \A i \in 1 .. Len(buf.htable[g]) : hash_value(buf.htable[g][i]) = g
        BY DEF TableInv
      <4>. QED BY <4>1, <4>2
    <3>. QED BY <3>1, <3>2
  <2>11. buf.num + 1 \in 0 .. Limit /\ Len(Content) < Limit
    BY <1>0, <1>1, <1>9
  <2>12. TableInv(buf')
    <3>1. buf' \in [kind : {"hashtab"}, htable : Table, num : 0 .. Limit]
      BY <2>2, <2>4, <2>11
    <3>2. buf'.num = Len(AllChains(buf'))
      BY <2>5, <2>7, <1>1
    <3>. QED BY <3>1, <3>2, <2>5, <2>10 DEF TableInv
  <2>13. /\ Content' = InsertAt(Content, p, k) /\ p \in 1 .. Len(Content) + 1
         /\ k \notin ToSet(Content) /\ buf'.kind = buf.kind
    <3>1. Content' = AllChains(buf')
      BY <2>12, <1>0, ContentIs
    <3>. QED BY <3>1, <2>5, <2>7, <2>8, <2>9, <1>0
  <2>. QED BY <2>1, <2>11, <2>12, <2>13, <1>0, AbstractAdd
<1>. QED BY <1>7, <1>8, <1>9

\* A new container of each kind satisfies the invariant and is empty.
LEMMA BufStarts ==
  ASSUME BufInit
  PROVE  BufInv(buf) /\ Abstract!Init
<1>0. Limit \in Nat /\ Limit > 0 /\ Buckets \in Nat /\ Buckets > 0
  BY BuffersAssumption
<1>1. Content = ContentOf(buf)
  BY DEF Content, ContentOf
<1>2. Memory \in [0 .. Limit - 1 -> Stored]
  BY DEF Memory, Stored
<1>3. ASSUME NEW k \in {"ring", "queue"}, buf = ring_buffer_create(k)
      PROVE  RingInv(buf) /\ Content = <<>> /\ buf.kind = k
  <2>1. buf = [kind |-> k, member |-> Memory, head |-> 0, tail |-> 0, num |-> 0]
    BY <1>3 DEF ring_buffer_create
  <2>2. 0 \in 0 .. Limit - 1 /\ 0 \in 0 .. Limit /\ Wrap(0 + 0) = 0
    BY <1>0 DEF Wrap
  <2>3. RingInv(buf)
    <3>1. buf.head = 0 /\ buf.tail = 0 /\ buf.num = 0
      BY <2>1
    <3>2. buf \in [kind : {"ring", "queue"}, member : [0 .. Limit - 1 -> Stored],
                   head : 0 .. Limit - 1, tail : 0 .. Limit - 1, num : 0 .. Limit]
      BY <2>1, <2>2, <1>2
    <3>. QED BY <3>1, <3>2, <2>2 DEF RingInv
  <2>4. Content = RingSeq(buf) /\ buf.num = 0
    BY <2>1, <2>3, <1>1, ContentIs
  <2>. QED BY <2>1, <2>3, <2>4 DEF RingSeq
<1>4. ASSUME buf = stack_create
      PROVE  StackInv(buf) /\ Content = <<>> /\ buf.kind = "stack"
  <2>1. buf = [kind |-> "stack", memb |-> Memory, num |-> 0]
    BY <1>4 DEF stack_create
  <2>2. StackInv(buf)
    BY <2>1, <1>0, <1>2 DEF StackInv
  <2>3. Content = StackSeq(buf) /\ buf.num = 0
    BY <2>1, <2>2, <1>1, ContentIs
  <2>. QED BY <2>1, <2>2, <2>3 DEF StackSeq
<1>5. ASSUME buf = list_init_head
      PROVE  ListInv(buf) /\ Content = <<>> /\ buf.kind = "list"
  <2>1. buf.kind = "list" /\ ListSeq(buf, <<>>)
    BY <1>5, ListInit DEF list_init_head
  <2>. QED BY <2>1, <1>1, ContentIs DEF ListInv
<1>6. ASSUME buf = hashtab_create
      PROVE  TableInv(buf) /\ Content = <<>> /\ buf.kind = "hashtab"
  <2>1. buf = [kind |-> "hashtab", htable |-> [h \in 0 .. Buckets - 1 |-> <<>>], num |-> 0]
    BY <1>6 DEF hashtab_create
  <2>2. buf.htable \in Table /\ \A h \in 0 .. Buckets - 1 : buf.htable[h] = <<>>
    BY <2>1 DEF Table
  <2>3. AllChains(buf) = <<>>
    <3>1. /\ AllChains(buf) \in Seq(Items)
          /\ \A i \in 1 .. Len(AllChains(buf)) :
               \E h \in 0 .. Buckets - 1 : \E m \in 1 .. Len(buf.htable[h]) :
                 AllChains(buf)[i] = buf.htable[h][m]
      BY <2>2, ChainsHold
    <3>2. \A h \in 0 .. Buckets - 1 : 1 .. Len(buf.htable[h]) = {}
      BY <2>2
    <3>3. ~(1 \in 1 .. Len(AllChains(buf)))
      BY <3>1, <3>2, Zenon
    <3>. QED BY <3>1, <3>3
  <2>4. TableInv(buf)
    <3>1. buf \in [kind : {"hashtab"}, htable : Table, num : 0 .. Limit]
      BY <2>1, <2>2, <1>0
    <3>2. ASSUME NEW h \in 0 .. Buckets - 1
          PROVE  /\ Sorted(buf.htable[h])
                 /\ \A i \in 1 .. Len(buf.htable[h]) : hash_value(buf.htable[h][i]) = h
      BY <2>2 DEF Sorted
    <3>3. buf.num = Len(AllChains(buf))
      BY <2>1, <2>3
    <3>. QED BY <3>1, <3>2, <3>3 DEF TableInv
  <2>. QED BY <2>1, <2>3, <2>4, <1>1, ContentIs
<1>7. BufInv(buf) /\ Content = <<>> /\ buf.kind \in {"ring", "queue", "stack", "list", "hashtab"}
  BY <1>3, <1>4, <1>5, <1>6 DEF BufInit, BufInv
<1>8. out = Abstract!Ret("ok")
  BY DEF BufInit, Ret, Junk, Abstract!Ret
<1>. QED BY <1>7, <1>8 DEF Abstract!Init, Abstract!Kinds

\* Every step keeps the invariant and is a step of the abstract container or none.
LEMMA BufSteps ==
  ASSUME BufInv(buf), [BufNext]_<<buf, out>>
  PROVE  BufInv(buf') /\ [Abstract!Next]_<<buf.kind, Content, out>>
<1>0. Content = ContentOf(buf) /\ Content' = ContentOf(buf')
  BY DEF Content, ContentOf
<1>1. CASE UNCHANGED <<buf, out>>
  BY <1>0, <1>1
<1>2. CASE BufNext
  <2>1. \/ RingOps \/ StackOps \/ ListOps
        \/ \E x \in Items : hashtab_insert(x)
    BY <1>2 DEF BufNext, RingOps, StackOps, ListOps
  <2>2. CASE RingOps
    <3>1. buf.kind \in {"ring", "queue"}
      BY <2>2 DEF RingOps, ring_buffer_push, ring_buffer_pop, ring_buffer_reset
    <3>2. RingInv(buf)
      BY <3>1, KindIs DEF BufInv
    <3>. QED BY <3>2, <2>2, RingCalls DEF BufInv
  <2>3. CASE StackOps
    <3>1. buf.kind = "stack"
      BY <2>3 DEF StackOps, stack_push, stack_pop
    <3>2. StackInv(buf)
      BY <3>1, KindIs DEF BufInv
    <3>. QED BY <3>2, <2>3, StackCalls DEF BufInv
  <2>4. CASE ListOps
    <3>1. buf.kind = "list"
      BY <2>4 DEF ListOps, list_add, list_remove_target_node
    <3>2. ListInv(buf)
      BY <3>1, KindIs DEF BufInv
    <3>. QED BY <3>2, <2>4, ListCalls DEF BufInv
  <2>5. ASSUME NEW x \in Items, hashtab_insert(x) PROVE BufInv(buf') /\ Abstract!Next
    <3>1. buf.kind = "hashtab"
      BY <2>5 DEF hashtab_insert
    <3>2. TableInv(buf)
      BY <3>1, KindIs DEF BufInv
    <3>. QED BY <3>2, <2>5, TableCalls DEF BufInv
  <2>. QED BY <2>1, <2>2, <2>3, <2>4, <2>5
<1>. QED BY <1>1, <1>2

\* Every container of public/ keeps what was put in, in its order, over any number
\* of calls: the arrays wrap without losing an item, links and chains stay whole.
THEOREM BufSpecImplements == BufInit /\ [][BufNext]_<<buf, out>> => ImplementsContainer
<1>1. BufInit => BufInv(buf) /\ Abstract!Init
  BY BufStarts
<1>2. BufInv(buf) /\ [BufNext]_<<buf, out>> => BufInv(buf)'
      /\ [Abstract!Next]_<<buf.kind, Content, out>>
  BY BufSteps
<1>. QED BY <1>1, <1>2, PTL DEF ImplementsContainer, Abstract!Spec

\* In a list that satisfies the invariant a walk that removes nodes meets all of them.
LEMMA BufInvWalks ==
  BufInv(buf) => ListWalksAll
<1>1. SUFFICES ASSUME BufInv(buf), buf.kind = "list", NEW gone \in SUBSET Items
               PROVE  LET w    == list_walk_all(buf, gone)
                          met  == Forward(buf)
                          left == Forward(w.l)
                      IN  /\ w.seen = met /\ w.node = ListHead
                          /\ ToSet(left) = ToSet(met) \ gone
                          /\ \A i, j \in DOMAIN left : i < j =>
                               \E p, q \in DOMAIN met : p < q /\ left[i] = met[p]
                                 /\ left[j] = met[q]
                          /\ Backward(w.l) = Reverse(left)
  BY Zenon DEF ListWalksAll
<1>2. PICK s : ListSeq(buf, s)
  BY <1>1, KindIs DEF BufInv, ListInv
<1>3. Chain(buf, s) /\ Distinct(s) /\ Forward(buf) = s
  BY <1>2, ForwardIs DEF ListSeq, Chain
<1> DEFINE w == list_walk_all(buf, gone)
<1>4. /\ w.node = ListHead /\ w.seen = s
      /\ \E t, f : Chain(w.l, t) /\ Kept(t, f, s, Len(s), gone)
  BY <1>3, WalkIs
<1>. HIDE DEF w
<1>5. PICK t, f : Chain(w.l, t) /\ Kept(t, f, s, Len(s), gone)
  BY <1>4
<1>6. Forward(w.l) = t /\ Backward(w.l) = Reverse(t)
  BY <1>5, ForwardIs
<1>7. /\ ToSet(t) = ToSet(s) \ gone
      /\ \A i, j \in DOMAIN t : i < j =>
           \E p, q \in DOMAIN s : p < q /\ t[i] = s[p] /\ t[j] = s[q]
  BY <1>3, <1>5, KeptMeans
<1>8. /\ w.seen = Forward(buf) /\ w.node = ListHead
      /\ ToSet(Forward(w.l)) = ToSet(Forward(buf)) \ gone
      /\ Backward(w.l) = Reverse(Forward(w.l))
  BY <1>3, <1>4, <1>6, <1>7
<1>9. \A i, j \in DOMAIN Forward(w.l) : i < j =>
        \E p, q \in DOMAIN Forward(buf) :
          p < q /\ Forward(w.l)[i] = Forward(buf)[p] /\ Forward(w.l)[j] = Forward(buf)[q]
  BY <1>3, <1>6, <1>7
<1>. QED BY <1>8, <1>9 DEF w

\* A callback of list_walk_all may take any of the nodes it is given out of the
\* list: the walk meets every node once, whatever the list and the nodes are.
THEOREM BufSpecWalksAll == BufInit /\ [][BufNext]_<<buf, out>> => []ListWalksAll
<1>1. BufInit => BufInv(buf)
  BY BufStarts
<1>2. BufInv(buf) /\ [BufNext]_<<buf, out>> => BufInv(buf)'
  BY BufSteps
<1>. QED BY <1>1, <1>2, BufInvWalks, PTL
==============================================================================
