----------------------- MODULE InventoryDigestsProofs -----------------------
(***************************************************************************)
(* The digests name the content of an inventory, for every inventory: what *)
(* is encoded can be read back in one way only, and the order of the ECUs  *)
(* in it depends on the set of them alone.                                 *)
(***************************************************************************)
EXTENDS InventoryDigests, FiniteSetTheorems, SequenceTheorems, TLAPS

-----------------------------------------------------------------------------
(* Induction over the numbers, of a set and not of a predicate: the        *)
(* counterexamples up to n, moved down by one, are counterexamples up to   *)
(* n; a finite set is not moved into itself without its largest element.   *)
LEMMA Induction ==
    ASSUME NEW T, 0 \in T, \A n \in Nat : n \in T => n + 1 \in T
    PROVE  Nat \subseteq T
<1> SUFFICES ASSUME NEW n \in Nat, n \notin T PROVE FALSE
    OBVIOUS
<1> DEFINE S == (0..n) \ T
           f == [x \in S |-> x - 1]
<1>1. IsFiniteSet(S)
  <2>1. IsFiniteSet(0..n)
      BY FS_Interval
  <2> QED
      BY <2>1, FS_Subset
<1>2. f \in Injection(S, S)
  <2>1. \A x \in S : x - 1 \in S
    <3> SUFFICES ASSUME NEW x \in S, x - 1 \notin S PROVE FALSE
        OBVIOUS
    <3>1. x \in Nat /\ x # 0
        OBVIOUS
    <3>2. x - 1 \in T /\ x - 1 \in Nat /\ (x - 1) + 1 = x
        BY <3>1
    <3> QED
        BY <3>2
  <2>2. \A x, y \in S : f[x] = f[y] => x = y
      OBVIOUS
  <2> QED
      BY <2>1, <2>2 DEF Injection, IsInjective
<1>3. f \in Surjection(S, S)
    BY <1>1, <1>2, FS_Injection
<1>4. \A t \in S : \E x \in S : f[x] = t
    BY <1>3, Zenon DEF Surjection
<1>5. n \in S
    OBVIOUS
<1>6. PICK x \in S : f[x] = n
    BY <1>4, <1>5
<1> QED
    BY <1>6

LEMMA Least ==
    ASSUME NEW T, T \subseteq Nat, T # {}
    PROVE  \E x \in T : \A y \in T : x <= y
<1> DEFINE above == {n \in Nat : \A m \in 0..n : m \notin T}
<1> SUFFICES ASSUME \A x \in T : \E y \in T : y < x PROVE FALSE
    OBVIOUS
<1>1. 0 \in above
    OBVIOUS
<1>2. \A n \in Nat : n \in above => n + 1 \in above
    OBVIOUS
<1>3. Nat \subseteq above
  <2> HIDE DEF above
  <2> QED
      BY <1>1, <1>2, Induction
<1>4. PICK x \in T : x \in Nat
    OBVIOUS
<1>5. x \in above /\ x \in 0..x
    BY <1>3, <1>4
<1> QED
    BY <1>5

-----------------------------------------------------------------------------
(* Sequences of numbers one of which begins with the other.                *)
Agree(x, y) == \A k \in 1..Len(x) : k <= Len(y) => x[k] = y[k]

(* No member of a code begins another.                                     *)
IsCode(C) == C \subseteq Str /\ \A x, y \in C : Agree(x, y) => x = y

LEMMA TwoJoined ==
    ASSUME NEW x \in Str, NEW y \in Str
    PROVE  /\ x \o y \in Str /\ Len(x \o y) = Len(x) + Len(y)
           /\ Len(x) \in Nat /\ Len(y) \in Nat
           /\ \A k \in 1..Len(x) : (x \o y)[k] = x[k]
           /\ \A k \in 1..Len(y) : (x \o y)[Len(x) + k] = y[k]
    BY DEF Str

LEMMA HeadIs ==
    ASSUME NEW n \in Nat, NEW y \in Str
    PROVE  /\ <<n>> \in Str /\ Len(<<n>>) = 1 /\ <<n>> \o y \in Str
           /\ (<<n>> \o y)[1] = n /\ Len(<<n>> \o y) = 1 + Len(y) /\ Len(y) \in Nat
    BY DEF Str

LEMMA SameStr ==
    ASSUME NEW x \in Str, NEW y \in Str, Len(x) = Len(y), \A k \in 1..Len(x) : x[k] = y[k]
    PROVE  x = y
    BY DEF Str

Begins(x, y) == Len(x) <= Len(y) /\ \A k \in 1..Len(x) : y[k] = x[k]

LEMMA BeginsJoined ==
    ASSUME NEW x \in Str, NEW y \in Str
    PROVE  Begins(x, x \o y)
    BY TwoJoined DEF Begins

LEMMA BeginsBegins ==
    ASSUME NEW x \in Str, NEW y \in Str, NEW z \in Str, Begins(x, y), Begins(y, z)
    PROVE  Begins(x, z)
    BY DEF Begins, Str

(* What follows a common beginning agrees as well.                         *)
LEMMA FollowersAgree ==
    ASSUME NEW p \in Str, NEW x \in Str, NEW y \in Str, NEW u \in Str, NEW v \in Str,
           Begins(p \o x, u), Begins(p \o y, v), Agree(u, v)
    PROVE  Agree(x, y)
<1> SUFFICES ASSUME NEW k \in 1..Len(x), k <= Len(y) PROVE x[k] = y[k]
    BY DEF Agree
<1>1. Len(p) \in Nat /\ Len(x) \in Nat /\ Len(y) \in Nat /\ Len(u) \in Nat /\ Len(v) \in Nat
    BY DEF Str
<1>2. k \in 1..Len(y)
    BY <1>1
<1>3. Len(p \o x) = Len(p) + Len(x) /\ Len(p \o y) = Len(p) + Len(y)
    BY TwoJoined
<1>4. (p \o x)[Len(p) + k] = x[k] /\ (p \o y)[Len(p) + k] = y[k]
    BY <1>2, TwoJoined
<1> DEFINE px == p \o x
           py == p \o y
<1> HIDE DEF px, py
<1>5. u[Len(p) + k] = px[Len(p) + k] /\ v[Len(p) + k] = py[Len(p) + k]
    BY <1>1, <1>2, <1>3 DEF Begins, px, py
<1>6. Len(p) + k \in 1..Len(u) /\ Len(p) + k <= Len(v)
    BY <1>1, <1>2, <1>3 DEF Begins
<1>7. u[Len(p) + k] = v[Len(p) + k]
    BY <1>6 DEF Agree
<1> QED
    BY <1>4, <1>5, <1>7 DEF px, py

(* What FlattenSeq has joined after i sequences.                           *)
IsJoin(f, s) ==
    /\ f \in [0..Len(s) -> Str]
    /\ f[0] = <<>>
    /\ \A i \in 1..Len(s) : f[i] = f[i - 1] \o s[i]

IsJoinTo(f, s, n) ==
    /\ f \in [0..n -> Str]
    /\ f[0] = <<>>
    /\ \A i \in 1..n : f[i] = f[i - 1] \o s[i]

LEMMA JoinExists ==
    ASSUME NEW s \in Seq(Str)
    PROVE  \E f : IsJoin(f, s)
<1> DEFINE T == {n \in Nat : n <= Len(s) => \E f : IsJoinTo(f, s, n)}
<1>1. 0 \in T
  <2> DEFINE f == [i \in 0..0 |-> <<>>]
  <2>1. IsJoinTo(f, s, 0)
      BY DEF Str, IsJoinTo
  <2> QED
      BY <2>1
<1>2. ASSUME NEW n \in Nat, n \in T
      PROVE  n + 1 \in T
  <2> SUFFICES ASSUME n + 1 <= Len(s)
               PROVE  \E f : IsJoinTo(f, s, n + 1)
      BY DEF T
  <2>1. PICK f : IsJoinTo(f, s, n)
      BY <1>2
  <2> DEFINE g == [i \in 0..(n + 1) |-> IF i = n + 1 THEN f[n] \o s[n + 1] ELSE f[i]]
  <2>2. f[n] \o s[n + 1] \in Str
      BY <2>1 DEF Str, IsJoinTo
  <2>3. g \in [0..(n + 1) -> Str]
      BY <2>1, <2>2 DEF IsJoinTo
  <2>4. g[0] = <<>>
      BY <2>1 DEF IsJoinTo
  <2>5. ASSUME NEW i \in 1..(n + 1) PROVE g[i] = g[i - 1] \o s[i]
    <3>1. CASE i = n + 1
      <4>1. i - 1 = n /\ n \in 0..(n + 1) /\ n # n + 1 /\ g[n] = f[n]
          BY <3>1
      <4> QED
          BY <3>1, <4>1
    <3>2. CASE i # n + 1
      <4>1. i \in 1..n /\ i - 1 \in 0..n /\ g[i] = f[i] /\ g[i - 1] = f[i - 1]
          BY <3>2
      <4> QED
          BY <2>1, <4>1 DEF IsJoinTo
    <3> QED
        BY <3>1, <3>2
  <2>6. IsJoinTo(g, s, n + 1)
      BY <2>3, <2>4, <2>5 DEF IsJoinTo
  <2> QED
      BY <2>6
<1>3. Nat \subseteq T
  <2> HIDE DEF T
  <2> QED
      BY <1>1, <1>2, Induction
<1>4. Len(s) \in Nat /\ Len(s) <= Len(s)
    OBVIOUS
<1>5. \E f : IsJoinTo(f, s, Len(s))
    BY <1>3, <1>4
<1> QED
    BY <1>5 DEF IsJoin, IsJoinTo

LEMMA FlattenIsJoin ==
    ASSUME NEW s \in Seq(Str), NEW f, IsJoin(f, s)
    PROVE  FlattenSeq(s) = f[Len(s)]
<1>1. CASE Len(s) = 0
  <2>1. s = <<>>
      BY <1>1
  <2> QED
      BY <1>1, <2>1 DEF FlattenSeq, IsJoin
<1>2. CASE Len(s) # 0
  <2> DEFINE rest(g) == [i \in 1..Len(s) |-> IF i = 1 THEN s[i] ELSE g[i - 1] \o s[i]]
             joined == CHOOSE g : g = rest(g)
             h == [i \in 1..Len(s) |-> f[i]]
  <2>1. h = rest(h)
    <3>1. ASSUME NEW i \in 1..Len(s), i # 1 PROVE f[i] = h[i - 1] \o s[i]
      <4>1. i - 1 \in 1..Len(s)
          BY <3>1
      <4> QED
          BY <4>1 DEF IsJoin
    <3>2. 1 \in 1..Len(s) /\ s[1] \in Str
        BY <1>2
    <3>3. f[1] = <<>> \o s[1]
        BY <3>2 DEF IsJoin
    <3>4. f[1] = s[1]
        BY <3>2, <3>3 DEF Str
    <3> QED
        BY <3>1, <3>4
  <2>2. joined = rest(joined)
    <3> HIDE DEF rest, h
    <3> QED
        BY <2>1, Zenon
  <2> HIDE DEF joined
  <2>3. ASSUME NEW i \in 1..Len(s) PROVE joined[i] = f[i]
    <3> DEFINE T == {n \in Nat : n + 1 <= Len(s) => joined[n + 1] = f[n + 1]}
    <3>1. 0 \in T
      <4>1. 1 \in 1..Len(s) /\ 0 + 1 = 1
          BY <1>2
      <4>2. joined[1] = s[1]
          BY <2>2, <4>1
      <4>3. h[1] = s[1]
          BY <2>1, <4>1
      <4> QED
          BY <4>1, <4>2, <4>3
    <3>2. ASSUME NEW n \in Nat, n \in T PROVE n + 1 \in T
      <4> SUFFICES ASSUME (n + 1) + 1 <= Len(s) PROVE joined[(n + 1) + 1] = f[(n + 1) + 1]
          BY DEF T
      <4>1. (n + 1) + 1 \in 1..Len(s) /\ n + 1 \in 1..Len(s) /\ ((n + 1) + 1) - 1 = n + 1 /\ (n + 1) + 1 # 1
          OBVIOUS
      <4>2. joined[n + 1] = f[n + 1]
          BY <3>2, <4>1
      <4>3. joined[(n + 1) + 1] = joined[n + 1] \o s[(n + 1) + 1]
          BY <2>2, <4>1
      <4>4. f[(n + 1) + 1] = f[n + 1] \o s[(n + 1) + 1]
          BY <4>1 DEF IsJoin
      <4> QED
          BY <4>2, <4>3, <4>4
    <3>3. Nat \subseteq T
      <4> HIDE DEF T
      <4> QED
          BY <3>1, <3>2, Induction
    <3>4. i - 1 \in Nat /\ (i - 1) + 1 = i /\ i <= Len(s)
        OBVIOUS
    <3>5. (i - 1) + 1 <= Len(s) => joined[(i - 1) + 1] = f[(i - 1) + 1]
        BY <3>3, <3>4
    <3> QED
        BY <3>4, <3>5
  <2>4. FlattenSeq(s) = joined[Len(s)]
      BY <1>2 DEF FlattenSeq, joined
  <2>5. Len(s) \in 1..Len(s)
      BY <1>2
  <2> QED
      BY <2>3, <2>4, <2>5
<1> QED
    BY <1>1, <1>2

LEMMA JoinBegins ==
    ASSUME NEW s \in Seq(Str), NEW f, IsJoin(f, s), NEW i \in 0..Len(s)
    PROVE  Begins(f[i], f[Len(s)])
<1> DEFINE n == Len(s)
           T == {m \in Nat : m <= n => Begins(f[n - m], f[n])}
<1>1. 0 \in T
  <2>1. n - 0 = n /\ f[n] \in Str
      BY DEF IsJoin
  <2> QED
      BY <2>1 DEF Begins, Str
<1>2. ASSUME NEW m \in Nat, m \in T PROVE m + 1 \in T
  <2> SUFFICES ASSUME m + 1 <= n PROVE Begins(f[n - (m + 1)], f[n])
      BY DEF T
  <2>1. Begins(f[n - m], f[n])
      BY <1>2
  <2>2. /\ n - m \in 1..Len(s) /\ (n - m) - 1 = n - (m + 1) /\ n - (m + 1) \in 0..Len(s)
        /\ n - m \in 0..Len(s) /\ n \in 0..Len(s)
      OBVIOUS
  <2>3. f[n - m] = f[n - (m + 1)] \o s[n - m]
      BY <2>2 DEF IsJoin
  <2>4. f \in [0..Len(s) -> Str] /\ s[n - m] \in Str
      BY <2>2 DEF IsJoin
  <2>5. f[n - (m + 1)] \in Str /\ f[n - m] \in Str /\ f[n] \in Str
      BY <2>2, <2>4
  <2>6. Begins(f[n - (m + 1)], f[n - m])
      BY <2>3, <2>4, <2>5, BeginsJoined
  <2> QED
      BY <2>1, <2>5, <2>6, BeginsBegins
<1>3. Nat \subseteq T
  <2> HIDE DEF T
  <2> QED
      BY <1>1, <1>2, Induction
<1>4. n - i \in Nat /\ n - i <= n /\ n - (n - i) = i
    OBVIOUS
<1>5. n - i <= n => Begins(f[n - (n - i)], f[n])
    BY <1>3, <1>4
<1> QED
    BY <1>4, <1>5

LEMMA FlattenIs ==
    ASSUME NEW s \in Seq(Str)
    PROVE  FlattenSeq(s) \in Str
<1>1. PICK f : IsJoin(f, s)
    BY JoinExists
<1>2. FlattenSeq(s) = f[Len(s)]
    BY <1>1, FlattenIsJoin
<1> QED
    BY <1>1, <1>2 DEF IsJoin

(* As many members of a code in a row can be told apart by any beginning   *)
(* they do not share.                                                      *)
LEMMA FlattenDiffers ==
    ASSUME NEW C, IsCode(C), NEW s \in Seq(C), NEW t \in Seq(C), Len(s) = Len(t),
           Agree(FlattenSeq(s), FlattenSeq(t))
    PROVE  s = t
<1>1. s \in Seq(Str) /\ t \in Seq(Str) /\ C \subseteq Seq(Nat)
    BY DEF IsCode, Str
<1>2. PICK f : IsJoin(f, s)
    BY <1>1, JoinExists
<1>3. PICK g : IsJoin(g, t)
    BY <1>1, JoinExists
<1> DEFINE n == Len(s)
           T == {m \in Nat : m <= n => f[m] = g[m] /\ \A i \in 1..m : s[i] = t[i]}
<1>4. FlattenSeq(s) = f[n] /\ FlattenSeq(t) = g[n]
    BY <1>1, <1>2, <1>3, FlattenIsJoin
<1>5. 0 \in T
    BY <1>2, <1>3 DEF IsJoin
<1>6. ASSUME NEW m \in Nat, m \in T PROVE m + 1 \in T
  <2> SUFFICES ASSUME m + 1 <= n PROVE f[m + 1] = g[m + 1] /\ \A i \in 1..(m + 1) : s[i] = t[i]
      BY DEF T
  <2>1. f[m] = g[m] /\ \A i \in 1..m : s[i] = t[i]
      BY <1>6
  <2>2. m + 1 \in 1..Len(s) /\ m + 1 \in 0..n /\ m \in 0..n /\ (m + 1) - 1 = m /\ n \in 0..n
      OBVIOUS
  <2>3. f[m + 1] = f[m] \o s[m + 1] /\ g[m + 1] = f[m] \o t[m + 1]
      BY <1>2, <1>3, <2>1, <2>2 DEF IsJoin
  <2>4. /\ f[m] \in Str /\ s[m + 1] \in Str /\ t[m + 1] \in Str
        /\ f[n] \in Str /\ g[n] \in Str /\ s[m + 1] \in C /\ t[m + 1] \in C
    <3>1. f \in [0..n -> Str] /\ g \in [0..n -> Str]
        BY <1>2, <1>3 DEF IsJoin
    <3>2. s[m + 1] \in C /\ t[m + 1] \in C
        BY <2>2
    <3> QED
        BY <1>1, <2>2, <3>1, <3>2 DEF Str
  <2>5. Begins(f[m + 1], f[n]) /\ Begins(g[m + 1], g[n])
      BY <1>1, <1>2, <1>3, <2>2, JoinBegins
  <2>6. Agree(s[m + 1], t[m + 1])
    <3>1. Begins(f[m] \o s[m + 1], f[n]) /\ Begins(f[m] \o t[m + 1], g[n])
        BY <2>3, <2>5
    <3>2. Agree(f[n], g[n])
        BY <1>4
    <3> QED
        BY <2>4, <3>1, <3>2, FollowersAgree
  <2>7. s[m + 1] = t[m + 1]
      BY <2>4, <2>6 DEF IsCode
  <2> QED
      BY <2>1, <2>3, <2>7
<1>7. Nat \subseteq T
  <2> HIDE DEF T
  <2> QED
      BY <1>5, <1>6, Induction
<1>8. n \in Nat /\ n <= n
    OBVIOUS
<1>9. \A i \in 1..n : s[i] = t[i]
    BY <1>7, <1>8
<1> QED
    BY <1>9

-----------------------------------------------------------------------------
(* Fields and records.                                                     *)
FieldCodes == {Field(id, state, b) : id \in Nat, state \in Nat, b \in Str}

LEMMA AgreesWithItself == \A x \in Str : Agree(x, x) /\ Begins(x, x)
    BY DEF Agree, Begins, Str

LEMMA FieldIs ==
    ASSUME NEW id \in Nat, NEW state \in Nat, NEW b \in Str
    PROVE  /\ Field(id, state, b) \in Str /\ Len(Field(id, state, b)) = 3 + Len(b) /\ Len(b) \in Nat
           /\ Field(id, state, b)[1] = id /\ Field(id, state, b)[2] = state
           /\ Field(id, state, b)[3] = Len(b)
           /\ \A k \in 1..Len(b) : Field(id, state, b)[3 + k] = b[k]
<1> DEFINE header == <<id, state, Len(b)>>
<1>1. Len(b) \in Nat
    BY DEF Str
<1>2. header \in Str /\ Len(header) = 3 /\ header[1] = id /\ header[2] = state /\ header[3] = Len(b)
    BY <1>1 DEF Str
<1>3. Field(id, state, b) = header \o b
    BY DEF Field
<1> HIDE DEF header
<1>4. /\ header \o b \in Str /\ Len(header \o b) = Len(header) + Len(b)
      /\ \A k \in 1..Len(header) : (header \o b)[k] = header[k]
      /\ \A k \in 1..Len(b) : (header \o b)[Len(header) + k] = b[k]
    BY <1>2, TwoJoined
<1> DEFINE w == header \o b
<1> HIDE DEF w
<1>5. /\ w \in Str /\ Len(w) = 3 + Len(b) /\ \A k \in 1..3 : w[k] = header[k]
      /\ \A k \in 1..Len(b) : w[3 + k] = b[k]
    BY <1>2, <1>4 DEF w
<1>6. w[1] = id /\ w[2] = state /\ w[3] = Len(b)
    BY <1>2, <1>5
<1> QED
    BY <1>1, <1>3, <1>5, <1>6 DEF w

LEMMA FieldsDiffer ==
    ASSUME NEW id1 \in Nat, NEW state1 \in Nat, NEW b1 \in Str,
           NEW id2 \in Nat, NEW state2 \in Nat, NEW b2 \in Str,
           Agree(Field(id1, state1, b1), Field(id2, state2, b2))
    PROVE  id1 = id2 /\ state1 = state2 /\ b1 = b2
<1> DEFINE x == Field(id1, state1, b1)
           y == Field(id2, state2, b2)
<1>1. /\ Len(x) = 3 + Len(b1) /\ Len(b1) \in Nat /\ x[1] = id1 /\ x[2] = state1 /\ x[3] = Len(b1)
      /\ \A k \in 1..Len(b1) : x[3 + k] = b1[k]
    BY FieldIs
<1>2. /\ Len(y) = 3 + Len(b2) /\ Len(b2) \in Nat /\ y[1] = id2 /\ y[2] = state2 /\ y[3] = Len(b2)
      /\ \A k \in 1..Len(b2) : y[3 + k] = b2[k]
    BY FieldIs
<1>3. \A k \in 1..Len(x) : k <= Len(y) => x[k] = y[k]
    BY DEF Agree
<1> HIDE DEF x, y
<1>4. id1 = id2 /\ state1 = state2 /\ Len(b1) = Len(b2)
    BY <1>1, <1>2, <1>3
<1>5. \A k \in 1..Len(b1) : b1[k] = b2[k]
  <2> SUFFICES ASSUME NEW k \in 1..Len(b1) PROVE b1[k] = b2[k]
      OBVIOUS
  <2>1. 3 + k \in 1..Len(x) /\ 3 + k <= Len(y) /\ k \in 1..Len(b2)
      BY <1>1, <1>2, <1>4
  <2> QED
      BY <1>1, <1>2, <1>3, <2>1
<1> QED
    BY <1>4, <1>5, SameStr

LEMMA FieldsAreCode == IsCode(FieldCodes)
<1>1. FieldCodes \subseteq Str
    BY FieldIs DEF FieldCodes
<1>2. ASSUME NEW x \in FieldCodes, NEW y \in FieldCodes, Agree(x, y) PROVE x = y
  <2>1. PICK i1 \in Nat, s1 \in Nat, b1 \in Str : x = Field(i1, s1, b1)
      BY DEF FieldCodes
  <2>2. PICK i2 \in Nat, s2 \in Nat, b2 \in Str : y = Field(i2, s2, b2)
      BY DEF FieldCodes
  <2> QED
      BY <1>2, <2>1, <2>2, FieldsDiffer
<1> QED
    BY <1>1, <1>2 DEF IsCode

LEMMA NumbersDiffer ==
    ASSUME NEW m \in Nat, NEW n \in Nat, Agree(<<m>>, <<n>>)
    PROVE  m = n
    BY DEF Agree

LEMMA HeadsDiffer ==
    ASSUME NEW m \in Nat, NEW n \in Nat, NEW u \in Str, NEW v \in Str,
           Begins(<<m>>, u), Begins(<<n>>, v), Agree(u, v)
    PROVE  m = n
<1> DEFINE a == <<m>>
           b == <<n>>
<1>1. Len(a) = 1 /\ a[1] = m /\ Len(b) = 1 /\ b[1] = n /\ Len(u) \in Nat /\ Len(v) \in Nat
    BY DEF Str
<1>2. Begins(a, u) /\ Begins(b, v)
    OBVIOUS
<1> HIDE DEF a, b
<1>3. 1 <= Len(u) /\ 1 <= Len(v) /\ u[1] = m /\ v[1] = n
    BY <1>1, <1>2 DEF Begins
<1> QED
    BY <1>1, <1>3 DEF Agree

(* What begins with its own length is read off before what follows.        *)
LEMMA CountedDiffers ==
    ASSUME NEW C, IsCode(C), NEW s \in Seq(C), NEW t \in Seq(C),
           Agree(<<Len(s)>> \o FlattenSeq(s), <<Len(t)>> \o FlattenSeq(t))
    PROVE  s = t
<1> DEFINE x == <<Len(s)>> \o FlattenSeq(s)
           y == <<Len(t)>> \o FlattenSeq(t)
<1>1. s \in Seq(Str) /\ t \in Seq(Str) /\ Len(s) \in Nat /\ Len(t) \in Nat
    BY DEF IsCode
<1>2. FlattenSeq(s) \in Str /\ FlattenSeq(t) \in Str /\ <<Len(s)>> \in Str /\ <<Len(t)>> \in Str
    BY <1>1, FlattenIs DEF Str
<1>3. x \in Str /\ y \in Str
    BY <1>2, TwoJoined
<1>4. Begins(<<Len(s)>>, x) /\ Begins(<<Len(t)>>, y)
    BY <1>2, BeginsJoined
<1>5. Len(s) = Len(t)
  <2>1. Agree(x, y)
      OBVIOUS
  <2> HIDE DEF x, y
  <2> QED
      BY <1>1, <1>3, <1>4, <2>1, HeadsDiffer
<1>6. Agree(FlattenSeq(s), FlattenSeq(t))
  <2>1. y = <<Len(s)>> \o FlattenSeq(t)
      BY <1>5
  <2>2. Begins(<<Len(s)>> \o FlattenSeq(s), x) /\ Begins(<<Len(s)>> \o FlattenSeq(t), y)
      BY <1>3, <2>1, AgreesWithItself
  <2> QED
      BY <1>2, <1>3, <2>2, FollowersAgree
<1> QED
    BY <1>5, <1>6, FlattenDiffers

LEMMA CanonicalDiffers ==
    ASSUME NEW d \in Str, NEW e \in Str, NEW f \in Seq(FieldCodes), NEW g \in Seq(FieldCodes),
           Agree(Canonical(d, f), Canonical(e, g))
    PROVE  d = e /\ f = g
<1> DEFINE v1 == <<Len(d)>> \o d
           v2 == v1 \o <<Len(f)>>
           v3 == v2 \o FlattenSeq(f)
           w1 == <<Len(e)>> \o e
           w2 == w1 \o <<Len(g)>>
           w3 == w2 \o FlattenSeq(g)
<1>1. f \in Seq(Str) /\ g \in Seq(Str)
    BY FieldsAreCode DEF IsCode
<1>2. /\ Len(d) \in Nat /\ Len(e) \in Nat /\ Len(f) \in Nat /\ Len(g) \in Nat
      /\ <<Len(f)>> \in Str /\ <<Len(g)>> \in Str /\ <<Len(d)>> \in Str /\ <<Len(e)>> \in Str
      /\ FlattenSeq(f) \in Str /\ FlattenSeq(g) \in Str
    BY <1>1, FlattenIs DEF Str
<1>3. Agree(v3, w3)
    BY DEF Canonical
<1>4. v1 \in Str /\ w1 \in Str /\ Begins(<<Len(d)>>, v1) /\ Begins(<<Len(e)>>, w1)
    BY <1>2, TwoJoined, BeginsJoined
<1>5. v2 \in Str /\ w2 \in Str /\ Begins(v1, v2) /\ Begins(w1, w2)
  <2> HIDE DEF v1, w1
  <2> QED
      BY <1>2, <1>4, TwoJoined, BeginsJoined
<1>6. v3 \in Str /\ w3 \in Str /\ Begins(v2, v3) /\ Begins(w2, w3)
  <2> HIDE DEF v2, w2
  <2> QED
      BY <1>2, <1>5, TwoJoined, BeginsJoined
<1>7. Begins(v1, v3) /\ Begins(w1, w3)
  <2> HIDE DEF v1, v2, v3, w1, w2, w3
  <2> QED
      BY <1>4, <1>5, <1>6, BeginsBegins
<1>8. Len(d) = Len(e)
  <2> HIDE DEF v1, v2, v3, w1, w2, w3
  <2>1. Begins(<<Len(d)>>, v3) /\ Begins(<<Len(e)>>, w3)
      BY <1>2, <1>4, <1>6, <1>7, BeginsBegins
  <2> QED
      BY <1>2, <1>3, <1>6, <2>1, HeadsDiffer
<1>9. d = e
  <2>1. Begins(<<Len(d)>> \o d, v3) /\ Begins(<<Len(d)>> \o e, w3)
      BY <1>7, <1>8
  <2> HIDE DEF v3, w3
  <2>2. Agree(d, e)
      BY <1>2, <1>3, <1>6, <2>1, FollowersAgree
  <2> QED
      BY <1>2, <1>8, <2>2, SameStr DEF Agree
<1>10. <<Len(f)>> = <<Len(g)>>
  <2>1. w1 = v1
      BY <1>9
  <2>2. Begins(v1 \o <<Len(f)>>, v3) /\ Begins(v1 \o <<Len(g)>>, w3)
      BY <1>6, <2>1
  <2> HIDE DEF v1, v3, w3
  <2>3. Agree(<<Len(f)>>, <<Len(g)>>)
      BY <1>2, <1>3, <1>4, <1>6, <2>2, FollowersAgree
  <2> QED
      BY <1>2, <2>3, NumbersDiffer
<1>11. Agree(FlattenSeq(f), FlattenSeq(g))
  <2>1. w2 = v2
      BY <1>9, <1>10
  <2>2. Begins(v2 \o FlattenSeq(f), v3) /\ Begins(v2 \o FlattenSeq(g), w3)
      BY <1>6, <2>1, AgreesWithItself
  <2> HIDE DEF v2, v3, w3
  <2> QED
      BY <1>2, <1>3, <1>5, <1>6, <2>2, FollowersAgree
<1>12. Len(f) = Len(g)
    BY <1>10
<1> QED
    BY <1>9, <1>11, <1>12, FieldsAreCode, FlattenDiffers

LEMMA CanonicalIs ==
    ASSUME NEW d \in Str, NEW f \in Seq(FieldCodes)
    PROVE  Canonical(d, f) \in Str
<1>1. f \in Seq(Str)
    BY FieldsAreCode DEF IsCode
<1>2. FlattenSeq(f) \in Str /\ <<Len(f)>> \in Str /\ <<Len(d)>> \in Str
    BY <1>1, FlattenIs DEF Str
<1> QED
    BY <1>2, TwoJoined DEF Canonical

-----------------------------------------------------------------------------
(* The kinds of fields, each of which tells its values apart.              *)
LEMMA OptionalIs ==
    ASSUME NEW o \in OptionalStr
    PROVE  o = <<>> \/ (o = <<o[1]>> /\ o[1] \in Str)
<1>1. o \in Seq(Str) /\ Len(o) <= 1
    BY DEF OptionalStr
<1>2. CASE Len(o) = 0
    BY <1>1, <1>2
<1>3. CASE Len(o) = 1
    BY <1>1, <1>3
<1>4. Len(o) = 0 \/ Len(o) = 1
  <2>1. \A n \in Nat : n <= 1 => n = 0 \/ n = 1
      OBVIOUS
  <2>2. Len(o) \in Nat
      BY <1>1
  <2> QED
      BY <1>1, <2>1, <2>2, Zenon
<1> QED
    BY <1>2, <1>3, <1>4

LEMMA FieldIn ==
    ASSUME NEW id \in Nat, NEW state \in Nat, NEW b \in Str
    PROVE  Field(id, state, b) \in FieldCodes
    BY DEF FieldCodes

LEMMA SameField ==
    ASSUME NEW id1 \in Nat, NEW state1 \in Nat, NEW b1 \in Str,
           NEW id2 \in Nat, NEW state2 \in Nat, NEW b2 \in Str,
           Field(id1, state1, b1) = Field(id2, state2, b2)
    PROVE  state1 = state2 /\ b1 = b2
<1>1. Agree(Field(id1, state1, b1), Field(id2, state2, b2))
    BY FieldIs, AgreesWithItself
<1> QED
    BY <1>1, FieldsDiffer

LEMMA StringFields ==
    ASSUME NEW id \in Nat, NEW s \in Str, NEW t \in Str
    PROVE  /\ StringField(id, s) \in FieldCodes
           /\ StringField(id, s) = StringField(id, t) => s = t
<1>1. Present \in Nat
    BY DEF Present
<1> QED
    BY <1>1, FieldIn, SameField DEF StringField

LEMMA EnumFields ==
    ASSUME NEW id \in Nat, NEW c \in Nat, NEW d \in Nat
    PROVE  /\ EnumField(id, c) \in FieldCodes
           /\ EnumField(id, c) = EnumField(id, d) => c = d
<1>1. Present \in Nat /\ <<c>> \in Str /\ <<d>> \in Str
    BY DEF Present, Str
<1>2. EnumField(id, c) \in FieldCodes
    BY <1>1, FieldIn DEF EnumField
<1>3. EnumField(id, c) = EnumField(id, d) => <<c>> = <<d>>
    BY <1>1, SameField DEF EnumField
<1> QED
    BY <1>2, <1>3

LEMMA OptionalFields ==
    ASSUME NEW id \in Nat, NEW o \in OptionalStr, NEW p \in OptionalStr
    PROVE  /\ OptionalField(id, o) \in FieldCodes
           /\ OptionalField(id, o) = OptionalField(id, p) => o = p
<1>1. Present \in Nat /\ Absent \in Nat /\ <<>> \in Str /\ Present # Absent
    BY DEF Present, Absent, Str
<1>2. (o = <<>> \/ (o = <<o[1]>> /\ o[1] \in Str)) /\ (p = <<>> \/ (p = <<p[1]>> /\ p[1] \in Str))
    BY OptionalIs
<1>3. OptionalField(id, o) \in FieldCodes
    BY <1>1, <1>2, FieldIn DEF OptionalField
<1>4. ASSUME OptionalField(id, o) = OptionalField(id, p) PROVE o = p
  <2>1. CASE o = <<>> /\ p # <<>>
    <3>1. Field(id, Absent, <<>>) = Field(id, Present, p[1])
        BY <1>4, <2>1 DEF OptionalField
    <3> QED
        BY <1>1, <1>2, <2>1, <3>1, SameField
  <2>2. CASE o # <<>> /\ p = <<>>
    <3>1. Field(id, Present, o[1]) = Field(id, Absent, <<>>)
        BY <1>4, <2>2 DEF OptionalField
    <3> QED
        BY <1>1, <1>2, <2>2, <3>1, SameField
  <2>3. CASE o # <<>> /\ p # <<>>
    <3>1. Field(id, Present, o[1]) = Field(id, Present, p[1])
        BY <1>4, <2>3 DEF OptionalField
    <3>2. o[1] = p[1]
        BY <1>1, <1>2, <2>3, <3>1, SameField
    <3> QED
        BY <1>2, <2>3, <3>2
  <2> QED
      BY <2>1, <2>2, <2>3
<1> QED
    BY <1>3, <1>4

LEMMA ListFields ==
    ASSUME NEW id \in Nat, NEW C, IsCode(C), NEW s \in Seq(C), NEW t \in Seq(C)
    PROVE  /\ ListField(id, s) \in FieldCodes
           /\ ListField(id, s) = ListField(id, t) => s = t
<1> DEFINE x == <<Len(s)>> \o FlattenSeq(s)
           y == <<Len(t)>> \o FlattenSeq(t)
<1>1. s \in Seq(Str) /\ t \in Seq(Str)
    BY DEF IsCode
<1>2. FlattenSeq(s) \in Str /\ FlattenSeq(t) \in Str /\ <<Len(s)>> \in Str /\ <<Len(t)>> \in Str
    BY <1>1, FlattenIs DEF Str
<1>3. x \in Str /\ y \in Str /\ Present \in Nat
    BY <1>2, TwoJoined DEF Present
<1>4. ListField(id, s) = Field(id, Present, x) /\ ListField(id, t) = Field(id, Present, y)
    BY DEF ListField
<1>5. x = y => s = t
  <2>1. x = y => Agree(x, y)
      BY <1>3, AgreesWithItself
  <2> QED
      BY <2>1, CountedDiffers
<1> HIDE DEF x, y
<1> QED
    BY <1>3, <1>4, <1>5, FieldIn, SameField

-----------------------------------------------------------------------------
(* The records of one ECU.                                                 *)
LEMMA VersionEcusDiffer ==
    ASSUME NEW e \in Ecu, NEW f \in Ecu
    PROVE  /\ VersionEcu(e) \in Str
           /\ Agree(VersionEcu(e), VersionEcu(f)) => VersionOf(e) = VersionOf(f)
<1> DEFINE a == <<StringField(1, e.ecuId), OptionalField(2, e.partNumber),
                  OptionalField(3, e.swVersion), OptionalField(4, e.hwVersion)>>
           b == <<StringField(1, f.ecuId), OptionalField(2, f.partNumber),
                  OptionalField(3, f.swVersion), OptionalField(4, f.hwVersion)>>
<1>1. /\ e.ecuId \in Str /\ {e.partNumber, e.swVersion, e.hwVersion} \subseteq OptionalStr
      /\ f.ecuId \in Str /\ {f.partNumber, f.swVersion, f.hwVersion} \subseteq OptionalStr
    BY DEF Ecu
<1>2. a \in Seq(FieldCodes) /\ b \in Seq(FieldCodes) /\ <<>> \in Str
    BY <1>1, StringFields, OptionalFields DEF Str
<1>3. VersionEcu(e) = Canonical(<<>>, a) /\ VersionEcu(f) = Canonical(<<>>, b)
    BY DEF VersionEcu
<1>4. ASSUME a = b PROVE VersionOf(e) = VersionOf(f)
  <2>1. /\ StringField(1, e.ecuId) = StringField(1, f.ecuId)
        /\ OptionalField(2, e.partNumber) = OptionalField(2, f.partNumber)
        /\ OptionalField(3, e.swVersion) = OptionalField(3, f.swVersion)
        /\ OptionalField(4, e.hwVersion) = OptionalField(4, f.hwVersion)
      BY <1>4
  <2> QED
      BY <1>1, <2>1, StringFields, OptionalFields DEF VersionOf
<1> HIDE DEF a, b
<1> QED
    BY <1>2, <1>3, <1>4, CanonicalIs, CanonicalDiffers

LEMMA SnapshotEcusDiffer ==
    ASSUME NEW e \in Ecu, NEW f \in Ecu
    PROVE  /\ SnapshotEcu(e) \in Str
           /\ Agree(SnapshotEcu(e), SnapshotEcu(f)) => e = f
<1> DEFINE a == <<StringField(1, e.ecuId), OptionalField(2, e.partNumber),
                  OptionalField(3, e.swVersion), OptionalField(4, e.hwVersion),
                  EnumField(5, e.source), EnumField(6, e.status), OptionalField(7, e.errorCode)>>
           b == <<StringField(1, f.ecuId), OptionalField(2, f.partNumber),
                  OptionalField(3, f.swVersion), OptionalField(4, f.hwVersion),
                  EnumField(5, f.source), EnumField(6, f.status), OptionalField(7, f.errorCode)>>
<1>1. /\ e.ecuId \in Str /\ {e.partNumber, e.swVersion, e.hwVersion, e.errorCode} \subseteq OptionalStr
      /\ f.ecuId \in Str /\ {f.partNumber, f.swVersion, f.hwVersion, f.errorCode} \subseteq OptionalStr
      /\ {e.source, e.status, f.source, f.status} \subseteq Nat
    BY DEF Ecu
<1>2. a \in Seq(FieldCodes) /\ b \in Seq(FieldCodes) /\ <<>> \in Str
    BY <1>1, StringFields, OptionalFields, EnumFields DEF Str
<1>3. SnapshotEcu(e) = Canonical(<<>>, a) /\ SnapshotEcu(f) = Canonical(<<>>, b)
    BY DEF SnapshotEcu
<1>4. ASSUME a = b PROVE e = f
  <2>1. /\ StringField(1, e.ecuId) = StringField(1, f.ecuId)
        /\ OptionalField(2, e.partNumber) = OptionalField(2, f.partNumber)
        /\ OptionalField(3, e.swVersion) = OptionalField(3, f.swVersion)
        /\ OptionalField(4, e.hwVersion) = OptionalField(4, f.hwVersion)
        /\ EnumField(5, e.source) = EnumField(5, f.source)
        /\ EnumField(6, e.status) = EnumField(6, f.status)
        /\ OptionalField(7, e.errorCode) = OptionalField(7, f.errorCode)
      BY <1>4
  <2>2. /\ e.ecuId = f.ecuId /\ e.partNumber = f.partNumber /\ e.swVersion = f.swVersion
        /\ e.hwVersion = f.hwVersion /\ e.source = f.source /\ e.status = f.status
        /\ e.errorCode = f.errorCode
      BY <1>1, <2>1, StringFields, OptionalFields, EnumFields
  <2> QED
      BY <2>2 DEF Ecu
<1> HIDE DEF a, b
<1> QED
    BY <1>2, <1>3, <1>4, CanonicalIs, CanonicalDiffers

-----------------------------------------------------------------------------
(* The order of strings and of keys is a strict total one.                 *)
SplitsAt(a, b, n) ==
    /\ n <= Len(a) /\ n < Len(b) /\ \A k \in 1..n : a[k] = b[k]
    /\ n = Len(a) \/ a[n + 1] < b[n + 1]

LEMMA BeforeIs ==
    ASSUME NEW a \in Str, NEW b \in Str
    PROVE  Before(a, b) <=> \E n \in Nat : SplitsAt(a, b, n)
<1>1. Len(a) \in Nat /\ Len(b) \in Nat
    BY DEF Str
<1>2. ASSUME NEW n \in Nat, n <= Len(a), n <= Len(b)
      PROVE  SubSeq(a, 1, n) = SubSeq(b, 1, n) <=> \A k \in 1..n : a[k] = b[k]
  <2>1. SubSeq(a, 1, n) = [k \in 1..n |-> a[k]] /\ SubSeq(b, 1, n) = [k \in 1..n |-> b[k]]
      BY <1>1, <1>2 DEF Str
  <2> QED
      BY <2>1
<1>3. ASSUME NEW n \in 0..Len(b) - 1, n <= Len(a), SubSeq(a, 1, n) = SubSeq(b, 1, n),
             n = Len(a) \/ a[n + 1] < b[n + 1]
      PROVE  n \in Nat /\ SplitsAt(a, b, n)
    BY <1>1, <1>2, <1>3 DEF SplitsAt
<1>4. ASSUME NEW n \in Nat, SplitsAt(a, b, n)
      PROVE  n \in 0..Len(b) - 1 /\ n <= Len(a) /\ SubSeq(a, 1, n) = SubSeq(b, 1, n)
             /\ (n = Len(a) \/ a[n + 1] < b[n + 1])
    BY <1>1, <1>2, <1>4 DEF SplitsAt
<1> QED
    BY <1>3, <1>4 DEF Before

LEMMA BeforeIrreflexive ==
    ASSUME NEW a \in Str
    PROVE  ~Before(a, a)
<1> SUFFICES ASSUME NEW n \in Nat, SplitsAt(a, a, n) PROVE FALSE
    BY BeforeIs
<1>1. Len(a) \in Nat /\ n < Len(a) /\ a[n + 1] < a[n + 1]
    BY DEF SplitsAt, Str
<1>2. a[n + 1] \in Nat
    BY <1>1 DEF Str
<1> QED
    BY <1>1, <1>2

LEMMA BeforeTransitive ==
    ASSUME NEW a \in Str, NEW b \in Str, NEW c \in Str, Before(a, b), Before(b, c)
    PROVE  Before(a, c)
<1>1. PICK n \in Nat : SplitsAt(a, b, n)
    BY BeforeIs
<1>2. PICK m \in Nat : SplitsAt(b, c, m)
    BY BeforeIs
<1>3. Len(a) \in Nat /\ Len(b) \in Nat /\ Len(c) \in Nat
    BY DEF Str
<1>4. CASE n < m
  <2>1. n + 1 \in 1..m /\ \A k \in 1..n : k \in 1..m
      BY <1>4
  <2>2. SplitsAt(a, c, n)
      BY <1>1, <1>2, <1>3, <1>4, <2>1 DEF SplitsAt
  <2> QED
      BY <2>2, BeforeIs
<1>5. CASE m < n
  <2>1. m + 1 \in 1..n /\ \A k \in 1..m : k \in 1..n
      BY <1>5
  <2>2. SplitsAt(a, c, m)
      BY <1>1, <1>2, <1>3, <1>5, <2>1 DEF SplitsAt
  <2> QED
      BY <2>2, BeforeIs
<1>6. CASE m = n
  <2>1. b[n + 1] < c[n + 1] /\ b[n + 1] \in Nat /\ c[n + 1] \in Nat
      BY <1>1, <1>2, <1>3, <1>6 DEF SplitsAt, Str
  <2>2. n # Len(a) => a[n + 1] \in Nat
      BY <1>1, <1>3 DEF SplitsAt, Str
  <2>3. SplitsAt(a, c, n)
      BY <1>1, <1>2, <1>3, <1>6, <2>1, <2>2 DEF SplitsAt
  <2> QED
      BY <2>3, BeforeIs
<1> QED
    BY <1>4, <1>5, <1>6

LEMMA BeforeTotal ==
    ASSUME NEW a \in Str, NEW b \in Str, a # b
    PROVE  Before(a, b) \/ Before(b, a)
<1> DEFINE D == {k \in Nat : k + 1 <= Len(a) /\ k + 1 <= Len(b) /\ a[k + 1] # b[k + 1]}
<1>1. Len(a) \in Nat /\ Len(b) \in Nat
    BY DEF Str
<1>2. CASE D = {}
  <2>1. \A k \in 1..Len(a) : k <= Len(b) => a[k] = b[k]
    <3> SUFFICES ASSUME NEW k \in 1..Len(a), k <= Len(b) PROVE a[k] = b[k]
        OBVIOUS
    <3>1. k - 1 \in Nat /\ (k - 1) + 1 = k
        BY <1>1
    <3>2. (k - 1) + 1 <= Len(a) /\ (k - 1) + 1 <= Len(b) => a[(k - 1) + 1] = b[(k - 1) + 1]
        BY <1>2, <3>1
    <3> QED
        BY <1>1, <3>1, <3>2
  <2>2. Len(a) # Len(b)
      BY <1>1, <2>1, SameStr
  <2>3. CASE Len(a) < Len(b)
    <3>1. SplitsAt(a, b, Len(a))
        BY <1>1, <2>1, <2>3 DEF SplitsAt
    <3> QED
        BY <1>1, <3>1, BeforeIs
  <2>4. CASE Len(b) < Len(a)
    <3>1. SplitsAt(b, a, Len(b))
        BY <1>1, <2>1, <2>4 DEF SplitsAt
    <3> QED
        BY <1>1, <3>1, BeforeIs
  <2> QED
      BY <1>1, <2>2, <2>3, <2>4
<1>3. CASE D # {}
  <2>1. PICK n \in D : \A y \in D : n <= y
      BY <1>3, Least
  <2>2. n \in Nat /\ n + 1 <= Len(a) /\ n + 1 <= Len(b) /\ a[n + 1] # b[n + 1]
      OBVIOUS
  <2>3. \A k \in 1..n : a[k] = b[k]
    <3> SUFFICES ASSUME NEW k \in 1..n, a[k] # b[k] PROVE FALSE
        OBVIOUS
    <3>1. k - 1 \in Nat /\ (k - 1) + 1 = k /\ k <= Len(a) /\ k <= Len(b)
        BY <1>1, <2>2
    <3>2. k - 1 \in D
        BY <3>1
    <3> QED
        BY <2>1, <2>2, <3>1, <3>2
  <2>4. a[n + 1] \in Nat /\ b[n + 1] \in Nat
      BY <1>1, <2>2 DEF Str
  <2>5. SplitsAt(a, b, n) \/ SplitsAt(b, a, n)
      BY <1>1, <2>2, <2>3, <2>4 DEF SplitsAt
  <2> QED
      BY <2>2, <2>5, BeforeIs
<1> QED
    BY <1>2, <1>3

StableKeys == Str \X Str \X Str

LEMMA KeyBeforeIs ==
    ASSUME NEW k \in StableKeys, NEW l \in StableKeys
    PROVE  KeyBefore(k, l) <=> \/ Before(k[1], l[1])
                               \/ k[1] = l[1] /\ Before(k[2], l[2])
                               \/ k[1] = l[1] /\ k[2] = l[2] /\ Before(k[3], l[3])
<1>1. 1..3 = {1, 2, 3} /\ 1..(1 - 1) = {} /\ 1..(2 - 1) = {1} /\ 1..(3 - 1) = {1, 2}
    OBVIOUS
<1> QED
    BY <1>1, Zenon DEF KeyBefore

LEMMA KeyOrder3 ==
    /\ \A k \in StableKeys : ~KeyBefore(k, k)
    /\ \A k, l, m \in StableKeys : KeyBefore(k, l) /\ KeyBefore(l, m) => KeyBefore(k, m)
    /\ \A k, l \in StableKeys : k = l \/ KeyBefore(k, l) \/ KeyBefore(l, k)
<1>1. \A k \in StableKeys : k[1] \in Str /\ k[2] \in Str /\ k[3] \in Str /\ k = <<k[1], k[2], k[3]>>
    BY DEF StableKeys
<1>2. \A k \in StableKeys : ~KeyBefore(k, k)
    BY <1>1, KeyBeforeIs, BeforeIrreflexive
<1>3. \A k, l, m \in StableKeys : KeyBefore(k, l) /\ KeyBefore(l, m) => KeyBefore(k, m)
    BY <1>1, KeyBeforeIs, BeforeTransitive
<1>4. \A k, l \in StableKeys : k = l \/ KeyBefore(k, l) \/ KeyBefore(l, k)
    BY <1>1, KeyBeforeIs, BeforeTotal
<1> QED
    BY <1>2, <1>3, <1>4

-----------------------------------------------------------------------------
(* Sorting by rank: in a strict total order R of a finite set S, the       *)
(* number of smaller elements numbers the elements in their order.         *)
IsOrderOf(R, S) ==
    /\ \A x \in S : <<x, x>> \notin R
    /\ \A x, y, z \in S : <<x, y>> \in R /\ <<y, z>> \in R => <<x, z>> \in R
    /\ \A x, y \in S : x = y \/ <<x, y>> \in R \/ <<y, x>> \in R

Below(R, S, x) == {y \in S : <<y, x>> \in R}

LEMMA RanksNumber ==
    ASSUME NEW S, IsFiniteSet(S), NEW R, IsOrderOf(R, S)
    PROVE  /\ \A x \in S : Cardinality(Below(R, S, x)) \in 0..Cardinality(S) - 1
           /\ \A x, y \in S : <<x, y>> \in R => Cardinality(Below(R, S, x)) < Cardinality(Below(R, S, y))
           /\ \A n \in 0..Cardinality(S) - 1 : \E x \in S : Cardinality(Below(R, S, x)) = n
<1> DEFINE N == Cardinality(S)
           rank == [x \in S |-> Cardinality(Below(R, S, x))]
<1>1. N \in Nat
    BY FS_CardinalityType
<1>2. \A x \in S : /\ IsFiniteSet(Below(R, S, x)) /\ Cardinality(Below(R, S, x)) \in Nat
                   /\ Cardinality(Below(R, S, x)) <= N - 1
  <2> SUFFICES ASSUME NEW x \in S
               PROVE  /\ IsFiniteSet(Below(R, S, x)) /\ Cardinality(Below(R, S, x)) \in Nat
                      /\ Cardinality(Below(R, S, x)) <= N - 1
      OBVIOUS
  <2>1. IsFiniteSet(S \ {x}) /\ Cardinality(S \ {x}) = N - 1
      BY FS_RemoveElement
  <2>2. Below(R, S, x) \in SUBSET (S \ {x})
      BY DEF Below, IsOrderOf
  <2>3. IsFiniteSet(Below(R, S, x)) /\ Cardinality(Below(R, S, x)) <= N - 1
      BY <2>1, <2>2, FS_Subset
  <2> QED
      BY <2>3, FS_CardinalityType
<1>3. \A x, y \in S : <<x, y>> \in R => Cardinality(Below(R, S, x)) < Cardinality(Below(R, S, y))
  <2> SUFFICES ASSUME NEW x \in S, NEW y \in S, <<x, y>> \in R
               PROVE  Cardinality(Below(R, S, x)) < Cardinality(Below(R, S, y))
      OBVIOUS
  <2>1. Below(R, S, x) \in SUBSET Below(R, S, y)
      BY DEF Below, IsOrderOf
  <2>2. x \in Below(R, S, y) /\ x \notin Below(R, S, x)
      BY DEF Below, IsOrderOf
  <2>3. /\ Cardinality(Below(R, S, x)) <= Cardinality(Below(R, S, y))
        /\ Cardinality(Below(R, S, y)) # Cardinality(Below(R, S, x))
      BY <1>2, <2>1, <2>2, FS_Subset
  <2> QED
      BY <1>2, <2>3
<1>4. rank \in Injection(S, 0..N - 1)
  <2>1. rank \in [S -> 0..N - 1]
      BY <1>1, <1>2
  <2>2. \A x, y \in S : rank[x] = rank[y] => x = y
    <3> SUFFICES ASSUME NEW x \in S, NEW y \in S, rank[x] = rank[y], x # y PROVE FALSE
        OBVIOUS
    <3>1. <<x, y>> \in R \/ <<y, x>> \in R
        BY DEF IsOrderOf
    <3>2. rank[x] < rank[y] \/ rank[y] < rank[x]
        BY <1>3, <3>1
    <3> QED
        BY <1>2, <3>2
  <2> QED
      BY <2>1, <2>2 DEF Injection, IsInjective
<1>5. IsFiniteSet(0..N - 1) /\ Cardinality(0..N - 1) = N
    BY <1>1, FS_Interval
<1>6. rank \in Surjection(S, 0..N - 1)
    BY <1>4, <1>5, FS_Injection
<1>7. \A n \in 0..N - 1 : \E x \in S : rank[x] = n
    BY <1>6, Zenon DEF Surjection
<1>8. ASSUME NEW x \in S PROVE Cardinality(Below(R, S, x)) \in 0..N - 1
    BY <1>1, <1>2
<1> QED
    BY <1>3, <1>7, <1>8

LEMMA StableKeyIs ==
    ASSUME NEW e \in Ecu
    PROVE  StableKey(e) \in StableKeys
<1>1. <<>> \in Str /\ e.ecuId \in Str /\ e.partNumber \in OptionalStr /\ e.swVersion \in OptionalStr
    BY DEF Ecu, Str
<1>2. \A o \in OptionalStr : OrEmpty(o) \in Str
    BY <1>1, OptionalIs DEF OrEmpty
<1> QED
    BY <1>1, <1>2 DEF StableKey, StableKeys

(* sortEcuIndices arranges the ECUs: none is left out, none is put before  *)
(* one that precedes it.                                                   *)
LEMMA SortedArranges ==
    ASSUME NEW ecus \in Seq(Ecu)
    PROVE  /\ Sorted(ecus) \in Seq(Ecu) /\ Len(Sorted(ecus)) = Len(ecus)
           /\ \A i \in 1..Len(ecus) : \E n \in 1..Len(ecus) : Sorted(ecus)[n] = ecus[i]
           /\ \A n \in 1..Len(ecus) : \E i \in 1..Len(ecus) : Sorted(ecus)[n] = ecus[i]
           /\ \A m, n \in 1..Len(ecus) :
                  m < n => \/ KeyBefore(StableKey(Sorted(ecus)[m]), StableKey(Sorted(ecus)[n]))
                           \/ StableKey(Sorted(ecus)[m]) = StableKey(Sorted(ecus)[n])
<1> DEFINE S == 1..Len(ecus)
           R == {p \in S \X S : Precedes(ecus, p[1], p[2])}
           place(n) == CHOOSE i \in S : Rank(ecus, i) = n - 1
<1>1. Len(ecus) \in Nat /\ DOMAIN ecus = S
    OBVIOUS
<1>2. IsFiniteSet(S) /\ Cardinality(S) = Len(ecus)
    BY <1>1, FS_Interval
<1>3. \A i \in S : StableKey(ecus[i]) \in StableKeys
    BY StableKeyIs
<1>4. \A i, j \in S : <<i, j>> \in R <=> Precedes(ecus, i, j)
    OBVIOUS
<1>5. IsOrderOf(R, S)
  <2>1. \A i \in S : ~Precedes(ecus, i, i)
      BY <1>3, KeyOrder3 DEF Precedes
  <2>2. \A i, j, k \in S : Precedes(ecus, i, j) /\ Precedes(ecus, j, k) => Precedes(ecus, i, k)
    <3> SUFFICES ASSUME NEW i \in S, NEW j \in S, NEW k \in S, Precedes(ecus, i, j), Precedes(ecus, j, k)
                 PROVE  Precedes(ecus, i, k)
        OBVIOUS
    <3>1. i < j /\ j < k => i < k
        OBVIOUS
    <3> QED
        BY <1>3, <3>1, KeyOrder3, Zenon DEF Precedes
  <2>3. \A i, j \in S : i = j \/ Precedes(ecus, i, j) \/ Precedes(ecus, j, i)
    <3> SUFFICES ASSUME NEW i \in S, NEW j \in S, i # j
                 PROVE  Precedes(ecus, i, j) \/ Precedes(ecus, j, i)
        OBVIOUS
    <3>1. i < j \/ j < i
        OBVIOUS
    <3> QED
        BY <1>3, <3>1, KeyOrder3, Zenon DEF Precedes
  <2> HIDE DEF R
  <2> QED
      BY <1>4, <2>1, <2>2, <2>3 DEF IsOrderOf
<1>6. \A i \in S : Rank(ecus, i) = Cardinality(Below(R, S, i))
  <2> SUFFICES ASSUME NEW i \in S PROVE Rank(ecus, i) = Cardinality(Below(R, S, i))
      OBVIOUS
  <2>1. {j \in DOMAIN ecus : Precedes(ecus, j, i)} = Below(R, S, i)
      BY <1>1, <1>4 DEF Below
  <2> QED
      BY <2>1 DEF Rank
<1> HIDE DEF R
<1>7. /\ \A i \in S : Rank(ecus, i) \in 0..Len(ecus) - 1
      /\ \A i, j \in S : Precedes(ecus, i, j) => Rank(ecus, i) < Rank(ecus, j)
      /\ \A n \in 0..Len(ecus) - 1 : \E i \in S : Rank(ecus, i) = n
  <2>1. /\ \A i \in S : Cardinality(Below(R, S, i)) \in 0..Cardinality(S) - 1
        /\ \A i, j \in S : <<i, j>> \in R => Cardinality(Below(R, S, i)) < Cardinality(Below(R, S, j))
        /\ \A n \in 0..Cardinality(S) - 1 : \E i \in S : Cardinality(Below(R, S, i)) = n
    <3> HIDE DEF S
    <3> QED
        BY <1>2, <1>5, RanksNumber
  <2> HIDE DEF S
  <2> QED
      BY <1>2, <1>4, <1>6, <2>1
<1>8. \A n \in S : place(n) \in S /\ Rank(ecus, place(n)) = n - 1
  <2> SUFFICES ASSUME NEW n \in S PROVE place(n) \in S /\ Rank(ecus, place(n)) = n - 1
      OBVIOUS
  <2>1. n - 1 \in 0..Len(ecus) - 1
      BY <1>1
  <2> QED
      BY <1>7, <2>1
<1>9. Sorted(ecus) = [n \in S |-> ecus[place(n)]]
    BY <1>1 DEF Sorted
<1> HIDE DEF place
<1>10. Sorted(ecus) \in Seq(Ecu) /\ Len(Sorted(ecus)) = Len(ecus)
    BY <1>1, <1>8, <1>9
<1>11. \A i \in S : \E n \in S : Sorted(ecus)[n] = ecus[i]
  <2> SUFFICES ASSUME NEW i \in S PROVE \E n \in S : Sorted(ecus)[n] = ecus[i]
      OBVIOUS
  <2>1. PICK n \in S : n = Rank(ecus, i) + 1
      BY <1>1, <1>7
  <2>2. Rank(ecus, place(n)) = Rank(ecus, i) /\ place(n) \in S
      BY <1>7, <1>8, <2>1
  <2>3. place(n) = i
    <3>1. ~Precedes(ecus, place(n), i) /\ ~Precedes(ecus, i, place(n))
        BY <1>7, <2>2
    <3> QED
        BY <1>4, <1>5, <2>2, <3>1 DEF IsOrderOf
  <2> QED
      BY <1>9, <2>3
<1>12. ASSUME NEW m \in S, NEW n \in S, m < n
       PROVE  \/ KeyBefore(StableKey(Sorted(ecus)[m]), StableKey(Sorted(ecus)[n]))
              \/ StableKey(Sorted(ecus)[m]) = StableKey(Sorted(ecus)[n])
  <2>1. Rank(ecus, place(m)) < Rank(ecus, place(n)) /\ place(m) \in S /\ place(n) \in S
      BY <1>8, <1>12
  <2>2. ~Precedes(ecus, place(n), place(m)) /\ place(m) # place(n)
      BY <1>7, <2>1
  <2>3. Precedes(ecus, place(m), place(n))
      BY <1>4, <1>5, <2>1, <2>2 DEF IsOrderOf
  <2> QED
      BY <1>9, <2>3 DEF Precedes
<1> QED
    BY <1>8, <1>9, <1>10, <1>11, <1>12

(* Without a duplicate key the order is strict.                            *)
LEMMA SortedIncreases ==
    ASSUME NEW ecus \in Seq(Ecu), ~HasDuplicateKey(ecus), NEW m \in 1..Len(ecus), NEW n \in 1..Len(ecus),
           m < n
    PROVE  KeyBefore(StableKey(Sorted(ecus)[m]), StableKey(Sorted(ecus)[n]))
<1> DEFINE key(i) == StableKey(Sorted(ecus)[i])
<1>1. Len(Sorted(ecus)) = Len(ecus) /\ Sorted(ecus) \in Seq(Ecu) /\ Len(ecus) \in Nat
    BY SortedArranges
<1>2. \A i \in 1..Len(ecus) : key(i) \in StableKeys
    BY <1>1, StableKeyIs
<1>3. \A i, j \in 1..Len(ecus) : i < j => KeyBefore(key(i), key(j)) \/ key(i) = key(j)
    BY SortedArranges
<1>4. \A i \in 2..Len(ecus) : key(i - 1) # key(i)
    BY <1>1 DEF HasDuplicateKey
<1> HIDE DEF key
<1>5. m + 1 \in 1..Len(ecus) /\ m + 1 \in 2..Len(ecus) /\ (m + 1) - 1 = m /\ m < m + 1
    BY <1>1
<1>6. KeyBefore(key(m), key(m + 1))
    BY <1>3, <1>4, <1>5
<1>7. CASE m + 1 = n
    BY <1>6, <1>7 DEF key
<1>8. CASE m + 1 < n
  <2>1. KeyBefore(key(m + 1), key(n)) \/ key(m + 1) = key(n)
      BY <1>3, <1>5, <1>8
  <2>2. KeyBefore(key(m), key(n))
      BY <1>2, <1>5, <1>6, <2>1, KeyOrder3
  <2> QED
      BY <2>2 DEF key
<1>9. m + 1 = n \/ m + 1 < n
    BY <1>1
<1> QED
    BY <1>7, <1>8, <1>9

(* Only one sequence lists a set in its order.                             *)
LEMMA SameOrder ==
    ASSUME NEW X, NEW R, \A x, y \in X : <<x, y>> \in R => <<y, x>> \notin R,
           NEW u \in Seq(X), NEW v \in Seq(X),
           \A m, n \in 1..Len(u) : m < n => <<u[m], u[n]>> \in R,
           \A m, n \in 1..Len(v) : m < n => <<v[m], v[n]>> \in R,
           \A m \in 1..Len(u) : \E n \in 1..Len(v) : v[n] = u[m],
           \A n \in 1..Len(v) : \E m \in 1..Len(u) : u[m] = v[n]
    PROVE  u = v
<1> DEFINE D == {k \in Nat : k \in 1..Len(u) /\ k \in 1..Len(v) /\ u[k] # v[k]}
<1>1. Len(u) \in Nat /\ Len(v) \in Nat
    OBVIOUS
<1>2. /\ \A m, n \in 1..Len(u) : u[m] = u[n] => m = n
      /\ \A m, n \in 1..Len(v) : v[m] = v[n] => m = n
  <2>1. ASSUME NEW m \in 1..Len(u), NEW n \in 1..Len(u), u[m] = u[n], m # n PROVE FALSE
    <3>1. m < n \/ n < m
        BY <1>1, <2>1
    <3>2. <<u[m], u[n]>> \in R \/ <<u[n], u[m]>> \in R
        BY <3>1
    <3>3. u[m] \in X
        BY <1>1
    <3> QED
        BY <2>1, <3>2, <3>3
  <2>2. ASSUME NEW m \in 1..Len(v), NEW n \in 1..Len(v), v[m] = v[n], m # n PROVE FALSE
    <3>1. m < n \/ n < m
        BY <1>1, <2>2
    <3>2. <<v[m], v[n]>> \in R \/ <<v[n], v[m]>> \in R
        BY <3>1
    <3>3. v[m] \in X
        BY <1>1
    <3> QED
        BY <2>2, <3>2, <3>3
  <2> QED
      BY <2>1, <2>2
<1>3. D = {}
  <2> SUFFICES ASSUME D # {} PROVE FALSE
      OBVIOUS
  <2>1. PICK k \in D : \A j \in D : k <= j
      BY Least
  <2>2. k \in Nat /\ k \in 1..Len(u) /\ k \in 1..Len(v) /\ u[k] # v[k]
      OBVIOUS
  <2>3. ASSUME NEW j \in 1..(k - 1) PROVE j \in 1..Len(u) /\ j \in 1..Len(v) /\ u[j] = v[j]
    <3>1. j \in Nat /\ j < k /\ j \in 1..Len(u) /\ j \in 1..Len(v)
      <4>1. k \in Nat /\ k <= Len(u) /\ k <= Len(v) /\ Len(u) \in Nat /\ Len(v) \in Nat
        <5> HIDE DEF D
        <5> QED
            BY <1>1, <2>2
      <4>2. j \in Nat /\ 1 <= j /\ j < k
        <5> HIDE DEF D
        <5> QED
            BY <4>1
      <4>3. \A n \in Nat : j <= n <=> j \in 1..n
          BY <4>2
      <4> QED
        <5> HIDE DEF D
        <5> QED
            BY <4>1, <4>2, <4>3
    <3>2. j \notin D
      <4> HIDE DEF D
      <4>1. k <= j => ~(j < k)
          BY <2>2, <3>1
      <4> QED
          BY <2>1, <3>1, <4>1
    <3> QED
        BY <3>1, <3>2
  <2>4. <<v[k], u[k]>> \in R
    <3>1. PICK n \in 1..Len(v) : v[n] = u[k]
        BY <2>2
    <3>2. n < k => u[n] = u[k] /\ n \in 1..Len(u)
        BY <1>1, <2>2, <2>3, <3>1
    <3>3. ~(n < k) /\ n # k
        BY <1>2, <2>2, <3>1, <3>2
    <3>4. k < n
        BY <1>1, <2>2, <3>3
    <3> QED
        BY <2>2, <3>1, <3>4
  <2>5. <<u[k], v[k]>> \in R
    <3>1. PICK m \in 1..Len(u) : u[m] = v[k]
        BY <2>2
    <3>2. m < k => v[m] = v[k] /\ m \in 1..Len(v)
        BY <1>1, <2>2, <2>3, <3>1
    <3>3. ~(m < k) /\ m # k
        BY <1>2, <2>2, <3>1, <3>2
    <3>4. k < m
        BY <1>1, <2>2, <3>3
    <3> QED
        BY <2>2, <3>1, <3>4
  <2>6. u[k] \in X /\ v[k] \in X
    <3> HIDE DEF D
    <3> QED
        BY <2>2
  <2> QED
      BY <2>4, <2>5, <2>6
<1>4. \A k \in 1..Len(u) : k \in 1..Len(v) => u[k] = v[k]
  <2> SUFFICES ASSUME NEW k \in 1..Len(u), k \in 1..Len(v), u[k] # v[k] PROVE FALSE
      OBVIOUS
  <2>1. k \in Nat
      BY <1>1
  <2> QED
      BY <1>3, <2>1
<1>5. ~(Len(u) < Len(v))
  <2> SUFFICES ASSUME Len(u) < Len(v) PROVE FALSE
      OBVIOUS
  <2>1. Len(v) \in 1..Len(v)
      BY <1>1
  <2>2. PICK m \in 1..Len(u) : u[m] = v[Len(v)]
      BY <2>1
  <2>3. m \in 1..Len(v) /\ m # Len(v)
      BY <1>1
  <2> QED
      BY <1>2, <1>4, <2>1, <2>2, <2>3
<1>6. ~(Len(v) < Len(u))
  <2> SUFFICES ASSUME Len(v) < Len(u) PROVE FALSE
      OBVIOUS
  <2>1. Len(u) \in 1..Len(u)
      BY <1>1
  <2>2. PICK n \in 1..Len(v) : v[n] = u[Len(u)]
      BY <2>1
  <2>3. n \in 1..Len(u) /\ n # Len(u)
      BY <1>1
  <2> QED
      BY <1>2, <1>4, <2>1, <2>2, <2>3
<1>7. Len(u) = Len(v)
    BY <1>1, <1>5, <1>6
<1> QED
    BY <1>4, <1>7

(* The order is one of the versions alone.                                 *)
VersionsOfEcu == {VersionOf(e) : e \in Ecu}

KeyOf(version) == <<version[1], OrEmpty(version[2]), OrEmpty(version[3])>>

ByKey(X, key) == {p \in X \X X : KeyBefore(key[p[1]], key[p[2]])}

LEMMA ByKeyIsOneWay ==
    ASSUME NEW X, NEW key \in [X -> StableKeys], NEW x \in X, NEW y \in X, <<x, y>> \in ByKey(X, key)
    PROVE  <<y, x>> \notin ByKey(X, key)
<1>1. KeyBefore(key[x], key[y]) /\ key[x] \in StableKeys /\ key[y] \in StableKeys
    BY DEF ByKey
<1>2. ~KeyBefore(key[y], key[x])
    BY <1>1, KeyOrder3
<1> QED
    BY <1>2 DEF ByKey

(* Two inventories with the same ECUs, of each what of tells: any what     *)
(* that tells the key.                                                     *)
LEMMA SameSorted ==
    ASSUME NEW X, NEW of \in [Ecu -> X], NEW key \in [X -> StableKeys],
           \A e \in Ecu : key[of[e]] = StableKey(e),
           NEW a \in Seq(Ecu), ~HasDuplicateKey(a), NEW b \in Seq(Ecu), ~HasDuplicateKey(b),
           {of[a[i]] : i \in DOMAIN a} = {of[b[i]] : i \in DOMAIN b}
    PROVE  Len(a) = Len(b) /\ \A n \in 1..Len(a) : of[Sorted(a)[n]] = of[Sorted(b)[n]]
<1> DEFINE u == [n \in 1..Len(a) |-> of[Sorted(a)[n]]]
           v == [n \in 1..Len(b) |-> of[Sorted(b)[n]]]
           R == ByKey(X, key)
<1>1. /\ Len(Sorted(a)) = Len(a) /\ Sorted(a) \in Seq(Ecu) /\ Len(a) \in Nat
      /\ Len(Sorted(b)) = Len(b) /\ Sorted(b) \in Seq(Ecu) /\ Len(b) \in Nat
    BY SortedArranges
<1>2. /\ \A n \in 1..Len(a) : Sorted(a)[n] \in Ecu /\ u[n] \in X /\ u[n] = of[Sorted(a)[n]]
      /\ \A n \in 1..Len(b) : Sorted(b)[n] \in Ecu /\ v[n] \in X /\ v[n] = of[Sorted(b)[n]]
    BY <1>1
<1>3. u \in Seq(X) /\ Len(u) = Len(a) /\ v \in Seq(X) /\ Len(v) = Len(b)
    BY <1>1, <1>2
<1> HIDE DEF u, v
<1>4. \A m, n \in 1..Len(a) : m < n => <<u[m], u[n]>> \in R
    BY <1>2, SortedIncreases DEF ByKey
<1>5. \A m, n \in 1..Len(b) : m < n => <<v[m], v[n]>> \in R
    BY <1>2, SortedIncreases DEF ByKey
<1>6. ASSUME NEW m \in 1..Len(a) PROVE \E n \in 1..Len(b) : v[n] = u[m]
  <2>1. PICK i \in 1..Len(a) : Sorted(a)[m] = a[i]
      BY SortedArranges
  <2>2. of[a[i]] \in {of[a[k]] : k \in DOMAIN a}
      OBVIOUS
  <2>3. PICK j \in 1..Len(b) : of[a[i]] = of[b[j]]
    <3>1. DOMAIN b = 1..Len(b)
        OBVIOUS
    <3>2. of[a[i]] \in {of[b[k]] : k \in DOMAIN b}
        BY <2>2
    <3> QED
        BY <3>1, <3>2, Zenon
  <2>4. PICK n \in 1..Len(b) : Sorted(b)[n] = b[j]
      BY SortedArranges
  <2> QED
      BY <1>2, <2>1, <2>3, <2>4
<1>7. ASSUME NEW m \in 1..Len(b) PROVE \E n \in 1..Len(a) : u[n] = v[m]
  <2>1. PICK i \in 1..Len(b) : Sorted(b)[m] = b[i]
      BY SortedArranges
  <2>2. of[b[i]] \in {of[b[k]] : k \in DOMAIN b}
      OBVIOUS
  <2>3. PICK j \in 1..Len(a) : of[b[i]] = of[a[j]]
    <3>1. DOMAIN a = 1..Len(a)
        OBVIOUS
    <3>2. of[b[i]] \in {of[a[k]] : k \in DOMAIN a}
        BY <2>2
    <3> QED
        BY <3>1, <3>2, Zenon
  <2>4. PICK n \in 1..Len(a) : Sorted(a)[n] = a[j]
      BY SortedArranges
  <2> QED
      BY <1>2, <2>1, <2>3, <2>4
<1>8. \A x, y \in X : <<x, y>> \in R => <<y, x>> \notin R
    BY ByKeyIsOneWay
<1>9. u = v
  <2>1. /\ \A m, n \in 1..Len(u) : m < n => <<u[m], u[n]>> \in R
        /\ \A m, n \in 1..Len(v) : m < n => <<v[m], v[n]>> \in R
        /\ \A m \in 1..Len(u) : \E n \in 1..Len(v) : v[n] = u[m]
        /\ \A n \in 1..Len(v) : \E m \in 1..Len(u) : u[m] = v[n]
    <3> HIDE DEF R
    <3> QED
        BY <1>3, <1>4, <1>5, <1>6, <1>7
  <2> HIDE DEF R
  <2> QED
      BY <1>3, <1>8, <2>1, SameOrder
<1> QED
    BY <1>2, <1>3, <1>9

-----------------------------------------------------------------------------
(* The lists of the ECUs.                                                  *)
Listed(a, enc) == EncodedEcus(a, [e \in {a[i] : i \in DOMAIN a} |-> enc[e]])

LEMMA ListedIs ==
    ASSUME NEW C, NEW enc \in [Ecu -> C], NEW a \in Seq(Ecu)
    PROVE  /\ Listed(a, enc) \in Seq(C) /\ Len(Listed(a, enc)) = Len(a)
           /\ \A n \in 1..Len(a) : Listed(a, enc)[n] = enc[Sorted(a)[n]] /\ Sorted(a)[n] \in Ecu
<1>1. Sorted(a) \in Seq(Ecu) /\ Len(Sorted(a)) = Len(a) /\ Len(a) \in Nat
    BY SortedArranges
<1> DEFINE E == {a[i] : i \in DOMAIN a}
           g == [e \in E |-> enc[e]]
<1>2. Listed(a, enc) = [i \in 1..Len(a) |-> g[Sorted(a)[i]]]
    BY <1>1 DEF Listed, EncodedEcus
<1>3. \A n \in 1..Len(a) : Sorted(a)[n] \in E /\ Sorted(a)[n] \in Ecu
  <2> SUFFICES ASSUME NEW n \in 1..Len(a) PROVE Sorted(a)[n] \in E /\ Sorted(a)[n] \in Ecu
      OBVIOUS
  <2>1. PICK i \in 1..Len(a) : Sorted(a)[n] = a[i]
      BY SortedArranges
  <2> QED
      BY <2>1
<1>4. \A n \in 1..Len(a) : g[Sorted(a)[n]] = enc[Sorted(a)[n]]
  <2> HIDE DEF E
  <2> QED
      BY <1>3
<1> HIDE DEF g
<1> QED
    BY <1>1, <1>2, <1>3, <1>4

Told(of, a) == {of[a[i]] : i \in DOMAIN a}

(* A code that tells as much as of does, and of tells the key.             *)
IsCodeOf(X, of, key, C, enc) ==
    /\ of \in [Ecu -> X] /\ key \in [X -> StableKeys] /\ \A e \in Ecu : key[of[e]] = StableKey(e)
    /\ enc \in [Ecu -> C] /\ \A e, f \in Ecu : enc[e] = enc[f] <=> of[e] = of[f]

LEMMA ListedTells ==
    ASSUME NEW X, NEW of, NEW key, NEW C, NEW enc, IsCodeOf(X, of, key, C, enc),
           NEW a \in Seq(Ecu), ~HasDuplicateKey(a), NEW b \in Seq(Ecu), ~HasDuplicateKey(b)
    PROVE  Listed(a, enc) = Listed(b, enc)
               <=> Told(of, a) = Told(of, b)
<1> DEFINE A == {of[a[i]] : i \in DOMAIN a}
           B == {of[b[i]] : i \in DOMAIN b}
<1> USE DEF IsCodeOf
<1>1. /\ Listed(a, enc) \in Seq(C) /\ Len(Listed(a, enc)) = Len(a)
      /\ \A n \in 1..Len(a) : Listed(a, enc)[n] = enc[Sorted(a)[n]] /\ Sorted(a)[n] \in Ecu
    BY ListedIs
<1>2. /\ Listed(b, enc) \in Seq(C) /\ Len(Listed(b, enc)) = Len(b)
      /\ \A n \in 1..Len(b) : Listed(b, enc)[n] = enc[Sorted(b)[n]] /\ Sorted(b)[n] \in Ecu
    BY ListedIs
<1>3. ASSUME A = B PROVE Listed(a, enc) = Listed(b, enc)
  <2>1. Len(a) = Len(b) /\ \A n \in 1..Len(a) : of[Sorted(a)[n]] = of[Sorted(b)[n]]
      BY <1>3, SameSorted
  <2>2. \A n \in 1..Len(a) : Listed(a, enc)[n] = Listed(b, enc)[n]
      BY <1>1, <1>2, <2>1
  <2> QED
      BY <1>1, <1>2, <2>1, <2>2
<1>4. ASSUME Listed(a, enc) = Listed(b, enc) PROVE A = B
  <2>1. Len(a) = Len(b)
      BY <1>1, <1>2, <1>4
  <2>2. \A n \in 1..Len(a) : of[Sorted(a)[n]] = of[Sorted(b)[n]]
      BY <1>1, <1>2, <1>4, <2>1
  <2>3. A = {of[Sorted(a)[n]] : n \in 1..Len(a)}
    <3>1. DOMAIN a = 1..Len(a)
        OBVIOUS
    <3>2. A \subseteq {of[Sorted(a)[n]] : n \in 1..Len(a)}
      <4> SUFFICES ASSUME NEW i \in 1..Len(a) PROVE of[a[i]] \in {of[Sorted(a)[n]] : n \in 1..Len(a)}
          BY <3>1
      <4>1. PICK n \in 1..Len(a) : Sorted(a)[n] = a[i]
          BY SortedArranges
      <4> QED
          BY <4>1
    <3>3. {of[Sorted(a)[n]] : n \in 1..Len(a)} \subseteq A
      <4> SUFFICES ASSUME NEW n \in 1..Len(a) PROVE of[Sorted(a)[n]] \in A
          OBVIOUS
      <4>1. PICK i \in 1..Len(a) : Sorted(a)[n] = a[i]
          BY SortedArranges
      <4> QED
          BY <3>1, <4>1
    <3> QED
        BY <3>2, <3>3
  <2>4. B = {of[Sorted(b)[n]] : n \in 1..Len(b)}
    <3>1. DOMAIN b = 1..Len(b)
        OBVIOUS
    <3>2. B \subseteq {of[Sorted(b)[n]] : n \in 1..Len(b)}
      <4> SUFFICES ASSUME NEW i \in 1..Len(b) PROVE of[b[i]] \in {of[Sorted(b)[n]] : n \in 1..Len(b)}
          BY <3>1
      <4>1. PICK n \in 1..Len(b) : Sorted(b)[n] = b[i]
          BY SortedArranges
      <4> QED
          BY <4>1
    <3>3. {of[Sorted(b)[n]] : n \in 1..Len(b)} \subseteq B
      <4> SUFFICES ASSUME NEW n \in 1..Len(b) PROVE of[Sorted(b)[n]] \in B
          OBVIOUS
      <4>1. PICK i \in 1..Len(b) : Sorted(b)[n] = b[i]
          BY SortedArranges
      <4> QED
          BY <3>1, <4>1
    <3> QED
        BY <3>2, <3>3
  <2> HIDE DEF A, B
  <2> QED
      BY <2>1, <2>2, <2>3, <2>4
<1> QED
    BY <1>3, <1>4 DEF Told

VersionCode == [e \in Ecu |-> VersionEcu(e)]

SnapshotCode == [e \in Ecu |-> SnapshotEcu(e)]

LEMMA CodesAre ==
    /\ IsCode({VersionEcu(e) : e \in Ecu}) /\ VersionCode \in [Ecu -> {VersionEcu(e) : e \in Ecu}]
    /\ IsCode({SnapshotEcu(e) : e \in Ecu}) /\ SnapshotCode \in [Ecu -> {SnapshotEcu(e) : e \in Ecu}]
    /\ \A e, f \in Ecu : VersionEcu(e) = VersionEcu(f) <=> VersionOf(e) = VersionOf(f)
    /\ \A e, f \in Ecu : SnapshotEcu(e) = SnapshotEcu(f) <=> e = f
<1>1. \A e, f \in Ecu : VersionOf(e) = VersionOf(f) => VersionEcu(e) = VersionEcu(f)
  <2> SUFFICES ASSUME NEW e \in Ecu, NEW f \in Ecu, VersionOf(e) = VersionOf(f)
               PROVE  VersionEcu(e) = VersionEcu(f)
      OBVIOUS
  <2>1. /\ e.ecuId = f.ecuId /\ e.partNumber = f.partNumber
        /\ e.swVersion = f.swVersion /\ e.hwVersion = f.hwVersion
      BY DEF VersionOf
  <2> QED
      BY <2>1 DEF VersionEcu
<1>2. \A e, f \in Ecu : VersionEcu(e) = VersionEcu(f) => VersionOf(e) = VersionOf(f)
  <2> SUFFICES ASSUME NEW e \in Ecu, NEW f \in Ecu, VersionEcu(e) = VersionEcu(f)
               PROVE  VersionOf(e) = VersionOf(f)
      OBVIOUS
  <2>1. Agree(VersionEcu(e), VersionEcu(f))
      BY VersionEcusDiffer, AgreesWithItself
  <2> QED
      BY <2>1, VersionEcusDiffer
<1>3. \A e, f \in Ecu : SnapshotEcu(e) = SnapshotEcu(f) => e = f
  <2> SUFFICES ASSUME NEW e \in Ecu, NEW f \in Ecu, SnapshotEcu(e) = SnapshotEcu(f) PROVE e = f
      OBVIOUS
  <2>1. Agree(SnapshotEcu(e), SnapshotEcu(f))
      BY SnapshotEcusDiffer, AgreesWithItself
  <2> QED
      BY <2>1, SnapshotEcusDiffer
<1>4. IsCode({VersionEcu(e) : e \in Ecu})
    BY <1>1, VersionEcusDiffer DEF IsCode
<1>5. IsCode({SnapshotEcu(e) : e \in Ecu})
    BY SnapshotEcusDiffer DEF IsCode
<1> QED
    BY <1>1, <1>2, <1>3, <1>4, <1>5 DEF VersionCode, SnapshotCode

VersionEcus(s) == EncodedEcus(s.ecus, [e \in EcusOf(s) |-> VersionEcu(e)])

SnapshotEcus(s) == EncodedEcus(s.ecus, [e \in EcusOf(s) |-> SnapshotEcu(e)])

LEMMA EcusTell ==
    ASSUME NEW s, HasDigest(s), NEW t, HasDigest(t)
    PROVE  /\ VersionEcus(s) \in Seq({VersionEcu(e) : e \in Ecu})
           /\ SnapshotEcus(s) \in Seq({SnapshotEcu(e) : e \in Ecu})
           /\ VersionEcus(s) = VersionEcus(t)
                  <=> {VersionOf(e) : e \in EcusOf(s)} = {VersionOf(e) : e \in EcusOf(t)}
           /\ SnapshotEcus(s) = SnapshotEcus(t) <=> EcusOf(s) = EcusOf(t)
<1> DEFINE of == [e \in Ecu |-> VersionOf(e)]
           key == [v \in VersionsOfEcu |-> KeyOf(v)]
           same == [e \in Ecu |-> e]
           key2 == [e \in Ecu |-> StableKey(e)]
<1>1. /\ s.ecus \in Seq(Ecu) /\ ~HasDuplicateKey(s.ecus)
      /\ t.ecus \in Seq(Ecu) /\ ~HasDuplicateKey(t.ecus)
    BY DEF HasDigest, Inventory
<1>2. \A x : x.ecus \in Seq(Ecu) => /\ EcusOf(x) \subseteq Ecu
                                    /\ VersionEcus(x) = Listed(x.ecus, VersionCode)
                                    /\ SnapshotEcus(x) = Listed(x.ecus, SnapshotCode)
  <2> SUFFICES ASSUME NEW x, x.ecus \in Seq(Ecu)
               PROVE  /\ EcusOf(x) \subseteq Ecu
                      /\ VersionEcus(x) = Listed(x.ecus, VersionCode)
                      /\ SnapshotEcus(x) = Listed(x.ecus, SnapshotCode)
      OBVIOUS
  <2>1. EcusOf(x) \subseteq Ecu
      BY DEF EcusOf
  <2>2. /\ [e \in EcusOf(x) |-> VersionEcu(e)] = [e \in EcusOf(x) |-> VersionCode[e]]
        /\ [e \in EcusOf(x) |-> SnapshotEcu(e)] = [e \in EcusOf(x) |-> SnapshotCode[e]]
      BY <2>1 DEF VersionCode, SnapshotCode
  <2> QED
      BY <2>1, <2>2, Zenon DEF VersionEcus, SnapshotEcus, Listed, EcusOf
<1>3. of \in [Ecu -> VersionsOfEcu] /\ same \in [Ecu -> Ecu] /\ key2 \in [Ecu -> StableKeys]
    BY StableKeyIs DEF VersionsOfEcu
<1>4. \A e \in Ecu : KeyOf(VersionOf(e)) = StableKey(e)
    BY DEF KeyOf, VersionOf, StableKey
<1>5. key \in [VersionsOfEcu -> StableKeys]
    BY <1>4, StableKeyIs DEF VersionsOfEcu
<1>6. \A e \in Ecu : key[of[e]] = StableKey(e) /\ key2[same[e]] = StableKey(e)
    BY <1>3, <1>4
<1>7. /\ \A e, f \in Ecu : VersionCode[e] = VersionCode[f] <=> of[e] = of[f]
      /\ \A e, f \in Ecu : SnapshotCode[e] = SnapshotCode[f] <=> same[e] = same[f]
    BY CodesAre DEF VersionCode, SnapshotCode
<1>8. \A x : x.ecus \in Seq(Ecu) =>
          /\ Told(of, x.ecus) = {VersionOf(e) : e \in EcusOf(x)}
          /\ Told(same, x.ecus) = EcusOf(x)
  <2> SUFFICES ASSUME NEW x, x.ecus \in Seq(Ecu)
               PROVE  /\ Told(of, x.ecus) = {VersionOf(e) : e \in EcusOf(x)}
                      /\ Told(same, x.ecus) = EcusOf(x)
      OBVIOUS
  <2>1. \A i \in DOMAIN x.ecus : x.ecus[i] \in Ecu
      OBVIOUS
  <2>2. \A i \in DOMAIN x.ecus : of[x.ecus[i]] = VersionOf(x.ecus[i]) /\ same[x.ecus[i]] = x.ecus[i]
      BY <2>1
  <2> HIDE DEF of, same
  <2> QED
      BY <2>2 DEF EcusOf, Told
<1> HIDE DEF of, key, same, key2
<1>9. /\ Listed(s.ecus, VersionCode) \in Seq({VersionEcu(e) : e \in Ecu})
      /\ Listed(s.ecus, SnapshotCode) \in Seq({SnapshotEcu(e) : e \in Ecu})
    BY <1>1, CodesAre, ListedIs
<1>10. Listed(s.ecus, VersionCode) = Listed(t.ecus, VersionCode)
          <=> Told(of, s.ecus) = Told(of, t.ecus)
  <2>1. IsCodeOf(VersionsOfEcu, of, key, {VersionEcu(e) : e \in Ecu}, VersionCode)
      BY <1>3, <1>5, <1>6, <1>7, CodesAre, Zenon DEF IsCodeOf
  <2> QED
      BY <1>1, <2>1, ListedTells
<1>11. Listed(s.ecus, SnapshotCode) = Listed(t.ecus, SnapshotCode)
          <=> Told(same, s.ecus) = Told(same, t.ecus)
  <2>1. IsCodeOf(Ecu, same, key2, {SnapshotEcu(e) : e \in Ecu}, SnapshotCode)
      BY <1>3, <1>6, <1>7, CodesAre, Zenon DEF IsCodeOf
  <2> QED
      BY <1>1, <2>1, ListedTells
<1> QED
    BY <1>1, <1>2, <1>8, <1>9, <1>10, <1>11

-----------------------------------------------------------------------------
(* The digests.                                                            *)
LEMMA SameCanonical ==
    ASSUME NEW d \in Str, NEW e \in Str, NEW f \in Seq(FieldCodes), NEW g \in Seq(FieldCodes),
           Canonical(d, f) = Canonical(e, g)
    PROVE  d = e /\ f = g
<1>1. Agree(Canonical(d, f), Canonical(e, g))
    BY CanonicalIs, AgreesWithItself
<1> QED
    BY <1>1, CanonicalDiffers

LEMMA Domains ==
    /\ {VersionDomain, SnapshotDomain, DedupeDomain} \subseteq Str /\ \A k \in Kinds : IdDomain(k) \in Str
    /\ VersionDomain # SnapshotDomain /\ VersionDomain # DedupeDomain /\ SnapshotDomain # DedupeDomain
    /\ \A k \in Kinds : IdDomain(k) \notin {VersionDomain, SnapshotDomain, DedupeDomain}
    /\ \A k, l \in Kinds : IdDomain(k) = IdDomain(l) => k = l
<1>1. \A k \in Kinds : IdDomain(k) = IF k = "Vin" THEN <<105, 118>> ELSE <<105, 110>>
    BY DEF IdDomain
<1>2. \A k \in Kinds : IdDomain(k) \in Str /\ Len(IdDomain(k)) = 2
  <2>1. /\ <<105, 118>> \in Str /\ Len(<<105, 118>>) = 2
        /\ <<105, 110>> \in Str /\ Len(<<105, 110>>) = 2
      BY DEF Str
  <2> QED
      BY <1>1, <2>1
<1>3. /\ VersionDomain \in Str /\ SnapshotDomain \in Str /\ DedupeDomain \in Str
      /\ Len(VersionDomain) = 1 /\ Len(SnapshotDomain) = 1 /\ Len(DedupeDomain) = 1
      /\ VersionDomain[1] = 118 /\ SnapshotDomain[1] = 115 /\ DedupeDomain[1] = 100
    BY DEF VersionDomain, SnapshotDomain, DedupeDomain, Str
<1>4. \A k \in Kinds : IdDomain(k)[2] = IF k = "Vin" THEN 118 ELSE 110
    BY <1>1
<1>5. \A k, l \in Kinds : IdDomain(k) = IdDomain(l) => k = l
  <2> SUFFICES ASSUME NEW k \in Kinds, NEW l \in Kinds, IdDomain(k) = IdDomain(l) PROVE k = l
      OBVIOUS
  <2>1. k = "Vin" <=> l = "Vin"
      BY <1>4
  <2> QED
      BY <2>1 DEF Kinds
<1> QED
    BY <1>2, <1>3, <1>5

VersionFields(s) ==
    <<EnumField(1, s.baselineSource), OptionalField(2, s.baselineId),
      StringField(3, s.registryVersion), ListField(4, VersionEcus(s))>>

SnapshotFields(s) ==
    <<StringField(1, IdentifierDigest("Vin", NormalizeVin(s.vin))), EnumField(2, s.vinSource),
      EnumField(3, s.baselineSource), OptionalField(4, s.baselineId),
      StringField(5, s.registryVersion), EnumField(6, s.result), ListField(7, SnapshotEcus(s))>>

LEMMA IdentifiersTell ==
    ASSUME NEW k \in Kinds, NEW l \in Kinds, NEW v \in Str, NEW w \in Str
    PROVE  /\ IdentifierDigest(k, v) \in Str /\ <<StringField(1, v)>> \in Seq(FieldCodes)
           /\ IdentifierDigest(k, v) = IdentifierDigest(l, w) => k = l /\ v = w
<1>1. <<StringField(1, v)>> \in Seq(FieldCodes) /\ <<StringField(1, w)>> \in Seq(FieldCodes)
    BY StringFields
<1>2. IdDomain(k) \in Str /\ IdDomain(l) \in Str
    BY Domains
<1>3. /\ IdentifierDigest(k, v) = Canonical(IdDomain(k), <<StringField(1, v)>>)
      /\ IdentifierDigest(l, w) = Canonical(IdDomain(l), <<StringField(1, w)>>)
    BY DEF IdentifierDigest
<1>4. <<StringField(1, v)>> = <<StringField(1, w)>> => v = w
    BY StringFields
<1>5. IdDomain(k) = IdDomain(l) => k = l
    BY Domains
<1> DEFINE f == <<StringField(1, v)>>
           g == <<StringField(1, w)>>
<1> HIDE DEF f, g
<1>6. f \in Seq(FieldCodes) /\ g \in Seq(FieldCodes) /\ (f = g => v = w)
    BY <1>1, <1>4 DEF f, g
<1>7. IdentifierDigest(k, v) = Canonical(IdDomain(k), f) /\ IdentifierDigest(l, w) = Canonical(IdDomain(l), g)
    BY <1>3 DEF f, g
<1>8. Canonical(IdDomain(k), f) = Canonical(IdDomain(l), g) => IdDomain(k) = IdDomain(l) /\ f = g
    BY <1>2, <1>6, SameCanonical
<1>9. IdentifierDigest(k, v) \in Str
    BY <1>2, <1>6, <1>7, CanonicalIs
<1> QED
    BY <1>1, <1>5, <1>6, <1>7, <1>8, <1>9

LEMMA VinIs ==
    ASSUME NEW vin \in Str
    PROVE  NormalizeVin(vin) \in Str
<1>1. \A i \in 1..Len(vin) : vin[i] \in Nat /\ (vin[i] \in 97..122 => vin[i] - 32 \in Nat)
  <2>1. \A n \in Nat : n \in 97..122 => n - 32 \in Nat
      OBVIOUS
  <2>2. \A i \in 1..Len(vin) : vin[i] \in Nat
      BY DEF Str
  <2> QED
      BY <2>1, <2>2
<1>2. NormalizeVin(vin) = [i \in 1..Len(vin) |-> IF vin[i] \in 97..122 THEN vin[i] - 32 ELSE vin[i]]
    BY DEF NormalizeVin, Str
<1>3. Len(vin) \in Nat
    BY DEF Str
<1> QED
    BY <1>1, <1>2, <1>3 DEF Str

LEMMA VersionsTell ==
    ASSUME NEW s, HasDigest(s), NEW t, HasDigest(t)
    PROVE  /\ VersionFields(s) \in Seq(FieldCodes)
           /\ VersionFingerprint(s) = Canonical(VersionDomain, VersionFields(s))
           /\ VersionFingerprint(s) = VersionFingerprint(t) <=> VersionContent(s) = VersionContent(t)
<1>1. /\ s.baselineSource \in Nat /\ s.baselineId \in OptionalStr /\ s.registryVersion \in Str
      /\ t.baselineSource \in Nat /\ t.baselineId \in OptionalStr /\ t.registryVersion \in Str
    BY DEF HasDigest, Inventory
<1> DEFINE C == {VersionEcu(e) : e \in Ecu}
           a == VersionEcus(s)
           b == VersionEcus(t)
<1>2. a \in Seq(C) /\ b \in Seq(C) /\ IsCode(C)
    BY EcusTell, CodesAre
<1>3. a = b <=> {VersionOf(e) : e \in EcusOf(s)} = {VersionOf(e) : e \in EcusOf(t)}
    BY EcusTell
<1>4. /\ VersionFields(s) = <<EnumField(1, s.baselineSource), OptionalField(2, s.baselineId),
                              StringField(3, s.registryVersion), ListField(4, a)>>
      /\ VersionFields(t) = <<EnumField(1, t.baselineSource), OptionalField(2, t.baselineId),
                              StringField(3, t.registryVersion), ListField(4, b)>>
    BY DEF VersionFields
<1>5. /\ VersionFingerprint(s) = Canonical(VersionDomain, VersionFields(s))
      /\ VersionFingerprint(t) = Canonical(VersionDomain, VersionFields(t))
    BY Zenon DEF VersionFingerprint, VersionFields, VersionEcus
<1> HIDE DEF C, a, b
<1>6. /\ ListField(4, a) \in FieldCodes /\ ListField(4, b) \in FieldCodes
      /\ ListField(4, a) = ListField(4, b) => a = b
    BY <1>2, ListFields
<1>7. VersionFields(s) \in Seq(FieldCodes) /\ VersionFields(t) \in Seq(FieldCodes)
    BY <1>1, <1>4, <1>6, EnumFields, StringFields, OptionalFields
<1>8. VersionFields(s) = VersionFields(t)
          <=> /\ s.baselineSource = t.baselineSource /\ s.baselineId = t.baselineId
              /\ s.registryVersion = t.registryVersion /\ a = b
  <2>1. ASSUME VersionFields(s) = VersionFields(t)
        PROVE  /\ EnumField(1, s.baselineSource) = EnumField(1, t.baselineSource)
               /\ OptionalField(2, s.baselineId) = OptionalField(2, t.baselineId)
               /\ StringField(3, s.registryVersion) = StringField(3, t.registryVersion)
               /\ ListField(4, a) = ListField(4, b)
      BY <1>4, <2>1
  <2> QED
      BY <1>1, <1>4, <1>6, <2>1, EnumFields, StringFields, OptionalFields
<1>9. VersionFingerprint(s) = VersionFingerprint(t) <=> VersionFields(s) = VersionFields(t)
    BY <1>5, <1>7, Domains, SameCanonical
<1>10. VersionContent(s) = VersionContent(t)
           <=> /\ s.baselineSource = t.baselineSource /\ s.baselineId = t.baselineId
               /\ s.registryVersion = t.registryVersion
               /\ {VersionOf(e) : e \in EcusOf(s)} = {VersionOf(e) : e \in EcusOf(t)}
    BY DEF VersionContent
<1> QED
    BY <1>3, <1>5, <1>7, <1>8, <1>9, <1>10

LEMMA SnapshotsTell ==
    ASSUME NEW s, HasDigest(s), NEW t, HasDigest(t)
    PROVE  /\ SnapshotFields(s) \in Seq(FieldCodes)
           /\ SnapshotFingerprint(s) = Canonical(SnapshotDomain, SnapshotFields(s))
           /\ SnapshotFingerprint(s) = SnapshotFingerprint(t) <=> SnapshotContent(s) = SnapshotContent(t)
<1>1. /\ s.baselineSource \in Nat /\ s.baselineId \in OptionalStr /\ s.registryVersion \in Str
      /\ t.baselineSource \in Nat /\ t.baselineId \in OptionalStr /\ t.registryVersion \in Str
      /\ s.vin \in Str /\ s.vinSource \in Nat /\ s.result \in Nat
      /\ t.vin \in Str /\ t.vinSource \in Nat /\ t.result \in Nat
    BY DEF HasDigest, Inventory
<1> DEFINE C == {SnapshotEcu(e) : e \in Ecu}
           a == SnapshotEcus(s)
           b == SnapshotEcus(t)
           v == IdentifierDigest("Vin", NormalizeVin(s.vin))
           w == IdentifierDigest("Vin", NormalizeVin(t.vin))
<1>2. a \in Seq(C) /\ b \in Seq(C) /\ IsCode(C)
    BY EcusTell, CodesAre
<1>3. a = b <=> EcusOf(s) = EcusOf(t)
    BY EcusTell
<1>4. v \in Str /\ w \in Str /\ (v = w <=> NormalizeVin(s.vin) = NormalizeVin(t.vin))
  <2>1. "Vin" \in Kinds
      BY DEF Kinds
  <2> QED
      BY <1>1, <2>1, VinIs, IdentifiersTell
<1>5. /\ SnapshotFields(s) = <<StringField(1, v), EnumField(2, s.vinSource), EnumField(3, s.baselineSource),
                               OptionalField(4, s.baselineId), StringField(5, s.registryVersion),
                               EnumField(6, s.result), ListField(7, a)>>
      /\ SnapshotFields(t) = <<StringField(1, w), EnumField(2, t.vinSource), EnumField(3, t.baselineSource),
                               OptionalField(4, t.baselineId), StringField(5, t.registryVersion),
                               EnumField(6, t.result), ListField(7, b)>>
    BY DEF SnapshotFields
<1>6. /\ SnapshotFingerprint(s) = Canonical(SnapshotDomain, SnapshotFields(s))
      /\ SnapshotFingerprint(t) = Canonical(SnapshotDomain, SnapshotFields(t))
    BY Zenon DEF SnapshotFingerprint, SnapshotFields, SnapshotEcus
<1> HIDE DEF C, a, b, v, w
<1>7. /\ ListField(7, a) \in FieldCodes /\ ListField(7, b) \in FieldCodes
      /\ ListField(7, a) = ListField(7, b) => a = b
    BY <1>2, ListFields
<1>8. SnapshotFields(s) \in Seq(FieldCodes) /\ SnapshotFields(t) \in Seq(FieldCodes)
    BY <1>1, <1>4, <1>5, <1>7, EnumFields, StringFields, OptionalFields
<1>9. SnapshotFields(s) = SnapshotFields(t)
          <=> /\ v = w /\ s.vinSource = t.vinSource /\ s.baselineSource = t.baselineSource
              /\ s.baselineId = t.baselineId /\ s.registryVersion = t.registryVersion
              /\ s.result = t.result /\ a = b
  <2>1. ASSUME SnapshotFields(s) = SnapshotFields(t)
        PROVE  /\ StringField(1, v) = StringField(1, w)
               /\ EnumField(2, s.vinSource) = EnumField(2, t.vinSource)
               /\ EnumField(3, s.baselineSource) = EnumField(3, t.baselineSource)
               /\ OptionalField(4, s.baselineId) = OptionalField(4, t.baselineId)
               /\ StringField(5, s.registryVersion) = StringField(5, t.registryVersion)
               /\ EnumField(6, s.result) = EnumField(6, t.result)
               /\ ListField(7, a) = ListField(7, b)
      BY <1>5, <2>1
  <2> QED
      BY <1>1, <1>4, <1>5, <1>7, <2>1, EnumFields, StringFields, OptionalFields
<1>10. SnapshotFingerprint(s) = SnapshotFingerprint(t) <=> SnapshotFields(s) = SnapshotFields(t)
    BY <1>6, <1>8, Domains, SameCanonical
<1>11. SnapshotContent(s) = SnapshotContent(t)
           <=> /\ NormalizeVin(s.vin) = NormalizeVin(t.vin) /\ s.vinSource = t.vinSource
               /\ s.baselineSource = t.baselineSource /\ s.baselineId = t.baselineId
               /\ s.registryVersion = t.registryVersion /\ s.result = t.result
               /\ EcusOf(s) = EcusOf(t)
    BY DEF SnapshotContent
<1> QED
    BY <1>3, <1>4, <1>6, <1>8, <1>9, <1>10, <1>11

KeyFields(c, d, t) == <<StringField(1, t), StringField(2, c), Field(3, Present, d)>>

LEMMA KeysTell ==
    ASSUME NEW c1 \in Str, NEW d1 \in Str, NEW t1 \in Str, NEW c2 \in Str, NEW d2 \in Str, NEW t2 \in Str
    PROVE  /\ KeyFields(c1, d1, t1) \in Seq(FieldCodes) /\ KeyFields(c2, d2, t2) \in Seq(FieldCodes)
           /\ DedupeKey(c1, d1, t1) = Canonical(DedupeDomain, KeyFields(c1, d1, t1))
           /\ DedupeKey(c2, d2, t2) = Canonical(DedupeDomain, KeyFields(c2, d2, t2))
           /\ KeyFields(c1, d1, t1) = KeyFields(c2, d2, t2) => c1 = c2 /\ d1 = d2 /\ t1 = t2
<1>1. Present \in Nat
    BY DEF Present
<1>2. KeyFields(c1, d1, t1) \in Seq(FieldCodes) /\ KeyFields(c2, d2, t2) \in Seq(FieldCodes)
    BY <1>1, StringFields, FieldIn DEF KeyFields
<1>3. /\ DedupeKey(c1, d1, t1) = Canonical(DedupeDomain, KeyFields(c1, d1, t1))
      /\ DedupeKey(c2, d2, t2) = Canonical(DedupeDomain, KeyFields(c2, d2, t2))
    BY DEF DedupeKey, KeyFields
<1>4. ASSUME KeyFields(c1, d1, t1) = KeyFields(c2, d2, t2) PROVE c1 = c2 /\ d1 = d2 /\ t1 = t2
  <2>1. /\ StringField(1, t1) = StringField(1, t2) /\ StringField(2, c1) = StringField(2, c2)
        /\ Field(3, Present, d1) = Field(3, Present, d2)
      BY <1>4 DEF KeyFields
  <2> QED
      BY <1>1, <2>1, StringFields, SameField
<1> QED
    BY <1>2, <1>3, <1>4

LEMMA FiniteImage ==
    ASSUME NEW P, IsFiniteSet(P), NEW h, h = [x \in P |-> h[x]]
    PROVE  IsFiniteSet({h[x] : x \in P})
<1>1. h \in Surjection(P, {h[x] : x \in P})
    BY DEF Surjection
<1> QED
    BY <1>1, FS_Surjection

LEMMA PairedOnce ==
    ASSUME NEW pairs, IsFiniteSet(pairs), \A p \in pairs : p = <<p[1], p[2]>>,
           \A p, q \in pairs : p[1] = q[1] <=> p[2] = q[2]
    PROVE  OneToOne(pairs)
<1> DEFINE firsts == {p[1] : p \in pairs}
           seconds == {p[2] : p \in pairs}
           f == [p \in pairs |-> p[1]]
           g == [p \in pairs |-> p[2]]
<1>1. f \in Surjection(pairs, firsts) /\ g \in Surjection(pairs, seconds)
    BY DEF Surjection
<1>2. f \in Injection(pairs, firsts) /\ g \in Injection(pairs, seconds)
    BY DEF Injection, IsInjective
<1>3. Cardinality(firsts) = Cardinality(pairs) /\ Cardinality(seconds) = Cardinality(pairs)
  <2> HIDE DEF firsts, seconds, f, g
  <2> QED
      BY <1>1, <1>2, FS_Surjection
<1> QED
    BY <1>3 DEF OneToOne

LEMMA VersionsNamed == VersionsAreNamed
<1> DEFINE P == VersionInventories
           h == [s \in P |-> <<VersionFingerprint(s), VersionContent(s)>>]
           pairs == {h[s] : s \in P}
<1>1. IsFiniteSet(P) /\ \A s \in P : HasDigest(s)
    BY InventoriesAssumption
<1>2. IsFiniteSet(pairs)
    BY <1>1, FiniteImage
<1>3. \A s, t \in P : VersionFingerprint(s) = VersionFingerprint(t) <=> VersionContent(s) = VersionContent(t)
    BY <1>1, VersionsTell
<1>4. /\ \A p \in pairs : p = <<p[1], p[2]>>
      /\ \A p, q \in pairs : p[1] = q[1] <=> p[2] = q[2]
    BY <1>3
<1>5. OneToOne(pairs)
  <2> HIDE DEF pairs
  <2> QED
      BY <1>2, <1>4, PairedOnce
<1>6. pairs = {<<VersionFingerprint(s), VersionContent(s)>> : s \in VersionInventories}
    OBVIOUS
<1> QED
    BY <1>5, <1>6, Zenon DEF VersionsAreNamed

LEMMA SnapshotsNamed == SnapshotsAreNamed
<1> DEFINE P == SnapshotInventories
           h == [s \in P |-> <<SnapshotFingerprint(s), SnapshotContent(s)>>]
           pairs == {h[s] : s \in P}
<1>1. IsFiniteSet(P) /\ \A s \in P : HasDigest(s)
    BY InventoriesAssumption
<1>2. IsFiniteSet(pairs)
    BY <1>1, FiniteImage
<1>3. \A s, t \in P :
          SnapshotFingerprint(s) = SnapshotFingerprint(t) <=> SnapshotContent(s) = SnapshotContent(t)
    BY <1>1, SnapshotsTell
<1>4. /\ \A p \in pairs : p = <<p[1], p[2]>>
      /\ \A p, q \in pairs : p[1] = q[1] <=> p[2] = q[2]
    BY <1>3
<1>5. OneToOne(pairs)
  <2> HIDE DEF pairs
  <2> QED
      BY <1>2, <1>4, PairedOnce
<1>6. pairs = {<<SnapshotFingerprint(s), SnapshotContent(s)>> : s \in SnapshotInventories}
    OBVIOUS
<1> QED
    BY <1>5, <1>6, Zenon DEF SnapshotsAreNamed

LEMMA TextsNamed == TextsAreNamed
<1>1. Texts \subseteq Str
    BY InventoriesAssumption
<1>2. ASSUME NEW k \in Kinds, NEW l \in Kinds, NEW v \in Texts, NEW w \in Texts,
             IdentifierDigest(k, v) = IdentifierDigest(l, w)
      PROVE  <<k, v>> = <<l, w>>
    BY <1>1, <1>2, IdentifiersTell
<1>3. ASSUME NEW c1 \in Texts, NEW d1 \in Texts, NEW t1 \in Texts,
             NEW c2 \in Texts, NEW d2 \in Texts, NEW t2 \in Texts,
             DedupeKey(c1, d1, t1) = DedupeKey(c2, d2, t2)
      PROVE  <<c1, d1, t1>> = <<c2, d2, t2>>
  <2>1. /\ c1 \in Str /\ d1 \in Str /\ t1 \in Str
        /\ c2 \in Str /\ d2 \in Str /\ t2 \in Str /\ DedupeDomain \in Str
      BY <1>1, Domains
  <2>2. KeyFields(c1, d1, t1) = KeyFields(c2, d2, t2)
    <3> DEFINE f == KeyFields(c1, d1, t1)
               g == KeyFields(c2, d2, t2)
    <3>1. f \in Seq(FieldCodes) /\ g \in Seq(FieldCodes)
        BY <2>1, KeysTell
    <3>2. Canonical(DedupeDomain, f) = Canonical(DedupeDomain, g)
        BY <1>3, <2>1, KeysTell
    <3> HIDE DEF f, g
    <3>3. f = g
        BY <2>1, <3>1, <3>2, SameCanonical
    <3> QED
        BY <3>3 DEF f, g
  <2> QED
      BY <2>1, <2>2, KeysTell
<1> QED
    BY <1>2, <1>3 DEF TextsAreNamed

LEMMA DomainsSeparate == DomainsAreSeparate
<1> DEFINE Of(d) == {Canonical(d, f) : f \in Seq(FieldCodes)}
<1>1. Texts \subseteq Str
    BY InventoriesAssumption
<1>2. VersionDigests \subseteq Of(VersionDomain)
    BY InventoriesAssumption, VersionsTell DEF VersionDigests
<1>3. SnapshotDigests \subseteq Of(SnapshotDomain)
    BY InventoriesAssumption, SnapshotsTell DEF SnapshotDigests
<1>4. \A x \in IdDigests : \E k \in Kinds : x \in Of(IdDomain(k))
  <2> SUFFICES ASSUME NEW k \in Kinds, NEW v \in Texts
               PROVE  IdentifierDigest(k, v) \in Of(IdDomain(k))
      BY DEF IdDigests
  <2>1. <<StringField(1, v)>> \in Seq(FieldCodes)
      BY <1>1, IdentifiersTell
  <2> QED
      BY <2>1 DEF IdentifierDigest
<1>5. DedupeKeys \subseteq Of(DedupeDomain)
  <2> SUFFICES ASSUME NEW c \in Texts, NEW d \in Texts, NEW t \in Texts
               PROVE  DedupeKey(c, d, t) \in Of(DedupeDomain)
      BY DEF DedupeKeys
  <2> QED
      BY <1>1, KeysTell
<1>6. \A d, e \in Str : d # e => Of(d) \cap Of(e) = {}
    BY SameCanonical
<1> HIDE DEF Of
<1> QED
    BY <1>2, <1>3, <1>4, <1>5, <1>6, Domains DEF DomainsAreSeparate

-----------------------------------------------------------------------------
(* Whatever finite sets of inventories and texts they are made of, the     *)
(* digests of inventory_fingerprint.hpp are names of the content: the      *)
(* order of the ECUs is not part of it, and every field, whether it is     *)
(* there or empty, is.                                                     *)
THEOREM DigestsAreNames == Spec => []DigestsNameContent
<1>1. DigestsNameContent
    BY VersionsNamed, SnapshotsNamed, TextsNamed, DomainsSeparate DEF DigestsNameContent
<1> QED
    BY <1>1, PTL
=============================================================================
