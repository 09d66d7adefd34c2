---------------------------- MODULE GameTreeProofs ----------------------------
(* That the tree of a game stays a tree, where a twin of a move can come    *)
(* from, that its lines are kept, and what the cursor and the mark do, for  *)
(* any moves, any games that are loaded and any size.                       *)
EXTENDS GameTree, FiniteSetTheorems, SequenceTheorems, TLAPS

-----------------------------------------------------------------------------
(* Numbers.                                                                 *)

(* A set of numbers has a least one.                                        *)
LEMMA MinOf ==
  ASSUME NEW T \in SUBSET Nat, T # {}
  PROVE  Min(T) \in T /\ \A y \in T : Min(T) <= y
<1> DEFINE upTo == {T \cap (0 .. n) : n \in T}
<1>1. upTo \subseteq FiniteSubsetsOf(T) /\ upTo # {}
  <2>1. ASSUME NEW n \in T
        PROVE  IsFiniteSet(T \cap (0 .. n))
    <3>1. IsFiniteSet(0 .. n)
      BY FS_Interval
    <3>2. QED
      BY <3>1, FS_Intersection
  <2>2. QED
    BY <2>1 DEF FiniteSubsetsOf
<1>2. PICK U \in upTo : \A V \in upTo : <<V, U>> \notin StrictSubsetOrdering(T)
  BY <1>1, FS_StrictSubsetOrderingWellFounded, WFMin, Zenon
<1>3. PICK n \in T : U = T \cap (0 .. n)
  BY <1>2
<1>4. ASSUME NEW y \in T
      PROVE  n <= y
  <2>1. SUFFICES ASSUME y < n
                 PROVE  FALSE
    OBVIOUS
  <2>2. T \cap (0 .. y) \in upTo
    OBVIOUS
  <2>3. T \cap (0 .. y) \subseteq U /\ T \cap (0 .. y) # U
    BY <1>3, <2>1
  <2>4. <<T \cap (0 .. y), U>> \in StrictSubsetOrdering(T)
    BY <1>3, <2>3 DEF StrictSubsetOrdering
  <2>5. QED
    BY <1>2, <2>2, <2>4
<1>5. QED
  BY <1>3, <1>4 DEF Min

LEMMA NatSteps ==
  ASSUME NEW S, 0 \in S, \A n \in Nat : n \in S => n + 1 \in S
  PROVE  \A n \in Nat : n \in S
<1>1. SUFFICES ASSUME Nat \ S # {}
               PROVE  FALSE
  OBVIOUS
<1> DEFINE m == Min(Nat \ S)
<1>2. m \in Nat \ S /\ \A y \in Nat \ S : m <= y
  <2>1. Nat \ S \in SUBSET Nat
    OBVIOUS
  <2>2. QED
    BY <1>1, <2>1, MinOf, Zenon
<1> HIDE DEF m
<1>3. m - 1 \in Nat /\ m = (m - 1) + 1 /\ ~(m <= m - 1)
  BY <1>2
<1>4. m - 1 \in S
  BY <1>2, <1>3
<1>5. QED
  BY <1>2, <1>3, <1>4

(* A bounded set of numbers has a greatest one.                             *)
LEMMA MaxOf ==
  ASSUME NEW S \in SUBSET Nat, S # {}, NEW b \in Nat, \A x \in S : x <= b
  PROVE  Max(S) \in S /\ \A x \in S : x <= Max(S)
<1> DEFINE U == {n \in Nat : \A x \in S : x <= n}
<1> DEFINE m == Min(U)
<1>1. m \in Nat /\ (\A x \in S : x <= m) /\ \A y \in U : m <= y
  <2>1. U \in SUBSET Nat /\ b \in U
    OBVIOUS
  <2>2. m \in U /\ \A y \in U : m <= y
    BY <2>1, MinOf, Zenon
  <2>3. QED
    BY <2>2
<1>2. m \in S
  <2>1. SUFFICES ASSUME m \notin S
                 PROVE  FALSE
    OBVIOUS
  <2>2. PICK x \in S : TRUE
    OBVIOUS
  <2>3. \A y \in S : y <= m - 1
    BY <1>1, <2>1
  <2>4. m - 1 \in Nat /\ ~(m <= m - 1)
    BY <1>1, <2>2, <2>3
  <2> HIDE DEF m
  <2>5. m - 1 \in U
    BY <2>3, <2>4
  <2>6. QED
    BY <1>1, <2>4, <2>5
<1> HIDE DEF m
<1>3. QED
  BY <1>1, <1>2 DEF Max

LEMMA MaxIs ==
  ASSUME NEW S \in SUBSET Nat, NEW m \in S, \A x \in S : x <= m
  PROVE  Max(S) = m
<1>1. Max(S) \in S /\ \A x \in S : x <= Max(S)
  BY MaxOf
<1> DEFINE y == Max(S)
<1> HIDE DEF y
<1>2. y \in Nat /\ m \in Nat /\ y <= m /\ m <= y
  BY <1>1 DEF y
<1>3. QED
  BY <1>2 DEF y

-----------------------------------------------------------------------------
(* Paths.                                                                   *)

Path == Seq(Nat)

LEMMA PathIs ==
  ASSUME NEW p \in Path
  PROVE  /\ Len(p) \in Nat /\ DOMAIN p = 1 .. Len(p)
         /\ \A i \in 1 .. Len(p) : p[i] \in Nat
         /\ p = << >> <=> Len(p) = 0
  BY LenProperties, ElementOfSeq, EmptySeq DEF Path

LEMMA PathEqual ==
  ASSUME NEW p \in Path, NEW r \in Path, Len(p) = Len(r),
         \A i \in 1 .. Len(p) : p[i] = r[i]
  PROVE  p = r
  BY SeqEqual, Zenon DEF Path

LEMMA Upto ==
  ASSUME NEW p \in Path, NEW n \in 0 .. Len(p)
  PROVE  /\ SubSeq(p, 1, n) \in Path /\ Len(SubSeq(p, 1, n)) = n
         /\ \A i \in 1 .. n : SubSeq(p, 1, n)[i] = p[i]
<1>1. Len(p) \in Nat /\ \A i \in 1 .. Len(p) : p[i] \in Nat
  BY PathIs
<1>2. n \in Nat /\ \A i \in 1 .. n : i \in 1 .. Len(p)
  BY <1>1
<1>3. \A i \in 1 .. n : p[i] \in Nat
  BY <1>1, <1>2, Zenon
<1> DEFINE s == SubSeq(p, 1, n)
<1>4. /\ s \in Seq(Nat) /\ Len(s) = (IF 1 <= n THEN n - 1 + 1 ELSE 0)
      /\ \A i \in 1 .. n - 1 + 1 : s[i] = p[1 + i - 1]
  <2>1. 1 \in Int /\ n \in Int
    BY <1>2
  <2>2. /\ SubSeq(p, 1, n) \in Seq(Nat)
        /\ Len(SubSeq(p, 1, n)) = (IF 1 <= n THEN n - 1 + 1 ELSE 0)
        /\ \A i \in 1 .. n - 1 + 1 : SubSeq(p, 1, n)[i] = p[1 + i - 1]
    BY <1>3, <2>1, SubSeqProperties, SMT
  <2>3. QED
    BY <2>2
<1> HIDE DEF s
<1>5. \A i \in 1 .. n : i \in 1 .. n - 1 + 1 /\ 1 + i - 1 = i
  BY <1>2
<1>6. QED
  BY <1>2, <1>4, <1>5 DEF s, Path

LEMMA PrefixIs ==
  ASSUME NEW p \in Path, NEW r \in Path
  PROVE  /\ IsPrefix(p, r) <=> Len(p) <= Len(r) /\ \A i \in 1 .. Len(p) : p[i] = r[i]
         /\ IsPrefix(p, r) <=> Len(p) <= Len(r) /\ p = SubSeq(r, 1, Len(p))
<1>1. Len(p) \in Nat /\ Len(r) \in Nat /\ SubSeq(p, 1, Len(p)) = p
  BY PathIs, SubSeqFull DEF Path
<1>2. CASE Len(p) <= Len(r)
  <2>1. Len(p) \in 0 .. Len(r)
    BY <1>1, <1>2
  <2>2. /\ SubSeq(r, 1, Len(p)) \in Path /\ Len(SubSeq(r, 1, Len(p))) = Len(p)
        /\ \A i \in 1 .. Len(p) : SubSeq(r, 1, Len(p))[i] = r[i]
    BY <2>1, Upto, Zenon
  <2>3. p = SubSeq(r, 1, Len(p)) <=> \A i \in 1 .. Len(p) : p[i] = r[i]
    <3> DEFINE s == SubSeq(r, 1, Len(p))
    <3>1. s \in Path /\ Len(s) = Len(p) /\ \A i \in 1 .. Len(p) : s[i] = r[i]
      BY <2>2
    <3> HIDE DEF s
    <3>2. p = s <=> \A i \in 1 .. Len(p) : p[i] = r[i]
      BY <3>1, PathEqual, Zenon
    <3>3. QED
      BY <3>2 DEF s
  <2>4. QED
    BY <1>1, <1>2, <2>3, Zenon DEF IsPrefix
<1>3. CASE ~(Len(p) <= Len(r))
  BY <1>3, Zenon DEF IsPrefix
<1>4. QED
  BY <1>2, <1>3

LEMMA Appended ==
  ASSUME NEW q \in Path, NEW i \in Nat
  PROVE  /\ Append(q, i) \in Path /\ Len(Append(q, i)) = Len(q) + 1 /\ Append(q, i) # << >>
         /\ \A j \in 1 .. Len(q) : Append(q, i)[j] = q[j]
         /\ Append(q, i)[Len(q) + 1] = i
         /\ Front(Append(q, i)) = q /\ Last(Append(q, i)) = i
         /\ q \o <<i>> = Append(q, i)
<1> DEFINE a == Append(q, i)
<1>1. /\ a \in Path /\ Len(a) = Len(q) + 1 /\ a # << >>
      /\ \A j \in 1 .. Len(q) : a[j] = q[j]
      /\ a[Len(q) + 1] = i
      /\ a = q \o <<i>>
  BY AppendProperties, AppendIsConcat DEF Path
<1> HIDE DEF a
<1>2. Len(q) \in Nat
  BY PathIs
<1>3. Len(a) - 1 = Len(q) /\ Len(q) \in 0 .. Len(a)
  BY <1>1, <1>2
<1>4. /\ SubSeq(a, 1, Len(q)) \in Path /\ Len(SubSeq(a, 1, Len(q))) = Len(q)
      /\ \A j \in 1 .. Len(q) : SubSeq(a, 1, Len(q))[j] = a[j]
  BY <1>1, <1>3, Upto, Zenon
<1>5. SubSeq(a, 1, Len(q)) = q
  BY <1>1, <1>4, PathEqual, Zenon
<1>6. Front(a) = q /\ Last(a) = i
  BY <1>1, <1>3, <1>5 DEF Front, Last
<1>7. QED
  BY <1>1, <1>6 DEF a

LEMMA Parted ==
  ASSUME NEW p \in Path, p # << >>
  PROVE  /\ Front(p) \in Path /\ Last(p) \in Nat /\ p = Append(Front(p), Last(p))
         /\ Len(Front(p)) = Len(p) - 1 /\ Len(p) \in Nat \ {0}
<1>1. PICK q \in Path, i \in Nat : p = Append(q, i)
  BY SequenceEmptyOrAppend DEF Path
<1>2. Front(p) = q /\ Last(p) = i /\ Len(p) = Len(q) + 1 /\ Len(q) \in Nat
  BY <1>1, Appended, PathIs
<1>3. QED
  BY <1>1, <1>2

LEMMA AppendOnce ==
  ASSUME NEW q \in Path, NEW r \in Path, NEW i \in Nat, NEW j \in Nat
  PROVE  Append(q, i) = Append(r, j) <=> q = r /\ i = j
  BY AppendInjective DEF Path

LEMMA ZerosAre ==
  ASSUME NEW n \in Nat
  PROVE  Zeros(n) \in Path /\ Len(Zeros(n)) = n /\ \A i \in 1 .. n : Zeros(n)[i] = 0
<1>1. Zeros(n) \in [1 .. n -> Nat]
  BY DEF Zeros
<1>2. Zeros(n) \in Path
  BY <1>1, SeqDef DEF Path
<1>3. Len(Zeros(n)) = n
  BY <1>1, <1>2, PathIs
<1>4. QED
  BY <1>2, <1>3 DEF Zeros

LEMMA Down ==
  ASSUME NEW q \in Path, NEW n \in Nat
  PROVE  /\ q \o Zeros(n) \in Path /\ Len(q \o Zeros(n)) = Len(q) + n
         /\ q \o Zeros(n + 1) = Append(q \o Zeros(n), 0)
         /\ q \o Zeros(0) = q /\ << >> \o Zeros(n) = Zeros(n)
<1>1. /\ Zeros(n) \in Seq(Nat) /\ Len(Zeros(n)) = n
      /\ Zeros(n + 1) \in Seq(Nat) /\ Len(Zeros(n + 1)) = n + 1
      /\ Zeros(0) = << >> /\ q \in Seq(Nat) /\ n + 1 \in Nat
  BY ZerosAre, PathIs DEF Path
<1>2. q \o Zeros(n) \in Path /\ Len(q \o Zeros(n)) = Len(q) + n
  <2> DEFINE z == Zeros(n)
  <2>1. z \in Seq(Nat) /\ q \in Seq(Nat) /\ Len(z) = n
    BY <1>1
  <2> HIDE DEF z
  <2>2. q \o z \in Seq(Nat) /\ Len(q \o z) = Len(q) + Len(z)
    BY <2>1, ConcatProperties, Zenon
  <2>3. QED
    BY <2>1, <2>2 DEF z, Path
<1>3. q \o Zeros(n + 1) = Append(q \o Zeros(n), 0)
  <2> DEFINE y == Zeros(n)
  <2> DEFINE z == Zeros(n + 1)
  <2> DEFINE b == q \o y
  <2> DEFINE c == q \o z
  <2>1. /\ y \in Seq(Nat) /\ z \in Seq(Nat) /\ q \in Seq(Nat) /\ Len(q) \in Nat
        /\ Len(y) = n /\ Len(z) = n + 1
        /\ (\A i \in 1 .. n : y[i] = 0) /\ (\A i \in 1 .. n + 1 : z[i] = 0)
    BY <1>1, ZerosAre, PathIs
  <2> HIDE DEF y, z
  <2>2. /\ b \in Path /\ Len(b) = Len(q) + Len(y)
        /\ \A i \in 1 .. Len(q) + Len(y) : b[i] = IF i <= Len(q) THEN q[i] ELSE y[i - Len(q)]
    BY <2>1, ConcatProperties, Zenon DEF Path
  <2>3. /\ c \in Path /\ Len(c) = Len(q) + Len(z)
        /\ \A i \in 1 .. Len(q) + Len(z) : c[i] = IF i <= Len(q) THEN q[i] ELSE z[i - Len(q)]
    BY <2>1, ConcatProperties, Zenon DEF Path
  <2> HIDE DEF b, c
  <2> DEFINE a == Append(b, 0)
  <2>4. /\ a \in Path /\ Len(a) = Len(b) + 1 /\ a[Len(b) + 1] = 0
        /\ \A i \in 1 .. Len(b) : a[i] = b[i]
    BY <2>2, Appended
  <2> HIDE DEF a
  <2>5. Len(c) = Len(a)
    BY <2>1, <2>2, <2>3, <2>4
  <2>6. ASSUME NEW i \in 1 .. Len(c)
        PROVE  c[i] = a[i]
    <3>1. i \in 1 .. Len(q) + Len(z) /\ Len(c) = Len(q) + n + 1 /\ Len(b) = Len(q) + n
      BY <2>1, <2>2, <2>3
    <3>2. CASE i <= Len(q)
      <4>1. i \in 1 .. Len(b) /\ i \in 1 .. Len(q) + Len(y)
        BY <2>1, <3>1, <3>2
      <4>2. QED
        BY <2>2, <2>3, <2>4, <3>1, <3>2, <4>1, Zenon
    <3>3. CASE ~(i <= Len(q)) /\ i <= Len(b)
      <4>1. i \in 1 .. Len(b) /\ i \in 1 .. Len(q) + Len(y) /\ i - Len(q) \in 1 .. n
            /\ i - Len(q) \in 1 .. n + 1
        BY <2>1, <3>1, <3>3
      <4>2. QED
        BY <2>1, <2>2, <2>3, <2>4, <3>1, <3>3, <4>1, Zenon
    <3>4. CASE ~(i <= Len(b))
      <4>1. i = Len(b) + 1 /\ ~(i <= Len(q)) /\ i - Len(q) \in 1 .. n + 1
        BY <2>1, <3>1, <3>4
      <4>2. QED
        BY <2>1, <2>3, <2>4, <3>1, <4>1, Zenon
    <3>5. i <= Len(b) \/ ~(i <= Len(b))
      OBVIOUS
    <3>6. QED
      BY <3>2, <3>3, <3>4, <3>5, Zenon
  <2>7. c = a
    BY <2>3, <2>4, <2>5, <2>6, PathEqual, Zenon
  <2>8. QED
    BY <2>7 DEF a, b, c, y, z
<1>4. q \o << >> = q /\ << >> \o Zeros(n) = Zeros(n)
  BY <1>1, ConcatEmptySeq
<1>5. QED
  BY <1>1, <1>2, <1>3, <1>4

LEMMA UptoNext ==
  ASSUME NEW p \in Path, NEW n \in 1 .. Len(p)
  PROVE  SubSeq(p, 1, n) = Append(SubSeq(p, 1, n - 1), p[n])
<1>1. Len(p) \in Nat /\ p[n] \in Nat
  BY PathIs
<1>2. 1 \in 1 .. Len(p) /\ n \in 1 .. Len(p) /\ n - 1 \in 0 .. Len(p)
  BY <1>1
<1>3. SubSeq(p, 1, n) = SubSeq(p, 1, n - 1) \o <<p[n]>>
  BY <1>2, SubSeqRecursiveSecond DEF Path
<1>4. SubSeq(p, 1, n - 1) \in Path
  BY <1>2, Upto
<1> DEFINE s == SubSeq(p, 1, n - 1)
<1> HIDE DEF s
<1>5. s \o <<p[n]>> = Append(s, p[n])
  BY <1>1, <1>4, Appended DEF s
<1>6. QED
  BY <1>3, <1>5 DEF s

-----------------------------------------------------------------------------
(* Trees.                                                                   *)

Grown(P) ==
  /\ P \subseteq Path /\ << >> \in P
  /\ \A q \in Path, i \in Nat :
       Append(q, i) \in P => q \in P /\ \A j \in 0 .. i : Append(q, j) \in P

Tree(T) ==
  /\ IsFiniteSet(Paths(T)) /\ Grown(Paths(T))
  /\ \A p \in Paths(T) : Len(p) <= MaxPly /\ T[p] \in Moves \cup {NoMove}
  /\ \A p \in Paths(T) : T[p] = NoMove <=> p = << >>

LEMMA UptoIn ==
  ASSUME NEW T, Tree(T), NEW p \in Paths(T), NEW n \in 0 .. Len(p)
  PROVE  SubSeq(p, 1, n) \in Paths(T)
<1>1. Grown(Paths(T)) /\ p \in Path
  BY DEF Tree, Grown
<1>2. Len(p) \in Nat
  BY <1>1, PathIs
<1> DEFINE S == {k \in Nat : k <= Len(p) => SubSeq(p, 1, Len(p) - k) \in Paths(T)}
<1>3. 0 \in S
  <2>1. SubSeq(p, 1, Len(p)) = p /\ Len(p) - 0 = Len(p)
    BY <1>1, <1>2, SubSeqFull DEF Path
  <2>2. QED
    BY <2>1
<1>4. ASSUME NEW k \in Nat, k \in S, k + 1 <= Len(p)
      PROVE  SubSeq(p, 1, Len(p) - (k + 1)) \in Paths(T)
  <2> DEFINE m == Len(p) - k
  <2>1. m \in 1 .. Len(p) /\ m - 1 = Len(p) - (k + 1) /\ m - 1 \in 0 .. Len(p) /\ k <= Len(p)
    BY <1>2, <1>4
  <2>2. SubSeq(p, 1, m) \in Paths(T)
    BY <1>4, <2>1
  <2> HIDE DEF m
  <2>3. SubSeq(p, 1, m - 1) \in Path /\ p[m] \in Nat
    BY <1>1, <2>1, Upto, PathIs, Zenon
  <2>4. SubSeq(p, 1, m) = Append(SubSeq(p, 1, m - 1), p[m])
    BY <1>1, <2>1, UptoNext, Zenon
  <2>5. SubSeq(p, 1, m - 1) \in Paths(T)
    BY <1>1, <2>2, <2>3, <2>4 DEF Grown
  <2>6. QED
    BY <2>1, <2>5
<1>5. \A k \in Nat : k \in S
  <2>1. ASSUME NEW k \in Nat, k \in S
        PROVE  k + 1 \in S
    <3>1. k + 1 <= Len(p) => SubSeq(p, 1, Len(p) - (k + 1)) \in Paths(T)
      BY <1>4, <2>1
    <3>2. k + 1 \in Nat
      OBVIOUS
    <3>3. QED
      BY <3>1, <3>2, Zenon
  <2> HIDE DEF S
  <2>2. QED
    BY <1>3, <2>1, NatSteps, Zenon
<1>6. Len(p) - n \in Nat /\ Len(p) - n <= Len(p) /\ Len(p) - (Len(p) - n) = n
  BY <1>2
<1>7. QED
  BY <1>5, <1>6

(* The children of a node are numbered from 0.                              *)
LEMMA KidsAre ==
  ASSUME NEW T, Tree(T), NEW q \in Path
  PROVE  /\ Kids(T, q) \in Nat
         /\ \A i \in Nat : Append(q, i) \in Paths(T) <=> i < Kids(T, q)
<1> DEFINE C == {c \in Paths(T) : Len(c) = Len(q) + 1 /\ IsPrefix(q, c)}
<1> DEFINE I == {i \in Nat : Append(q, i) \in Paths(T)}
<1>1. IsFiniteSet(Paths(T)) /\ Grown(Paths(T)) /\ Paths(T) \subseteq Path
  BY DEF Tree, Grown
<1>2. IsFiniteSet(C)
  BY <1>1, FS_Subset
<1>3. \A c \in C : c = Append(q, Last(c)) /\ Last(c) \in I
  <2> SUFFICES ASSUME NEW c \in C
               PROVE  c = Append(q, Last(c)) /\ Last(c) \in I
    OBVIOUS
  <2>1. c \in Path /\ Len(c) = Len(q) + 1 /\ IsPrefix(q, c) /\ Len(q) \in Nat
    BY <1>1, PathIs
  <2>2. c # << >> /\ Len(c) - 1 = Len(q)
    BY <2>1, PathIs
  <2>3. q = SubSeq(c, 1, Len(q))
    BY <2>1, PrefixIs
  <2>4. Front(c) = q
    BY <2>2, <2>3 DEF Front
  <2>5. c = Append(q, Last(c)) /\ Last(c) \in Nat
    BY <2>1, <2>2, <2>4, Parted
  <2>6. QED
    BY <2>5
<1>4. \A i \in I : Append(q, i) \in C /\ Last(Append(q, i)) = i
  <2> SUFFICES ASSUME NEW i \in I
               PROVE  Append(q, i) \in C /\ Last(Append(q, i)) = i
    OBVIOUS
  <2> DEFINE a == Append(q, i)
  <2>1. /\ a \in Path /\ Len(a) = Len(q) + 1 /\ Last(a) = i /\ Len(q) \in Nat
        /\ \A j \in 1 .. Len(q) : a[j] = q[j]
    BY Appended, PathIs
  <2>2. a \in Paths(T)
    OBVIOUS
  <2> HIDE DEF a
  <2>3. IsPrefix(q, a)
    BY <2>1, PrefixIs
  <2>4. QED
    BY <2>1, <2>2, <2>3 DEF a
<1> HIDE DEF C
<1>5. ExistsBijection(C, I)
  <2> DEFINE f == [c \in C |-> Last(c)]
  <2>1. f \in [C -> I]
    BY <1>3
  <2>2. \A c, d \in C : f[c] = f[d] => c = d
    BY <1>3
  <2>3. \A i \in I : \E c \in C : f[c] = i
    BY <1>4
  <2> HIDE DEF f
  <2>4. f \in Bijection(C, I)
    BY <2>1, <2>2, <2>3 DEF Bijection, Injection, Surjection, IsInjective
  <2>5. QED
    BY <2>4 DEF ExistsBijection
<1>6. IsFiniteSet(I) /\ Cardinality(I) = Cardinality(C)
  BY <1>2, <1>5, FS_Bijection
<1>7. \A i \in I : \A j \in 0 .. i : j \in I
  BY <1>1 DEF Grown
<1>8. I \in SUBSET Nat
  OBVIOUS
<1>9. PICK m \in Nat : I = 0 .. m - 1
  <2> HIDE DEF I
  <2>1. Nat \ I # {}
    <3>1. SUFFICES ASSUME Nat \subseteq I
                   PROVE  FALSE
      OBVIOUS
    <3> DEFINE n == Cardinality(I)
    <3>2. n \in Nat
      BY <1>6, FS_CardinalityType
    <3> HIDE DEF n
    <3>3. 0 .. n \in SUBSET I
      BY <3>1, <3>2
    <3>4. Cardinality(0 .. n) <= n
      BY <1>6, <3>3, FS_Subset DEF n
    <3>5. Cardinality(0 .. n) = n + 1
      BY <3>2, FS_Interval
    <3>6. QED
      BY <3>2, <3>4, <3>5
  <2> DEFINE m == Min(Nat \ I)
  <2>2. m \in Nat \ I /\ \A y \in Nat \ I : m <= y
    <3>1. Nat \ I \in SUBSET Nat
      OBVIOUS
    <3>2. QED
      BY <2>1, <3>1, MinOf, Zenon
  <2> HIDE DEF m
  <2>3. \A i \in I : i < m
    <3> SUFFICES ASSUME NEW i \in I, ~(i < m)
                 PROVE  FALSE
      OBVIOUS
    <3>1. m \in 0 .. i
      BY <1>8, <2>2
    <3>2. QED
      BY <1>7, <2>2, <3>1
  <2>4. \A i \in 0 .. m - 1 : i \in I
    BY <2>2
  <2>5. I = 0 .. m - 1
    <3>1. \A i \in I : i \in 0 .. m - 1
      BY <1>8, <2>2, <2>3
    <3>2. QED
      BY <2>4, <3>1
  <2>6. QED
    BY <2>2, <2>5
<1>10. Cardinality(I) = m
  <2>1. 0 \in Int /\ m - 1 \in Int /\ (IF 0 > m - 1 THEN 0 ELSE (m - 1) - 0 + 1) = m
    OBVIOUS
  <2>2. Cardinality(0 .. m - 1) = IF 0 > m - 1 THEN 0 ELSE (m - 1) - 0 + 1
    BY <2>1, FS_Interval
  <2> HIDE DEF I
  <2>3. QED
    BY <1>9, <2>1, <2>2
<1>11. Kids(T, q) = m
  BY <1>6, <1>10 DEF Kids, C
<1>12. \A i \in Nat : i \in I <=> i < m
  BY <1>9
<1>13. QED
  BY <1>11, <1>12

(* Where a path leaves the tree, its last node on the tree.                 *)
LEMMA NodeAt ==
  ASSUME NEW T, Tree(T), NEW p \in Path
  PROVE  LET g == getNodeAtPath(T, p)
         IN  /\ g \in Paths(T) /\ g \in Path /\ IsPrefix(g, p) /\ Len(g) <= Len(p)
             /\ \A r \in Paths(T) : IsPrefix(r, p) => Len(r) <= Len(g)
             /\ p \in Paths(T) => g = p
<1> DEFINE S == {Len(r) : r \in {t \in Paths(T) : IsPrefix(t, p)}}
<1>1. Paths(T) \subseteq Path /\ << >> \in Paths(T) /\ Len(p) \in Nat
  BY PathIs DEF Tree, Grown
<1>2. Len(<< >>) = 0 /\ IsPrefix(<< >>, p) /\ IsPrefix(p, p)
  <2>1. << >> \in Path /\ Len(<< >>) = 0
    BY <1>1, PathIs
  <2>2. QED
    BY <1>1, <2>1, PrefixIs
<1>3. \A r \in Paths(T) : IsPrefix(r, p) => Len(r) \in Nat /\ Len(r) <= Len(p)
  BY <1>1, PathIs, PrefixIs
<1>4. Max(S) \in S /\ \A x \in S : x <= Max(S)
  <2>1. S \in SUBSET Nat /\ S # {} /\ \A x \in S : x <= Len(p)
    BY <1>1, <1>2, <1>3
  <2> HIDE DEF S
  <2>2. QED
    BY <1>1, <2>1, MaxOf
<1>5. PICK g \in Paths(T) : IsPrefix(g, p) /\ Len(g) = Max(S)
  BY <1>4
<1>6. \A r \in Paths(T) : IsPrefix(r, p) => Len(r) <= Len(g)
  BY <1>4, <1>5
<1> DEFINE n == getNodeAtPath(T, p)
<1>7. n \in Paths(T) /\ IsPrefix(n, p) /\ \A r \in Paths(T) : IsPrefix(r, p) => Len(r) <= Len(n)
  BY <1>5, <1>6 DEF getNodeAtPath
<1> HIDE DEF n
<1>8. n \in Path /\ Len(n) \in Nat /\ Len(n) <= Len(p)
  BY <1>1, <1>3, <1>7, PathIs
<1>9. p \in Paths(T) => n = p
  <2>1. SUFFICES ASSUME p \in Paths(T)
                 PROVE  n = p
    OBVIOUS
  <2>2. Len(n) = Len(p)
    BY <1>1, <1>2, <1>7, <1>8, <2>1
  <2>3. \A i \in 1 .. Len(n) : n[i] = p[i]
    BY <1>7, <1>8, PrefixIs
  <2>4. QED
    BY <1>8, <2>2, <2>3, PathEqual
<1>10. QED
  BY <1>7, <1>8, <1>9 DEF n

(* The first children below a node.                                         *)
LEMMA DepthOf ==
  ASSUME NEW T, Tree(T), NEW p \in Paths(T)
  PROVE  /\ MainDepth(T, p) \in 0 .. MaxPly
         /\ \A n \in Nat : p \o Zeros(n) \in Paths(T) <=> n <= MainDepth(T, p)
<1> DEFINE S == {n \in 0 .. MaxPly : p \o Zeros(n) \in Paths(T)}
<1> DEFINE d == MainDepth(T, p)
<1>1. p \in Path /\ MaxPly \in Nat /\ Grown(Paths(T))
  BY GameTreeAssumption DEF Tree, Grown
<1>2. d \in S /\ \A x \in S : x <= d
  <2>1. p \o Zeros(0) = p
    BY <1>1, Down
  <2>2. S \in SUBSET Nat /\ S # {} /\ \A x \in S : x <= MaxPly
    <3>1. 0 \in 0 .. MaxPly /\ \A x \in 0 .. MaxPly : x \in Nat /\ x <= MaxPly
      BY <1>1
    <3>2. 0 \in S
      BY <2>1, <3>1, Zenon
    <3>3. QED
      BY <3>1, <3>2, Zenon
  <2>3. d = Max(S)
    BY DEF MainDepth
  <2> HIDE DEF S, d
  <2>4. QED
    BY <1>1, <2>2, <2>3, MaxOf
<1>3. d \in 0 .. MaxPly /\ p \o Zeros(d) \in Paths(T)
  BY <1>2
<1>4. \A n \in Nat : p \o Zeros(n) \in Paths(T) => n <= d
  <2> SUFFICES ASSUME NEW n \in Nat, p \o Zeros(n) \in Paths(T)
               PROVE  n <= d
    OBVIOUS
  <2>1. Len(p \o Zeros(n)) = Len(p) + n /\ Len(p) \in Nat
    BY <1>1, Down, PathIs
  <2>2. Len(p \o Zeros(n)) <= MaxPly
    BY DEF Tree
  <2>3. n \in 0 .. MaxPly
    BY <1>1, <2>1, <2>2
  <2>4. n \in S
    BY <2>3
  <2>5. QED
    BY <1>2, <2>4
<1> HIDE DEF S, d
<1>5. \A n \in Nat : n <= d => p \o Zeros(n) \in Paths(T)
  <2> DEFINE D == {k \in Nat : k <= d => p \o Zeros(d - k) \in Paths(T)}
  <2>1. 0 \in D
    BY <1>3
  <2>2. ASSUME NEW k \in Nat, k \in D
        PROVE  k + 1 \in D
    <3>1. SUFFICES ASSUME k + 1 <= d
                   PROVE  p \o Zeros(d - (k + 1)) \in Paths(T)
      OBVIOUS
    <3> DEFINE j == d - (k + 1)
    <3>2. j \in Nat /\ d - k = j + 1 /\ k <= d
      BY <1>3, <3>1
    <3> HIDE DEF j
    <3>3. p \o Zeros(j + 1) \in Paths(T)
      BY <2>2, <3>2
    <3>4. p \o Zeros(j + 1) = Append(p \o Zeros(j), 0) /\ p \o Zeros(j) \in Path
      BY <1>1, <3>2, Down
    <3>5. p \o Zeros(j) \in Paths(T)
      BY <1>1, <3>3, <3>4 DEF Grown
    <3>6. QED
      BY <3>5 DEF j
  <2>3. \A k \in Nat : k \in D
    <3> HIDE DEF D
    <3>1. QED
      BY <2>1, <2>2, NatSteps, Zenon
  <2>4. ASSUME NEW n \in Nat, n <= d
        PROVE  p \o Zeros(n) \in Paths(T)
    <3>1. d - n \in Nat /\ d - n <= d /\ d - (d - n) = n
      BY <1>3, <2>4
    <3>2. QED
      BY <2>3, <3>1
  <2>5. QED
    BY <2>4
<1>6. QED
  BY <1>3, <1>4, <1>5 DEF d

-----------------------------------------------------------------------------
(* Lines.                                                                   *)

(* What the moves are called.                                               *)
Names == {m.san : m \in Moves \cup {NoMove}}

Line == Seq(Names)

LEMMA LineIs ==
  ASSUME NEW T, Tree(T), NEW p \in Paths(T)
  PROVE  /\ LineOf(T, p) \in Line /\ Len(LineOf(T, p)) = Len(p)
         /\ \A i \in 1 .. Len(p) : LineOf(T, p)[i] = T[SubSeq(p, 1, i)].san
<1>1. p \in Path /\ Len(p) \in Nat
  BY PathIs DEF Tree, Grown
<1>2. \A i \in 1 .. Len(p) : T[SubSeq(p, 1, i)].san \in Names
  <2>1. \A i \in 1 .. Len(p) : i \in 0 .. Len(p)
    BY <1>1
  <2>2. \A i \in 1 .. Len(p) : T[SubSeq(p, 1, i)] \in Moves \cup {NoMove}
    BY <2>1, UptoIn DEF Tree
  <2>3. QED
    BY <2>2 DEF Names
<1> DEFINE l == LineOf(T, p)
<1>3. l \in [1 .. Len(p) -> Names] /\ \A i \in 1 .. Len(p) : l[i] = T[SubSeq(p, 1, i)].san
  BY <1>2, Zenon DEF LineOf
<1> HIDE DEF l
<1>4. l \in Line
  BY <1>1, <1>3, SeqDef DEF Line
<1>5. DOMAIN l = 1 .. Len(p) /\ DOMAIN l = 1 .. Len(l) /\ Len(l) \in Nat
  BY <1>3, <1>4, LenProperties DEF Line
<1>6. Len(l) = Len(p)
  BY <1>1, <1>5
<1>7. QED
  BY <1>3, <1>4, <1>6 DEF l

LEMMA LineEqual ==
  ASSUME NEW k \in Line, NEW l \in Line, Len(k) = Len(l), \A i \in 1 .. Len(k) : k[i] = l[i]
  PROVE  k = l
  BY SeqEqual, Zenon DEF Line

LEMMA UptoTwice ==
  ASSUME NEW p \in Path, NEW n \in 0 .. Len(p), NEW i \in 0 .. n
  PROVE  SubSeq(SubSeq(p, 1, n), 1, i) = SubSeq(p, 1, i)
<1> DEFINE s == SubSeq(p, 1, n)
<1> DEFINE t == SubSeq(s, 1, i)
<1> DEFINE u == SubSeq(p, 1, i)
<1>1. Len(p) \in Nat /\ i \in 0 .. Len(p) /\ \A j \in 1 .. i : j \in 1 .. n
  BY PathIs
<1>2. s \in Path /\ Len(s) = n /\ \A j \in 1 .. n : s[j] = p[j]
  BY Upto
<1>3. u \in Path /\ Len(u) = i /\ \A j \in 1 .. i : u[j] = p[j]
  BY <1>1, Upto
<1> HIDE DEF s, u
<1>4. t \in Path /\ Len(t) = i /\ \A j \in 1 .. i : t[j] = s[j]
  BY <1>2, Upto
<1> HIDE DEF t
<1>5. t = u
  BY <1>1, <1>2, <1>3, <1>4, PathEqual, Zenon
<1>6. QED
  BY <1>5 DEF s, t, u

(* The line to a node begins with the lines to the nodes above it.          *)
LEMMA LineUpto ==
  ASSUME NEW T, Tree(T), NEW p \in Paths(T), NEW n \in 0 .. Len(p)
  PROVE  LineOf(T, SubSeq(p, 1, n)) = SubSeq(LineOf(T, p), 1, n)
<1> DEFINE s == SubSeq(p, 1, n)
<1> DEFINE l == LineOf(T, p)
<1> DEFINE k == SubSeq(l, 1, n)
<1>1. p \in Path /\ Len(p) \in Nat /\ s \in Paths(T) /\ s \in Path /\ Len(s) = n
  BY UptoIn, Upto, PathIs DEF Tree, Grown
<1>2. l \in Line /\ Len(l) = Len(p) /\ \A i \in 1 .. Len(p) : l[i] = T[SubSeq(p, 1, i)].san
  BY LineIs
<1>3. n \in Nat /\ \A i \in 1 .. n : i \in 1 .. Len(p) /\ i \in 0 .. n
  BY <1>1
<1> HIDE DEF s, l
<1>4. k \in Line /\ Len(k) = n /\ \A i \in 1 .. n : k[i] = l[i]
  <2>1. \A i \in 1 .. n : l[i] \in Names
    BY <1>2, <1>3, ElementOfSeq DEF Line
  <2>2. 1 \in Int /\ n \in Int
    BY <1>3
  <2>3. /\ k \in Seq(Names)
        /\ Len(k) = (IF 1 <= n THEN n - 1 + 1 ELSE 0)
        /\ \A i \in 1 .. n - 1 + 1 : k[i] = l[1 + i - 1]
    BY <2>1, <2>2, SubSeqProperties, SMT
  <2> HIDE DEF k
  <2>4. (\A i \in 1 .. n : i \in 1 .. n - 1 + 1 /\ 1 + i - 1 = i)
    BY <1>3
  <2>5. QED
    BY <1>3, <2>3, <2>4 DEF Line
<1>5. /\ LineOf(T, s) \in Line /\ Len(LineOf(T, s)) = n
      /\ \A i \in 1 .. n : LineOf(T, s)[i] = T[SubSeq(s, 1, i)].san
  BY <1>1, LineIs
<1>6. \A i \in 1 .. n : SubSeq(s, 1, i) = SubSeq(p, 1, i)
  BY <1>1, <1>3, UptoTwice DEF s
<1> DEFINE j == LineOf(T, s)
<1> HIDE DEF k, j
<1>7. j = k
  BY <1>2, <1>3, <1>4, <1>5, <1>6, LineEqual, Zenon DEF j
<1>8. QED
  BY <1>7 DEF j, k, l, s

LEMMA UptoFront ==
  ASSUME NEW q \in Path, NEW i \in Nat
  PROVE  /\ SubSeq(Append(q, i), 1, Len(q)) = q
         /\ SubSeq(Append(q, i), 1, Len(q) + 1) = Append(q, i)
         /\ \A n \in 0 .. Len(q) : SubSeq(Append(q, i), 1, n) = SubSeq(q, 1, n)
<1> DEFINE a == Append(q, i)
<1>1. a \in Path /\ Len(a) = Len(q) + 1 /\ Front(a) = q /\ Len(q) \in Nat
  BY Appended, PathIs
<1> HIDE DEF a
<1>2. Len(a) - 1 = Len(q)
  BY <1>1
<1>3. SubSeq(a, 1, Len(q)) = q
  BY <1>1, <1>2 DEF Front
<1>4. SubSeq(a, 1, Len(q) + 1) = a
  BY <1>1, SubSeqFull DEF Path
<1>5. \A n \in 0 .. Len(q) : SubSeq(a, 1, n) = SubSeq(q, 1, n)
  <2> SUFFICES ASSUME NEW n \in 0 .. Len(q)
               PROVE  SubSeq(a, 1, n) = SubSeq(q, 1, n)
    OBVIOUS
  <2>1. Len(q) \in 0 .. Len(a)
    BY <1>1
  <2>2. SubSeq(SubSeq(a, 1, Len(q)), 1, n) = SubSeq(a, 1, n)
    BY <1>1, <2>1, UptoTwice
  <2>3. QED
    BY <1>3, <2>2
<1>6. QED
  BY <1>3, <1>4, <1>5 DEF a

LEMMA LineNext ==
  ASSUME NEW T, Tree(T), NEW q \in Path, NEW i \in Nat, Append(q, i) \in Paths(T)
  PROVE  LineOf(T, Append(q, i)) = Append(LineOf(T, q), T[Append(q, i)].san)
<1> DEFINE a == Append(q, i)
<1> DEFINE l == LineOf(T, q)
<1> DEFINE k == Append(l, T[a].san)
<1>1. /\ a \in Path /\ Len(a) = Len(q) + 1 /\ Len(q) \in Nat /\ a \in Paths(T)
      /\ q \in Paths(T) /\ T[a].san \in Names
  BY Appended, PathIs DEF Tree, Grown, Names
<1>2. l \in Line /\ Len(l) = Len(q) /\ \A j \in 1 .. Len(q) : l[j] = T[SubSeq(q, 1, j)].san
  BY <1>1, LineIs
<1>3. /\ LineOf(T, a) \in Line /\ Len(LineOf(T, a)) = Len(a)
      /\ \A j \in 1 .. Len(a) : LineOf(T, a)[j] = T[SubSeq(a, 1, j)].san
  BY <1>1, LineIs
<1>4. /\ SubSeq(a, 1, Len(q) + 1) = a
      /\ \A n \in 0 .. Len(q) : SubSeq(a, 1, n) = SubSeq(q, 1, n)
  BY UptoFront
<1> HIDE DEF a, l
<1>5. /\ k \in Line /\ Len(k) = Len(q) + 1 /\ k[Len(q) + 1] = T[a].san
      /\ \A j \in 1 .. Len(q) : k[j] = l[j]
  BY <1>1, <1>2, AppendProperties DEF Line
<1> DEFINE g == LineOf(T, a)
<1>6. \A j \in 1 .. Len(q) + 1 : j = Len(q) + 1 \/ (j \in 1 .. Len(q) /\ j \in 0 .. Len(q))
  BY <1>1
<1> HIDE DEF k
<1>7. ASSUME NEW j \in 1 .. Len(g)
      PROVE  g[j] = k[j]
  <2>1. j \in 1 .. Len(q) + 1 /\ g[j] = T[SubSeq(a, 1, j)].san
    BY <1>1, <1>3
  <2>2. CASE j = Len(q) + 1
    BY <1>4, <1>5, <2>1, <2>2, Zenon
  <2>3. CASE j \in 1 .. Len(q) /\ j \in 0 .. Len(q)
    BY <1>2, <1>4, <1>5, <2>1, <2>3, Zenon
  <2>4. QED
    BY <1>6, <2>1, <2>2, <2>3, Zenon
<1> HIDE DEF g
<1>8. g = k
  BY <1>1, <1>3, <1>5, <1>7, LineEqual DEF g
<1>9. QED
  BY <1>8 DEF g, k, l, a

-----------------------------------------------------------------------------
(* A node is added after the last child.                                    *)

LEMMA PushIs ==
  ASSUME NEW T, NEW q \in Path, NEW m, Kids(T, q) \in Nat,
         Append(q, Kids(T, q)) \notin Paths(T)
  PROVE  /\ Paths(Push(T, q, m)) = Paths(T) \cup {Append(q, Kids(T, q))}
         /\ Push(T, q, m)[Append(q, Kids(T, q))] = m
         /\ \A p \in Paths(T) : Push(T, q, m)[p] = T[p]
<1> DEFINE a == Append(q, Kids(T, q))
<1> DEFINE N == [p \in {a} |-> m]
<1>1. Paths(N) = {a} /\ N[a] = m
  BY DEF Paths
<1>2. Push(T, q, m) = Add(T, N)
  BY DEF Push
<1>3. a \notin Paths(T)
  OBVIOUS
<1> HIDE DEF N, a
<1>4. /\ Paths(Add(T, N)) = Paths(T) \cup {a} /\ Add(T, N)[a] = m
      /\ \A p \in Paths(T) : Add(T, N)[p] = T[p]
  BY <1>1, <1>3 DEF Add, Paths
<1>5. QED
  BY <1>2, <1>4 DEF a

(* The lines of what stays are what they were.                              *)
LEMMA LinesStay ==
  ASSUME NEW T, NEW U, Tree(T), \A p \in Paths(T) : p \in Paths(U) /\ U[p] = T[p]
  PROVE  /\ \A p \in Paths(T) : LineOf(U, p) = LineOf(T, p)
         /\ Lines(T) \subseteq Lines(U)
<1>1. ASSUME NEW p \in Paths(T)
      PROVE  LineOf(U, p) = LineOf(T, p)
  <2>1. Len(p) \in Nat
    BY PathIs DEF Tree, Grown
  <2>2. \A i \in 1 .. Len(p) : U[SubSeq(p, 1, i)] = T[SubSeq(p, 1, i)]
    <3>1. \A i \in 1 .. Len(p) : i \in 0 .. Len(p)
      BY <2>1
    <3>2. QED
      BY <3>1, UptoIn
  <2>3. QED
    BY <2>2, Zenon DEF LineOf
<1>2. Lines(T) \subseteq Lines(U)
  BY <1>1 DEF Lines
<1>3. QED
  BY <1>1, <1>2

LEMMA Pushed ==
  ASSUME NEW T, Tree(T), NEW q \in Paths(T), NEW m \in Moves, Len(q) < MaxPly
  PROVE  LET k == Kids(T, q)
             a == Append(q, k)
             U == Push(T, q, m)
         IN  /\ Paths(U) = Paths(T) \cup {a}
             /\ Tree(U) /\ Lines(T) \subseteq Lines(U)
             /\ Twinless(T) /\ SameName(T, q, m) = {} => Twinless(U)
<1> DEFINE k == Kids(T, q)
<1> DEFINE a == Append(q, k)
<1> DEFINE U == Push(T, q, m)
<1>1. q \in Path /\ Grown(Paths(T)) /\ IsFiniteSet(Paths(T)) /\ Paths(T) \subseteq Path /\ Len(q) \in Nat
  BY PathIs DEF Tree, Grown
<1>2. k \in Nat /\ \A i \in Nat : Append(q, i) \in Paths(T) <=> i < k
  BY <1>1, KidsAre
<1>3. a \notin Paths(T)
  BY <1>2
<1>4. /\ Paths(U) = Paths(T) \cup {a} /\ U[a] = m
      /\ \A p \in Paths(T) : U[p] = T[p]
  BY <1>1, <1>2, <1>3, PushIs
<1> HIDE DEF k, U
<1>5. a \in Path /\ a # << >> /\ Len(a) = Len(q) + 1
  BY <1>1, <1>2, Appended
<1>6. Grown(Paths(U))
  <2>1. Paths(U) \subseteq Path /\ << >> \in Paths(U)
    BY <1>1, <1>4, <1>5 DEF Grown
  <2>2. ASSUME NEW r \in Path, NEW i \in Nat, Append(r, i) \in Paths(U)
        PROVE  r \in Paths(U) /\ \A j \in 0 .. i : Append(r, j) \in Paths(U)
    <3>1. CASE Append(r, i) \in Paths(T)
      BY <1>1, <1>4, <3>1 DEF Grown
    <3>2. CASE Append(r, i) = a
      <4>1. r = q /\ i = k
        BY <1>1, <1>2, <3>2, AppendOnce
      <4>2. \A j \in 0 .. k : j \in Nat /\ (j < k \/ j = k)
        BY <1>2
      <4>3. \A j \in 0 .. k : Append(q, j) \in Paths(T) \cup {a}
        BY <1>2, <4>2
      <4>4. QED
        BY <1>4, <4>1, <4>3
    <3>3. QED
      BY <1>4, <2>2, <3>1, <3>2
  <2>3. QED
    BY <2>1, <2>2 DEF Grown
<1>7. Tree(U)
  <2>1. IsFiniteSet(Paths(U))
    BY <1>1, <1>4, FS_AddElement
  <2>2. Len(a) <= MaxPly
    BY <1>1, <1>5, GameTreeAssumption
  <2>3. \A p \in Paths(T) : /\ Len(p) <= MaxPly /\ T[p] \in Moves \cup {NoMove}
                            /\ T[p] = NoMove <=> p = << >>
    BY DEF Tree
  <2>4. m # NoMove
    BY GameTreeAssumption
  <2>5. ASSUME NEW p \in Paths(U)
        PROVE  Len(p) <= MaxPly /\ U[p] \in Moves \cup {NoMove} /\ (U[p] = NoMove <=> p = << >>)
    <3>1. CASE p = a
      BY <1>4, <1>5, <2>2, <2>4, <3>1
    <3>2. CASE p \in Paths(T)
      BY <1>4, <2>3, <3>2
    <3>3. QED
      BY <1>4, <2>5, <3>1, <3>2
  <2>6. QED
    BY <1>6, <2>1, <2>5 DEF Tree
<1>8. (\A p \in Paths(T) : LineOf(U, p) = LineOf(T, p)) /\ Lines(T) \subseteq Lines(U)
  BY <1>4, LinesStay
<1>9. ASSUME Twinless(T), SameName(T, q, m) = {}
      PROVE  Twinless(U)
  <2>1. LineOf(U, a) = Append(LineOf(T, q), m.san)
    <3>1. LineOf(U, a) = Append(LineOf(U, q), U[a].san)
      BY <1>1, <1>2, <1>4, <1>7, LineNext
    <3>2. QED
      BY <1>4, <1>8, <3>1
  <2>2. ASSUME NEW p \in Paths(T)
        PROVE  LineOf(T, p) # LineOf(U, a)
    <3>1. SUFFICES ASSUME LineOf(T, p) = Append(LineOf(T, q), m.san)
                   PROVE  FALSE
      BY <2>1
    <3>2. /\ LineOf(T, q) \in Line /\ Len(LineOf(T, q)) = Len(q)
          /\ LineOf(T, p) \in Line /\ Len(LineOf(T, p)) = Len(p)
      BY LineIs
    <3>3. Len(p) = Len(q) + 1 /\ p \in Path
      BY <1>1, <3>1, <3>2, AppendProperties DEF Line
    <3>4. p # << >>
      BY <1>1, <3>3, PathIs
    <3> DEFINE r == Front(p)
    <3> DEFINE i == Last(p)
    <3>5. r \in Path /\ i \in Nat /\ p = Append(r, i)
      BY <3>3, <3>4, Parted
    <3> HIDE DEF r, i
    <3>6. r \in Paths(T) /\ LineOf(T, p) = Append(LineOf(T, r), T[p].san)
      BY <1>1, <3>5, LineNext DEF Grown
    <3>7. LineOf(T, r) = LineOf(T, q) /\ T[p].san = m.san
      <4>1. LineOf(T, r) \in Line /\ T[p].san \in Names
        BY <3>6, LineIs DEF Tree, Names
      <4>2. \A k1, k2 \in Line : \A e1, e2 \in Names :
              Append(k1, e1) = Append(k2, e2) => k1 = k2 /\ e1 = e2
        BY AppendInjective DEF Line
      <4>3. Append(LineOf(T, r), T[p].san) = Append(LineOf(T, q), m.san) /\ m.san \in Names
        BY <3>1, <3>6 DEF Names
      <4> DEFINE k1 == LineOf(T, r)
      <4> DEFINE k2 == LineOf(T, q)
      <4> DEFINE e1 == T[p].san
      <4> DEFINE e2 == m.san
      <4>4. k1 \in Line /\ k2 \in Line /\ e1 \in Names /\ e2 \in Names /\ Append(k1, e1) = Append(k2, e2)
        BY <3>2, <4>1, <4>3
      <4> HIDE DEF k1, k2, e1, e2
      <4>5. k1 = k2 /\ e1 = e2
        BY <4>2, <4>4
      <4>6. QED
        BY <4>5 DEF k1, k2, e1, e2
    <3>8. r = q
      BY <1>9, <3>6, <3>7 DEF Twinless
    <3>9. i < k
      BY <1>2, <3>5, <3>8
    <3>10. i \in SameName(T, q, m)
      BY <1>2, <3>5, <3>7, <3>8, <3>9 DEF SameName, k
    <3>11. QED
      BY <1>9, <3>10
  <2>3. ASSUME NEW p \in Paths(U), NEW r \in Paths(U), LineOf(U, p) = LineOf(U, r)
        PROVE  p = r
    BY <1>4, <1>8, <1>9, <2>2, <2>3 DEF Twinless
  <2>4. QED
    BY <2>3 DEF Twinless
<1>10. QED
  BY <1>4, <1>7, <1>8, <1>9 DEF U, k

(* Nodes that differ in their lines differ in the squares of their moves.   *)
LEMMA TwinlessSquares ==
  ASSUME NEW T, Tree(T), Twinless(T)
  PROVE  SquaresDiffer(T)
<1> SUFFICES ASSUME NEW p \in Paths(T) \ {<< >>}, NEW r \in Paths(T) \ {<< >>},
                    Front(p) = Front(r), T[p].move = T[r].move
             PROVE  p = r
  BY DEF SquaresDiffer
<1> DEFINE q == Front(p)
<1>1. /\ p \in Path /\ r \in Path /\ T[p] \in Moves /\ T[r] \in Moves
  BY DEF Tree, Grown
<1>2. /\ q \in Path /\ Last(p) \in Nat /\ p = Append(q, Last(p))
      /\ Last(r) \in Nat /\ r = Append(q, Last(r))
  BY <1>1, Parted
<1> HIDE DEF q
<1>3. LineOf(T, p) = Append(LineOf(T, q), T[p].san) /\ LineOf(T, r) = Append(LineOf(T, q), T[r].san)
  <2>1. LineOf(T, Append(q, Last(p))) = Append(LineOf(T, q), T[Append(q, Last(p))].san)
    BY <1>2, LineNext
  <2>2. LineOf(T, Append(q, Last(r))) = Append(LineOf(T, q), T[Append(q, Last(r))].san)
    BY <1>2, LineNext
  <2>3. QED
    BY <1>2, <2>1, <2>2
<1>4. T[p].san = T[r].san
  BY <1>1, GameTreeAssumption
<1>5. QED
  BY <1>3, <1>4 DEF Twinless

LEMMA PushedSquares ==
  ASSUME NEW T, Tree(T), NEW q \in Paths(T), NEW m, SquaresDiffer(T),
         \A i \in Nat : Append(q, i) \in Paths(T) => T[Append(q, i)].move # m.move
  PROVE  SquaresDiffer(Push(T, q, m))
<1> DEFINE k == Kids(T, q)
<1> DEFINE a == Append(q, k)
<1> DEFINE U == Push(T, q, m)
<1>1. q \in Path /\ Paths(T) \subseteq Path
  BY DEF Tree, Grown
<1>2. k \in Nat /\ a \notin Paths(T)
  BY <1>1, KidsAre
<1>3. Paths(U) = Paths(T) \cup {a} /\ U[a] = m /\ \A p \in Paths(T) : U[p] = T[p]
  BY <1>1, <1>2, PushIs
<1>4. Front(a) = q
  BY <1>1, <1>2, Appended
<1> HIDE DEF k, U, a
<1>5. ASSUME NEW r \in Paths(T) \ {<< >>}, Front(r) = q
      PROVE  T[r].move # m.move
  <2>1. Last(r) \in Nat /\ r = Append(q, Last(r))
    BY <1>1, <1>5, Parted
  <2>2. QED
    BY <2>1
<1>6. ASSUME NEW p \in Paths(U) \ {<< >>}, NEW r \in Paths(U) \ {<< >>},
             Front(p) = Front(r), U[p].move = U[r].move
      PROVE  p = r
  <2>1. CASE p \in Paths(T) /\ r \in Paths(T)
    BY <1>3, <1>6, <2>1 DEF SquaresDiffer
  <2>2. CASE p = a /\ r \in Paths(T)
    BY <1>3, <1>4, <1>5, <1>6, <2>2
  <2>3. CASE p \in Paths(T) /\ r = a
    BY <1>3, <1>4, <1>5, <1>6, <2>3
  <2>4. CASE p = a /\ r = a
    BY <2>4
  <2>5. QED
    BY <1>3, <2>1, <2>2, <2>3, <2>4
<1>7. SquaresDiffer(U)
  BY <1>6 DEF SquaresDiffer
<1>8. QED
  BY <1>7 DEF U

-----------------------------------------------------------------------------
(* The children of a node are put in another order. Was() is the path that  *)
(* a path had before.                                                       *)

Below(q, p) == Len(p) >= Len(q) + 1 /\ IsPrefix(q, p)

Was(q, o, p) == IF Below(q, p) THEN [p EXCEPT ![Len(q) + 1] = o[@ + 1]] ELSE p

Named(q, o, p) == Below(q, p) => p[Len(q) + 1] + 1 \in DOMAIN o

LEMMA BelowIs ==
  ASSUME NEW q \in Path, NEW p \in Path
  PROVE  /\ Below(q, p) <=> Len(p) >= Len(q) + 1 /\ \A i \in 1 .. Len(q) : q[i] = p[i]
         /\ Below(q, p) => Len(q) + 1 \in 1 .. Len(p) /\ p[Len(q) + 1] \in Nat
<1>1. Len(q) \in Nat /\ Len(p) \in Nat
  BY PathIs
<1>2. Len(p) >= Len(q) + 1 => Len(q) <= Len(p) /\ Len(q) + 1 \in 1 .. Len(p)
  BY <1>1
<1>3. QED
  BY <1>2, PrefixIs, PathIs, Zenon DEF Below

LEMMA BelowNext ==
  ASSUME NEW q \in Path, NEW r \in Path, NEW i \in Nat
  PROVE  /\ Below(q, Append(r, i)) <=> r = q \/ Below(q, r)
         /\ r = q => Append(r, i)[Len(q) + 1] = i /\ ~Below(q, r)
         /\ Below(q, r) => Append(r, i)[Len(q) + 1] = r[Len(q) + 1]
<1> DEFINE a == Append(r, i)
<1>1. /\ a \in Path /\ Len(a) = Len(r) + 1 /\ \A j \in 1 .. Len(r) : a[j] = r[j]
      /\ a[Len(r) + 1] = i /\ Len(q) \in Nat /\ Len(r) \in Nat
  BY Appended, PathIs
<1> HIDE DEF a
<1>2. CASE Below(q, r)
  <2>1. Len(r) >= Len(q) + 1 /\ \A j \in 1 .. Len(q) : q[j] = r[j]
    BY <1>2, BelowIs
  <2>2. Len(a) >= Len(q) + 1 /\ Len(q) + 1 \in 1 .. Len(r) /\ \A j \in 1 .. Len(q) : j \in 1 .. Len(r)
    BY <1>1, <2>1
  <2>3. Below(q, a)
    BY <1>1, <2>1, <2>2, BelowIs
  <2>4. r # q
    BY <1>1, <2>1
  <2>5. QED
    BY <1>1, <1>2, <2>2, <2>3, <2>4 DEF a
<1>3. CASE r = q
  <2>1. Below(q, a) /\ ~(Len(r) >= Len(q) + 1)
    BY <1>1, <1>3, BelowIs
  <2>2. QED
    BY <1>1, <1>3, <2>1, BelowIs DEF a
<1>4. CASE ~Below(q, r) /\ r # q
  <2>1. SUFFICES ASSUME Below(q, a)
                 PROVE  FALSE
    BY <1>4 DEF a
  <2>2. Len(a) >= Len(q) + 1 /\ \A j \in 1 .. Len(q) : q[j] = a[j]
    BY <1>1, <2>1, BelowIs
  <2>3. \A j \in 1 .. Len(q) : j \in 1 .. Len(r)
    BY <1>1, <2>2
  <2>4. \A j \in 1 .. Len(q) : q[j] = r[j]
    BY <1>1, <2>2, <2>3, Zenon
  <2>5. Len(r) # Len(q)
    BY <1>4, <2>4, PathEqual
  <2>6. Len(r) >= Len(q) + 1
    BY <1>1, <2>2, <2>5
  <2>7. QED
    BY <1>4, <2>4, <2>6, BelowIs
<1>5. QED
  BY <1>2, <1>3, <1>4

LEMMA PutAt ==
  ASSUME NEW q \in Path, NEW p \in Path, Below(q, p), NEW i \in Nat
  PROVE  LET n == Len(q) + 1
             t == [p EXCEPT ![n] = i]
         IN  /\ t \in Path /\ Len(t) = Len(p) /\ t[n] = i /\ Below(q, t)
             /\ \A j \in 1 .. Len(p) : j # n => t[j] = p[j]
<1> DEFINE n == Len(q) + 1
<1> DEFINE t == [p EXCEPT ![n] = i]
<1>1. n \in 1 .. Len(p) /\ Len(q) \in Nat /\ Len(p) \in Nat
  BY BelowIs, PathIs
<1>2. /\ t \in Path /\ Len(t) = Len(p)
      /\ \A j \in 1 .. Len(p) : t[j] = IF j = n THEN i ELSE p[j]
  BY <1>1, ExceptSeq DEF Path
<1>3. (\A j \in 1 .. Len(q) : q[j] = p[j]) /\ Len(p) >= Len(q) + 1
  BY BelowIs
<1>4. \A j \in 1 .. Len(q) : j \in 1 .. Len(p) /\ j # n
  BY <1>1
<1> HIDE DEF n, t
<1>5. \A j \in 1 .. Len(q) : q[j] = t[j]
  BY <1>2, <1>3, <1>4
<1>6. Below(q, t)
  BY <1>2, <1>3, <1>5, BelowIs
<1>7. QED
  BY <1>1, <1>2, <1>6 DEF t, n

LEMMA WasIs ==
  ASSUME NEW q \in Path, NEW p \in Path, NEW o \in Path, Named(q, o, p)
  PROVE  LET w == Was(q, o, p)
         IN  /\ w \in Path /\ Len(w) = Len(p) /\ (Below(q, w) <=> Below(q, p))
             /\ ~Below(q, p) => w = p
             /\ Below(q, p) => w[Len(q) + 1] = o[p[Len(q) + 1] + 1]
             /\ \A j \in 1 .. Len(p) : j # Len(q) + 1 => w[j] = p[j]
<1>1. CASE ~Below(q, p)
  BY <1>1 DEF Was
<1>2. CASE Below(q, p)
  <2> DEFINE i == o[p[Len(q) + 1] + 1]
  <2>1. i \in Nat
    BY <1>2, PathIs DEF Named
  <2>2. Was(q, o, p) = [p EXCEPT ![Len(q) + 1] = i]
    BY <1>2 DEF Was
  <2> HIDE DEF i
  <2> DEFINE t == [p EXCEPT ![Len(q) + 1] = i]
  <2>3. /\ t \in Path /\ Len(t) = Len(p) /\ t[Len(q) + 1] = i /\ Below(q, t)
        /\ \A j \in 1 .. Len(p) : j # Len(q) + 1 => t[j] = p[j]
    BY <1>2, <2>1, PutAt
  <2> HIDE DEF t
  <2>4. Was(q, o, p) = t
    BY <2>2 DEF t
  <2>5. QED
    BY <1>2, <2>3, <2>4 DEF i
<1>3. QED
  BY <1>1, <1>2

LEMMA WasOnce ==
  ASSUME NEW q \in Path, NEW p \in Path, NEW r \in Path, NEW o \in Path,
         Named(q, o, p), Named(q, o, r), \A i, j \in DOMAIN o : o[i] = o[j] => i = j,
         Was(q, o, p) = Was(q, o, r)
  PROVE  p = r
<1> DEFINE n == Len(q) + 1
<1> DEFINE w == Was(q, o, p)
<1>1. /\ Len(p) = Len(w) /\ (Below(q, w) <=> Below(q, p)) /\ (~Below(q, p) => w = p)
      /\ (Below(q, p) => w[n] = o[p[n] + 1]) /\ \A j \in 1 .. Len(p) : j # n => w[j] = p[j]
  BY WasIs
<1>2. /\ Len(r) = Len(w) /\ (Below(q, w) <=> Below(q, r)) /\ (~Below(q, r) => w = r)
      /\ (Below(q, r) => w[n] = o[r[n] + 1]) /\ \A j \in 1 .. Len(r) : j # n => w[j] = r[j]
  BY WasIs
<1> HIDE DEF w
<1>3. CASE ~Below(q, p)
  BY <1>1, <1>2, <1>3
<1>4. CASE Below(q, p)
  <2>1. p[n] \in Nat /\ r[n] \in Nat /\ p[n] + 1 \in DOMAIN o /\ r[n] + 1 \in DOMAIN o
    BY <1>1, <1>2, <1>4, BelowIs DEF Named
  <2>2. o[p[n] + 1] = o[r[n] + 1]
    BY <1>1, <1>2, <1>4
  <2>3. p[n] = r[n]
    BY <2>1, <2>2
  <2>4. \A j \in 1 .. Len(p) : p[j] = r[j]
    BY <1>1, <1>2, <2>3
  <2>5. QED
    BY <1>1, <1>2, <2>4, PathEqual
<1>5. QED
  BY <1>3, <1>4

LEMMA WasNext ==
  ASSUME NEW q \in Path, NEW r \in Path, NEW o \in Path, NEW i \in Nat,
         Named(q, o, Append(r, i))
  PROVE  /\ Below(q, r) => Named(q, o, r) /\ Was(q, o, Append(r, i)) = Append(Was(q, o, r), i)
         /\ r = q => i + 1 \in DOMAIN o /\ Was(q, o, Append(r, i)) = Append(q, o[i + 1])
         /\ r # q /\ ~Below(q, r) => Was(q, o, Append(r, i)) = Append(r, i)
<1> DEFINE n == Len(q) + 1
<1> DEFINE a == Append(r, i)
<1> DEFINE w == Was(q, o, a)
<1>1. /\ a \in Path /\ Len(a) = Len(r) + 1 /\ \A j \in 1 .. Len(r) : a[j] = r[j]
      /\ a[Len(r) + 1] = i /\ Len(q) \in Nat /\ Len(r) \in Nat
  BY Appended, PathIs
<1>2. /\ w \in Path /\ Len(w) = Len(a)
      /\ ~Below(q, a) => w = a
      /\ Below(q, a) => w[n] = o[a[n] + 1]
      /\ \A j \in 1 .. Len(a) : j # n => w[j] = a[j]
  BY <1>1, WasIs
<1>3. /\ Below(q, a) <=> r = q \/ Below(q, r)
      /\ r = q => a[n] = i /\ ~Below(q, r)
      /\ Below(q, r) => a[n] = r[n]
  BY BelowNext
<1>4. Below(q, a) => a[n] + 1 \in DOMAIN o
  BY DEF Named
<1> HIDE DEF a, w
<1>5. \A j \in 1 .. Len(r) + 1 : j = Len(r) + 1 \/ j \in 1 .. Len(r)
  BY <1>1
<1>6. CASE Below(q, r)
  <2>1. Named(q, o, r)
    BY <1>3, <1>4, <1>6 DEF Named
  <2> DEFINE v == Was(q, o, r)
  <2>2. /\ v \in Path /\ Len(v) = Len(r) /\ v[n] = o[r[n] + 1]
        /\ \A j \in 1 .. Len(r) : j # n => v[j] = r[j]
    BY <1>6, <2>1, WasIs
  <2> HIDE DEF v
  <2> DEFINE b == Append(v, i)
  <2>3. /\ b \in Path /\ Len(b) = Len(r) + 1 /\ b[Len(r) + 1] = i
        /\ \A j \in 1 .. Len(r) : b[j] = v[j]
    <3>1. /\ b \in Path /\ Len(b) = Len(v) + 1 /\ b[Len(v) + 1] = i
          /\ \A j \in 1 .. Len(v) : b[j] = v[j]
      BY <2>2, Appended
    <3> HIDE DEF b
    <3>2. QED
      BY <2>2, <3>1
  <2> HIDE DEF b
  <2>4. n \in 1 .. Len(r) /\ Len(r) + 1 # n /\ Len(r) + 1 \in 1 .. Len(a)
        /\ \A j \in 1 .. Len(r) : j \in 1 .. Len(a)
    BY <1>1, <1>6, BelowIs
  <2>5. \A j \in 1 .. Len(r) : w[j] = b[j]
    <3>1. w[n] = o[r[n] + 1] /\ \A j \in 1 .. Len(r) : j # n => w[j] = r[j]
      BY <1>1, <1>2, <1>3, <1>6, <2>4
    <3>2. QED
      BY <2>2, <2>3, <2>4, <3>1
  <2>6. w[Len(r) + 1] = b[Len(r) + 1]
    BY <1>1, <1>2, <2>3, <2>4
  <2>7. Len(w) = Len(b)
    BY <1>1, <1>2, <2>3
  <2>8. \A j \in 1 .. Len(w) : w[j] = b[j]
    BY <1>1, <1>2, <1>5, <2>5, <2>6
  <2>9. w = b
    BY <1>2, <2>3, <2>7, <2>8, PathEqual
  <2>10. QED
    BY <1>3, <1>6, <2>1, <2>9 DEF w, a, b, v
<1>7. CASE r = q
  <2>1. Below(q, a) /\ a[n] = i /\ i + 1 \in DOMAIN o /\ w[n] = o[i + 1] /\ o[i + 1] \in Nat
    BY <1>2, <1>3, <1>4, <1>7, PathIs
  <2> DEFINE e == o[i + 1]
  <2> DEFINE b == Append(q, e)
  <2>2. /\ b \in Path /\ Len(b) = Len(r) + 1 /\ b[Len(r) + 1] = e
        /\ \A j \in 1 .. Len(r) : b[j] = q[j]
    BY <1>7, <2>1, Appended
  <2> HIDE DEF b
  <2>3. \A j \in 1 .. Len(r) : j \in 1 .. Len(a) /\ j # n
    BY <1>1, <1>7
  <2>4. \A j \in 1 .. Len(r) : w[j] = b[j]
    BY <1>1, <1>2, <1>7, <2>2, <2>3
  <2>5. w[Len(r) + 1] = b[Len(r) + 1]
    BY <1>7, <2>1, <2>2
  <2>6. \A j \in 1 .. Len(w) : w[j] = b[j]
    BY <1>1, <1>2, <1>5, <2>4, <2>5
  <2>7. w = b
    BY <1>1, <1>2, <2>2, <2>6, PathEqual
  <2>8. QED
    BY <1>3, <1>7, <2>1, <2>7 DEF w, a, b
<1>8. CASE r # q /\ ~Below(q, r)
  BY <1>2, <1>3, <1>8 DEF w, a
<1>9. QED
  BY <1>6, <1>7, <1>8

LEMMA WasUpto ==
  ASSUME NEW q \in Path, NEW p \in Path, NEW o \in Path, Named(q, o, p), NEW k \in 0 .. Len(p)
  PROVE  /\ Named(q, o, SubSeq(p, 1, k))
         /\ Was(q, o, SubSeq(p, 1, k)) = SubSeq(Was(q, o, p), 1, k)
<1> DEFINE n == Len(q) + 1
<1> DEFINE s == SubSeq(p, 1, k)
<1> DEFINE w == Was(q, o, p)
<1> DEFINE x == SubSeq(w, 1, k)
<1>1. /\ s \in Path /\ Len(s) = k /\ (\A j \in 1 .. k : s[j] = p[j])
      /\ Len(q) \in Nat /\ Len(p) \in Nat
  BY Upto, PathIs
<1>2. /\ w \in Path /\ Len(w) = Len(p) /\ (~Below(q, p) => w = p)
      /\ Below(q, p) => w[n] = o[p[n] + 1]
      /\ \A j \in 1 .. Len(p) : j # n => w[j] = p[j]
  BY WasIs
<1> HIDE DEF s, w
<1>3. x \in Path /\ Len(x) = k /\ \A j \in 1 .. k : x[j] = w[j]
  BY <1>2, Upto
<1> HIDE DEF x
<1>4. Below(q, s) <=> Below(q, p) /\ k >= n
  <2>1. /\ Below(q, p) <=> Len(p) >= n /\ \A j \in 1 .. Len(q) : q[j] = p[j]
        /\ Below(q, s) <=> k >= n /\ \A j \in 1 .. Len(q) : q[j] = s[j]
    BY <1>1, BelowIs
  <2>2. k >= n => Len(p) >= n /\ \A j \in 1 .. Len(q) : j \in 1 .. k
    BY <1>1
  <2>3. k >= n => \A j \in 1 .. Len(q) : s[j] = p[j]
    BY <1>1, <2>2
  <2>4. QED
    BY <2>1, <2>2, <2>3
<1>5. Below(q, s) => n \in 1 .. k /\ s[n] = p[n]
  BY <1>1, <1>4
<1>6. Named(q, o, s)
  BY <1>4, <1>5 DEF Named
<1> DEFINE v == Was(q, o, s)
<1>7. /\ v \in Path /\ Len(v) = k /\ (~Below(q, s) => v = s)
      /\ Below(q, s) => v[n] = o[s[n] + 1]
      /\ \A j \in 1 .. k : j # n => v[j] = s[j]
  BY <1>1, <1>6, WasIs
<1> HIDE DEF v
<1>8. ASSUME NEW j \in 1 .. k
      PROVE  v[j] = x[j]
  <2>1. j \in 1 .. Len(p)
    BY <1>1
  <2>2. CASE j # n
    BY <1>1, <1>2, <1>3, <1>7, <2>1, <2>2
  <2>3. CASE j = n /\ Below(q, s)
    <3>1. v[n] = o[p[n] + 1] /\ w[n] = o[p[n] + 1]
      BY <1>2, <1>4, <1>5, <1>7, <2>3
    <3>2. x[n] = w[n]
      BY <1>3, <1>5, <2>3
    <3>3. QED
      BY <2>3, <3>1, <3>2
  <2>4. CASE j = n /\ ~Below(q, s)
    <3>1. k >= n /\ ~Below(q, p)
      BY <1>1, <1>4, <2>4
    <3>2. QED
      BY <1>1, <1>2, <1>3, <1>7, <2>4, <3>1
  <2>5. QED
    BY <2>2, <2>3, <2>4
<1>9. v = x
  BY <1>3, <1>7, <1>8, PathEqual
<1>10. QED
  BY <1>6, <1>9 DEF v, x, w, s

LEMMA ReorderIs ==
  ASSUME NEW T, Paths(T) \subseteq Path, NEW q \in Path, NEW o \in Path
  PROVE  LET R == Reorder(T, q, o)
         IN  /\ \A p : p \in Paths(R) <=>
                         p \in Path /\ Named(q, o, p) /\ Was(q, o, p) \in Paths(T)
             /\ \A p \in Paths(R) : R[p] = T[Was(q, o, p)]
<1> DEFINE n == Len(q) + 1
<1> DEFINE R == Reorder(T, q, o)
<1> DEFINE kept == {p \in Paths(T) : ~Below(q, p)}
<1> DEFINE moved == {[p EXCEPT ![n] = i - 1] :
                       p \in {r \in Paths(T) : Below(q, r)}, i \in DOMAIN o}
<1> DEFINE D == kept \cup {m \in moved : Was(q, o, m) \in Paths(T)}
<1>1. R = [p \in D |-> T[Was(q, o, p)]]
  BY DEF Reorder, Was, Below
<1>2. Len(o) \in Nat /\ DOMAIN o = 1 .. Len(o)
  BY PathIs
<1>3. \A i \in DOMAIN o : i - 1 \in Nat /\ (i - 1) + 1 = i
  BY <1>2
<1>4. ASSUME NEW p \in D
      PROVE  p \in Path /\ Named(q, o, p) /\ Was(q, o, p) \in Paths(T)
  <2>1. CASE p \in kept
    BY <2>1 DEF Named, Was
  <2>2. CASE p \in moved /\ Was(q, o, p) \in Paths(T)
    <3>1. PICK r \in Paths(T), i \in DOMAIN o : Below(q, r) /\ p = [r EXCEPT ![n] = i - 1]
      BY <2>2
    <3>2. p \in Path /\ p[n] = i - 1 /\ Below(q, p)
      <4> DEFINE j == i - 1
      <4>1. r \in Path /\ j \in Nat
        BY <1>3
      <4> HIDE DEF j
      <4> DEFINE t == [r EXCEPT ![n] = j]
      <4>2. p = t /\ Below(q, r)
        BY <3>1 DEF j
      <4>3. /\ t \in Path /\ Len(t) = Len(r) /\ t[n] = j /\ Below(q, t)
            /\ \A l \in 1 .. Len(r) : l # n => t[l] = r[l]
        <5>1. Below(q, r)
          BY <4>2
        <5>2. QED
          BY <4>1, <5>1, PutAt
      <4> HIDE DEF t
      <4>4. QED
        BY <4>2, <4>3 DEF j
    <3>3. Named(q, o, p)
      BY <1>3, <3>1, <3>2 DEF Named
    <3>4. QED
      BY <2>2, <3>2, <3>3
  <2>3. QED
    BY <2>1, <2>2
<1>5. ASSUME NEW p \in Path, Named(q, o, p), Was(q, o, p) \in Paths(T)
      PROVE  p \in D
  <2>1. CASE ~Below(q, p)
    BY <1>5, <2>1 DEF Was
  <2>2. CASE Below(q, p)
    <3> DEFINE r == Was(q, o, p)
    <3> DEFINE i == p[n] + 1
    <3>1. i \in DOMAIN o /\ i - 1 = p[n] /\ p[n] \in Nat
      BY <1>5, <2>2, BelowIs DEF Named
    <3>2. /\ r \in Paths(T) /\ r \in Path /\ Below(q, r) /\ Len(r) = Len(p)
          /\ \A j \in 1 .. Len(p) : j # n => r[j] = p[j]
      BY <1>5, <2>2, WasIs
    <3> HIDE DEF r
    <3> DEFINE t == [r EXCEPT ![n] = i - 1]
    <3>3. t \in moved
      BY <3>1, <3>2
    <3>4. t \in Path /\ Len(t) = Len(r) /\ t[n] = p[n] /\ \A j \in 1 .. Len(r) : j # n => t[j] = r[j]
      <4>1. t = [r EXCEPT ![n] = p[n]]
        BY <3>1
      <4> DEFINE e == p[n]
      <4>2. e \in Nat
        BY <3>1
      <4> HIDE DEF t, i, e
      <4> DEFINE u == [r EXCEPT ![n] = e]
      <4>3. u \in Path /\ Len(u) = Len(r) /\ u[n] = e /\ \A j \in 1 .. Len(r) : j # n => u[j] = r[j]
        BY <3>2, <4>2, PutAt
      <4>4. t = u
        BY <4>1 DEF e
      <4> HIDE DEF u
      <4>5. QED
        BY <4>3, <4>4 DEF e
    <3> HIDE DEF t, i
    <3>5. t = p
      BY <3>2, <3>4, PathEqual
    <3>6. QED
      BY <1>5, <3>3, <3>5
  <2>3. QED
    BY <2>1, <2>2
<1> HIDE DEF D
<1>6. Paths(R) = D /\ \A p \in D : R[p] = T[Was(q, o, p)]
  BY <1>1 DEF Paths
<1> HIDE DEF R
<1>7. QED
  BY <1>4, <1>5, <1>6 DEF R

Order(T, q, o) ==
  /\ o \in Path
  /\ \A i \in DOMAIN o : o[i] < Kids(T, q)
  /\ \A i, j \in DOMAIN o : o[i] = o[j] => i = j

LEMMA Reordered ==
  ASSUME NEW T, Tree(T), NEW q \in Paths(T), NEW o, Order(T, q, o)
  PROVE  LET R == Reorder(T, q, o)
         IN  /\ Tree(R) /\ (Twinless(T) => Twinless(R))
             /\ \A p \in Paths(R) : Was(q, o, p) \in Paths(T) /\ LineOf(R, p) = LineOf(T, Was(q, o, p))
             /\ \A p : p \in Paths(R) <=>
                         p \in Path /\ Named(q, o, p) /\ Was(q, o, p) \in Paths(T)
<1> DEFINE R == Reorder(T, q, o)
<1>1. /\ q \in Path /\ o \in Path /\ Paths(T) \subseteq Path /\ IsFiniteSet(Paths(T))
      /\ Grown(Paths(T)) /\ \A p \in Paths(T) : Len(p) <= MaxPly /\ T[p] \in Moves \cup {NoMove}
  BY DEF Tree, Grown, Order
<1>2. /\ \A p : p \in Paths(R) <=> p \in Path /\ Named(q, o, p) /\ Was(q, o, p) \in Paths(T)
      /\ \A p \in Paths(R) : R[p] = T[Was(q, o, p)]
  BY <1>1, ReorderIs
<1>3. /\ \A i, j \in DOMAIN o : o[i] = o[j] => i = j
      /\ \A i \in DOMAIN o : o[i] \in Nat /\ Append(q, o[i]) \in Paths(T)
      /\ Len(o) \in Nat /\ DOMAIN o = 1 .. Len(o)
  <2>1. \A i \in Nat : Append(q, i) \in Paths(T) <=> i < Kids(T, q)
    BY <1>1, KidsAre
  <2>2. QED
    BY <1>1, <2>1, PathIs DEF Order
<1> HIDE DEF R
<1>4. \A p \in Paths(R) : Len(Was(q, o, p)) = Len(p)
  BY <1>1, <1>2, WasIs
<1>5. \A p, r \in Paths(R) : Was(q, o, p) = Was(q, o, r) => p = r
  BY <1>1, <1>2, <1>3, WasOnce
<1>6. IsFiniteSet(Paths(R))
  <2> DEFINE f == [p \in Paths(R) |-> Was(q, o, p)]
  <2>1. f \in [Paths(R) -> Paths(T)] /\ \A p, r \in Paths(R) : f[p] = f[r] => p = r
    BY <1>2, <1>5
  <2> HIDE DEF f
  <2>2. f \in Injection(Paths(R), Paths(T))
    BY <2>1 DEF Injection, IsInjective
  <2>3. QED
    BY <1>1, <2>2, FS_Injection
<1>7. << >> \in Paths(R) /\ q \in Paths(R)
  <2>1. << >> \in Path /\ << >> \in Paths(T) /\ Len(<< >>) = 0 /\ Len(q) \in Nat
    BY <1>1, PathIs DEF Grown
  <2>2. ~Below(q, << >>) /\ ~Below(q, q)
    BY <1>1, <2>1, BelowIs
  <2>3. QED
    BY <1>1, <1>2, <2>1, <2>2 DEF Named, Was
<1>8. ASSUME NEW r \in Path, NEW i \in Nat, Append(r, i) \in Paths(R)
      PROVE  r \in Paths(R) /\ \A j \in 0 .. i : Append(r, j) \in Paths(R)
  <2>1. Named(q, o, Append(r, i)) /\ Was(q, o, Append(r, i)) \in Paths(T) /\ Append(r, i) \in Path
    BY <1>2, <1>8
  <2>2. \A j \in 0 .. i : j \in Nat /\ Append(r, j) \in Path
    BY Appended
  <2>3. CASE Below(q, r)
    <3> DEFINE v == Was(q, o, r)
    <3>1. Named(q, o, r) /\ Append(v, i) \in Paths(T)
      <4>1. Named(q, o, r) /\ Was(q, o, Append(r, i)) = Append(v, i)
        BY <1>1, <2>1, <2>3, WasNext
      <4>2. QED
        BY <2>1, <4>1, Zenon
    <3>2. v \in Path
      BY <1>1, <3>1, WasIs
    <3> HIDE DEF v
    <3>3. v \in Paths(T) /\ \A j \in 0 .. i : Append(v, j) \in Paths(T)
      BY <1>1, <3>1, <3>2 DEF Grown
    <3>4. ASSUME NEW j \in 0 .. i
          PROVE  Append(r, j) \in Paths(R)
      <4>1. Below(q, Append(r, j)) /\ Append(r, j)[Len(q) + 1] = r[Len(q) + 1]
        BY <1>1, <2>2, <2>3, BelowNext
      <4>2. Named(q, o, Append(r, j))
        BY <2>3, <3>1, <4>1 DEF Named
      <4>3. Was(q, o, Append(r, j)) = Append(v, j)
        BY <1>1, <2>2, <2>3, <4>2, WasNext DEF v
      <4>4. QED
        BY <1>2, <2>2, <3>3, <4>2, <4>3
    <3>5. r \in Paths(R)
      BY <1>2, <3>1, <3>3 DEF v
    <3>6. QED
      BY <3>4, <3>5
  <2>4. CASE r = q
    <3>1. i + 1 \in DOMAIN o
      BY <1>1, <2>1, <2>4, WasNext
    <3>2. ASSUME NEW j \in 0 .. i
          PROVE  Append(r, j) \in Paths(R)
      <4>1. j + 1 \in DOMAIN o
        BY <1>3, <3>1
      <4>2. Append(r, j)[Len(q) + 1] = j
        BY <1>1, <2>2, <2>4, BelowNext
      <4>3. Named(q, o, Append(r, j))
        BY <4>1, <4>2 DEF Named
      <4>4. Was(q, o, Append(r, j)) = Append(q, o[j + 1])
        BY <1>1, <2>2, <2>4, <4>3, WasNext
      <4>5. QED
        BY <1>2, <1>3, <2>2, <4>1, <4>3, <4>4
    <3>3. QED
      BY <1>7, <2>4, <3>2
  <2>5. CASE r # q /\ ~Below(q, r)
    <3>1. Append(r, i) \in Paths(T)
      <4>1. Was(q, o, Append(r, i)) = Append(r, i)
        BY <1>1, <2>1, <2>5, WasNext
      <4>2. QED
        BY <2>1, <4>1, Zenon
    <3>2. r \in Paths(T) /\ \A j \in 0 .. i : Append(r, j) \in Paths(T)
      BY <1>1, <3>1 DEF Grown
    <3>3. \A j \in 0 .. i : ~Below(q, Append(r, j))
      BY <1>1, <2>2, <2>5, BelowNext
    <3>4. QED
      BY <1>2, <2>2, <2>5, <3>2, <3>3 DEF Named, Was
  <2>6. QED
    BY <2>3, <2>4, <2>5
<1>9. Tree(R)
  <2>1. Paths(R) \subseteq Path
    BY <1>2
  <2>2. Grown(Paths(R))
    BY <1>7, <1>8, <2>1 DEF Grown
  <2>3. ASSUME NEW p \in Paths(R)
        PROVE  R[p] = NoMove <=> p = << >>
    <3>1. R[p] = T[Was(q, o, p)] /\ Was(q, o, p) \in Paths(T)
      BY <1>2
    <3>2. R[p] = NoMove <=> Was(q, o, p) = << >>
      BY <3>1 DEF Tree
    <3>3. p \in Path /\ Was(q, o, p) \in Path
      BY <1>1, <2>1, <3>1
    <3>4. QED
      BY <1>4, <3>2, <3>3, PathIs
  <2>4. QED
    BY <1>1, <1>2, <1>4, <1>6, <2>2, <2>3 DEF Tree
<1>10. ASSUME NEW p \in Paths(R)
       PROVE  LineOf(R, p) = LineOf(T, Was(q, o, p))
  <2>1. p \in Path /\ Named(q, o, p) /\ Len(p) \in Nat /\ Len(Was(q, o, p)) = Len(p)
    BY <1>2, <1>4, PathIs
  <2>2. \A i \in 1 .. Len(p) : R[SubSeq(p, 1, i)] = T[SubSeq(Was(q, o, p), 1, i)]
    <3> SUFFICES ASSUME NEW i \in 1 .. Len(p)
                 PROVE  R[SubSeq(p, 1, i)] = T[SubSeq(Was(q, o, p), 1, i)]
      OBVIOUS
    <3>1. i \in 0 .. Len(p)
      BY <2>1
    <3>2. SubSeq(p, 1, i) \in Paths(R)
      BY <1>9, <3>1, UptoIn
    <3>3. Was(q, o, SubSeq(p, 1, i)) = SubSeq(Was(q, o, p), 1, i)
      BY <1>1, <2>1, <3>1, WasUpto
    <3>4. QED
      BY <1>2, <3>2, <3>3
  <2>3. QED
    BY <2>1, <2>2, Zenon DEF LineOf
<1>11. Twinless(T) => Twinless(R)
  BY <1>2, <1>5, <1>10 DEF Twinless
<1>12. QED
  BY <1>2, <1>9, <1>10, <1>11 DEF R

(* Where a path goes.                                                       *)
LEMMA Kept ==
  ASSUME NEW T, Tree(T), NEW q \in Paths(T), NEW o, Order(T, q, o), NEW r \in Paths(T)
  PROVE  LET R == Reorder(T, q, o)
             n == Len(q) + 1
         IN  /\ ~Below(q, r) => r \in Paths(R) /\ Was(q, o, r) = r
             /\ \A i \in DOMAIN o : Below(q, r) /\ o[i] = r[n] =>
                  [r EXCEPT ![n] = i - 1] \in Paths(R) /\ Was(q, o, [r EXCEPT ![n] = i - 1]) = r
<1> DEFINE n == Len(q) + 1
<1>1. q \in Path /\ r \in Path /\ o \in Path
  BY DEF Tree, Grown, Order
<1>2. \A p : p \in Paths(Reorder(T, q, o)) <=>
               p \in Path /\ Named(q, o, p) /\ Was(q, o, p) \in Paths(T)
  BY Reordered
<1>3. ~Below(q, r) => r \in Paths(Reorder(T, q, o)) /\ Was(q, o, r) = r
  BY <1>1, <1>2 DEF Named, Was
<1>4. ASSUME NEW i \in DOMAIN o, Below(q, r), o[i] = r[n]
      PROVE  /\ [r EXCEPT ![n] = i - 1] \in Paths(Reorder(T, q, o))
             /\ Was(q, o, [r EXCEPT ![n] = i - 1]) = r
  <2> DEFINE e == i - 1
  <2> DEFINE t == [r EXCEPT ![n] = e]
  <2>1. e \in Nat /\ e + 1 = i
    BY <1>1, PathIs
  <2> HIDE DEF e
  <2>2. /\ t \in Path /\ Len(t) = Len(r) /\ t[n] = e /\ Below(q, t)
        /\ \A j \in 1 .. Len(r) : j # n => t[j] = r[j]
    BY <1>1, <1>4, <2>1, PutAt
  <2> HIDE DEF t
  <2>3. Named(q, o, t)
    BY <2>1, <2>2 DEF Named
  <2> DEFINE w == Was(q, o, t)
  <2>4. /\ w \in Path /\ Len(w) = Len(t) /\ w[n] = o[t[n] + 1]
        /\ \A j \in 1 .. Len(t) : j # n => w[j] = t[j]
    BY <1>1, <2>2, <2>3, WasIs
  <2> HIDE DEF w
  <2>5. w[n] = r[n]
    BY <1>4, <2>1, <2>2, <2>4
  <2>6. w = r
    BY <1>1, <2>2, <2>4, <2>5, PathEqual
  <2>7. t \in Paths(Reorder(T, q, o)) /\ Was(q, o, t) = r
    BY <1>2, <2>2, <2>3, <2>6 DEF w
  <2>8. QED
    BY <2>7 DEF t, e
<1>5. QED
  BY <1>3, <1>4

LEMMA ChildOnPath ==
  ASSUME NEW T, Tree(T), NEW q \in Path, NEW r \in Paths(T), Below(q, r)
  PROVE  r[Len(q) + 1] \in Nat /\ r[Len(q) + 1] < Kids(T, q)
<1> DEFINE n == Len(q) + 1
<1> DEFINE i == r[n]
<1>1. r \in Path /\ Len(q) \in Nat /\ Len(r) \in Nat
  BY PathIs DEF Tree, Grown
<1>2. n \in 1 .. Len(r) /\ i \in Nat /\ n - 1 = Len(q) /\ n \in 0 .. Len(r)
  BY <1>1, BelowIs
<1>3. q = SubSeq(r, 1, Len(q))
  BY <1>1, PrefixIs DEF Below
<1>4. SubSeq(r, 1, n) = Append(q, i)
  <2>1. SubSeq(r, 1, n) = Append(SubSeq(r, 1, n - 1), r[n])
    BY <1>1, <1>2, UptoNext
  <2>2. QED
    BY <1>2, <1>3, <2>1
<1>5. Append(q, i) \in Paths(T)
  BY <1>2, <1>4, UptoIn
<1> HIDE DEF i
<1>6. i < Kids(T, q)
  BY <1>2, <1>5, KidsAre
<1>7. QED
  BY <1>2, <1>6 DEF i

(* The children but one, in their order.                                    *)
LEMMA OrderWithout ==
  ASSUME NEW k \in Nat, NEW g \in 0 .. k - 1
  PROVE  LET o == RemoveAt([i \in 1 .. k |-> i - 1], g + 1)
         IN  /\ o \in Path /\ Len(o) = k - 1
             /\ \A i \in 1 .. k - 1 : o[i] = IF i <= g THEN i - 1 ELSE i
<1> DEFINE s == [i \in 1 .. k |-> i - 1]
<1> DEFINE a == SubSeq(s, 1, g + 1 - 1)
<1> DEFINE b == SubSeq(s, g + 1 + 1, Len(s))
<1> DEFINE o == RemoveAt(s, g + 1)
<1>1. s \in Path /\ Len(s) = k /\ \A i \in 1 .. k : s[i] = i - 1
  <2>1. s \in [1 .. k -> Nat]
    OBVIOUS
  <2>2. s \in Path
    BY <2>1, SeqDef DEF Path
  <2>3. DOMAIN s = 1 .. k
    OBVIOUS
  <2>4. Len(s) = k
    BY <2>2, <2>3, PathIs
  <2>5. QED
    BY <2>2, <2>4
<1>2. o = a \o b
  BY DEF RemoveAt
<1> HIDE DEF s
<1>3. a \in Path /\ Len(a) = g /\ \A i \in 1 .. g : a[i] = i - 1
  <2>1. g + 1 - 1 = g /\ g \in 0 .. Len(s) /\ \A i \in 1 .. g : i \in 1 .. k
    BY <1>1
  <2> DEFINE c == SubSeq(s, 1, g)
  <2>2. c \in Path /\ Len(c) = g /\ \A i \in 1 .. g : c[i] = s[i]
    BY <1>1, <2>1, Upto
  <2>3. a = c
    BY <2>1
  <2> HIDE DEF a, c
  <2>4. QED
    BY <1>1, <2>1, <2>2, <2>3
<1>4. b \in Path /\ Len(b) = k - g - 1 /\ \A i \in 1 .. k - g - 1 : b[i] = i + g
  <2> DEFINE m == g + 2
  <2>1. m \in Int /\ k \in Int /\ g + 1 + 1 = m /\ b = SubSeq(s, m, k)
    BY <1>1
  <2>2. \A i \in m .. k : s[i] \in Nat
    BY <1>1
  <2> HIDE DEF m
  <2>3. /\ SubSeq(s, m, k) \in Seq(Nat)
        /\ Len(SubSeq(s, m, k)) = (IF m <= k THEN k - m + 1 ELSE 0)
        /\ \A i \in 1 .. k - m + 1 : SubSeq(s, m, k)[i] = s[m + i - 1]
    BY <2>1, <2>2, SubSeqProperties, SMT
  <2> HIDE DEF b
  <2>4. Len(b) = k - g - 1
    BY <2>1, <2>3 DEF m
  <2>5. \A i \in 1 .. k - g - 1 : i \in 1 .. k - m + 1 /\ m + i - 1 \in 1 .. k /\ m + i - 1 - 1 = i + g
    BY DEF m
  <2>6. \A i \in 1 .. k - g - 1 : b[i] = i + g
    BY <1>1, <2>1, <2>3, <2>5
  <2>7. QED
    BY <2>1, <2>3, <2>4, <2>6 DEF Path
<1> HIDE DEF a, b
<1>5. /\ a \o b \in Path /\ Len(a \o b) = Len(a) + Len(b)
      /\ \A i \in 1 .. Len(a) + Len(b) : (a \o b)[i] = IF i <= Len(a) THEN a[i] ELSE b[i - Len(a)]
  <2>1. a \in Seq(Nat) /\ b \in Seq(Nat)
    BY <1>3, <1>4 DEF Path
  <2>2. QED
    BY <2>1, ConcatProperties, Zenon DEF Path
<1> DEFINE c == a \o b
<1> HIDE DEF o
<1>6. c \in Path /\ Len(c) = k - 1
  <2>1. Len(a) + Len(b) = k - 1
    BY <1>3, <1>4
  <2>2. QED
    BY <1>5, <2>1
<1>7. ASSUME NEW i \in 1 .. k - 1
      PROVE  c[i] = IF i <= g THEN i - 1 ELSE i
  <2>1. c[i] = IF i <= g THEN a[i] ELSE b[i - g]
    BY <1>3, <1>4, <1>5
  <2>2. CASE i <= g
    BY <1>3, <2>1, <2>2
  <2>3. CASE ~(i <= g)
    <3>1. i - g \in 1 .. k - g - 1 /\ (i - g) + g = i
      BY <2>3
    <3>2. QED
      BY <1>4, <2>1, <2>3, <3>1
  <2>4. QED
    BY <2>2, <2>3
<1> HIDE DEF c
<1>8. o = c
  BY <1>2 DEF c
<1>9. QED
  BY <1>6, <1>7, <1>8 DEF o, s

(* One child first, and the others in their order.                          *)
LEMMA OrderFront ==
  ASSUME NEW k \in Nat, NEW v \in 0 .. k - 1
  PROVE  LET o == <<v>> \o RemoveAt([i \in 1 .. k |-> i - 1], v + 1)
         IN  /\ o \in Path /\ Len(o) = k /\ o[1] = v
             /\ \A i \in 1 .. k : i # 1 => o[i] = IF i - 1 <= v THEN i - 2 ELSE i - 1
<1> DEFINE b == RemoveAt([i \in 1 .. k |-> i - 1], v + 1)
<1> DEFINE a == <<v>>
<1> DEFINE o == a \o b
<1>1. /\ b \in Path /\ Len(b) = k - 1
      /\ \A i \in 1 .. k - 1 : b[i] = IF i <= v THEN i - 1 ELSE i
  BY OrderWithout
<1>2. a \in Path /\ Len(a) = 1 /\ a[1] = v
  BY DEF Path
<1> HIDE DEF a, b
<1>3. /\ o \in Path /\ Len(o) = Len(a) + Len(b)
      /\ \A i \in 1 .. Len(a) + Len(b) : o[i] = IF i <= Len(a) THEN a[i] ELSE b[i - Len(a)]
  BY <1>1, <1>2, ConcatProperties DEF Path
<1> HIDE DEF o
<1>4. Len(o) = k /\ \A i \in 1 .. k : o[i] = IF i <= 1 THEN a[i] ELSE b[i - 1]
  BY <1>1, <1>2, <1>3
<1>5. o[1] = v
  BY <1>2, <1>4
<1>6. ASSUME NEW i \in 1 .. k, i # 1
      PROVE  o[i] = IF i - 1 <= v THEN i - 2 ELSE i - 1
  <2>1. i - 1 \in 1 .. k - 1 /\ ~(i <= 1) /\ i - 1 - 1 = i - 2
    BY <1>6
  <2>2. QED
    BY <1>1, <1>4, <2>1
<1>7. QED
  BY <1>3, <1>4, <1>5, <1>6 DEF o, a, b

(* Without twins, the lines through a node are the lines that begin as its. *)
LEMMA LinesThrough ==
  ASSUME NEW T, Tree(T), NEW a \in Paths(T), NEW r \in Paths(T)
  PROVE  /\ IsPrefix(a, r) => IsPrefix(LineOf(T, a), LineOf(T, r))
         /\ Twinless(T) => (IsPrefix(LineOf(T, a), LineOf(T, r)) => IsPrefix(a, r))
<1> DEFINE k == LineOf(T, a)
<1> DEFINE l == LineOf(T, r)
<1>1. a \in Path /\ r \in Path /\ Len(a) \in Nat /\ Len(r) \in Nat
  BY PathIs DEF Tree, Grown
<1>2. k \in Line /\ Len(k) = Len(a) /\ l \in Line /\ Len(l) = Len(r)
  BY LineIs
<1>3. SubSeq(k, 1, Len(k)) = k
  BY <1>2, SubSeqFull DEF Line
<1>4. IsPrefix(k, l) <=> Len(a) <= Len(r) /\ k = SubSeq(l, 1, Len(a))
  BY <1>2, <1>3 DEF IsPrefix
<1>5. Len(a) <= Len(r) => /\ SubSeq(r, 1, Len(a)) \in Paths(T)
                          /\ LineOf(T, SubSeq(r, 1, Len(a))) = SubSeq(l, 1, Len(a))
  <2>1. SUFFICES ASSUME Len(a) <= Len(r)
                 PROVE  /\ SubSeq(r, 1, Len(a)) \in Paths(T)
                        /\ LineOf(T, SubSeq(r, 1, Len(a))) = SubSeq(l, 1, Len(a))
    OBVIOUS
  <2>2. Len(a) \in 0 .. Len(r)
    BY <1>1, <2>1
  <2>3. QED
    BY <2>2, UptoIn, LineUpto
<1>6. IsPrefix(a, r) <=> Len(a) <= Len(r) /\ a = SubSeq(r, 1, Len(a))
  BY <1>1, PrefixIs
<1>7. Len(a) <= Len(r) => /\ a = SubSeq(r, 1, Len(a)) => k = SubSeq(l, 1, Len(a))
                          /\ Twinless(T) => (k = SubSeq(l, 1, Len(a)) => a = SubSeq(r, 1, Len(a)))
  <2>1. SUFFICES ASSUME Len(a) <= Len(r)
                 PROVE  /\ a = SubSeq(r, 1, Len(a)) => k = SubSeq(l, 1, Len(a))
                        /\ Twinless(T) => (k = SubSeq(l, 1, Len(a)) => a = SubSeq(r, 1, Len(a)))
    OBVIOUS
  <2> DEFINE s == SubSeq(r, 1, Len(a))
  <2>2. s \in Paths(T) /\ LineOf(T, s) = SubSeq(l, 1, Len(a))
    BY <1>5, <2>1
  <2> HIDE DEF s
  <2>3. /\ a = s => LineOf(T, a) = LineOf(T, s)
        /\ Twinless(T) => (LineOf(T, a) = LineOf(T, s) => a = s)
    BY <2>2 DEF Twinless
  <2>4. QED
    BY <2>2, <2>3 DEF s
<1>8. QED
  BY <1>4, <1>6, <1>7

LEMMA PrefixNext ==
  ASSUME NEW q \in Path, NEW g \in Nat, NEW r \in Path
  PROVE  IsPrefix(Append(q, g), r) <=> Below(q, r) /\ r[Len(q) + 1] = g
<1> DEFINE a == Append(q, g)
<1>1. /\ a \in Path /\ Len(a) = Len(q) + 1 /\ \A j \in 1 .. Len(q) : a[j] = q[j]
      /\ a[Len(q) + 1] = g /\ Len(q) \in Nat /\ Len(r) \in Nat
  BY Appended, PathIs
<1> HIDE DEF a
<1>2. IsPrefix(a, r) <=> Len(a) <= Len(r) /\ \A j \in 1 .. Len(a) : a[j] = r[j]
  BY <1>1, PrefixIs
<1>3. Below(q, r) <=> Len(r) >= Len(q) + 1 /\ \A j \in 1 .. Len(q) : q[j] = r[j]
  BY BelowIs
<1>4. \A j \in 1 .. Len(q) + 1 : j = Len(q) + 1 \/ j \in 1 .. Len(q)
  BY <1>1
<1>5. Len(q) + 1 \in 1 .. Len(q) + 1 /\ \A j \in 1 .. Len(q) : j \in 1 .. Len(q) + 1
  BY <1>1
<1>6. (\A j \in 1 .. Len(a) : a[j] = r[j])
      <=> r[Len(q) + 1] = g /\ \A j \in 1 .. Len(q) : q[j] = r[j]
  BY <1>1, <1>4, <1>5
<1>7. QED
  BY <1>1, <1>2, <1>3, <1>6 DEF a

(* A child is taken out, with all that is below it.                         *)
LEMMA TakenOut ==
  ASSUME NEW T, Tree(T), NEW q \in Paths(T), NEW g \in Nat, g < Kids(T, q)
  PROVE  LET R == Reorder(T, q, RemoveAt(InOrder(T, q), g + 1))
         IN  /\ Tree(R) /\ (Twinless(T) => Twinless(R))
             /\ Lines(R) \subseteq Lines(T)
             /\ {l \in Lines(T) : ~IsPrefix(LineOf(T, Append(q, g)), l)} \subseteq Lines(R)
             /\ Twinless(T) => Lines(R) = {l \in Lines(T) : ~IsPrefix(LineOf(T, Append(q, g)), l)}
             /\ \A p \in Paths(T) : ~Below(q, p) => p \in Paths(R)
<1> DEFINE k == Kids(T, q)
<1> DEFINE n == Len(q) + 1
<1> DEFINE o == RemoveAt(InOrder(T, q), g + 1)
<1> DEFINE R == Reorder(T, q, o)
<1> DEFINE a == Append(q, g)
<1>1. q \in Path /\ k \in Nat /\ Paths(T) \subseteq Path
  BY KidsAre DEF Tree, Grown
<1>2. g \in 0 .. k - 1
  BY <1>1
<1>3. /\ o \in Path /\ Len(o) = k - 1
      /\ \A i \in 1 .. k - 1 : o[i] = IF i <= g THEN i - 1 ELSE i
  <2>1. InOrder(T, q) = [i \in 1 .. k |-> i - 1]
    BY DEF InOrder
  <2> HIDE DEF k
  <2>2. QED
    BY <1>1, <1>2, <2>1, OrderWithout
<1> HIDE DEF k, o
<1>4. DOMAIN o = 1 .. k - 1
  BY <1>3, PathIs
<1>5. \A i \in DOMAIN o : o[i] < k /\ o[i] # g
  BY <1>1, <1>2, <1>3, <1>4
<1>6. \A i, j \in DOMAIN o : o[i] = o[j] => i = j
  BY <1>1, <1>2, <1>3, <1>4
<1>7. \A x \in Nat : x < k /\ x # g => \E i \in DOMAIN o : o[i] = x
  <2> SUFFICES ASSUME NEW x \in Nat, x < k, x # g
               PROVE  \E i \in DOMAIN o : o[i] = x
    OBVIOUS
  <2>1. CASE x < g
    <3>1. x + 1 \in 1 .. k - 1 /\ x + 1 <= g /\ (x + 1) - 1 = x
      BY <1>1, <1>2, <2>1
    <3>2. QED
      BY <1>3, <1>4, <3>1
  <2>2. CASE ~(x < g)
    <3>1. x \in 1 .. k - 1 /\ ~(x <= g)
      BY <1>1, <1>2, <2>2
    <3>2. QED
      BY <1>3, <1>4, <3>1
  <2>3. QED
    BY <2>1, <2>2
<1>8. Order(T, q, o)
  BY <1>3, <1>5, <1>6 DEF Order, k
<1>9. /\ Tree(R) /\ (Twinless(T) => Twinless(R))
      /\ \A p \in Paths(R) : Was(q, o, p) \in Paths(T) /\ LineOf(R, p) = LineOf(T, Was(q, o, p))
      /\ \A p \in Paths(R) : p \in Path /\ Named(q, o, p) /\ Was(q, o, p) \in Paths(T)
  BY <1>8, Reordered
<1>10. \A r \in Paths(T) :
         /\ ~Below(q, r) => r \in Paths(R) /\ Was(q, o, r) = r
         /\ \A i \in DOMAIN o : Below(q, r) /\ o[i] = r[n] =>
              [r EXCEPT ![n] = i - 1] \in Paths(R) /\ Was(q, o, [r EXCEPT ![n] = i - 1]) = r
  BY <1>8, Kept
<1> HIDE DEF R
<1>11. a \in Paths(T)
  BY <1>1, KidsAre DEF k
<1>12. \A r \in Paths(T) : IsPrefix(a, r) <=> Below(q, r) /\ r[n] = g
  BY <1>1, PrefixNext
<1> HIDE DEF a
<1>13. ASSUME NEW p \in Paths(R)
       PROVE  ~IsPrefix(a, Was(q, o, p))
  <2> DEFINE w == Was(q, o, p)
  <2>1. w \in Paths(T) /\ p \in Path /\ Named(q, o, p)
    BY <1>9
  <2>2. /\ Below(q, w) <=> Below(q, p)
        /\ Below(q, p) => w[n] = o[p[n] + 1] /\ p[n] + 1 \in DOMAIN o
    BY <1>1, <1>3, <2>1, WasIs DEF Named
  <2> HIDE DEF w
  <2>3. ~(Below(q, w) /\ w[n] = g)
    BY <1>5, <2>2
  <2>4. QED
    BY <1>12, <2>1, <2>3 DEF w
<1>14. ASSUME NEW r \in Paths(T), ~IsPrefix(a, r)
       PROVE  \E p \in Paths(R) : Was(q, o, p) = r
  <2>1. CASE ~Below(q, r)
    BY <1>10, <2>1
  <2>2. CASE Below(q, r)
    <3>1. r[n] \in Nat /\ r[n] < k /\ r[n] # g
      BY <1>1, <1>12, <1>14, <2>2, ChildOnPath DEF k
    <3>2. PICK i \in DOMAIN o : o[i] = r[n]
      BY <1>7, <3>1
    <3>3. QED
      BY <1>10, <2>2, <3>2
  <2>3. QED
    BY <2>1, <2>2
<1>15. \A r \in Paths(T) :
         /\ IsPrefix(a, r) => IsPrefix(LineOf(T, a), LineOf(T, r))
         /\ Twinless(T) => (IsPrefix(LineOf(T, a), LineOf(T, r)) => IsPrefix(a, r))
  BY <1>11, LinesThrough
<1>16. Lines(R) \subseteq Lines(T)
  BY <1>9 DEF Lines
<1>17. ASSUME NEW r \in Paths(T), ~IsPrefix(LineOf(T, a), LineOf(T, r))
       PROVE  LineOf(T, r) \in Lines(R)
  <2>1. PICK p \in Paths(R) : Was(q, o, p) = r
    BY <1>14, <1>15, <1>17
  <2>2. QED
    BY <1>9, <2>1 DEF Lines
<1>18. {l \in Lines(T) : ~IsPrefix(LineOf(T, a), l)} \subseteq Lines(R)
  BY <1>17 DEF Lines
<1>19. ASSUME Twinless(T)
       PROVE  Lines(R) = {l \in Lines(T) : ~IsPrefix(LineOf(T, a), l)}
  <2>1. ASSUME NEW p \in Paths(R)
        PROVE  LineOf(R, p) \in Lines(T) /\ ~IsPrefix(LineOf(T, a), LineOf(R, p))
    BY <1>9, <1>13, <1>15, <1>19 DEF Lines
  <2>2. QED
    BY <1>18, <2>1 DEF Lines
<1>20. QED
  BY <1>9, <1>10, <1>16, <1>18, <1>19 DEF R, o, a

(* A child is put first: all lines stay, and so do the paths beside it.     *)
LEMMA PutFirst ==
  ASSUME NEW T, Tree(T), NEW q \in Paths(T), NEW v \in Nat, v < Kids(T, q)
  PROVE  LET R == ToFront(T, q, v)
             n == Len(q) + 1
         IN  /\ Tree(R) /\ (Twinless(T) => Twinless(R)) /\ Lines(R) = Lines(T)
             /\ \A p \in Paths(T) : ~Below(q, p) => p \in Paths(R)
             /\ \A p \in Paths(T) : Below(q, p) /\ p[n] = v => [p EXCEPT ![n] = 0] \in Paths(R)
<1> DEFINE k == Kids(T, q)
<1> DEFINE n == Len(q) + 1
<1> DEFINE o == <<v>> \o RemoveAt(InOrder(T, q), v + 1)
<1> DEFINE R == ToFront(T, q, v)
<1>1. q \in Path /\ k \in Nat /\ Paths(T) \subseteq Path
  BY KidsAre DEF Tree, Grown
<1>2. v \in 0 .. k - 1 /\ 1 \in 1 .. k
  BY <1>1
<1>3. /\ o \in Path /\ Len(o) = k /\ o[1] = v
      /\ \A i \in 1 .. k : i # 1 => o[i] = IF i - 1 <= v THEN i - 2 ELSE i - 1
  <2>1. InOrder(T, q) = [i \in 1 .. k |-> i - 1]
    BY DEF InOrder
  <2> HIDE DEF k
  <2> DEFINE e == <<v>> \o RemoveAt([i \in 1 .. k |-> i - 1], v + 1)
  <2>2. /\ e \in Path /\ Len(e) = k /\ e[1] = v
        /\ \A i \in 1 .. k : i # 1 => e[i] = IF i - 1 <= v THEN i - 2 ELSE i - 1
    BY <1>1, <1>2, OrderFront
  <2>3. o = e
    BY <2>1
  <2> HIDE DEF e, o
  <2>4. QED
    BY <2>2, <2>3
<1>4. R = Reorder(T, q, o)
  BY DEF ToFront
<1> HIDE DEF k, o, R
<1>5. DOMAIN o = 1 .. k
  BY <1>3, PathIs
<1>6. \A i \in DOMAIN o : o[i] < k
  BY <1>1, <1>2, <1>3, <1>5
<1>7. \A i, j \in DOMAIN o : o[i] = o[j] => i = j
  BY <1>1, <1>2, <1>3, <1>5
<1>8. \A x \in Nat : x < k => \E i \in DOMAIN o : o[i] = x
  <2> SUFFICES ASSUME NEW x \in Nat, x < k
               PROVE  \E i \in DOMAIN o : o[i] = x
    OBVIOUS
  <2>1. CASE x = v
    BY <1>2, <1>3, <1>5, <2>1
  <2>2. CASE x < v
    <3>1. x + 2 \in 1 .. k /\ x + 2 # 1 /\ (x + 2) - 1 <= v /\ (x + 2) - 2 = x
      BY <1>1, <1>2, <2>2
    <3>2. QED
      BY <1>3, <1>5, <3>1
  <2>3. CASE x > v
    <3>1. x + 1 \in 1 .. k /\ x + 1 # 1 /\ ~((x + 1) - 1 <= v) /\ (x + 1) - 1 = x
      BY <1>1, <1>2, <2>3
    <3>2. QED
      BY <1>3, <1>5, <3>1
  <2>4. QED
    BY <2>1, <2>2, <2>3
<1>9. Order(T, q, o)
  BY <1>3, <1>6, <1>7 DEF Order, k
<1>10. /\ Tree(R) /\ (Twinless(T) => Twinless(R))
       /\ \A p \in Paths(R) : Was(q, o, p) \in Paths(T) /\ LineOf(R, p) = LineOf(T, Was(q, o, p))
  BY <1>4, <1>9, Reordered
<1>11. \A r \in Paths(T) :
         /\ ~Below(q, r) => r \in Paths(R) /\ Was(q, o, r) = r
         /\ \A i \in DOMAIN o : Below(q, r) /\ o[i] = r[n] =>
              [r EXCEPT ![n] = i - 1] \in Paths(R) /\ Was(q, o, [r EXCEPT ![n] = i - 1]) = r
  BY <1>4, <1>9, Kept
<1>12. ASSUME NEW r \in Paths(T)
       PROVE  \E p \in Paths(R) : Was(q, o, p) = r
  <2>1. CASE ~Below(q, r)
    BY <1>11, <2>1
  <2>2. CASE Below(q, r)
    <3>1. r[n] \in Nat /\ r[n] < k
      BY <1>1, <2>2, ChildOnPath DEF k
    <3>2. PICK i \in DOMAIN o : o[i] = r[n]
      BY <1>8, <3>1
    <3>3. QED
      BY <1>11, <2>2, <3>2
  <2>3. QED
    BY <2>1, <2>2
<1>13. Lines(R) = Lines(T)
  <2>1. \A p \in Paths(R) : LineOf(R, p) \in Lines(T)
    BY <1>10 DEF Lines
  <2>2. \A r \in Paths(T) : LineOf(T, r) \in Lines(R)
    BY <1>10, <1>12 DEF Lines
  <2>3. QED
    BY <2>1, <2>2 DEF Lines
<1>14. ASSUME NEW p \in Paths(T), Below(q, p), p[n] = v
       PROVE  [p EXCEPT ![n] = 0] \in Paths(R)
  <2>1. 1 \in DOMAIN o /\ o[1] = p[n] /\ 1 - 1 = 0
    BY <1>2, <1>3, <1>5, <1>14
  <2>2. [p EXCEPT ![n] = 1 - 1] \in Paths(R)
    BY <1>11, <1>14, <2>1
  <2>3. QED
    BY <2>1, <2>2
<1>15. QED
  BY <1>10, <1>11, <1>13, <1>14 DEF R

(* A node is added before the first child.                                  *)
LEMMA Unshifted ==
  ASSUME NEW T, Tree(T), NEW q \in Paths(T), NEW m \in Moves, Len(q) < MaxPly
  PROVE  LET U == Unshift(T, q, m)
         IN  /\ Tree(U) /\ Lines(T) \subseteq Lines(U)
             /\ Twinless(T) /\ SameName(T, q, m) = {} => Twinless(U)
             /\ q \in Paths(U) /\ Append(q, 0) \in Paths(U)
<1> DEFINE k == Kids(T, q)
<1> DEFINE a == Append(q, k)
<1> DEFINE P == Push(T, q, m)
<1> DEFINE U == Unshift(T, q, m)
<1>1. /\ Paths(P) = Paths(T) \cup {a}
      /\ Tree(P) /\ Lines(T) \subseteq Lines(P)
      /\ Twinless(T) /\ SameName(T, q, m) = {} => Twinless(P)
  BY Pushed
<1>2. q \in Path /\ q \in Paths(P) /\ k \in Nat /\ a \in Paths(P)
  BY <1>1, KidsAre DEF Tree, Grown
<1>3. U = ToFront(P, q, k)
  BY DEF Unshift
<1> HIDE DEF P, k, U
<1>4. k < Kids(P, q)
  BY <1>1, <1>2, KidsAre
<1>5. /\ Tree(U) /\ (Twinless(P) => Twinless(U)) /\ Lines(U) = Lines(P)
      /\ \A p \in Paths(P) : ~Below(q, p) => p \in Paths(U)
      /\ \A p \in Paths(P) : Below(q, p) /\ p[Len(q) + 1] = k =>
           [p EXCEPT ![Len(q) + 1] = 0] \in Paths(U)
  BY <1>1, <1>2, <1>3, <1>4, PutFirst
<1>6. ~Below(q, q) /\ Below(q, a) /\ a[Len(q) + 1] = k
  BY <1>2, BelowNext
<1>7. q \in Paths(U) /\ [a EXCEPT ![Len(q) + 1] = 0] \in Paths(U)
  BY <1>2, <1>5, <1>6
<1>8. [a EXCEPT ![Len(q) + 1] = 0] = Append(q, 0)
  <2> DEFINE t == [a EXCEPT ![Len(q) + 1] = 0]
  <2> DEFINE b == Append(q, 0)
  <2>1. /\ a \in Path /\ Len(a) = Len(q) + 1 /\ \A j \in 1 .. Len(q) : a[j] = q[j]
    BY <1>2, Appended
  <2>2. /\ b \in Path /\ Len(b) = Len(q) + 1 /\ b[Len(q) + 1] = 0
        /\ \A j \in 1 .. Len(q) : b[j] = q[j]
    BY <1>2, Appended
  <2> HIDE DEF a, b
  <2>3. /\ t \in Path /\ Len(t) = Len(a) /\ t[Len(q) + 1] = 0 /\ Below(q, t)
        /\ \A j \in 1 .. Len(a) : j # Len(q) + 1 => t[j] = a[j]
    <3>1. q \in Path /\ a \in Path /\ Below(q, a) /\ 0 \in Nat
      BY <1>2, <1>6, <2>1 DEF a
    <3>2. QED
      BY <3>1, PutAt
  <2> HIDE DEF t
  <2>4. Len(q) \in Nat /\ \A j \in 1 .. Len(q) + 1 : j = Len(q) + 1 \/ (j \in 1 .. Len(q) /\ j # Len(q) + 1)
    BY <1>2, PathIs
  <2>5. ASSUME NEW j \in 1 .. Len(t)
        PROVE  t[j] = b[j]
    BY <2>1, <2>2, <2>3, <2>4
  <2>6. t = b
    BY <2>1, <2>2, <2>3, <2>5, PathEqual
  <2>7. QED
    BY <2>6 DEF t, b, a
<1>9. QED
  BY <1>1, <1>5, <1>7, <1>8 DEF U

-----------------------------------------------------------------------------
(* What the functions of the store keep.                                    *)

Sound(s) == Tree(s.root) /\ s.position \in Path

(* A step from one tree to the other makes no twins.                        *)
NoTwins(T, U) == Twinless(T) => Twinless(U)

LEMMA EndOf ==
  ASSUME NEW T, Tree(T), NEW p \in Paths(T)
  PROVE  MainEnd(T, p) \in Paths(T) /\ MainEnd(T, p) \in Path
<1>1. MainDepth(T, p) \in 0 .. MaxPly /\ MaxPly \in Nat
  BY DepthOf, GameTreeAssumption
<1>2. p \o Zeros(MainDepth(T, p)) \in Paths(T)
  BY <1>1, DepthOf
<1>3. QED
  BY <1>2 DEF MainEnd, Tree, Grown

LEMMA ChildIs ==
  ASSUME NEW T, Tree(T), NEW q \in Path, NEW m, SameName(T, q, m) # {}
  PROVE  Min(SameName(T, q, m)) \in Nat /\ Append(q, Min(SameName(T, q, m))) \in Paths(T)
<1> DEFINE C == SameName(T, q, m)
<1>1. Kids(T, q) \in Nat /\ \A i \in Nat : Append(q, i) \in Paths(T) <=> i < Kids(T, q)
  BY KidsAre
<1>2. C \in SUBSET Nat /\ \A i \in C : i < Kids(T, q)
  BY <1>1 DEF SameName
<1> HIDE DEF C
<1>3. Min(C) \in C
  BY <1>2, MinOf DEF C
<1>4. QED
  BY <1>1, <1>2, <1>3 DEF C

LEMMA PlaySound ==
  ASSUME NEW s, Sound(s), NEW m \in Moves, NEW last \in BOOLEAN, NEW mainline \in BOOLEAN,
         NEW change \in BOOLEAN, ~(last /\ mainline),
         Len(IF last THEN MainEnd(s.root, << >>) ELSE s.position) < MaxPly
  PROVE  LET r == Play(s, m, last, mainline, change)
         IN  /\ Sound(r) /\ Lines(s.root) \subseteq Lines(r.root)
             /\ NoTwins(s.root, r.root)
             /\ ~last => Len(r.position) <= Len(s.position) + 1
             /\ s.position \in Paths(s.root) => r.position \in Paths(r.root)
<1> DEFINE T == s.root
<1> DEFINE from == IF last THEN MainEnd(T, << >>) ELSE s.position
<1> DEFINE q == getNodeAtPath(T, from)
<1> DEFINE known == SameName(T, q, m)
<1> DEFINE index == IF known # {} THEN Min(known)
                    ELSE IF mainline /\ ~last THEN 0 ELSE Kids(T, q)
<1> DEFINE U == IF known # {} THEN T
                ELSE IF mainline THEN Unshift(T, q, m) ELSE Push(T, q, m)
<1> DEFINE r == Play(s, m, last, mainline, change)
<1>1. /\ r.root = U
      /\ r.position = IF change THEN from \o <<index>> ELSE s.position
  BY DEF Play
<1>2. Tree(T) /\ s.position \in Path
  BY DEF Sound
<1>3. from \in Path /\ (last => from \in Paths(T)) /\ Len(from) \in Nat
  <2>1. << >> \in Paths(T)
    BY <1>2 DEF Tree, Grown
  <2>2. MainEnd(T, << >>) \in Paths(T) /\ MainEnd(T, << >>) \in Path
    BY <1>2, <2>1, EndOf
  <2>3. from \in Path /\ (last => from \in Paths(T))
    BY <1>2, <2>2
  <2> HIDE DEF from
  <2>4. QED
    BY <2>3, PathIs
<1>4. Len(from) < MaxPly
  OBVIOUS
<1>5. ~last => from = s.position
  OBVIOUS
<1> HIDE DEF from, r, T
<1>6. q \in Paths(T) /\ q \in Path /\ Len(q) <= Len(from) /\ (from \in Paths(T) => q = from)
  BY <1>2, <1>3, NodeAt
<1> HIDE DEF q
<1>7. Len(q) < MaxPly
  <2>1. Len(q) \in Nat /\ MaxPly \in Nat
    BY <1>6, PathIs, GameTreeAssumption
  <2>2. QED
    BY <1>3, <1>4, <1>6, <2>1
<1>8. /\ Tree(U) /\ NoTwins(T, U) /\ Lines(T) \subseteq Lines(U)
      /\ q \in Paths(U) /\ Append(q, index) \in Paths(U) /\ index \in Nat
  <2>1. CASE known # {}
    <3>1. Min(known) \in Nat /\ Append(q, Min(known)) \in Paths(T)
      BY <1>2, <1>6, <2>1, ChildIs
    <3>2. QED
      BY <1>2, <1>6, <2>1, <3>1 DEF NoTwins
  <2>2. CASE known = {} /\ mainline
    <3>1. /\ Tree(Unshift(T, q, m)) /\ Lines(T) \subseteq Lines(Unshift(T, q, m))
          /\ Twinless(T) /\ SameName(T, q, m) = {} => Twinless(Unshift(T, q, m))
          /\ q \in Paths(Unshift(T, q, m)) /\ Append(q, 0) \in Paths(Unshift(T, q, m))
      BY <1>2, <1>6, <1>7, Unshifted
    <3>2. index = 0 /\ U = Unshift(T, q, m)
      BY <2>2
    <3> HIDE DEF index, U
    <3>3. QED
      BY <1>2, <2>2, <3>1, <3>2 DEF NoTwins
  <2>3. CASE known = {} /\ ~mainline
    <3>1. /\ Paths(Push(T, q, m)) = Paths(T) \cup {Append(q, Kids(T, q))}
          /\ Tree(Push(T, q, m)) /\ Lines(T) \subseteq Lines(Push(T, q, m))
          /\ Twinless(T) /\ SameName(T, q, m) = {} => Twinless(Push(T, q, m))
      BY <1>2, <1>6, <1>7, Pushed
    <3>2. index = Kids(T, q) /\ U = Push(T, q, m) /\ Kids(T, q) \in Nat
      BY <1>2, <1>6, <2>3, KidsAre
    <3> HIDE DEF index, U
    <3>3. QED
      BY <1>2, <1>6, <2>3, <3>1, <3>2 DEF NoTwins
  <2>4. QED
    BY <2>1, <2>2, <2>3
<1> HIDE DEF index, U
<1>9. /\ from \o <<index>> = Append(from, index) /\ Append(from, index) \in Path
      /\ Len(Append(from, index)) = Len(from) + 1
  BY <1>3, <1>8, Appended
<1>10. Sound(r) /\ Lines(s.root) \subseteq Lines(r.root) /\ NoTwins(s.root, r.root)
  BY <1>1, <1>2, <1>8, <1>9 DEF Sound, T
<1>11. ~last => Len(r.position) <= Len(s.position) + 1
  BY <1>1, <1>3, <1>5, <1>9
<1>12. ASSUME s.position \in Paths(T)
       PROVE  r.position \in Paths(r.root)
  <2>1. from \in Paths(T) /\ q = from
    BY <1>3, <1>5, <1>6, <1>12
  <2>2. CASE change
    BY <1>1, <1>8, <1>9, <2>1, <2>2
  <2>3. CASE ~change
    <3>1. CASE ~last
      BY <1>1, <1>5, <1>8, <2>1, <2>3, <3>1
    <3>2. CASE last
      <4>1. Paths(T) \subseteq Paths(U)
        <5>1. CASE known # {}
          BY <5>1 DEF U
        <5>2. CASE known = {}
          <6>1. U = Push(T, q, m)
            BY <3>2, <5>2 DEF U
          <6>2. QED
            BY <1>2, <1>6, <1>7, <6>1, Pushed
        <5>3. QED
          BY <5>1, <5>2
      <4>2. QED
        BY <1>1, <1>12, <2>3, <4>1
    <3>3. QED
      BY <3>1, <3>2
  <2>4. QED
    BY <2>2, <2>3
<1>13. QED
  BY <1>10, <1>11, <1>12 DEF r, T

PlayOn(s, m, mainline) == Play(s, m, FALSE, mainline, TRUE)

Plays(ms, mainline, b) ==
  FoldLeft(LAMBDA s, m : PlayOn(s, m, mainline), b, ms)

LEMMA FoldedPlays ==
  ASSUME NEW ms \in Seq(Moves), NEW mainline \in BOOLEAN, NEW b
  PROVE  \E g : /\ g[0] = b /\ \A i \in 1 .. Len(ms) : g[i] = PlayOn(g[i - 1], ms[i], mainline)
               /\ Plays(ms, mainline, b) = g[Len(ms)]
<1> DEFINE n == Len(ms)
<1> DEFINE D == 1 .. n
<1> DEFINE v(i) == ms[i]
<1> DEFINE Rule(g) == [x \in SUBSET D |->
                        IF x = {} THEN b ELSE PlayOn(g[x \ {Max(x)}], v(Max(x)), mainline)]
<1> DEFINE iter == CHOOSE g : g = Rule(g)
<1> DEFINE Obeys(k, h) == \A x \in SUBSET (1 .. k) :
                           h[x] = IF x = {} THEN b ELSE PlayOn(h[x \ {Max(x)}], v(Max(x)), mainline)
<1>1. n \in Nat /\ DOMAIN ms = D
  OBVIOUS
<1>2. Plays(ms, mainline, b) = iter[D]
  BY <1>1 DEF Plays, FoldLeft, MapThenFoldSet
<1> HIDE DEF v, n
<1>3. \A k \in Nat : \E h : Obeys(k, h)
  <2> DEFINE E == {k \in Nat : \E h : Obeys(k, h)}
  <2>1. 0 \in E
    <3> DEFINE h == [x \in {{}} |-> b]
    <3>1. \A x \in SUBSET (1 .. 0) : x = {} /\ h[x] = b
      OBVIOUS
    <3>2. Obeys(0, h)
      BY <3>1
    <3>3. QED
      BY <3>2
  <2>2. ASSUME NEW k \in Nat, k \in E
        PROVE  k + 1 \in E
    <3>1. PICK h : Obeys(k, h)
      BY <2>2
    <3> DEFINE j == [x \in SUBSET (1 .. k + 1) |->
                      IF k + 1 \in x THEN PlayOn(h[x \ {k + 1}], v(k + 1), mainline) ELSE h[x]]
    <3>2. ASSUME NEW x \in SUBSET (1 .. k + 1)
          PROVE  j[x] = IF x = {} THEN b ELSE PlayOn(j[x \ {Max(x)}], v(Max(x)), mainline)
      <4>1. CASE k + 1 \in x
        <5>1. Max(x) = k + 1
          BY <4>1, MaxIs
        <5>2. x \ {k + 1} \in SUBSET (1 .. k + 1) /\ k + 1 \notin x \ {k + 1}
          OBVIOUS
        <5>3. j[x \ {k + 1}] = h[x \ {k + 1}]
          BY <5>2
        <5>4. j[x] = PlayOn(h[x \ {k + 1}], v(k + 1), mainline)
          BY <4>1
        <5> HIDE DEF j
        <5>5. QED
          BY <4>1, <5>1, <5>3, <5>4
      <4>2. CASE k + 1 \notin x
        <5> DEFINE y == x \ {Max(x)}
        <5>1. x \in SUBSET (1 .. k)
          BY <4>2
        <5>2. y \in SUBSET (1 .. k + 1) /\ k + 1 \notin y
          BY <4>2
        <5>3. j[x] = h[x] /\ j[y] = h[y]
          BY <4>2, <5>2
        <5>4. h[x] = IF x = {} THEN b ELSE PlayOn(h[y], v(Max(x)), mainline)
          BY <3>1, <5>1
        <5> HIDE DEF j, y
        <5>5. QED
          BY <5>3, <5>4 DEF y
      <4>3. QED
        BY <4>1, <4>2
    <3>3. Obeys(k + 1, j)
      BY <3>2
    <3>4. k + 1 \in Nat
      OBVIOUS
    <3> HIDE DEF Obeys
    <3>5. QED
      BY <3>3, <3>4, Zenon
  <2> HIDE DEF E
  <2>3. \A k \in Nat : k \in E
    BY <2>1, <2>2, NatSteps, Zenon
  <2>4. QED
    BY <2>3 DEF E
<1>4. PICK h : Obeys(n, h)
  BY <1>1, <1>3
<1>5. iter = Rule(iter)
  <2> DEFINE f == [x \in SUBSET D |-> h[x]]
  <2>1. \A x \in SUBSET D : x \ {Max(x)} \in SUBSET D
    OBVIOUS
  <2>2. \A x \in SUBSET D : f[x] = h[x] /\ f[x \ {Max(x)}] = h[x \ {Max(x)}]
    BY <2>1
  <2>3. \A x \in SUBSET D :
          f[x] = IF x = {} THEN b ELSE PlayOn(f[x \ {Max(x)}], v(Max(x)), mainline)
    BY <1>4, <2>2
  <2>4. f = Rule(f)
    <3>1. f = [x \in SUBSET D |-> f[x]]
      OBVIOUS
    <3> HIDE DEF f
    <3>2. QED
      BY <2>3, <3>1
  <2> HIDE DEF f
  <2>5. QED
    BY <2>4
<1> HIDE DEF iter
<1>6. \A x \in SUBSET D :
        iter[x] = IF x = {} THEN b ELSE PlayOn(iter[x \ {Max(x)}], v(Max(x)), mainline)
  BY <1>5
<1> DEFINE g == [i \in 0 .. n |-> iter[1 .. i]]
<1>7. \A i \in 0 .. n : g[i] = iter[1 .. i]
  OBVIOUS
<1>8. g[0] = b
  <2>1. 1 .. 0 = {} /\ 0 \in 0 .. n
    BY <1>1
  <2>2. QED
    BY <1>6, <1>7, <2>1
<1> HIDE DEF g
<1>9. ASSUME NEW i \in 1 .. n
      PROVE  g[i] = PlayOn(g[i - 1], ms[i], mainline)
  <2> DEFINE x == 1 .. i
  <2>1. x \in SUBSET D /\ x # {} /\ Max(x) = i
    <3>1. x \in SUBSET D /\ x \in SUBSET Nat /\ i \in x /\ \A y \in x : y <= i
      BY <1>1
    <3> HIDE DEF x
    <3>2. QED
      BY <3>1, MaxIs
  <2>2. x \ {i} = 1 .. i - 1 /\ i \in 0 .. n /\ i - 1 \in 0 .. n
    BY <1>1
  <2>3. g[i] = iter[x] /\ g[i - 1] = iter[x \ {i}]
    BY <1>7, <2>2
  <2>4. v(i) = ms[i]
    BY DEF v, n
  <2> HIDE DEF x
  <2>5. iter[x] = PlayOn(iter[x \ {Max(x)}], v(Max(x)), mainline)
    BY <1>6, <2>1
  <2>6. QED
    BY <2>1, <2>3, <2>4, <2>5
<1>10. Plays(ms, mainline, b) = g[n]
  <2>1. n \in 0 .. n
    BY <1>1
  <2>2. QED
    BY <1>2, <1>7, <2>1
<1>11. QED
  BY <1>8, <1>9, <1>10 DEF n

(* Promoting takes its turns one after another.                             *)
Again(path, s, i) == Promote(s, IF i = 1 THEN path ELSE s.position)

Turns(path, n, b) ==
  FoldLeft(LAMBDA s, i : Again(path, s, i), b, [j \in 1 .. n |-> j])

LEMMA FoldedTurns ==
  ASSUME NEW path, NEW b, NEW n \in Nat
  PROVE  \E g : /\ g[0] = b /\ \A i \in 1 .. n : g[i] = Again(path, g[i - 1], i)
               /\ Turns(path, n, b) = g[n]
<1> DEFINE D == 1 .. n
<1> DEFINE v(i) == [j \in 1 .. n |-> j][i]
<1> DEFINE Rule(g) == [x \in SUBSET D |->
                        IF x = {} THEN b ELSE Again(path, g[x \ {Max(x)}], v(Max(x)))]
<1> DEFINE iter == CHOOSE g : g = Rule(g)
<1> DEFINE Obeys(k, h) == \A x \in SUBSET (1 .. k) :
                           h[x] = IF x = {} THEN b ELSE Again(path, h[x \ {Max(x)}], v(Max(x)))
<1>1. n \in Nat /\ DOMAIN [j \in 1 .. n |-> j] = D
  OBVIOUS
<1>2. Turns(path, n, b) = iter[D]
  BY <1>1 DEF Turns, FoldLeft, MapThenFoldSet
<1> HIDE DEF v
<1>3. \A k \in Nat : \E h : Obeys(k, h)
  <2> DEFINE E == {k \in Nat : \E h : Obeys(k, h)}
  <2>1. 0 \in E
    <3> DEFINE h == [x \in {{}} |-> b]
    <3>1. \A x \in SUBSET (1 .. 0) : x = {} /\ h[x] = b
      OBVIOUS
    <3>2. Obeys(0, h)
      BY <3>1
    <3>3. QED
      BY <3>2
  <2>2. ASSUME NEW k \in Nat, k \in E
        PROVE  k + 1 \in E
    <3>1. PICK h : Obeys(k, h)
      BY <2>2
    <3> DEFINE j == [x \in SUBSET (1 .. k + 1) |->
                      IF k + 1 \in x THEN Again(path, h[x \ {k + 1}], v(k + 1)) ELSE h[x]]
    <3>2. ASSUME NEW x \in SUBSET (1 .. k + 1)
          PROVE  j[x] = IF x = {} THEN b ELSE Again(path, j[x \ {Max(x)}], v(Max(x)))
      <4>1. CASE k + 1 \in x
        <5>1. Max(x) = k + 1
          BY <4>1, MaxIs
        <5>2. x \ {k + 1} \in SUBSET (1 .. k + 1) /\ k + 1 \notin x \ {k + 1}
          OBVIOUS
        <5>3. j[x \ {k + 1}] = h[x \ {k + 1}]
          BY <5>2
        <5>4. j[x] = Again(path, h[x \ {k + 1}], v(k + 1))
          BY <4>1
        <5> HIDE DEF j
        <5>5. QED
          BY <4>1, <5>1, <5>3, <5>4
      <4>2. CASE k + 1 \notin x
        <5> DEFINE y == x \ {Max(x)}
        <5>1. x \in SUBSET (1 .. k)
          BY <4>2
        <5>2. y \in SUBSET (1 .. k + 1) /\ k + 1 \notin y
          BY <4>2
        <5>3. j[x] = h[x] /\ j[y] = h[y]
          BY <4>2, <5>2
        <5>4. h[x] = IF x = {} THEN b ELSE Again(path, h[y], v(Max(x)))
          BY <3>1, <5>1
        <5> HIDE DEF j, y
        <5>5. QED
          BY <5>3, <5>4 DEF y
      <4>3. QED
        BY <4>1, <4>2
    <3>3. Obeys(k + 1, j)
      BY <3>2
    <3>4. k + 1 \in Nat
      OBVIOUS
    <3> HIDE DEF Obeys
    <3>5. QED
      BY <3>3, <3>4, Zenon
  <2> HIDE DEF E
  <2>3. \A k \in Nat : k \in E
    BY <2>1, <2>2, NatSteps, Zenon
  <2>4. QED
    BY <2>3 DEF E
<1>4. PICK h : Obeys(n, h)
  BY <1>1, <1>3
<1>5. iter = Rule(iter)
  <2> DEFINE f == [x \in SUBSET D |-> h[x]]
  <2>1. \A x \in SUBSET D : x \ {Max(x)} \in SUBSET D
    OBVIOUS
  <2>2. \A x \in SUBSET D : f[x] = h[x] /\ f[x \ {Max(x)}] = h[x \ {Max(x)}]
    BY <2>1
  <2>3. \A x \in SUBSET D :
          f[x] = IF x = {} THEN b ELSE Again(path, f[x \ {Max(x)}], v(Max(x)))
    BY <1>4, <2>2
  <2>4. f = Rule(f)
    <3>1. f = [x \in SUBSET D |-> f[x]]
      OBVIOUS
    <3> HIDE DEF f
    <3>2. QED
      BY <2>3, <3>1
  <2> HIDE DEF f
  <2>5. QED
    BY <2>4
<1> HIDE DEF iter
<1>6. \A x \in SUBSET D :
        iter[x] = IF x = {} THEN b ELSE Again(path, iter[x \ {Max(x)}], v(Max(x)))
  BY <1>5
<1> DEFINE g == [i \in 0 .. n |-> iter[1 .. i]]
<1>7. \A i \in 0 .. n : g[i] = iter[1 .. i]
  OBVIOUS
<1>8. g[0] = b
  <2>1. 1 .. 0 = {} /\ 0 \in 0 .. n
    BY <1>1
  <2>2. QED
    BY <1>6, <1>7, <2>1
<1> HIDE DEF g
<1>9. ASSUME NEW i \in 1 .. n
      PROVE  g[i] = Again(path, g[i - 1], i)
  <2> DEFINE x == 1 .. i
  <2>1. x \in SUBSET D /\ x # {} /\ Max(x) = i
    <3>1. x \in SUBSET D /\ x \in SUBSET Nat /\ i \in x /\ \A y \in x : y <= i
      BY <1>1
    <3> HIDE DEF x
    <3>2. QED
      BY <3>1, MaxIs
  <2>2. x \ {i} = 1 .. i - 1 /\ i \in 0 .. n /\ i - 1 \in 0 .. n
    BY <1>1
  <2>3. g[i] = iter[x] /\ g[i - 1] = iter[x \ {i}]
    BY <1>7, <2>2
  <2>4. v(i) = i
    BY DEF v
  <2> HIDE DEF x
  <2>5. iter[x] = Again(path, iter[x \ {Max(x)}], v(Max(x)))
    BY <1>6, <2>1
  <2>6. QED
    BY <2>1, <2>3, <2>4, <2>5
<1>10. Turns(path, n, b) = g[n]
  <2>1. n \in 0 .. n
    BY <1>1
  <2>2. QED
    BY <1>2, <1>7, <2>1
<1>11. QED
  BY <1>8, <1>9, <1>10

LEMMA PlayOnSound ==
  ASSUME NEW s, Sound(s), NEW m \in Moves, NEW mainline \in BOOLEAN, Len(s.position) < MaxPly
  PROVE  LET r == PlayOn(s, m, mainline)
         IN  /\ Sound(r) /\ Lines(s.root) \subseteq Lines(r.root) /\ NoTwins(s.root, r.root)
             /\ Len(r.position) <= Len(s.position) + 1
             /\ s.position \in Paths(s.root) => r.position \in Paths(r.root)
             /\ s.dirty = TRUE => r.dirty = TRUE
<1> DEFINE r == Play(s, m, FALSE, mainline, TRUE)
<1>1. PlayOn(s, m, mainline) = r
  BY DEF PlayOn
<1>2. /\ Sound(r) /\ Lines(s.root) \subseteq Lines(r.root) /\ NoTwins(s.root, r.root)
      /\ Len(r.position) <= Len(s.position) + 1
      /\ s.position \in Paths(s.root) => r.position \in Paths(r.root)
  BY PlaySound
<1>3. s.dirty = TRUE => r.dirty = TRUE
  BY DEF Play
<1> HIDE DEF r
<1>4. QED
  BY <1>1, <1>2, <1>3

LEMMA PlaysSound ==
  ASSUME NEW b, Sound(b), b.dirty = TRUE, NEW ms \in Seq(Moves), NEW mainline \in BOOLEAN,
         Len(b.position) + Len(ms) <= MaxPly
  PROVE  LET r == Plays(ms, mainline, b)
         IN  /\ Sound(r) /\ r.dirty = TRUE /\ Lines(b.root) \subseteq Lines(r.root)
             /\ NoTwins(b.root, r.root)
             /\ b.position \in Paths(b.root) => r.position \in Paths(r.root)
<1> DEFINE n == Len(ms)
<1>1. PICK g : /\ g[0] = b
               /\ \A i \in 1 .. n : g[i] = PlayOn(g[i - 1], ms[i], mainline)
               /\ Plays(ms, mainline, b) = g[n]
  BY FoldedPlays
<1>2. n \in Nat /\ \A i \in 1 .. n : ms[i] \in Moves
  BY LenProperties, ElementOfSeq
<1>3. Len(b.position) \in Nat /\ MaxPly \in Nat /\ Len(b.position) + n <= MaxPly
  BY PathIs, GameTreeAssumption DEF Sound
<1> DEFINE Inv(i) ==
      /\ Sound(g[i]) /\ g[i].dirty = TRUE /\ Lines(b.root) \subseteq Lines(g[i].root)
      /\ NoTwins(b.root, g[i].root) /\ Len(g[i].position) <= Len(b.position) + i
      /\ b.position \in Paths(b.root) => g[i].position \in Paths(g[i].root)
<1> DEFINE E == {i \in Nat : i <= n => Inv(i)}
<1> HIDE DEF n
<1>4. 0 \in E
  <2>1. Inv(0)
    BY <1>1, <1>3 DEF NoTwins
  <2> HIDE DEF Inv
  <2>2. QED
    BY <2>1
<1>5. ASSUME NEW i \in Nat, i \in E
      PROVE  i + 1 \in E
  <2>1. SUFFICES ASSUME i + 1 <= n
                 PROVE  Inv(i + 1)
    <3> HIDE DEF Inv
    <3>1. QED
      OBVIOUS
  <2>2. i + 1 \in 1 .. n /\ (i + 1) - 1 = i /\ i <= n
    BY <1>2, <2>1
  <2> DEFINE s == g[i]
  <2> DEFINE m == ms[i + 1]
  <2> DEFINE r == PlayOn(s, m, mainline)
  <2>3. g[i + 1] = r /\ m \in Moves
    BY <1>1, <1>2, <2>2
  <2>4. Inv(i)
    BY <1>5, <2>2
  <2>5. Sound(s) /\ Len(s.position) \in Nat /\ Len(s.position) < MaxPly
    <3>1. Len(s.position) \in Nat
      BY <2>4, PathIs DEF Sound
    <3>2. QED
      BY <1>2, <1>3, <2>1, <2>4, <3>1
  <2>6. Len(s.position) <= Len(b.position) + i
    BY <2>4
  <2> HIDE DEF s, m
  <2>7. /\ Sound(r) /\ Lines(s.root) \subseteq Lines(r.root) /\ NoTwins(s.root, r.root)
        /\ Len(r.position) <= Len(s.position) + 1
        /\ s.position \in Paths(s.root) => r.position \in Paths(r.root)
    BY <2>3, <2>5, PlayOnSound
  <2>8. r.dirty = TRUE
    <3>1. s.dirty = TRUE
      BY <2>4 DEF s
    <3>2. QED
      BY <2>3, <2>5, <3>1, PlayOnSound
  <2>9. Len(r.position) \in Nat
    BY <2>7, PathIs DEF Sound
  <2> HIDE DEF r
  <2>10. Len(r.position) <= Len(b.position) + (i + 1)
    <3>1. \A x, y, z \in Nat : x <= y + 1 /\ y <= z + i => x <= z + (i + 1)
      OBVIOUS
    <3>2. QED
      BY <1>3, <2>5, <2>6, <2>7, <2>9, <3>1
  <2>11. QED
    BY <2>3, <2>4, <2>7, <2>8, <2>10 DEF s, NoTwins
<1> HIDE DEF E
<1>6. \A i \in Nat : i \in E
  BY <1>4, <1>5, NatSteps, Zenon
<1>7. Inv(n)
  BY <1>2, <1>6 DEF E
<1>8. QED
  BY <1>1, <1>7 DEF n

LEMMA LastNonZeroIs ==
  ASSUME NEW p \in Path
  PROVE  LET i == LastNonZero(p)
         IN  i \in 0 .. Len(p) /\ (i # 0 => p[i] # 0)
<1> DEFINE S == {0} \cup {i \in DOMAIN p : p[i] # 0}
<1>1. Len(p) \in Nat /\ DOMAIN p = 1 .. Len(p)
  BY PathIs
<1>2. S \in SUBSET Nat /\ S # {} /\ \A x \in S : x <= Len(p)
  BY <1>1
<1>3. \A x \in S : x \in 0 .. Len(p) /\ (x # 0 => p[x] # 0)
  BY <1>1
<1> HIDE DEF S
<1>4. Max(S) \in S
  BY <1>1, <1>2, MaxOf
<1>5. QED
  BY <1>3, <1>4 DEF LastNonZero, S

(* Promoting keeps every line, and takes the cursor to the node promoted.   *)
LEMMA PromoteSound ==
  ASSUME NEW s, Tree(s.root), NEW path \in Paths(s.root)
  PROVE  LET r == Promote(s, path)
         IN  /\ Tree(r.root) /\ NoTwins(s.root, r.root) /\ Lines(r.root) = Lines(s.root)
             /\ LastNonZero(path) = 0 => r = s
             /\ LastNonZero(path) # 0 => r.position \in Paths(r.root)
<1> DEFINE T == s.root
<1> DEFINE i == LastNonZero(path)
<1> DEFINE q == SubSeq(path, 1, i - 1)
<1> DEFINE v == path[i]
<1>1. path \in Path /\ Len(path) \in Nat
  BY PathIs DEF Tree, Grown
<1>2. CASE i = 0
  BY <1>2 DEF Promote, NoTwins
<1>3. CASE i # 0
  <2>1. i \in 0 .. Len(path)
    BY <1>1, LastNonZeroIs
  <2>2. /\ Promote(s, path).root = ToFront(T, q, v)
        /\ Promote(s, path).position = [path EXCEPT ![i] = 0]
    BY <1>3 DEF Promote
  <2> HIDE DEF i, T
  <2>3. i - 1 \in 0 .. Len(path) /\ i \in 1 .. Len(path) /\ (i - 1) + 1 = i /\ i - 1 <= Len(path)
        /\ Len(path) >= (i - 1) + 1
    BY <1>1, <1>3, <2>1
  <2>4. q \in Paths(T) /\ q \in Path /\ Len(q) = i - 1
    BY <1>1, <2>3, UptoIn, Upto DEF T
  <2>5. Below(q, path)
    <3>1. IsPrefix(q, path)
      BY <1>1, <2>3, <2>4, PrefixIs
    <3>2. QED
      BY <2>3, <2>4, <3>1 DEF Below
  <2> HIDE DEF q
  <2>6. v = path[Len(q) + 1] /\ v \in Nat /\ v < Kids(T, q)
    <3>1. path[Len(q) + 1] \in Nat /\ path[Len(q) + 1] < Kids(T, q)
      BY <2>4, <2>5, ChildOnPath DEF T
    <3>2. Len(q) + 1 = i
      BY <2>3, <2>4
    <3>3. QED
      BY <3>1, <3>2
  <2> DEFINE R == ToFront(T, q, v)
  <2>7. /\ Tree(R) /\ (Twinless(T) => Twinless(R)) /\ Lines(R) = Lines(T)
        /\ \A p \in Paths(T) : Below(q, p) /\ p[Len(q) + 1] = v =>
             [p EXCEPT ![Len(q) + 1] = 0] \in Paths(R)
    <3> HIDE DEF v
    <3>1. QED
      BY <2>4, <2>6, PutFirst DEF T
  <2>8. [path EXCEPT ![Len(q) + 1] = 0] \in Paths(R)
    BY <2>5, <2>6, <2>7 DEF T
  <2>9. Len(q) + 1 = i
    BY <2>3, <2>4
  <2> HIDE DEF R, v
  <2>10. QED
    BY <1>3, <2>2, <2>7, <2>8, <2>9 DEF R, T, i, q, NoTwins
<1>4. QED
  BY <1>2, <1>3

LEMMA TurnsSound ==
  ASSUME NEW b, Sound(b), NEW path \in Paths(b.root), NEW k \in Nat,
         k # 0 => LastNonZero(path) # 0
  PROVE  LET r == Turns(path, k, b)
         IN  /\ Sound(r) /\ NoTwins(b.root, r.root) /\ Lines(r.root) = Lines(b.root)
             /\ b.position \in Paths(b.root) => r.position \in Paths(r.root)
<1>1. PICK g : /\ g[0] = b /\ \A i \in 1 .. k : g[i] = Again(path, g[i - 1], i)
               /\ Turns(path, k, b) = g[k]
  BY FoldedTurns
<1> DEFINE Inv(i) ==
      /\ Sound(g[i]) /\ NoTwins(b.root, g[i].root) /\ Lines(g[i].root) = Lines(b.root)
      /\ IF i = 0 THEN g[i] = b ELSE g[i].position \in Paths(g[i].root)
<1> DEFINE E == {i \in Nat : i <= k => Inv(i)}
<1>2. 0 \in E
  <2>1. Inv(0)
    BY <1>1 DEF NoTwins
  <2> HIDE DEF Inv
  <2>2. QED
    BY <2>1
<1>3. ASSUME NEW i \in Nat, i \in E
      PROVE  i + 1 \in E
  <2>1. SUFFICES ASSUME i + 1 <= k
                 PROVE  Inv(i + 1)
    <3> HIDE DEF Inv
    <3>1. QED
      OBVIOUS
  <2>2. i + 1 \in 1 .. k /\ (i + 1) - 1 = i /\ i <= k /\ k # 0 /\ i + 1 # 0
    BY <2>1
  <2> DEFINE s == g[i]
  <2> DEFINE p == IF i + 1 = 1 THEN path ELSE s.position
  <2> DEFINE r == Promote(s, p)
  <2>3. g[i + 1] = r
    BY <1>1, <2>2 DEF Again
  <2>4. Inv(i)
    BY <1>3, <2>2
  <2>5. /\ Tree(s.root) /\ NoTwins(b.root, s.root) /\ s.position \in Path
        /\ Lines(s.root) = Lines(b.root)
    BY <2>4 DEF Sound
  <2>6. p \in Paths(s.root) /\ (LastNonZero(p) # 0 \/ s.position \in Paths(s.root))
    <3>1. CASE i = 0
      BY <2>2, <2>4, <3>1
    <3>2. CASE i # 0
      BY <2>4, <3>2
    <3>3. QED
      BY <3>1, <3>2
  <2> HIDE DEF s, p
  <2>7. /\ Tree(r.root) /\ NoTwins(s.root, r.root) /\ Lines(r.root) = Lines(s.root)
        /\ LastNonZero(p) = 0 => r = s
        /\ LastNonZero(p) # 0 => r.position \in Paths(r.root)
    BY <2>5, <2>6, PromoteSound
  <2> HIDE DEF r
  <2>8. r.position \in Paths(r.root)
    BY <2>6, <2>7
  <2>9. Sound(r)
    BY <2>7, <2>8 DEF Sound, Tree, Grown
  <2>10. QED
    BY <2>2, <2>3, <2>5, <2>7, <2>8, <2>9 DEF NoTwins
<1> HIDE DEF E
<1>4. \A i \in Nat : i \in E
  BY <1>2, <1>3, NatSteps, Zenon
<1>5. Inv(k)
  BY <1>4 DEF E
<1>6. QED
  BY <1>1, <1>5

-----------------------------------------------------------------------------
(* Lines.                                                                   *)

LEMMA RootLine ==
  ASSUME NEW T
  PROVE  LineOf(T, << >>) = << >>
<1>1. Len(<< >>) = 0 /\ 1 .. 0 = {}
  OBVIOUS
<1>2. LineOf(T, << >>) = [i \in {} |-> T[SubSeq(<< >>, 1, i)].san]
  BY <1>1 DEF LineOf
<1>3. QED
  BY <1>2

(* The book's operators on sequences are the tree's.                        *)
LEMMA BookFront == \A l : Book!Front(l) = Front(l)
  BY DEF Book!Front, Front

LEMMA BookPrefix == \A k, l : Book!IsPrefix(k, l) <=> IsPrefix(k, l)
  BY DEF Book!IsPrefix, IsPrefix

LEMMA LinesClosed ==
  ASSUME NEW T, Tree(T)
  PROVE  Book!Closed(Lines(T))
<1>1. << >> \in Lines(T)
  BY RootLine DEF Lines, Tree, Grown
<1>2. ASSUME NEW l \in Lines(T) \ {<< >>}
      PROVE  Front(l) \in Lines(T)
  <2>1. PICK p \in Paths(T) : l = LineOf(T, p)
    BY DEF Lines
  <2>2. p \in Path /\ p # << >>
    BY <1>2, <2>1, RootLine DEF Tree, Grown
  <2>3. Len(p) - 1 \in 0 .. Len(p)
    BY <2>2, Parted
  <2>4. Len(l) = Len(p)
    BY <2>1, LineIs
  <2>5. Front(l) = LineOf(T, SubSeq(p, 1, Len(p) - 1))
    BY <2>1, <2>3, <2>4, LineUpto DEF Front
  <2>6. SubSeq(p, 1, Len(p) - 1) \in Paths(T)
    BY <2>3, UptoIn
  <2>7. QED
    BY <2>5, <2>6 DEF Lines
<1>3. QED
  BY <1>1, <1>2, BookFront DEF Book!Closed

-----------------------------------------------------------------------------
(* The invariant, and what a step does besides keeping it.                  *)

IInv ==
  /\ Tree(root)
  /\ position \in Path
  /\ dirty \in BOOLEAN
  /\ start = NoPath \/ start \in Path
  /\ report \in 0 .. MaxPly \cup {NoReport}

OnTree == position \in Paths(root) => position' \in Paths(root')

Marked == root' # root \/ start' # start => dirty'

Changes == root' # root \/ dirty' # dirty

Extends == Changes => Book!Extend

LEMMA NewLines ==
  ASSUME Tree(root)', Lines(root) \subseteq Lines(root'), Changes => dirty' = TRUE
  PROVE  Extends
<1>1. Book!Closed(Lines(root'))
  BY LinesClosed
<1>2. QED
  BY <1>1 DEF Extends, Book!Extend

LEMMA SameTree ==
  ASSUME IInv, root' = root
  PROVE  /\ Tree(root)' /\ NoTwins(root, root')
         /\ (dirty' # dirty => dirty' = TRUE) => Extends
<1>1. Tree(root)' /\ Lines(root') = Lines(root) /\ NoTwins(root, root')
  BY DEF IInv, Tree, NoTwins, Paths, Lines
<1>2. QED
  BY <1>1, NewLines DEF Changes

LEMMA DefaultIs ==
  Tree(defaultTree) /\ Twinless(defaultTree) /\ Lines(defaultTree) = {<< >>}
<1> DEFINE T == defaultTree
<1>1. Paths(T) = {<< >>} /\ T[<< >>] = NoMove
  BY DEF defaultTree, Paths
<1> HIDE DEF T
<1>2. << >> \in Path /\ Len(<< >>) = 0
  BY EmptySeq DEF Path
<1>3. Grown(Paths(T))
  <2>1. \A q \in Path, i \in Nat : Append(q, i) # << >>
    BY Appended
  <2>2. QED
    BY <1>1, <1>2, <2>1 DEF Grown
<1>4. Tree(T)
  <2>1. IsFiniteSet(Paths(T))
    BY <1>1, FS_Singleton
  <2>2. QED
    BY <1>1, <1>2, <1>3, <2>1, GameTreeAssumption DEF Tree
<1>5. Twinless(T)
  BY <1>1 DEF Twinless
<1>6. Lines(T) = {<< >>}
  BY <1>1, RootLine DEF Lines
<1>7. QED
  BY <1>4, <1>5, <1>6 DEF T

LEMMA InitHolds ==
  Init => IInv /\ Book!Init
<1>1. << >> \in Path
  BY EmptySeq DEF Path
<1>2. QED
  BY <1>1, DefaultIs DEF Init, IInv, Book!Init

-----------------------------------------------------------------------------
(* Playing moves.                                                           *)

(* What an edit that takes no line away does.                               *)
Adds == IInv' /\ Extends /\ OnTree /\ Marked /\ NoTwins(root, root')

LEMMA DraftSound ==
  ASSUME IInv, NEW s, root' = s.root, position' = s.position, UNCHANGED <<start, report>>,
         Sound(s), Lines(root) \subseteq Lines(s.root), NoTwins(root, s.root),
         dirty' \in BOOLEAN, root' # root => dirty' = TRUE, dirty = TRUE => dirty' = TRUE,
         position \in Paths(root) => s.position \in Paths(s.root)
  PROVE  Adds
<1>1. Tree(root)' /\ position' \in Path /\ NoTwins(root, root')
  BY DEF Sound, Tree, Paths
<1>2. Extends
  <2>1. Lines(root) \subseteq Lines(root')
    OBVIOUS
  <2>2. Changes => dirty' = TRUE
    BY DEF Changes, IInv
  <2>3. QED
    BY <1>1, <2>1, <2>2, NewLines
<1>3. OnTree /\ Marked
  BY DEF OnTree, Marked
<1>4. IInv'
  BY <1>1 DEF IInv
<1>5. QED
  BY <1>1, <1>2, <1>3, <1>4 DEF Adds

LEMMA StateSound ==
  ASSUME IInv
  PROVE  /\ Sound(State) /\ State.root = root /\ State.position = position
         /\ State.dirty = dirty /\ State.dirty \in BOOLEAN
  BY DEF IInv, Sound, State

LEMMA RoomIs ==
  ASSUME IInv, NEW p \in Path, NEW n \in Nat, Room(p, n)
  PROVE  Len(p) + n <= MaxPly /\ (n = 1 => Len(p) < MaxPly)
  BY PathIs, GameTreeAssumption DEF Room

LEMMA MakeMoveAdds ==
  ASSUME IInv, NEW m \in Moves, NEW mainline \in BOOLEAN, NEW change \in BOOLEAN,
         MakeMove(m, mainline, change)
  PROVE  Adds
<1> DEFINE s == State
<1> DEFINE r == Play(s, m, FALSE, mainline, change)
<1>1. Becomes(r) /\ UNCHANGED <<start, report>> /\ Room(position, 1)
  BY DEF MakeMove
<1>2. Sound(s) /\ s.root = root /\ s.position = position /\ s.dirty = dirty /\ s.dirty \in BOOLEAN
  BY StateSound
<1>3. Len(s.position) < MaxPly
  BY <1>1, <1>2, RoomIs DEF IInv
<1> HIDE DEF s
<1>4. /\ Sound(r) /\ Lines(s.root) \subseteq Lines(r.root) /\ NoTwins(s.root, r.root)
      /\ s.position \in Paths(s.root) => r.position \in Paths(r.root)
  BY <1>2, <1>3, PlaySound
<1>5. /\ r.dirty \in BOOLEAN /\ (r.root # s.root => r.dirty = TRUE)
      /\ s.dirty = TRUE => r.dirty = TRUE
  BY <1>2 DEF Play
<1> HIDE DEF r
<1>6. QED
  BY <1>1, <1>2, <1>4, <1>5, DraftSound DEF Becomes

LEMMA AppendMoveAdds ==
  ASSUME IInv, NEW m \in Moves, AppendMove(m)
  PROVE  Adds
<1> DEFINE s == State
<1> DEFINE r == Play(s, m, TRUE, FALSE, TRUE)
<1>1. Becomes(r) /\ UNCHANGED <<start, report>> /\ Room(MainEnd(root, << >>), 1)
  BY DEF AppendMove
<1>2. Sound(s) /\ s.root = root /\ s.position = position /\ s.dirty = dirty /\ s.dirty \in BOOLEAN
  BY StateSound
<1>3. Len(MainEnd(s.root, << >>)) < MaxPly
  <2>1. << >> \in Paths(root)
    BY DEF IInv, Tree, Grown
  <2>2. MainEnd(root, << >>) \in Path
    BY <2>1, EndOf DEF IInv
  <2>3. QED
    BY <1>1, <1>2, <2>2, RoomIs
<1> HIDE DEF s
<1>4. /\ Sound(r) /\ Lines(s.root) \subseteq Lines(r.root) /\ NoTwins(s.root, r.root)
      /\ s.position \in Paths(s.root) => r.position \in Paths(r.root)
  BY <1>2, <1>3, PlaySound
<1>5. /\ r.dirty \in BOOLEAN /\ (r.root # s.root => r.dirty = TRUE)
      /\ s.dirty = TRUE => r.dirty = TRUE
  BY <1>2 DEF Play
<1> HIDE DEF r
<1>6. QED
  BY <1>1, <1>2, <1>4, <1>5, DraftSound DEF Becomes

LEMMA ShortIs ==
  ASSUME NEW M \in SUBSET Moves, NEW ms \in ShortLines(M)
  PROVE  ms \in Seq(Moves) /\ Len(ms) \in 1 .. 2 /\ ms[1] \in Moves /\ (Len(ms) = 2 => ms[2] \in Moves)
<1>1. CASE \E m \in M : ms = <<m>>
  BY <1>1
<1>2. CASE \E m, n \in M : ms = <<m, n>>
  BY <1>2
<1>3. QED
  BY <1>1, <1>2 DEF ShortLines

LEMMA MakeMovesAdds ==
  ASSUME IInv, NEW ms \in ShortLines(Moves), NEW mainline \in BOOLEAN, MakeMoves(ms, mainline)
  PROVE  Adds
<1> DEFINE b == [State EXCEPT !.dirty = TRUE]
<1> DEFINE r == Plays(ms, mainline, b)
<1>1. Becomes(r) /\ UNCHANGED <<start, report>> /\ Room(position, Len(ms))
  BY DEF MakeMoves, Plays, PlayOn
<1>2. Sound(b) /\ b.root = root /\ b.position = position /\ b.dirty = TRUE
  BY StateSound DEF State, Sound
<1>3. ms \in Seq(Moves) /\ Len(ms) \in Nat
  BY ShortIs
<1>4. Len(b.position) + Len(ms) <= MaxPly
  BY <1>1, <1>2, <1>3, RoomIs DEF IInv
<1> HIDE DEF b
<1>5. /\ Sound(r) /\ r.dirty = TRUE /\ Lines(b.root) \subseteq Lines(r.root) /\ NoTwins(b.root, r.root)
      /\ b.position \in Paths(b.root) => r.position \in Paths(r.root)
  BY <1>2, <1>3, <1>4, PlaysSound
<1> HIDE DEF r
<1>6. QED
  BY <1>1, <1>2, <1>5, DraftSound DEF Becomes

-----------------------------------------------------------------------------
(* Promoting, and the edits that leave the tree alone.                      *)

LEMMA PromoteVariationAdds ==
  ASSUME IInv, NEW path \in Paths(root), PromoteVariation(path)
  PROVE  Adds
<1> DEFINE s == [root |-> root, position |-> position]
<1> DEFINE r == Promote(s, path)
<1>1. root' = r.root /\ position' = r.position /\ dirty' = TRUE /\ UNCHANGED <<start, report>>
  BY DEF PromoteVariation
<1>2. s.root = root /\ s.position = position /\ Sound(s)
  BY DEF IInv, Sound
<1> HIDE DEF s
<1>3. /\ Tree(r.root) /\ NoTwins(s.root, r.root) /\ Lines(r.root) = Lines(s.root)
      /\ LastNonZero(path) = 0 => r = s
      /\ LastNonZero(path) # 0 => r.position \in Paths(r.root)
  BY <1>2, PromoteSound DEF Sound
<1> HIDE DEF r
<1>4. Sound(r)
  BY <1>2, <1>3 DEF Sound, Tree, Grown
<1>5. position \in Paths(root) => r.position \in Paths(r.root)
  BY <1>2, <1>3
<1>6. QED
  BY <1>1, <1>2, <1>3, <1>4, <1>5, DraftSound

(* There is a turn only where the path leaves the main line.                *)
LEMMA TurnsAre ==
  ASSUME NEW path \in Path
  PROVE  LET turns == Cardinality({i \in DOMAIN path : path[i] # 0})
         IN  turns \in Nat /\ (turns # 0 => LastNonZero(path) # 0)
<1> DEFINE S == {i \in DOMAIN path : path[i] # 0}
<1>1. S \subseteq 1 .. Len(path) /\ Len(path) \in Nat
  BY PathIs
<1>2. IsFiniteSet(1 .. Len(path))
  BY <1>1, FS_Interval
<1>3. Cardinality(S) \in Nat
  BY <1>1, <1>2, FS_Subset, FS_CardinalityType
<1>4. S = {} => Cardinality(S) = 0
  BY FS_EmptySet
<1>5. ASSUME NEW i \in S
      PROVE  LastNonZero(path) # 0
  <2> DEFINE M == {0} \cup S
  <2>1. M \in SUBSET Nat /\ M # {} /\ \A x \in M : x <= Len(path)
    BY <1>1
  <2>2. Max(M) \in M /\ \A x \in M : x <= Max(M)
    <3> HIDE DEF M
    <3>1. QED
      BY <1>1, <2>1, MaxOf
  <2>3. LastNonZero(path) = Max(M)
    BY DEF LastNonZero
  <2>4. i \in M /\ i >= 1 /\ i \in Nat
    BY <1>1, <1>5
  <2> HIDE DEF M
  <2>5. QED
    BY <2>1, <2>2, <2>3, <2>4
<1>6. QED
  BY <1>3, <1>4, <1>5

LEMMA PromoteToMainlineAdds ==
  ASSUME IInv, NEW path \in Paths(root), PromoteToMainline(path)
  PROVE  Adds
<1> DEFINE turns == Cardinality({i \in DOMAIN path : path[i] # 0})
<1> DEFINE b == [root |-> root, position |-> position]
<1> DEFINE r == Turns(path, turns, b)
<1>1. root' = r.root /\ position' = r.position /\ dirty' = TRUE /\ UNCHANGED <<start, report>>
  BY DEF PromoteToMainline, Turns, Again
<1>2. b.root = root /\ b.position = position /\ Sound(b)
  BY DEF IInv, Sound
<1>3. turns \in Nat /\ (turns # 0 => LastNonZero(path) # 0)
  BY TurnsAre DEF IInv, Tree, Grown
<1> HIDE DEF b, turns
<1>4. /\ Sound(r) /\ NoTwins(b.root, r.root) /\ Lines(r.root) = Lines(b.root)
      /\ b.position \in Paths(b.root) => r.position \in Paths(r.root)
  BY <1>2, <1>3, TurnsSound
<1> HIDE DEF r
<1>5. QED
  BY <1>1, <1>2, <1>4, DraftSound

LEMMA QuietAdds ==
  ASSUME IInv,
         \/ \E path \in Paths(root) : SetStart(path)
         \/ Annotate \/ save \/ analyze \/ ReportFails
         \/ UNCHANGED vars
  PROVE  /\ IInv' /\ OnTree /\ Marked /\ NoTwins(root, root')
         /\ Extends \/ Book!Save
<1>1. root' = root /\ position' = position
  BY DEF SetStart, Annotate, save, analyze, ReportFails, vars
<1>2. Tree(root)' /\ NoTwins(root, root') /\ ((dirty' # dirty => dirty' = TRUE) => Extends)
  BY <1>1, SameTree
<1>3. OnTree
  BY <1>1 DEF OnTree
<1>4. dirty' \in BOOLEAN /\ Marked
  BY <1>1 DEF IInv, SetStart, Annotate, save, analyze, ReportFails, vars, Marked
<1>5. start' = NoPath \/ start' \in Path
  BY DEF IInv, Tree, Grown, SetStart, Annotate, save, analyze, ReportFails, vars
<1>6. report' \in 0 .. MaxPly \cup {NoReport}
  <2>1. MainDepth(root, << >>) \in 0 .. MaxPly
    BY DepthOf DEF IInv, Tree, Grown
  <2>2. QED
    BY <2>1 DEF IInv, SetStart, Annotate, save, analyze, ReportFails, vars
<1>7. IInv'
  BY <1>1, <1>2, <1>4, <1>5, <1>6 DEF IInv
<1>8. Extends \/ Book!Save
  <2>1. CASE save
    <3>1. Lines(root)' = Lines(root) /\ dirty' = FALSE
      BY <1>1, <2>1 DEF save, Lines, Paths
    <3>2. QED
      BY <3>1 DEF Book!Save
  <2>2. CASE ~save
    BY <1>2, <2>2 DEF SetStart, Annotate, analyze, ReportFails, vars
  <2>3. QED
    BY <2>1, <2>2
<1>9. QED
  BY <1>2, <1>3, <1>4, <1>7, <1>8

-----------------------------------------------------------------------------
(* Navigating.                                                              *)

LEMMA MovedIs ==
  ASSUME IInv, NEW p \in Path, Moved(p)
  PROVE  /\ IInv' /\ Extends /\ Marked /\ NoTwins(root, root')
         /\ (position \in Paths(root) => p \in Paths(root)) => Adds
<1>1. root' = root /\ position' = p /\ UNCHANGED <<start, dirty, report>>
  BY DEF Moved
<1>2. Tree(root)' /\ NoTwins(root, root') /\ Extends
  BY <1>1, SameTree
<1>3. IInv' /\ Marked
  BY <1>1, <1>2 DEF IInv, Marked
<1>4. (position \in Paths(root) => p \in Paths(root)) => OnTree
  BY <1>1 DEF OnTree
<1>5. QED
  BY <1>2, <1>3, <1>4 DEF Adds

LEMMA BackIs ==
  ASSUME IInv
  PROVE  /\ Back(position) \in Path
         /\ position # << >> => /\ Back(position) = Front(position)
                                /\ Last(position) \in Nat
                                /\ position = Append(Back(position), Last(position))
         /\ position \in Paths(root) => Back(position) \in Paths(root)
<1>1. CASE position = << >>
  BY <1>1 DEF IInv, Back
<1>2. CASE position # << >>
  <2>1. /\ Back(position) = Front(position) /\ Front(position) \in Path
        /\ Last(position) \in Nat /\ position = Append(Front(position), Last(position))
    BY <1>2, Parted DEF IInv, Back
  <2>2. position \in Paths(root) => Front(position) \in Paths(root)
    BY <2>1 DEF IInv, Tree, Grown
  <2>3. QED
    BY <2>1, <2>2
<1>3. QED
  BY <1>1, <1>2

LEMMA GoToNextAdds ==
  ASSUME IInv, goToNext
  PROVE  Adds
<1> DEFINE q == getNodeAtPath(root, position)
<1>1. PICK i \in 0 .. Kids(root, q) - 1 : Moved(Append(position, i))
  BY DEF goToNext
<1>2. q \in Path /\ (position \in Paths(root) => q = position)
  BY NodeAt DEF IInv
<1> HIDE DEF q
<1>3. Kids(root, q) \in Nat /\ (i \in Nat => (Append(q, i) \in Paths(root) <=> i < Kids(root, q)))
  BY <1>2, KidsAre DEF IInv
<1>4. i \in Nat /\ i < Kids(root, q)
  BY <1>1, <1>3
<1>5. Append(position, i) \in Path
  BY <1>4, Appended DEF IInv
<1>6. position \in Paths(root) => Append(position, i) \in Paths(root)
  BY <1>2, <1>3, <1>4
<1>7. QED
  BY <1>1, <1>5, <1>6, MovedIs

LEMMA GoToBranchStartAdds ==
  ASSUME IInv, goToBranchStart
  PROVE  Adds
<1> DEFINE p == IF position # << >> /\ Last(position) # 0 THEN Front(position) ELSE position
<1> DEFINE n == LastNonZero(p)
<1>1. Moved(SubSeq(p, 1, n))
  BY DEF goToBranchStart
<1>2. p \in Path /\ (position \in Paths(root) => p \in Paths(root))
  BY BackIs DEF IInv
<1> HIDE DEF p
<1>3. n \in 0 .. Len(p)
  BY <1>2, LastNonZeroIs
<1> HIDE DEF n
<1>4. SubSeq(p, 1, n) \in Path
  BY <1>2, <1>3, Upto
<1>5. p \in Paths(root) => SubSeq(p, 1, n) \in Paths(root)
  BY <1>3, UptoIn DEF IInv
<1>6. QED
  BY <1>1, <1>2, <1>4, <1>5, MovedIs

(* Down the first children of the node that the cursor stands for.          *)
LEMMA DownIs ==
  ASSUME IInv, NEW n \in Nat, n <= MainDepth(root, getNodeAtPath(root, position))
  PROVE  /\ position \o Zeros(n) \in Path
         /\ position \in Paths(root) => position \o Zeros(n) \in Paths(root)
<1>1. position \o Zeros(n) \in Path
  BY Down DEF IInv
<1>2. ASSUME position \in Paths(root)
      PROVE  position \o Zeros(n) \in Paths(root)
  <2>1. getNodeAtPath(root, position) = position
    BY <1>2, NodeAt DEF IInv
  <2>2. n <= MainDepth(root, position)
    BY <2>1
  <2>3. QED
    BY <1>2, <2>2, DepthOf DEF IInv
<1>3. QED
  BY <1>1, <1>2

LEMMA NodeDepth ==
  ASSUME IInv
  PROVE  LET q == getNodeAtPath(root, position)
         IN  q \in Paths(root) /\ q \in Path /\ MainDepth(root, q) \in 0 .. MaxPly
<1>1. getNodeAtPath(root, position) \in Paths(root) /\ getNodeAtPath(root, position) \in Path
  BY NodeAt DEF IInv
<1>2. QED
  BY <1>1, DepthOf DEF IInv

LEMMA RootZeros ==
  ASSUME IInv, NEW n \in Nat, n <= MainDepth(root, << >>)
  PROVE  Zeros(n) \in Paths(root) /\ Zeros(n) \in Path
<1>1. << >> \in Paths(root) /\ << >> \in Path
  BY DEF IInv, Tree, Grown
<1>2. << >> \o Zeros(n) \in Paths(root)
  BY <1>1, DepthOf DEF IInv
<1>3. << >> \o Zeros(n) = Zeros(n)
  BY <1>1, Down
<1>4. QED
  BY <1>2, <1>3, ZerosAre

LEMMA GoToAnnotationAdds ==
  ASSUME IInv, goToBranchEnd \/ goToAnnotation
  PROVE  Adds
<1> DEFINE q == getNodeAtPath(root, position)
<1>1. MainDepth(root, q) \in 0 .. MaxPly /\ MainDepth(root, << >>) \in 0 .. MaxPly
  BY NodeDepth, DepthOf DEF IInv, Tree, Grown
<1>2. CASE \E n \in 0 .. MainDepth(root, q) : Moved(position \o Zeros(n))
  <2>1. PICK n \in 0 .. MainDepth(root, q) : Moved(position \o Zeros(n))
    BY <1>2
  <2>2. n \in Nat /\ n <= MainDepth(root, q)
    BY <1>1, <2>1, GameTreeAssumption
  <2>3. QED
    BY <2>1, <2>2, DownIs, MovedIs
<1>3. CASE \E n \in 0 .. MainDepth(root, << >>) : Moved(Zeros(n))
  <2>1. PICK n \in 0 .. MainDepth(root, << >>) : Moved(Zeros(n))
    BY <1>3
  <2>2. n \in Nat /\ n <= MainDepth(root, << >>)
    BY <1>1, <2>1, GameTreeAssumption
  <2>3. QED
    BY <2>1, <2>2, RootZeros, MovedIs
<1>4. CASE goToBranchEnd
  <2>1. MainDepth(root, q) \in 0 .. MainDepth(root, q)
    BY <1>1, GameTreeAssumption
  <2>2. QED
    BY <1>2, <1>4, <2>1 DEF goToBranchEnd
<1>5. CASE goToAnnotation
  <2>1. 1 .. MainDepth(root, q) \subseteq 0 .. MainDepth(root, q)
    BY <1>1, GameTreeAssumption
  <2>2. QED
    BY <1>2, <1>3, <1>5, <2>1 DEF goToAnnotation
<1>6. QED
  BY <1>4, <1>5

LEMMA SiblingIs ==
  ASSUME NEW n \in Nat, NEW i \in Nat, i < n, NEW step \in {1, -1}
  PROVE  (i + n + step) % n \in Nat /\ (i + n + step) % n < n
<1>1. i + n + step \in Nat /\ n > 0
  OBVIOUS
<1>2. \A a \in Nat, b \in Nat : b > 0 => a % b \in 0 .. b - 1
  OBVIOUS
<1>3. QED
  BY <1>1, <1>2

LEMMA StepBranchAdds ==
  ASSUME IInv, NEW step \in {1, -1}, StepBranch(step)
  PROVE  Adds
<1> DEFINE parent == getNodeAtPath(root, Back(position))
<1> DEFINE n == Kids(root, parent)
<1> DEFINE index == Last(position)
<1> DEFINE sibling == (index + n + step) % n
<1> DEFINE p == IF Kids(root, Append(parent, index)) >= 2 /\ n <= 1
                THEN Append(position, sibling)
                ELSE Append(Front(position), sibling)
<1>1. position # << >> /\ index < n /\ Moved(p)
  BY DEF StepBranch
<1>2. /\ Back(position) \in Path /\ Back(position) = Front(position) /\ index \in Nat
      /\ position = Append(Back(position), index)
      /\ position \in Paths(root) => Back(position) \in Paths(root)
  BY <1>1, BackIs
<1>3. parent \in Path /\ (position \in Paths(root) => parent = Back(position))
  BY <1>2, NodeAt DEF IInv
<1> HIDE DEF parent, index
<1>4. n \in Nat /\ \A i \in Nat : Append(parent, i) \in Paths(root) <=> i < n
  BY <1>3, KidsAre DEF IInv
<1> HIDE DEF n
<1>5. sibling \in Nat /\ sibling < n
  BY <1>1, <1>2, <1>4, SiblingIs
<1> HIDE DEF sibling
<1>6. Append(position, sibling) \in Path /\ Append(Front(position), sibling) \in Path
  BY <1>2, <1>5, Appended DEF IInv
<1>7. ASSUME position \in Paths(root)
      PROVE  p \in Paths(root)
  <2>1. parent = Front(position) /\ Append(parent, index) = position
    BY <1>2, <1>3, <1>7
  <2>2. Append(Front(position), sibling) \in Paths(root)
    BY <1>4, <1>5, <2>1
  <2>3. ASSUME Kids(root, position) >= 2, n <= 1
        PROVE  Append(position, sibling) \in Paths(root)
    <3>1. sibling < Kids(root, position)
      BY <1>4, <1>5, <2>3, KidsAre DEF IInv
    <3>2. QED
      BY <1>5, <3>1, KidsAre DEF IInv
  <2>4. QED
    BY <2>1, <2>2, <2>3
<1>8. p \in Path
  BY <1>6
<1> HIDE DEF p
<1>9. QED
  BY <1>1, <1>7, <1>8, MovedIs

LEMMA NextBranchingAdds ==
  ASSUME IInv, nextBranching
  PROVE  Adds
<1> DEFINE node == getNodeAtPath(root, position)
<1> DEFINE d == MainDepth(root, node)
<1> DEFINE stops == {n \in 1 .. d : Kids(root, node \o Zeros(n)) # 1}
<1>1. Kids(root, node) > 0 /\ Moved(position \o Zeros(Min(stops)))
  BY DEF nextBranching
<1>2. node \in Paths(root) /\ node \in Path
  BY NodeDepth
<1>3. d \in 0 .. MaxPly /\ \A n \in Nat : node \o Zeros(n) \in Paths(root) <=> n <= d
  BY <1>2, DepthOf DEF IInv
<1>4. d \in Nat
  BY <1>3, GameTreeAssumption
<1> HIDE DEF node
<1>5. 1 <= d
  <2>1. Append(node, 0) \in Paths(root)
    BY <1>1, <1>2, KidsAre DEF IInv
  <2>2. node \o Zeros(1) = Append(node, 0)
    <3>1. node \o Zeros(0 + 1) = Append(node \o Zeros(0), 0) /\ node \o Zeros(0) = node
      BY <1>2, Down
    <3>2. QED
      BY <3>1
  <2>3. QED
    BY <1>3, <2>1, <2>2
<1> HIDE DEF d
<1>6. d \in stops
  <2>1. Append(node \o Zeros(d), 0) \notin Paths(root)
    <3>1. node \o Zeros(d + 1) = Append(node \o Zeros(d), 0)
      BY <1>2, <1>4, Down
    <3>2. ~(d + 1 <= d) /\ d + 1 \in Nat
      BY <1>4
    <3>3. QED
      BY <1>3, <3>1, <3>2
  <2>2. node \o Zeros(d) \in Path
    BY <1>2, <1>4, Down
  <2>3. Kids(root, node \o Zeros(d)) = 0
    BY <2>1, <2>2, KidsAre DEF IInv
  <2>4. d \in 1 .. d
    BY <1>4, <1>5
  <2>5. QED
    BY <2>3, <2>4
<1>7. Min(stops) \in stops /\ Min(stops) \in Nat /\ Min(stops) <= d
  <2>1. stops \in SUBSET Nat /\ stops # {}
    BY <1>4, <1>6
  <2>2. Min(stops) \in stops
    <3> HIDE DEF stops
    <3>1. QED
      BY <2>1, MinOf
  <2>3. QED
    BY <1>4, <2>2
<1> HIDE DEF stops
<1>8. QED
  BY <1>1, <1>7, DownIs, MovedIs DEF node, d

LEMMA PreviousBranchingAdds ==
  ASSUME IInv, previousBranching
  PROVE  Adds
<1> DEFINE stops == {n \in 0 .. Len(position) - 1 :
                       n = 0 \/ Kids(root, getNodeAtPath(root, SubSeq(position, 1, n))) # 1}
<1>1. position # << >> /\ Moved(SubSeq(position, 1, Max(stops)))
  BY DEF previousBranching
<1>2. Len(position) \in Nat \ {0}
  BY <1>1, Parted DEF IInv
<1>3. stops \in SUBSET Nat /\ stops # {} /\ \A n \in stops : n <= Len(position)
  <2>1. 0 \in stops
    BY <1>2
  <2>2. QED
    BY <1>2, <2>1
<1>4. Max(stops) \in stops
  <2> HIDE DEF stops
  <2>1. QED
    BY <1>2, <1>3, MaxOf
<1>5. Max(stops) \in 0 .. Len(position)
  BY <1>2, <1>4
<1> HIDE DEF stops
<1>6. SubSeq(position, 1, Max(stops)) \in Path
  BY <1>5, Upto DEF IInv
<1>7. position \in Paths(root) => SubSeq(position, 1, Max(stops)) \in Paths(root)
  BY <1>5, UptoIn DEF IInv
<1>8. QED
  BY <1>1, <1>6, <1>7, MovedIs

LEMMA NavigateKeeps ==
  ASSUME IInv, Navigate
  PROVE  /\ IInv' /\ Extends /\ Marked /\ NoTwins(root, root')
         /\ \/ OnTree
            \/ goToStart /\ start \notin Paths(root)
            \/ goToMove /\ position' \in NotedPaths
<1>1. CASE goToStart
  <2> DEFINE p == IF start = NoPath THEN << >> ELSE start
  <2>1. << >> \in Paths(root) /\ << >> \in Path
    BY DEF IInv, Tree, Grown
  <2>2. p \in Path /\ (start \in Paths(root) \/ start = NoPath => p \in Paths(root))
    BY <2>1 DEF IInv
  <2>3. Moved(p)
    BY <1>1 DEF goToStart
  <2>4. CASE start \notin Paths(root)
    BY <1>1, <2>2, <2>3, <2>4, MovedIs
  <2>5. CASE start \in Paths(root)
    BY <2>2, <2>3, <2>5, MovedIs DEF Adds
  <2>6. QED
    BY <2>4, <2>5
<1>2. CASE goToPrevious \/ goToEnd \/ goToMove
  <2>1. CASE goToPrevious
    BY <2>1, BackIs, MovedIs DEF goToPrevious, Adds
  <2>2. CASE goToEnd
    <3>1. << >> \in Paths(root)
      BY DEF IInv, Tree, Grown
    <3>2. MainEnd(root, << >>) \in Paths(root) /\ MainEnd(root, << >>) \in Path
      BY <3>1, EndOf DEF IInv
    <3>3. QED
      BY <2>2, <3>2, MovedIs DEF goToEnd, Adds
  <2>3. CASE goToMove
    <3>1. PICK p \in Paths(root) \cup NotedPaths : Moved(p)
      BY <2>3 DEF goToMove
    <3>2. p \in Path /\ position' = p
      BY <3>1, GamesAssumption DEF IInv, Tree, Grown, Moved, Path
    <3>3. CASE p \in Paths(root)
      BY <3>1, <3>2, <3>3, MovedIs DEF Adds
    <3>4. CASE p \in NotedPaths
      BY <2>3, <3>1, <3>2, <3>4, MovedIs
    <3>5. QED
      BY <3>1, <3>3, <3>4
  <2>4. QED
    BY <1>2, <2>1, <2>2, <2>3
<1>3. CASE \/ goToNext \/ goToBranchStart \/ goToBranchEnd \/ goToAnnotation
           \/ nextBranching \/ previousBranching \/ \E step \in {1, -1} : StepBranch(step)
  BY <1>3, GoToNextAdds, GoToBranchStartAdds, GoToAnnotationAdds, NextBranchingAdds,
     PreviousBranchingAdds, StepBranchAdds DEF Adds
<1>4. QED
  BY <1>1, <1>2, <1>3 DEF Navigate

-----------------------------------------------------------------------------
(* Deleting a move.                                                         *)

(* A node that is deeper than the parent of its path is the path itself.    *)
LEMMA DeletedIs ==
  ASSUME NEW T, Tree(T), NEW path \in Path
  PROVE  LET node == getNodeAtPath(T, path)
             up == IF path = << >> THEN << >> ELSE Front(path)
             parent == getNodeAtPath(T, up)
         IN  /\ node \in Path /\ up \in Path /\ parent \in Paths(T) /\ parent \in Path
             /\ Len(node) > Len(parent) =>
                  path # << >> /\ Last(node) \in Nat /\ Last(node) < Kids(T, parent)
<1> DEFINE node == getNodeAtPath(T, path)
<1> DEFINE up == IF path = << >> THEN << >> ELSE Front(path)
<1> DEFINE parent == getNodeAtPath(T, up)
<1>1. up \in Path
  BY Parted
<1>2. /\ node \in Paths(T) /\ node \in Path /\ IsPrefix(node, path) /\ Len(node) <= Len(path)
  BY NodeAt
<1>3. /\ parent \in Paths(T) /\ parent \in Path
      /\ \A r \in Paths(T) : IsPrefix(r, up) => Len(r) <= Len(parent)
      /\ up \in Paths(T) => parent = up
  BY <1>1, NodeAt
<1>4. Len(node) \in Nat /\ Len(parent) \in Nat /\ Len(path) \in Nat
  BY <1>2, <1>3, PathIs
<1> HIDE DEF node, parent
<1>5. ASSUME Len(node) > Len(parent)
      PROVE  path # << >> /\ Last(node) \in Nat /\ Last(node) < Kids(T, parent)
  <2>1. path # << >>
    <3>1. Len(path) # 0
      BY <1>2, <1>4, <1>5
    <3>2. QED
      BY <3>1, PathIs
  <2>2. /\ up = Front(path) /\ Len(up) = Len(path) - 1
        /\ Last(path) \in Nat /\ path = Append(up, Last(path))
    BY <2>1, Parted
  <2> HIDE DEF up
  <2>3. node = path
    <3>1. SUFFICES ASSUME node # path
                   PROVE  FALSE
      OBVIOUS
    <3>2. Len(node) # Len(path)
      BY <1>2, <3>1, PrefixIs, PathEqual
    <3>3. Len(node) <= Len(up)
      BY <1>2, <1>4, <2>2, <3>2
    <3>4. \A i \in 1 .. Len(node) : node[i] = up[i]
      <4>1. \A i \in 1 .. Len(node) : node[i] = path[i]
        BY <1>2, PrefixIs
      <4>2. \A i \in 1 .. Len(up) : up[i] = path[i]
        <5>1. \A i \in 1 .. Len(up) : Append(up, Last(path))[i] = up[i]
          BY <1>1, <2>2, Appended
        <5>2. QED
          BY <2>2, <5>1
      <4>3. 1 .. Len(node) \subseteq 1 .. Len(up)
        BY <1>4, <2>2, <3>3
      <4>4. QED
        BY <4>1, <4>2, <4>3
    <3>5. IsPrefix(node, up)
      BY <1>1, <1>2, <3>3, <3>4, PrefixIs
    <3>6. Len(node) <= Len(parent)
      BY <1>2, <1>3, <3>5
    <3>7. QED
      BY <1>4, <1>5, <3>6
  <2>4. up \in Paths(T)
    BY <1>1, <1>2, <2>2, <2>3 DEF Tree, Grown
  <2>5. parent = up /\ Append(parent, Last(node)) \in Paths(T)
    BY <1>2, <1>3, <2>2, <2>3, <2>4
  <2>6. QED
    BY <1>3, <2>1, <2>2, <2>3, <2>5, KidsAre
<1>6. QED
  BY <1>1, <1>2, <1>3, <1>5 DEF node, parent

LEMMA DeleteAtKeeps ==
  ASSUME IInv, NEW path \in Path, DeleteAt(path)
  PROVE  /\ IInv' /\ Marked /\ NoTwins(root, root')
         /\ Extends \/ (Book!Delete /\ (Twinless(root) => Book!TakeOut))
<1> DEFINE node == getNodeAtPath(root, path)
<1> DEFINE up == IF path = << >> THEN << >> ELSE Front(path)
<1> DEFINE parent == getNodeAtPath(root, up)
<1> DEFINE index == IF Len(node) > Len(parent) THEN Last(node) ELSE -1
<1> DEFINE k == Kids(root, parent)
<1>1. /\ root' = IF k = 0 THEN root ELSE Splice(root, parent, index)
      /\ position' = IF IsPrefix(path, position) THEN up
                     ELSE IF IsPrefix(up, position) /\ Len(position) >= Len(path)
                     THEN [position EXCEPT ![Len(path)] = 0]
                     ELSE position
      /\ start' = IF start # NoPath /\ IsPrefix(path, start) THEN NoPath ELSE start
      /\ dirty' = TRUE /\ report' = report
  BY DEF DeleteAt
<1>2. /\ node \in Path /\ up \in Path /\ parent \in Paths(root) /\ parent \in Path
      /\ Len(node) > Len(parent) =>
           path # << >> /\ Last(node) \in Nat /\ Last(node) < Kids(root, parent)
  BY DeletedIs DEF IInv
<1>3. k \in Nat
  BY <1>2, KidsAre DEF IInv
<1>4. position' \in Path
  <2>1. ASSUME ~IsPrefix(path, position), IsPrefix(up, position), Len(position) >= Len(path)
        PROVE  [position EXCEPT ![Len(path)] = 0] \in Path
    <3>1. path # << >>
      <4>1. IsPrefix(<< >>, position)
        <5>1. << >> \in Path /\ Len(<< >>) = 0 /\ Len(position) \in Nat
          BY EmptySeq, PathIs DEF IInv, Path
        <5>2. Len(<< >>) <= Len(position) /\ \A i \in 1 .. Len(<< >>) : << >>[i] = position[i]
          BY <5>1
        <5>3. QED
          BY <5>1, <5>2, PrefixIs DEF IInv
      <4>2. QED
        BY <2>1, <4>1
    <3>2. Len(up) + 1 = Len(path)
      BY <3>1, Parted
    <3>3. Below(up, position)
      BY <2>1, <3>2 DEF Below
    <3>4. [position EXCEPT ![Len(up) + 1] = 0] \in Path
      BY <1>2, <3>3, PutAt DEF IInv
    <3>5. QED
      BY <3>2, <3>4
  <2> HIDE DEF up
  <2>2. QED
    BY <1>1, <1>2, <2>1 DEF IInv
<1>5. /\ start' = NoPath \/ start' \in Path
      /\ Marked /\ dirty' \in BOOLEAN /\ report' \in 0 .. MaxPly \cup {NoReport}
  BY <1>1 DEF IInv, Marked
<1> HIDE DEF node, up, parent
<1>6. CASE k = 0
  <2>1. root' = root
    BY <1>1, <1>6
  <2>2. Tree(root)' /\ NoTwins(root, root') /\ Extends
    BY <1>1, <2>1, SameTree
  <2>3. QED
    BY <1>4, <1>5, <2>2 DEF IInv
<1>7. CASE k # 0
  <2> DEFINE g == IF index < 0 THEN k + index ELSE index
  <2> DEFINE R == Reorder(root, parent, RemoveAt(InOrder(root, parent), g + 1))
  <2>1. root' = R
    BY <1>1, <1>7 DEF Splice
  <2>2. g \in Nat /\ g < Kids(root, parent)
    <3>1. CASE Len(node) > Len(parent)
      BY <1>2, <3>1
    <3>2. CASE ~(Len(node) > Len(parent))
      BY <1>3, <1>7, <3>2
    <3>3. QED
      BY <3>1, <3>2
  <2> HIDE DEF index, k, g
  <2> DEFINE a == Append(parent, g)
  <2> DEFINE l == LineOf(root, a)
  <2>3. /\ Tree(R) /\ (Twinless(root) => Twinless(R))
        /\ Lines(R) \subseteq Lines(root)
        /\ {k2 \in Lines(root) : ~IsPrefix(l, k2)} \subseteq Lines(R)
        /\ Twinless(root) => Lines(R) = {k2 \in Lines(root) : ~IsPrefix(l, k2)}
    BY <1>2, <2>2, TakenOut DEF IInv
  <2> HIDE DEF R
  <2>4. Tree(root)' /\ NoTwins(root, root') /\ Lines(root)' = Lines(R)
    BY <2>1, <2>3 DEF Tree, NoTwins, Lines, Paths
  <2>5. a \in Paths(root) /\ Len(a) # 0
    BY <1>2, <2>2, KidsAre, Appended, PathIs DEF IInv
  <2> HIDE DEF a
  <2>6. l \in Lines(root) \ {<< >>}
    <3>1. l \in Lines(root) /\ Len(l) = Len(a)
      BY <2>5, LineIs DEF IInv, Lines
    <3> HIDE DEF l
    <3>2. QED
      BY <2>5, <3>1
  <2> HIDE DEF l
  <2>7. Lines(root) \ Book!Continuations(l) = {k2 \in Lines(root) : ~IsPrefix(l, k2)}
    BY BookPrefix DEF Book!Continuations
  <2>8. Book!Closed(Lines(root)')
    BY <2>3, <2>4, LinesClosed
  <2>9. Book!Delete
    BY <1>1, <2>3, <2>4, <2>6, <2>7, <2>8 DEF Book!Delete
  <2>10. Twinless(root) => Book!TakeOut
    BY <2>3, <2>4, <2>6, <2>7 DEF Book!TakeOut
  <2>11. QED
    BY <1>4, <1>5, <2>4, <2>9, <2>10 DEF IInv
<1>8. QED
  BY <1>6, <1>7

(* A cursor on the tree stays there, unless it was beside or below a sibling*)
(* of the deleted move.                                                     *)
LEMMA DeleteStays ==
  ASSUME IInv, NEW path \in Paths(root), DeleteAt(path), position \in Paths(root)
  PROVE  \/ position' \in Paths(root')
         \/ /\ path # << >> /\ Len(position) >= Len(path)
            /\ IsPrefix(Front(path), position) /\ ~IsPrefix(path, position)
<1> DEFINE node == getNodeAtPath(root, path)
<1> DEFINE up == IF path = << >> THEN << >> ELSE Front(path)
<1> DEFINE parent == getNodeAtPath(root, up)
<1> DEFINE index == IF Len(node) > Len(parent) THEN Last(node) ELSE -1
<1> DEFINE k == Kids(root, parent)
<1>1. /\ root' = IF k = 0 THEN root ELSE Splice(root, parent, index)
      /\ position' = IF IsPrefix(path, position) THEN up
                     ELSE IF IsPrefix(up, position) /\ Len(position) >= Len(path)
                     THEN [position EXCEPT ![Len(path)] = 0]
                     ELSE position
  BY DEF DeleteAt
<1>2. path \in Path /\ position \in Path /\ Tree(root) /\ << >> \in Paths(root)
  BY DEF IInv, Tree, Grown
<1>3. /\ node \in Path /\ up \in Path /\ parent \in Paths(root) /\ parent \in Path
      /\ Len(node) > Len(parent) =>
           path # << >> /\ Last(node) \in Nat /\ Last(node) < Kids(root, parent)
  BY <1>2, DeletedIs
<1>4. up \in Paths(root) /\ (path # << >> => up = Front(path) /\ Len(path) = Len(up) + 1)
  <2>1. CASE path = << >>
    BY <1>2, <2>1
  <2>2. CASE path # << >>
    <3>1. /\ Front(path) \in Path /\ Last(path) \in Nat /\ path = Append(Front(path), Last(path))
          /\ Len(Front(path)) = Len(path) - 1 /\ Len(path) \in Nat
      BY <1>2, <2>2, Parted
    <3>2. Front(path) \in Paths(root)
      BY <1>2, <3>1 DEF Tree, Grown
    <3>3. QED
      BY <2>2, <3>1, <3>2
  <2>3. QED
    BY <2>1, <2>2
<1>5. parent = up
  BY <1>2, <1>3, <1>4, NodeAt
<1>6. k \in Nat
  BY <1>2, <1>3, KidsAre
<1> HIDE DEF node, up, parent
<1>7. ASSUME NEW p \in Paths(root), ~Below(up, p)
      PROVE  p \in Paths(root')
  <2>1. CASE k = 0
    BY <1>1, <1>7, <2>1
  <2>2. CASE k # 0
    <3> DEFINE g == IF index < 0 THEN k + index ELSE index
    <3> DEFINE R == Reorder(root, parent, RemoveAt(InOrder(root, parent), g + 1))
    <3>1. root' = R
      BY <1>1, <2>2 DEF Splice
    <3>2. g \in Nat /\ g < Kids(root, parent)
      <4>1. CASE Len(node) > Len(parent)
        BY <1>3, <4>1
      <4>2. CASE ~(Len(node) > Len(parent))
        BY <1>6, <2>2, <4>2
      <4>3. QED
        BY <4>1, <4>2
    <3> HIDE DEF index, k, g
    <3>3. p \in Paths(R)
      BY <1>2, <1>3, <1>5, <1>7, <3>2, TakenOut
    <3>4. QED
      BY <3>1, <3>3
  <2>3. QED
    BY <2>1, <2>2
<1> HIDE DEF index, k
<1>8. ~Below(up, up)
  BY <1>3, BelowNext
<1>9. CASE IsPrefix(path, position)
  BY <1>1, <1>4, <1>7, <1>8, <1>9
<1>10. CASE ~IsPrefix(path, position)
  <2>1. path # << >>
    <3>1. IsPrefix(<< >>, position)
      <4>1. << >> \in Path /\ Len(<< >>) = 0 /\ Len(position) \in Nat
        BY <1>2, EmptySeq, PathIs DEF Path
      <4>2. Len(<< >>) <= Len(position) /\ \A i \in 1 .. Len(<< >>) : << >>[i] = position[i]
        BY <4>1
      <4>3. QED
        BY <1>2, <4>1, <4>2, PrefixIs
    <3>2. QED
      BY <1>10, <3>1
  <2>2. CASE IsPrefix(up, position) /\ Len(position) >= Len(path)
    BY <1>4, <1>10, <2>1, <2>2
  <2>3. CASE ~(IsPrefix(up, position) /\ Len(position) >= Len(path))
    <3>1. position' = position
      BY <1>1, <1>10, <2>3
    <3>2. ~Below(up, position)
      BY <1>4, <2>1, <2>3 DEF Below
    <3>3. QED
      BY <1>7, <3>1, <3>2
  <2>4. QED
    BY <2>2, <2>3
<1>11. QED
  BY <1>9, <1>10

-----------------------------------------------------------------------------
(* Loading another game.                                                    *)

LEMMA RenewedIs ==
  ASSUME IInv, root' = defaultTree, position' = << >>,
         dirty' \in BOOLEAN, start' \in {start, NoPath}, report' = report
  PROVE  IInv' /\ OnTree /\ Lines(root)' = {<< >>} /\ NoTwins(root, root')
<1>1. Tree(root)' /\ Twinless(root') /\ Lines(root)' = {<< >>}
  BY DefaultIs DEF Tree, Lines, Paths
<1>2. << >> \in Path /\ << >> \in Paths(root')
  BY EmptySeq DEF Path, defaultTree, Paths
<1>3. IInv' /\ OnTree
  BY <1>1, <1>2 DEF IInv, OnTree
<1>4. QED
  BY <1>1, <1>3 DEF NoTwins

LEMMA GameIs ==
  ASSUME NEW T \in Games
  PROVE  Tree(T) /\ << >> \in Paths(T)
<1>1. /\ IsFiniteSet(Paths(T)) /\ << >> \in Paths(T)
      /\ \A p \in Paths(T) : /\ p \in Path /\ Len(p) <= MaxPly /\ T[p] \in Moves \cup {NoMove}
                             /\ T[p] = NoMove <=> p = << >>
      /\ \A p \in Paths(T) \ {<< >>} :
           /\ Front(p) \in Paths(T)
           /\ \A i \in 0 .. Last(p) : Append(Front(p), i) \in Paths(T)
  BY GamesAssumption DEF TreeOf, WellFormed, Path
<1>2. ASSUME NEW q \in Path, NEW i \in Nat, Append(q, i) \in Paths(T)
      PROVE  q \in Paths(T) /\ \A j \in 0 .. i : Append(q, j) \in Paths(T)
  <2>1. Append(q, i) # << >> /\ Front(Append(q, i)) = q /\ Last(Append(q, i)) = i
    BY Appended
  <2>2. QED
    BY <1>1, <1>2, <2>1
<1>3. Grown(Paths(T))
  BY <1>1, <1>2 DEF Grown
<1>4. QED
  BY <1>1, <1>3 DEF Tree

LEMMA GameTaken ==
  ASSUME IInv, NEW T \in Games, NEW s \in NotedPaths \cup {NoPath},
         root' = T, position' \in {s, << >>}, s = NoPath => position' = << >>,
         start' = s, dirty' \in BOOLEAN, report' = report
  PROVE  /\ IInv' /\ (OnTree \/ position' = s)
         /\ position' = << >> => OnTree
         /\ Lines(root)' \in {Lines(G) : G \in Games}
<1>1. Tree(T) /\ << >> \in Paths(T)
  BY GameIs
<1>2. << >> \in Path /\ NotedPaths \subseteq Path
  BY EmptySeq, GamesAssumption DEF Path
<1>3. Tree(root)' /\ Lines(root)' = Lines(T) /\ << >> \in Paths(root')
  BY <1>1 DEF Tree, Lines, Paths
<1>4. IInv'
  BY <1>2, <1>3 DEF IInv
<1>5. position' = << >> => OnTree
  BY <1>3 DEF OnTree
<1>6. QED
  BY <1>3, <1>4, <1>5

-----------------------------------------------------------------------------
(* The report.                                                              *)

Grafted(T, q, pv) ==
  LET first == Append(q, Kids(T, q))
  IN  Add(T, [p \in {first \o Zeros(i) : i \in 0 .. Len(pv) - 1} |-> pv[Len(p) - Len(q)]])

(* A line of one or two moves beside a child is one push or two.            *)
LEMMA LineAdded ==
  ASSUME NEW T, Tree(T), NEW q \in Paths(T), NEW pv \in ShortLines(EngineMoves),
         \A i \in Nat : Append(q, i) \in Paths(T) => T[Append(q, i)].move # pv[1].move,
         Len(q) + Len(pv) <= MaxPly
  PROVE  LET R == Grafted(T, q, pv)
         IN  /\ Tree(R) /\ Paths(T) \subseteq Paths(R) /\ Lines(T) \subseteq Lines(R)
             /\ Twinless(T) => SquaresDiffer(R)
<1> DEFINE first == Append(q, Kids(T, q))
<1> DEFINE N == [p \in {first \o Zeros(i) : i \in 0 .. Len(pv) - 1} |-> pv[Len(p) - Len(q)]]
<1> DEFINE R == Grafted(T, q, pv)
<1> DEFINE U == Push(T, q, pv[1])
<1>0. R = Add(T, N)
  BY DEF Grafted
<1>1. Len(pv) \in 1 .. 2 /\ pv[1] \in Moves /\ (Len(pv) = 2 => pv[2] \in Moves)
  BY ShortIs, GameTreeAssumption
<1>2. q \in Path /\ Len(q) \in Nat
  BY PathIs DEF Tree, Grown
<1>3. Kids(T, q) \in Nat /\ first \notin Paths(T)
  BY <1>2, KidsAre
<1>4. first \in Path /\ Len(first) = Len(q) + 1
  BY <1>2, <1>3, Appended
<1>5. Len(q) < MaxPly /\ (Len(pv) = 2 => Len(first) < MaxPly)
  BY <1>1, <1>2, <1>4, GameTreeAssumption
<1>6. /\ Paths(U) = Paths(T) \cup {first} /\ Tree(U) /\ Lines(T) \subseteq Lines(U)
      /\ Twinless(T) => SquaresDiffer(U)
  BY <1>1, <1>5, Pushed, PushedSquares, TwinlessSquares
<1>7. U[first] = pv[1] /\ \A p \in Paths(T) : U[p] = T[p]
  BY <1>2, <1>3, PushIs
<1>8. U = [p \in Paths(U) |-> U[p]]
  BY DEF Push, Add, Paths
<1>9. first \o Zeros(0) = first /\ first \o Zeros(1) = Append(first, 0)
  <2>1. first \o Zeros(0 + 1) = Append(first \o Zeros(0), 0) /\ first \o Zeros(0) = first
    BY <1>4, Down
  <2>2. QED
    BY <2>1
<1> HIDE DEF first, U, R
<1>10. CASE Len(pv) = 1
  <2>1. {first \o Zeros(i) : i \in 0 .. Len(pv) - 1} = {first}
    BY <1>9, <1>10
  <2>2. Len(first) - Len(q) = 1
    BY <1>2, <1>4
  <2>3. N = [p \in {first} |-> pv[1]]
    BY <2>1, <2>2
  <2>4. R = U
    BY <1>0, <2>3 DEF U, first, Push
  <2>5. QED
    BY <1>6, <2>4 DEF R
<1>11. CASE Len(pv) = 2
  <2> DEFINE a == Append(first, 0)
  <2> DEFINE V == Push(U, first, pv[2])
  <2>1. a \in Path /\ Len(a) = Len(first) + 1
    BY <1>4, Appended
  <2>2. a \notin Paths(U)
    <3>1. a \notin Paths(T)
      BY <1>3, <1>4 DEF Tree, Grown
    <3>2. a # first
      BY <1>2, <1>4, <2>1
    <3>3. QED
      BY <1>6, <3>1, <3>2
  <2>3. Kids(U, first) = 0
    <3>1. Kids(U, first) \in Nat /\ (Append(first, 0) \in Paths(U) <=> 0 < Kids(U, first))
      BY <1>4, <1>6, KidsAre
    <3>2. QED
      BY <2>2, <3>1
  <2>4. \A i \in Nat : Append(first, i) \notin Paths(U)
    BY <1>4, <1>6, <2>3, KidsAre
  <2>5. first \in Paths(U)
    BY <1>6
  <2>6. /\ Paths(V) = Paths(U) \cup {a} /\ Tree(V) /\ Lines(U) \subseteq Lines(V)
        /\ SquaresDiffer(U) => SquaresDiffer(V)
    BY <1>1, <1>5, <1>6, <1>11, <2>3, <2>4, <2>5, Pushed, PushedSquares
  <2>7. V[a] = pv[2] /\ \A p \in Paths(U) : V[p] = U[p]
    BY <1>4, <2>2, <2>3, PushIs
  <2>8. V = [p \in Paths(V) |-> V[p]]
    BY DEF Push, Add, Paths
  <2> HIDE DEF a, V
  <2>9. {first \o Zeros(i) : i \in 0 .. Len(pv) - 1} = {first, a}
    <3>1. 0 .. Len(pv) - 1 = {0, 1}
      BY <1>11
    <3>2. QED
      BY <1>9, <3>1 DEF a
  <2>10. Len(first) - Len(q) = 1 /\ Len(a) - Len(q) = 2
    BY <1>2, <1>4, <2>1
  <2>11. Paths(N) = {first, a} /\ N[first] = pv[1] /\ N[a] = pv[2]
    BY <2>9, <2>10 DEF Paths
  <2> HIDE DEF N
  <2>12. Paths(R) = Paths(V)
    BY <1>0, <1>6, <2>6, <2>11 DEF Add, Paths
  <2>13. ASSUME NEW p \in Paths(V)
         PROVE  R[p] = V[p]
    <3>1. R[p] = IF p \in Paths(N) THEN N[p] ELSE T[p]
      BY <1>0, <1>6, <2>6, <2>11, <2>13 DEF Add, Paths
    <3>2. CASE p = a
      BY <2>7, <2>11, <3>1, <3>2
    <3>3. CASE p = first
      BY <1>7, <2>5, <2>7, <2>11, <3>1, <3>3
    <3>4. CASE p \notin {a, first}
      BY <1>6, <1>7, <2>6, <2>7, <2>11, <2>13, <3>1, <3>4
    <3>5. QED
      BY <3>2, <3>3, <3>4
  <2>14. R = [p \in Paths(R) |-> R[p]]
    BY <1>0 DEF Add, Paths
  <2>15. R = V
    BY <2>8, <2>12, <2>13, <2>14
  <2>16. QED
    BY <1>6, <2>6, <2>15 DEF R
<1>12. Len(pv) = 1 \/ Len(pv) = 2
  BY <1>1
<1>13. QED
  BY <1>10, <1>11, <1>12, Zenon DEF R

LEMMA ReportArrivesAdds ==
  ASSUME IInv, NEW k \in 0 .. MaxPly, NEW pv \in ShortLines(EngineMoves), ReportArrives(k, pv)
  PROVE  IInv' /\ Extends /\ OnTree /\ Marked /\ (NoTwins(root, root') \/ SquaresDiffer(root'))
<1> DEFINE D == MainDepth(root, << >>)
<1> DEFINE parent == Zeros(k - 1)
<1> DEFINE existing == {i \in 0 .. Kids(root, parent) - 1 : root[Append(parent, i)].move = pv[1].move}
<1> DEFINE R == Analysed(k, pv)
<1>1. /\ k <= Min({report, D}) /\ report # NoReport
      /\ k # 0 => k + Len(pv) - 1 <= MaxPly
      /\ root' = R /\ dirty' = TRUE /\ report' = NoReport /\ UNCHANGED <<position, start>>
  BY DEF ReportArrives
<1>2. D \in Nat /\ report \in Nat
  BY <1>1, DepthOf, GameTreeAssumption DEF IInv, Tree, Grown
<1> HIDE DEF D
<1>3. k \in Nat /\ k <= D
  <2>1. {report, D} \in SUBSET Nat /\ {report, D} # {}
    BY <1>2
  <2>2. Min({report, D}) \in {report, D} /\ \A y \in {report, D} : Min({report, D}) <= y
    BY <2>1, MinOf
  <2>3. Min({report, D}) <= D /\ Min({report, D}) \in Nat
    BY <1>2, <2>2
  <2>4. QED
    BY <1>1, <1>2, <2>3
<1>4. CASE k = 0 \/ existing # {}
  <2>1. R = root
    BY <1>4 DEF Analysed
  <2>2. Tree(root)' /\ NoTwins(root, root') /\ Extends
    BY <1>1, <2>1, SameTree
  <2>3. OnTree /\ Marked
    BY <1>1, <2>1 DEF OnTree, Marked
  <2>4. IInv'
    BY <1>1, <2>2 DEF IInv
  <2>5. QED
    BY <2>2, <2>3, <2>4
<1>5. CASE k # 0 /\ existing = {}
  <2> DEFINE first == Append(parent, Kids(root, parent))
  <2> DEFINE N == [p \in {first \o Zeros(i) : i \in 0 .. Len(pv) - 1} |-> pv[Len(p) - Len(parent)]]
  <2>1. k - 1 \in Nat /\ k - 1 <= D
    BY <1>2, <1>3, <1>5
  <2>2. parent \in Paths(root) /\ parent \in Path /\ Len(parent) = k - 1
    BY <2>1, RootZeros, ZerosAre DEF D
  <2>3. Len(parent) + Len(pv) <= MaxPly
    BY <1>1, <1>3, <1>5, <2>2, ShortIs, GameTreeAssumption
  <2>4. R = Grafted(root, parent, pv)
    <3>1. ASSUME NEW i \in 0 .. Len(pv) - 1
          PROVE  Len(first \o Zeros(i)) - k + 1 = Len(first \o Zeros(i)) - Len(parent)
      <4>1. Kids(root, parent) \in Nat
        BY <2>2, KidsAre DEF IInv
      <4>2. first \in Path
        BY <2>2, <4>1, Appended
      <4>3. i \in Nat
        BY ShortIs, <3>1
      <4>4. Len(first \o Zeros(i)) \in Nat
        BY <4>2, <4>3, Down, PathIs
      <4>5. QED
        BY <1>3, <2>2, <4>4
    <3> DEFINE dom == {first \o Zeros(i) : i \in 0 .. Len(pv) - 1}
    <3>2. \A p \in dom : pv[Len(p) - k + 1] = pv[Len(p) - Len(parent)]
      BY <3>1
    <3>3. R = Add(root, [p \in dom |-> pv[Len(p) - k + 1]])
      BY <1>5 DEF Analysed
    <3> HIDE DEF dom
    <3>4. [p \in dom |-> pv[Len(p) - k + 1]] = [p \in dom |-> pv[Len(p) - Len(parent)]]
      BY <3>2
    <3>5. QED
      BY <3>3, <3>4 DEF dom, Grafted
  <2> DEFINE S == Grafted(root, parent, pv)
  <2>5. \A i \in Nat : Append(parent, i) \in Paths(root) => root[Append(parent, i)].move # pv[1].move
    <3>1. \A i \in Nat : Append(parent, i) \in Paths(root) => i < Kids(root, parent)
      BY <2>2, KidsAre DEF IInv
    <3>2. Kids(root, parent) \in Nat
      BY <2>2, KidsAre DEF IInv
    <3>3. \A i \in Nat : i < Kids(root, parent) => i \in 0 .. Kids(root, parent) - 1
      BY <3>2
    <3>4. QED
      BY <1>5, <3>1, <3>3
  <2>6. /\ Tree(S) /\ Paths(root) \subseteq Paths(S) /\ Lines(root) \subseteq Lines(S)
        /\ Twinless(root) => SquaresDiffer(S)
    <3>1. Tree(root)
      BY DEF IInv
    <3> HIDE DEF parent
    <3>2. QED
      BY <2>2, <2>3, <2>5, <3>1, LineAdded
  <2>7. root' = S
    BY <1>1, <2>4
  <2> HIDE DEF S
  <2>8. /\ Tree(root)' /\ Lines(root) \subseteq Lines(root')
        /\ Paths(root) \subseteq Paths(root')
        /\ Twinless(root) => SquaresDiffer(root')
    BY <2>6, <2>7 DEF Tree, Paths
  <2>9. Extends
    BY <1>1, <2>8, NewLines
  <2>10. OnTree /\ Marked
    BY <1>1, <2>8 DEF OnTree, Marked
  <2>11. IInv'
    BY <1>1, <2>8 DEF IInv
  <2>12. QED
    BY <2>8, <2>9, <2>10, <2>11 DEF NoTwins
<1>6. QED
  BY <1>4, <1>5

-----------------------------------------------------------------------------
(* The step, and the theorems.                                              *)

Strays ==
  \/ OnTree
  \/ DeleteBeside
  \/ goToStart /\ start \notin Paths(root)
  \/ goToMove /\ position' \in NotedPaths
  \/ Load /\ position' = start'

Twins ==
  \/ NoTwins(root, root')
  \/ Load \/ Paste \/ (Report /\ SquaresDiffer(root'))

Keeps ==
  \/ Extends
  \/ Book!Save
  \/ Book!Delete /\ (DeleteMove \/ DeleteCurrent) /\ (Twinless(root) => Book!TakeOut)
  \/ Book!Clear /\ SetFen
  \/ Book!Open /\ Load
  \/ Book!Replace /\ Paste

Does == IInv' /\ (Marked \/ Load) /\ Strays /\ Twins /\ Keeps

LEMMA NextKeeps ==
  ASSUME IInv, [Next]_vars
  PROVE  Does
<1>1. CASE \/ \E m \in Moves, mainline, change \in BOOLEAN : MakeMove(m, mainline, change)
           \/ \E m \in Moves : AppendMove(m)
           \/ \E ms \in ShortLines(Moves), mainline \in BOOLEAN : MakeMoves(ms, mainline)
           \/ \E p \in Paths(root) : PromoteVariation(p) \/ PromoteToMainline(p)
  <2>1. Adds
    BY <1>1, MakeMoveAdds, AppendMoveAdds, MakeMovesAdds, PromoteVariationAdds, PromoteToMainlineAdds
  <2>2. QED
    BY <2>1 DEF Adds, Does, Strays, Twins, Keeps
<1>2. CASE DeleteMove \/ DeleteCurrent
  <2>1. PICK p \in Path : DeleteAt(p) /\ (p \in Paths(root) \ {<< >>} \/ p = position)
    BY <1>2 DEF DeleteMove, DeleteCurrent, IInv, Tree, Grown
  <2>2. /\ IInv' /\ Marked /\ NoTwins(root, root')
        /\ Extends \/ (Book!Delete /\ (Twinless(root) => Book!TakeOut))
    BY <2>1, DeleteAtKeeps
  <2>3. OnTree \/ DeleteBeside
    <3>1. SUFFICES ASSUME position \in Paths(root), position' \notin Paths(root')
                   PROVE  DeleteBeside
      BY DEF OnTree
    <3>2. /\ p \in Paths(root)
          /\ p # << >> /\ Len(position) >= Len(p)
          /\ IsPrefix(Front(p), position) /\ ~IsPrefix(p, position)
      BY <2>1, <3>1, DeleteStays
    <3>3. QED
      BY <2>1, <3>2 DEF DeleteBeside
  <2>4. QED
    BY <1>2, <2>2, <2>3 DEF Does, Strays, Twins, Keeps
<1>3. CASE SetFen
  <2>1. IInv' /\ OnTree /\ Lines(root)' = {<< >>} /\ NoTwins(root, root')
    BY <1>3, RenewedIs DEF SetFen
  <2>2. Marked
    BY <1>3 DEF SetFen, Marked
  <2>3. Book!Clear
    BY <1>3, <2>1 DEF SetFen, Book!Clear
  <2>4. QED
    BY <1>3, <2>1, <2>2, <2>3 DEF Does, Strays, Twins, Keeps
<1>4. CASE reset
  <2>1. IInv' /\ OnTree /\ Lines(root)' = {<< >>} /\ Load
    BY <1>4, RenewedIs DEF reset, Load
  <2>2. Book!Open
    BY <1>4, <2>1 DEF reset, Book!Open
  <2>3. QED
    BY <2>1, <2>2 DEF Does, Strays, Twins, Keeps
<1>5. ASSUME NEW T \in Games, NEW s \in NotedPaths \cup {NoPath}, LoadGame(T, s)
      PROVE  Does
  <2>1. Load /\ dirty' = FALSE /\ start' = s
    BY <1>5 DEF Load, LoadGame
  <2>2. /\ IInv' /\ (OnTree \/ position' = s)
        /\ Lines(root)' \in {Lines(G) : G \in Games}
    BY <1>5, GameTaken DEF LoadGame
  <2>3. Book!Open
    BY <2>1, <2>2 DEF Book!Open
  <2>4. QED
    BY <2>1, <2>2, <2>3 DEF Does, Strays, Twins, Keeps
<1>6. ASSUME NEW T \in Games, NEW s \in NotedPaths \cup {NoPath}, PasteGame(T, s)
      PROVE  Does
  <2>1. Paste /\ dirty' = TRUE
    BY <1>6 DEF Paste, PasteGame
  <2>2. IInv' /\ OnTree /\ Lines(root)' \in {Lines(G) : G \in Games}
    BY <1>6, GameTaken DEF PasteGame
  <2>3. Book!Replace /\ Marked
    BY <2>1, <2>2 DEF Book!Replace, Marked
  <2>4. QED
    BY <2>1, <2>2, <2>3 DEF Does, Strays, Twins, Keeps
<1>7. CASE Navigate
  BY <1>7, NavigateKeeps DEF Does, Strays, Twins, Keeps
<1>8. ASSUME NEW k \in 0 .. MaxPly, NEW pv \in ShortLines(EngineMoves), ReportArrives(k, pv)
      PROVE  Does
  <2>1. Report
    BY <1>8 DEF Report
  <2>2. QED
    BY <1>8, <2>1, ReportArrivesAdds DEF Does, Strays, Twins, Keeps
<1>9. CASE \/ \E p \in Paths(root) : SetStart(p)
           \/ Annotate \/ save \/ analyze \/ ReportFails \/ UNCHANGED vars
  BY <1>9, QuietAdds DEF Does, Strays, Twins, Keeps
<1>10. QED
  BY <1>1, <1>2, <1>3, <1>4, <1>5, <1>6, <1>7, <1>8, <1>9 DEF Next, Edit, Load, Paste, Report

THEOREM Invariance ==
  Spec => []IInv
<1>1. Init => IInv
  BY InitHolds
<1>2. IInv /\ [Next]_vars => IInv'
  BY NextKeeps DEF Does
<1>3. QED
  BY <1>1, <1>2, PTL DEF Spec

(* The tree is a tree of legal depth with moves at its nodes, and the       *)
(* cursor, the starting point and a running report are what they should be, *)
(* whatever is played, deleted, promoted, loaded or analysed                *)
(* (tree.ts:516-797).                                                       *)
THEOREM TypeCorrect ==
  Spec => []TypeOK
<1>1. IInv => TypeOK
  <2> SUFFICES ASSUME IInv
               PROVE  TypeOK
    OBVIOUS
  <2>1. /\ \A p \in Paths(root) : p \in Seq(Nat) /\ Len(p) <= MaxPly /\ root[p] \in Moves \cup {NoMove}
        /\ \A p \in Paths(root) : root[p] = NoMove <=> p = << >>
    BY DEF IInv, Tree, Grown, Path
  <2>2. ASSUME NEW p \in Paths(root) \ {<< >>}
        PROVE  /\ Front(p) \in Paths(root)
               /\ \A i \in 0 .. Last(p) : Append(Front(p), i) \in Paths(root)
    <3>1. p \in Path
      BY <2>1 DEF Path
    <3>2. Front(p) \in Path /\ Last(p) \in Nat /\ p = Append(Front(p), Last(p))
      BY <2>2, <3>1, Parted
    <3>3. Append(Front(p), Last(p)) \in Paths(root)
      BY <3>2
    <3>4. QED
      BY <3>2, <3>3 DEF IInv, Tree, Grown
  <2>3. WellFormed(root)
    BY <2>2 DEF WellFormed, IInv, Tree, Grown
  <2>4. QED
    BY <2>1, <2>3 DEF TypeOK, TreeOf, IInv, Path
<1>2. QED
  BY <1>1, Invariance, PTL

(* A tree without twins stays so, but for a game that is loaded or typed    *)
(* with them, and for a report that gives a move by other squares than the  *)
(* child has that it repeats (tree.ts:556, 734-742).                        *)
THEOREM TwinsOnly ==
  Spec => TwinsOnlyBy
<1>1. IInv /\ [Next]_vars =>
        [(root' # root /\ Twinless(root) /\ ~Twinless(root')) =>
           Load \/ Paste \/ (Report /\ SquaresDiffer(root'))]_vars
  <2>1. IInv /\ [Next]_vars => Twins
    BY NextKeeps DEF Does
  <2>2. QED
    BY <2>1 DEF Twins, NoTwins
<1>2. QED
  BY <1>1, Invariance, PTL DEF Spec, TwinsOnlyBy

(* Whatever changes the tree or its starting point leaves the tab dirty,    *)
(* except loading another game (tree.ts:98-514).                            *)
THEOREM EditsMarked ==
  Spec => EditsAreMarked
<1>1. IInv /\ [Next]_vars => [root' # root \/ start' # start => dirty' \/ Load]_vars
  <2>1. IInv /\ [Next]_vars => Marked \/ Load
    BY NextKeeps DEF Does
  <2>2. QED
    BY <2>1 DEF Marked
<1>2. QED
  BY <1>1, Invariance, PTL DEF Spec, EditsAreMarked

(* The cursor leaves the tree only when a sibling of a move on its way is   *)
(* deleted, or by going where a Start header or an old path says            *)
(* (tree.ts:251-260, 628-641, chess.ts:473-474).                            *)
THEOREM StraysOnly ==
  Spec => StraysOnlyBy
<1>1. IInv /\ [Next]_vars =>
        [(position \in Paths(root) /\ position' \notin Paths(root')) =>
           \/ DeleteBeside
           \/ goToStart /\ start \notin Paths(root)
           \/ goToMove /\ position' \in NotedPaths
           \/ Load /\ position' = start']_vars
  <2>1. IInv /\ [Next]_vars => Strays
    BY NextKeeps DEF Does
  <2>2. QED
    BY <2>1 DEF Strays, OnTree
<1>2. QED
  BY <1>1, Invariance, PTL DEF Spec, StraysOnlyBy

(* Playing, promoting and analysing lose no line, twins or not; deleting    *)
(* loses only continuations of one line, and all of them in a tree without  *)
(* twins; clearing, loading and typing bring the lines they say             *)
(* (tree.ts:516-797).                                                       *)
THEOREM LinesKept ==
  Spec => KeepsLines
<1>1. Init => Book!Init
  BY InitHolds
<1>2. IInv /\ [Next]_vars =>
        [(root' # root \/ dirty' # dirty) =>
           \/ Book!Save
           \/ Book!Extend
           \/ Book!Delete /\ (DeleteMove \/ DeleteCurrent) /\ (Twinless(root) => Book!TakeOut)
           \/ Book!Clear /\ SetFen
           \/ Book!Open /\ Load
           \/ Book!Replace /\ Paste]_vars
  <2>1. IInv /\ [Next]_vars => Keeps
    BY NextKeeps DEF Does
  <2>2. QED
    BY <2>1 DEF Keeps, Extends, Changes
<1>3. QED
  BY <1>1, <1>2, Invariance, PTL DEF Spec, KeepsLines

(* So a tree's lines and its mark are a behaviour of the book, whose other  *)
(* books are the games that are loaded.                                     *)
THEOREM ImplementsBook ==
  Spec => Book!Spec
<1>1. Init => Book!Init
  BY InitHolds
<1>2. IInv /\ [Next]_vars => [Book!Next]_<<Lines(root), dirty>>
  <2> SUFFICES ASSUME IInv, [Next]_vars, Changes
               PROVE  Book!Next
    BY DEF Changes, Lines, Paths
  <2>1. Keeps
    BY NextKeeps DEF Does
  <2>2. QED
    BY <2>1 DEF Keeps, Extends, Book!Next
<1>3. QED
  BY <1>1, <1>2, Invariance, PTL DEF Spec, Book!Spec

=============================================================================
