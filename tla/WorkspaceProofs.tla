-------------------------- MODULE WorkspaceProofs --------------------------
(* That the tabs and their debounced storage keep the last tree of every    *)
(* tab, for any set of tabs and any number of saves under way.              *)
EXTENDS Workspace, SequenceTheorems, TLAPS

-----------------------------------------------------------------------------
(* Sequences.                                                               *)

(* The beginning and the rest of a sequence.                                *)
LEMMA Start ==
  ASSUME NEW S, NEW s \in Seq(S), NEW n \in Nat, n <= Len(s)
  PROVE  /\ SubSeq(s, 1, n) \in Seq(S) /\ Len(SubSeq(s, 1, n)) = n
         /\ \A j \in 1 .. n : SubSeq(s, 1, n)[j] = s[j]
OBVIOUS

LEMMA Rest ==
  ASSUME NEW S, NEW s \in Seq(S), NEW n \in Nat \ {0}, n <= Len(s) + 1
  PROVE  /\ SubSeq(s, n, Len(s)) \in Seq(S) /\ Len(SubSeq(s, n, Len(s))) = Len(s) - n + 1
         /\ \A j \in 1 .. Len(s) - n + 1 : SubSeq(s, n, Len(s))[j] = s[j + n - 1]
<1>1. Len(s) \in Nat /\ \A i \in n .. Len(s) : s[i] \in S
  BY ElementOfSeq
<1>2. SubSeq(s, n, Len(s)) \in Seq(S)
  BY <1>1, SubSeqProperties
<1>3. Len(SubSeq(s, n, Len(s))) = IF n <= Len(s) THEN Len(s) - n + 1 ELSE 0
  BY <1>1, SubSeqProperties
<1>4. \A j \in 1..Len(s) - n + 1 : SubSeq(s, n, Len(s))[j] = s[n + j - 1]
  BY <1>1, SubSeqProperties
<1>5. QED
  BY <1>1, <1>2, <1>3, <1>4

(* RemoveAt and InsertAt of SequencesExt, element by element.               *)
LEMMA RemovedAt ==
  ASSUME NEW S, NEW s \in Seq(S), NEW i \in 1 .. Len(s)
  PROVE  /\ RemoveAt(s, i) \in Seq(S) /\ Len(RemoveAt(s, i)) = Len(s) - 1
         /\ \A j \in 1 .. Len(s) - 1 : RemoveAt(s, i)[j] = IF j < i THEN s[j] ELSE s[j + 1]
<1> DEFINE a == SubSeq(s, 1, i - 1)
<1> DEFINE b == SubSeq(s, i + 1, Len(s))
<1>0. Len(s) \in Nat /\ i \in Nat \ {0} /\ i <= Len(s) /\ i - 1 \in Nat /\ i + 1 \in Nat \ {0}
      /\ i - 1 <= Len(s) /\ i + 1 <= Len(s) + 1 /\ Len(s) - (i + 1) + 1 = Len(s) - i
  OBVIOUS
<1>1. a \in Seq(S) /\ Len(a) = i - 1 /\ \A j \in 1 .. i - 1 : a[j] = s[j]
  BY <1>0, Start
<1>2. b \in Seq(S) /\ Len(b) = Len(s) - i /\ \A j \in 1 .. Len(s) - i : b[j] = s[j + i]
  <2>1. b \in Seq(S) /\ Len(b) = Len(s) - (i + 1) + 1
        /\ \A j \in 1 .. Len(s) - (i + 1) + 1 : b[j] = s[j + (i + 1) - 1]
    BY <1>0, Rest, Zenon
  <2>2. ASSUME NEW j \in 1 .. Len(s) - i
        PROVE  b[j] = s[j + i]
    <3>1. j + (i + 1) - 1 = j + i
      BY <1>0
    <3>2. b[j] = s[j + (i + 1) - 1]
      BY <1>0, <2>1
    <3>3. QED
      BY <3>1, <3>2
  <2>3. QED
    BY <1>0, <2>1, <2>2
<1>3. RemoveAt(s, i) = a \o b
  BY DEF RemoveAt
<1> HIDE DEF a, b
<1>4. a \o b \in Seq(S) /\ Len(a \o b) = Len(s) - 1
  <2>1. a \o b \in Seq(S) /\ Len(a \o b) = Len(a) + Len(b)
    BY <1>1, <1>2, ConcatProperties, Zenon
  <2>2. QED
    BY <1>0, <1>1, <1>2, <2>1
<1>5. ASSUME NEW j \in 1 .. Len(s) - 1
      PROVE  (a \o b)[j] = IF j < i THEN s[j] ELSE s[j + 1]
  <2>0. j \in 1 .. Len(a) + Len(b)
    BY <1>0, <1>1, <1>2
  <2>1. (a \o b)[j] = IF j <= Len(a) THEN a[j] ELSE b[j - Len(a)]
    <3>1. a \in Seq(S) /\ b \in Seq(S)
      BY <1>1, <1>2
    <3>2. QED
      BY <2>0, <3>1, ConcatProperties, Zenon
  <2>2. CASE j < i
    BY <1>0, <1>1, <2>1, <2>2
  <2>3. CASE ~(j < i)
    <3>1. j - Len(a) \in 1 .. Len(s) - i /\ j - Len(a) + i = j + 1 /\ ~(j <= Len(a))
      BY <1>0, <1>1, <2>3
    <3>2. b[j - Len(a)] = s[j - Len(a) + i]
      BY <1>2, <3>1
    <3>3. QED
      BY <2>1, <2>3, <3>1, <3>2
  <2>4. QED
    BY <2>2, <2>3
<1>6. QED
  BY <1>3, <1>4, <1>5

LEMMA InsertedAt ==
  ASSUME NEW S, NEW s \in Seq(S), NEW i \in 1 .. Len(s) + 1, NEW e \in S
  PROVE  /\ InsertAt(s, i, e) \in Seq(S) /\ Len(InsertAt(s, i, e)) = Len(s) + 1
         /\ \A j \in 1 .. Len(s) + 1 :
              InsertAt(s, i, e)[j] = IF j < i THEN s[j] ELSE IF j = i THEN e ELSE s[j - 1]
<1> DEFINE a == SubSeq(s, 1, i - 1)
<1> DEFINE b == SubSeq(s, i, Len(s))
<1> DEFINE c == a \o <<e>>
<1>0. Len(s) \in Nat /\ i \in Nat \ {0} /\ i <= Len(s) + 1 /\ i - 1 \in Nat /\ i - 1 <= Len(s)
  OBVIOUS
<1>1. a \in Seq(S) /\ Len(a) = i - 1 /\ \A j \in 1 .. i - 1 : a[j] = s[j]
  BY <1>0, Start
<1>2. b \in Seq(S) /\ Len(b) = Len(s) - i + 1 /\ \A j \in 1 .. Len(s) - i + 1 : b[j] = s[j + i - 1]
  BY <1>0, Rest, Zenon
<1> HIDE DEF a, b
<1>3. c \in Seq(S) /\ Len(c) = i /\ \A j \in 1 .. i : c[j] = IF j < i THEN s[j] ELSE e
  <2>1. c \in Seq(S) /\ Len(c) = Len(a) + 1
    BY <1>1
  <2>2. \A j \in 1 .. Len(a) + 1 : c[j] = IF j <= Len(a) THEN a[j] ELSE e
    BY <1>1
  <2>3. ASSUME NEW j \in 1 .. i
        PROVE  c[j] = IF j < i THEN s[j] ELSE e
    <3>1. j \in 1 .. Len(a) + 1 /\ (j < i <=> j <= Len(a)) /\ (j < i => j \in 1 .. i - 1)
      BY <1>0, <1>1
    <3>2. c[j] = IF j <= Len(a) THEN a[j] ELSE e
      BY <2>2, <3>1
    <3>3. QED
      BY <1>1, <3>1, <3>2
  <2>4. Len(c) = i
    BY <1>0, <1>1, <2>1
  <2>5. QED
    BY <2>1, <2>3, <2>4
<1>4. InsertAt(s, i, e) = c \o b
  BY DEF InsertAt, a, b
<1> HIDE DEF c
<1>5. c \o b \in Seq(S) /\ Len(c \o b) = Len(c) + Len(b)
  BY <1>2, <1>3, ConcatProperties, Zenon
<1>6. Len(c \o b) = Len(s) + 1
  BY <1>0, <1>2, <1>3, <1>5
<1>7. ASSUME NEW j \in 1 .. Len(s) + 1
      PROVE  (c \o b)[j] = IF j < i THEN s[j] ELSE IF j = i THEN e ELSE s[j - 1]
  <2>1. j \in 1 .. Len(c) + Len(b)
    BY <1>0, <1>2, <1>3
  <2>2. (c \o b)[j] = IF j <= Len(c) THEN c[j] ELSE b[j - Len(c)]
    BY <1>2, <1>3, <2>1, ConcatProperties, Zenon
  <2>3. CASE j <= i
    BY <1>0, <1>3, <2>2, <2>3
  <2>4. CASE ~(j <= i)
    <3>1. /\ j - Len(c) \in 1 .. Len(s) - i + 1 /\ j - Len(c) + i - 1 = j - 1
          /\ ~(j <= Len(c)) /\ ~(j < i) /\ j # i
      BY <1>0, <1>3, <2>4
    <3>2. b[j - Len(c)] = s[j - Len(c) + i - 1]
      BY <1>2, <3>1
    <3>3. QED
      BY <2>2, <3>1, <3>2
  <2>5. QED
    BY <2>3, <2>4
<1>8. QED
  BY <1>4, <1>5, <1>6, <1>7

LEMMA InsertedElement ==
  ASSUME NEW S, NEW s \in Seq(S), NEW i \in 1 .. Len(s) + 1, NEW e \in S,
         NEW j \in 1 .. Len(s) + 1
  PROVE  InsertAt(s, i, e)[j] = IF j < i THEN s[j] ELSE IF j = i THEN e ELSE s[j - 1]
BY InsertedAt

(* An element taken out and put back elsewhere: where what is at k was.     *)
MovedFrom(i, j, k) ==
  LET m == IF k < j THEN k ELSE k - 1
  IN  IF k = j THEN i ELSE IF m < i THEN m ELSE m + 1

LEMMA MovedAt ==
  ASSUME NEW S, NEW s \in Seq(S), NEW i \in 1 .. Len(s), NEW j \in 1 .. Len(s)
  PROVE  /\ InsertAt(RemoveAt(s, i), j, s[i]) \in Seq(S)
         /\ Len(InsertAt(RemoveAt(s, i), j, s[i])) = Len(s)
         /\ \A k \in 1 .. Len(s) : InsertAt(RemoveAt(s, i), j, s[i])[k] = s[MovedFrom(i, j, k)]
<1> DEFINE m == InsertAt(RemoveAt(s, i), j, s[i])
<1> DEFINE r == RemoveAt(s, i)
<1> DEFINE e == s[i]
<1>1. r \in Seq(S)
  BY RemovedAt
<1>2. e \in S
  OBVIOUS
<1>3. Len(s) \in Nat /\ Len(r) = Len(s) - 1
      /\ \A k \in 1 .. Len(s) - 1 : r[k] = IF k < i THEN s[k] ELSE s[k + 1]
  BY RemovedAt
<1> HIDE DEF r, e, m
<1>4. j \in 1 .. Len(r) + 1
  BY <1>3
<1>5. /\ InsertAt(r, j, e) \in Seq(S) /\ Len(InsertAt(r, j, e)) = Len(r) + 1
      /\ \A k \in 1 .. Len(r) + 1 :
           InsertAt(r, j, e)[k] = IF k < j THEN r[k] ELSE IF k = j THEN e ELSE r[k - 1]
  <2>1. InsertAt(r, j, e) \in Seq(S) /\ Len(InsertAt(r, j, e)) = Len(r) + 1
    BY <1>1, <1>2, <1>4, InsertedAt
  <2>2. ASSUME NEW k \in 1 .. Len(r) + 1
        PROVE  InsertAt(r, j, e)[k] = IF k < j THEN r[k] ELSE IF k = j THEN e ELSE r[k - 1]
    BY <1>1, <1>2, <1>4, InsertedElement
  <2>3. QED
    BY <2>1, <2>2
<1>6. m = InsertAt(r, j, e)
  BY DEF r, e, m
<1>7. m \in Seq(S) /\ Len(m) = Len(s)
  BY <1>3, <1>5, <1>6
<1>8. ASSUME NEW k \in 1 .. Len(s)
      PROVE  m[k] = s[MovedFrom(i, j, k)]
  <2>1. m[k] = IF k < j THEN r[k] ELSE IF k = j THEN e ELSE r[k - 1]
    BY <1>3, <1>5, <1>6
  <2>2. CASE k = j
    BY <2>1, <2>2 DEF MovedFrom, e
  <2>3. CASE k < j
    <3>1. k \in 1 .. Len(s) - 1 /\ m[k] = r[k]
      BY <1>3, <2>1, <2>3
    <3>2. QED
      BY <1>3, <2>3, <3>1 DEF MovedFrom
  <2>4. CASE k > j
    <3>1. k - 1 \in 1 .. Len(s) - 1 /\ m[k] = r[k - 1]
      BY <1>3, <2>1, <2>4
    <3>2. QED
      BY <1>3, <2>4, <3>1 DEF MovedFrom
  <2>5. QED
    BY <1>3, <2>2, <2>3, <2>4
<1>9. QED
  BY <1>7, <1>8 DEF m

LEMMA MovedElement ==
  ASSUME NEW S, NEW s \in Seq(S), NEW i \in 1 .. Len(s), NEW j \in 1 .. Len(s),
         NEW k \in 1 .. Len(s)
  PROVE  InsertAt(RemoveAt(s, i), j, s[i])[k] = s[MovedFrom(i, j, k)]
BY MovedAt

(* Nothing is there twice, and nothing is lost: where what was at m is.     *)
MovedTo(i, j, m) ==
  LET r == IF m < i THEN m ELSE m - 1
  IN  IF m = i THEN j ELSE IF r < j THEN r ELSE r + 1

LEMMA MovedAll ==
  ASSUME NEW n \in Nat, NEW i \in 1 .. n, NEW j \in 1 .. n, NEW k \in 1 .. n
  PROVE  /\ MovedFrom(i, j, k) \in 1 .. n /\ MovedTo(i, j, MovedFrom(i, j, k)) = k
         /\ MovedTo(i, j, k) \in 1 .. n /\ MovedFrom(i, j, MovedTo(i, j, k)) = k
BY DEF MovedFrom, MovedTo

-----------------------------------------------------------------------------
(* The tab bar.                                                             *)

(* The tabs are distinct, and the active one is one of them.                *)
TabInv ==
  /\ tabs \in Seq(TabIds) /\ IsInjective(tabs)
  /\ IF tabs = << >> THEN active = NoTab ELSE active \in Open

LEMMA TabAdded ==
  ASSUME TabInv, NEW t \in TabIds, t \notin Open, tabs' = Append(tabs, t) \/ tabs' = <<t>>,
         active' = t
  PROVE  TabInv'
<1>1. CASE tabs' = <<t>>
  BY <1>1 DEF TabInv, IsInjective, Open, ToSet
<1>2. CASE tabs' = Append(tabs, t)
  <2>1. /\ Len(tabs) \in Nat /\ tabs' \in Seq(TabIds) /\ Len(tabs') = Len(tabs) + 1
        /\ DOMAIN tabs = 1 .. Len(tabs) /\ DOMAIN tabs' = 1 .. Len(tabs')
        /\ \A i \in 1 .. Len(tabs) : tabs'[i] = tabs[i]
        /\ tabs'[Len(tabs) + 1] = t
    BY <1>2 DEF TabInv
  <2>2. \A i \in 1 .. Len(tabs) : tabs[i] # t
    BY <2>1 DEF Open, ToSet
  <2>3. IsInjective(tabs')
    BY <2>1, <2>2 DEF TabInv, IsInjective
  <2>4. t \in Open' /\ tabs' # << >>
    BY <2>1 DEF Open, ToSet
  <2>5. QED
    BY <2>1, <2>3, <2>4 DEF TabInv
<1>3. QED
  BY <1>1, <1>2

LEMMA Indexed ==
  ASSUME TabInv, NEW t \in Open
  PROVE  /\ Len(tabs) \in Nat /\ DOMAIN tabs = 1 .. Len(tabs)
         /\ findIndex(t) \in 1 .. Len(tabs) /\ tabs[findIndex(t)] = t
         /\ \A i \in 1 .. Len(tabs) : tabs[i] = t => i = findIndex(t)
<1>1. Len(tabs) \in Nat /\ DOMAIN tabs = 1 .. Len(tabs)
  BY DEF TabInv
<1>2. \E i \in DOMAIN tabs : tabs[i] = t
  BY DEF Open, ToSet
<1>3. findIndex(t) \in DOMAIN tabs /\ tabs[findIndex(t)] = t
  BY <1>2 DEF findIndex
<1>4. QED
  BY <1>1, <1>3 DEF TabInv, IsInjective

LEMMA TabRemoved ==
  ASSUME TabInv, NEW t \in Open,
         tabs' = RemoveAt(tabs, findIndex(t)), active' = AfterClosing(t)
  PROVE  TabInv' /\ (active' = active => t # active)
<1> DEFINE n == Len(tabs)
<1> DEFINE i == findIndex(t)
<1>1. n \in Nat /\ DOMAIN tabs = 1 .. n /\ i \in 1 .. n /\ tabs[i] = t
      /\ \A k \in 1 .. n : tabs[k] = t => k = i
  BY Indexed
<1>2. /\ tabs' \in Seq(TabIds) /\ Len(tabs') = n - 1 /\ DOMAIN tabs' = 1 .. n - 1
      /\ \A k \in 1 .. n - 1 : tabs'[k] = IF k < i THEN tabs[k] ELSE tabs[k + 1]
  <2>1. tabs' \in Seq(TabIds) /\ Len(tabs') = n - 1
        /\ \A k \in 1 .. n - 1 : tabs'[k] = IF k < i THEN tabs[k] ELSE tabs[k + 1]
    BY <1>1, RemovedAt DEF TabInv
  <2>2. QED
    BY <2>1
<1>3. IsInjective(tabs')
  <2> DEFINE from(k) == IF k < i THEN k ELSE k + 1
  <2> HIDE DEF n, i
  <2>1. \A k \in 1 .. n - 1 : from(k) \in 1 .. n /\ tabs'[k] = tabs[from(k)]
    BY <1>1, <1>2
  <2>2. \A k, l \in 1 .. n - 1 : from(k) = from(l) => k = l
    BY <1>1
  <2>3. \A k, l \in 1 .. n : tabs[k] = tabs[l] => k = l
    BY <1>1 DEF TabInv, IsInjective
  <2> HIDE DEF from
  <2>4. QED
    BY <1>2, <2>1, <2>2, <2>3 DEF IsInjective
<1>4. active \in Open
  BY <1>1 DEF TabInv
<1> HIDE DEF n, i
<1>5. CASE t # active
  <2>1. active' = active
    BY <1>5 DEF AfterClosing
  <2>2. PICK k \in 1 .. n : tabs[k] = active
    BY <1>1, <1>4 DEF Open, ToSet
  <2>3. k # i
    BY <1>1, <1>5, <2>2
  <2>4. active \in Open'
    <3>1. CASE k < i
      <4>1. k \in 1 .. n - 1 /\ tabs'[k] = active
        BY <1>1, <1>2, <2>2, <3>1
      <4>2. QED
        BY <1>2, <4>1 DEF Open, ToSet
    <3>2. CASE k > i
      <4>1. k - 1 \in 1 .. n - 1 /\ ~(k - 1 < i) /\ (k - 1) + 1 = k
        BY <1>1, <3>2
      <4>2. tabs'[k - 1] = active
        BY <1>2, <2>2, <4>1
      <4>3. QED
        BY <1>2, <4>1, <4>2 DEF Open, ToSet
    <3>3. QED
      BY <1>1, <2>3, <3>1, <3>2
  <2>5. tabs' # << >>
    BY <2>4 DEF Open, ToSet
  <2>6. QED
    BY <1>2, <1>3, <1>5, <2>1, <2>4, <2>5 DEF TabInv
<1>6. CASE t = active /\ n = 1
  <2>1. active' = NoTab /\ tabs' = << >>
    BY <1>2, <1>6 DEF AfterClosing, n
  <2>2. active # NoTab
    BY <1>4, WorkspaceAssumption DEF TabInv, Open, ToSet
  <2>3. QED
    BY <1>2, <1>3, <2>1, <2>2 DEF TabInv
<1>7. CASE t = active /\ n > 1
  <2>1. \E k \in 1 .. n - 1 : tabs'[k] = active'
    <3>1. CASE i = n
      <4>1. active' = tabs[n - 1]
        BY <1>7, <3>1 DEF AfterClosing, n, i
      <4>2. n - 1 \in 1 .. n - 1 /\ tabs'[n - 1] = tabs[n - 1]
        BY <1>1, <1>2, <1>7, <3>1
      <4>3. QED
        BY <4>1, <4>2
    <3>2. CASE i # n
      <4>1. active' = tabs[i + 1]
        BY <1>1, <1>7, <3>2 DEF AfterClosing, n, i
      <4>2. i \in 1 .. n - 1 /\ tabs'[i] = tabs[i + 1]
        BY <1>1, <1>2, <1>7, <3>2
      <4>3. QED
        BY <4>1, <4>2
    <3>3. QED
      BY <3>1, <3>2
  <2>2. active' \in Open' /\ tabs' # << >>
    BY <1>2, <2>1 DEF Open, ToSet
  <2>3. active' # t
    <3>1. PICK k \in 1 .. n - 1 : tabs'[k] = active'
      BY <2>1
    <3>2. k \in 1 .. n /\ k + 1 \in 1 .. n /\ (k < i => k # i) /\ (~(k < i) => k + 1 # i)
      BY <1>1
    <3>3. QED
      BY <1>1, <1>2, <3>1, <3>2
  <2>4. QED
    BY <1>2, <1>3, <1>7, <2>2, <2>3 DEF TabInv
<1>8. QED
  BY <1>1, <1>5, <1>6, <1>7

LEMMA TabMoved ==
  ASSUME TabInv, NEW i \in 1 .. Len(tabs), NEW j \in 1 .. Len(tabs), DragTab(i, j)
  PROVE  TabInv'
<1> DEFINE n == Len(tabs)
<1> DEFINE moved == InsertAt(RemoveAt(tabs, i), j, tabs[i])
<1>1. tabs \in Seq(TabIds)
  BY DEF TabInv
<1>2. n \in Nat /\ DOMAIN tabs = 1 .. n
  BY <1>1
<1>3. moved \in Seq(TabIds) /\ Len(moved) = n
  BY <1>1, MovedAt
<1>4. ASSUME NEW k \in 1 .. n
      PROVE  moved[k] = tabs[MovedFrom(i, j, k)]
  BY <1>1, MovedElement
<1>5. tabs' = moved /\ active' = active
  BY DEF DragTab
<1> HIDE DEF n, moved
<1>6. \A k \in 1 .. n : /\ MovedFrom(i, j, k) \in 1 .. n /\ MovedTo(i, j, MovedFrom(i, j, k)) = k
                        /\ MovedTo(i, j, k) \in 1 .. n /\ MovedFrom(i, j, MovedTo(i, j, k)) = k
  BY <1>2, MovedAll DEF n
<1>7. DOMAIN tabs' = 1 .. n
  BY <1>2, <1>3, <1>5
<1>8. IsInjective(tabs')
  <2>1. \A k, l \in 1 .. n : tabs[k] = tabs[l] => k = l
    BY <1>2 DEF TabInv, IsInjective
  <2>2. \A k, l \in 1 .. n : MovedFrom(i, j, k) = MovedFrom(i, j, l) => k = l
    BY <1>6
  <2>3. ASSUME NEW k \in 1 .. n, NEW l \in 1 .. n, tabs'[k] = tabs'[l]
        PROVE  k = l
    <3>1. tabs'[k] = tabs[MovedFrom(i, j, k)] /\ tabs'[l] = tabs[MovedFrom(i, j, l)]
      BY <1>4, <1>5
    <3>2. MovedFrom(i, j, k) \in 1 .. n /\ MovedFrom(i, j, l) \in 1 .. n
      BY <1>6
    <3>3. MovedFrom(i, j, k) = MovedFrom(i, j, l)
      BY <2>1, <2>3, <3>1, <3>2
    <3>4. QED
      BY <2>2, <3>3
  <2>4. QED
    BY <1>7, <2>3 DEF IsInjective
<1>9. Open \subseteq Open'
  <2>1. \A m \in 1 .. n : MovedTo(i, j, m) \in 1 .. n /\ moved[MovedTo(i, j, m)] = tabs[m]
    BY <1>4, <1>6
  <2>2. QED
    BY <1>2, <1>5, <1>7, <2>1 DEF Open, ToSet
<1>10. tabs # << >> /\ tabs' # << >>
  BY <1>1, <1>2, <1>7
<1>11. QED
  BY <1>3, <1>5, <1>8, <1>9, <1>10 DEF TabInv

-----------------------------------------------------------------------------
(* The storage.                                                             *)

(* What may be stored of a tab, and what the storage owes it. It owes the   *)
(* last tree to every tab, mounted, hidden or not open yet: a new tab       *)
(* hydrates from the storage when a card of the home page is chosen.        *)
StorageInv ==
  /\ pend \in [TabIds -> Entries \cup {NoEntry}]
  /\ sess \in [TabIds -> Entries \cup {NoEntry}]
  /\ \A t \in TabIds \ clobbered : StoredLast(t)

LEMMA EntryFields ==
  ASSUME NEW l \in BOOLEAN, NEW d \in BOOLEAN
  PROVE  /\ Entry(l, d) \in Entries /\ Entry(l, d) # NoEntry
         /\ Entry(l, d).last = l /\ Entry(l, d).dirty = d
BY WorkspaceAssumption DEF Entry, Entries

LEMMA HydratedLast ==
  ASSUME NEW P, NEW S, NEW t
  PROVE  Hydrated(P, S, t).last =
           IF P[t] # NoEntry THEN P[t].last ELSE IF S[t] # NoEntry THEN S[t].last ELSE TRUE
BY EntryFields DEF Hydrated, getItem

(* The storage as a function of what is pending and stored, for steps that  *)
(* change both.                                                             *)
LastOf(P, S, t) ==
  IF P[t] # NoEntry THEN P[t].last ELSE IF S[t] # NoEntry THEN S[t].last ELSE TRUE

StoredIs(P, S, C) ==
  /\ P \in [TabIds -> Entries \cup {NoEntry}]
  /\ S \in [TabIds -> Entries \cup {NoEntry}]
  /\ \A t \in TabIds \ C : LastOf(P, S, t)

LEMMA StorageIs == StorageInv <=> StoredIs(pend, sess, clobbered)
BY HydratedLast DEF StorageInv, StoredIs, StoredLast, LastOf

LEMMA StorageWillBe == StorageInv' <=> StoredIs(pend', sess', clobbered')
<1>1. \A t : StoredLast(t)' = LastOf(pend', sess', t)
  BY HydratedLast DEF StoredLast, LastOf
<1>2. QED
  BY <1>1 DEF StorageInv, StoredIs

(* Writing pending entries to the session changes nothing for a reader.     *)
LEMMA Flushed ==
  ASSUME NEW P, NEW S, NEW C, StoredIs(P, S, C)
  PROVE  StoredIs([t \in TabIds |-> NoEntry], [t \in TabIds |-> getItem(P, S, t)], C)
BY DEF StoredIs, LastOf, getItem

(* A pending entry of the last tree, or of a tab given up, keeps the rest.  *)
LEMMA ItemSet ==
  ASSUME NEW P, NEW S, NEW C, StoredIs(P, S, C),
         NEW t, NEW e \in Entries, NEW D, C \subseteq D \cup {t}, e.last \/ t \in D
  PROVE  StoredIs([P EXCEPT ![t] = e], S, D)
<1>1. [P EXCEPT ![t] = e] \in [TabIds -> Entries \cup {NoEntry}]
  BY DEF StoredIs
<1>2. e # NoEntry
  BY WorkspaceAssumption DEF Entries
<1>3. ASSUME NEW u \in TabIds \ D
      PROVE  LastOf([P EXCEPT ![t] = e], S, u)
  <2>1. CASE u = t
    BY <1>2, <1>3, <2>1 DEF StoredIs, LastOf
  <2>2. CASE u # t
    BY <1>3, <2>2 DEF StoredIs, LastOf
  <2>3. QED
    BY <2>1, <2>2
<1>4. QED
  BY <1>1, <1>3 DEF StoredIs

(* So does an entry of the session behind a tree that is the last or none.  *)
LEMMA SessionSet ==
  ASSUME NEW P, NEW S, NEW C, StoredIs(P, S, C),
         NEW t, NEW e \in Entries \cup {NoEntry}, e = NoEntry \/ e.last
  PROVE  StoredIs(P, [S EXCEPT ![t] = e], C)
BY DEF StoredIs, LastOf

(* A tab that is dropped leaves nothing behind.                             *)
LEMMA Dropped ==
  ASSUME NEW P, NEW S, NEW C, StoredIs(P, S, C), NEW t
  PROVE  StoredIs([P EXCEPT ![t] = NoEntry], [S EXCEPT ![t] = NoEntry], C \ {t})
BY DEF StoredIs, LastOf

-----------------------------------------------------------------------------
(* The mounted panel and the saves under way.                               *)

Calls == [tab : TabIds, pgn : BOOLEAN, held : BOOLEAN \cup {Live}, at : {"write", "dialog"}]

(* A call that still saves the mounted store belongs to the active tab.     *)
CallsOf(calls, tab, entry) ==
  /\ calls \subseteq Calls
  /\ \A s \in calls : s.held = Live => s.tab = tab /\ entry # NoEntry

StoreInv ==
  /\ store \in Entries \cup {NoEntry}
  /\ type \in [TabIds -> {"new", "board", "unused"}]
  /\ origin \in [TabIds -> Origins]
  /\ store # NoEntry <=> active # NoTab /\ type[active] = "board"
  /\ CallsOf(saves, active, store)

MountedLast == store # NoEntry /\ active \notin clobbered => store.last

IInv == TabInv /\ StoreInv /\ StorageInv /\ MountedLast

LEMMA ActiveTyped ==
  ASSUME TabInv
  PROVE  active \in TabIds \cup {NoTab} /\ Open \subseteq TabIds /\ NoTab \notin TabIds
         /\ (active # NoTab => active \in Open)
         /\ (active # NoTab => tabs # << >>)
<1>1. Open \subseteq TabIds
  BY DEF TabInv, Open, ToSet
<1>2. QED
  BY <1>1, WorkspaceAssumption DEF TabInv

LEMMA HydratedTyped ==
  ASSUME StorageInv, NEW t \in TabIds
  PROVE  Hydrated(pend, sess, t) \in Entries /\ Hydrated(pend, sess, t) # NoEntry
BY EntryFields, WorkspaceAssumption DEF StorageInv, Hydrated, getItem, Entries

LEMMA Orphans ==
  ASSUME StoreInv, NEW calls, CallsOf(calls, active, store)
  PROVE  Orphaned(calls) \subseteq Calls /\ \A s \in Orphaned(calls) : s.held # Live
<1> SUFFICES ASSUME NEW o \in Orphaned(calls)
             PROVE  o \in Calls /\ o.held # Live
  OBVIOUS
<1>1. PICK s \in calls :
        o = IF s.tab = active /\ s.held = Live THEN [s EXCEPT !.held = store.last] ELSE s
  BY DEF Orphaned
<1>2. s \in Calls /\ (s.held = Live => s.tab = active /\ store # NoEntry)
  BY DEF CallsOf
<1>3. CASE s.held = Live
  <2>1. store.last \in BOOLEAN /\ store.last # Live
    BY <1>2, <1>3, WorkspaceAssumption DEF StoreInv, Entries
  <2>2. o = [s EXCEPT !.held = store.last]
    BY <1>1, <1>2, <1>3
  <2>3. o \in Calls /\ o.held = store.last
    BY <1>2, <2>1, <2>2 DEF Calls
  <2>4. QED
    BY <2>1, <2>3
<1>4. CASE s.held # Live
  BY <1>1, <1>2, <1>4
<1>5. QED
  BY <1>3, <1>4

(* What mounts is the last tree, and no save keeps the store that left.     *)
LEMMA Activated ==
  ASSUME StoreInv, StorageInv', NEW t \in TabIds \cup {NoTab}, NEW calls,
         CallsOf(calls, active, store), Activate(t, calls),
         t = active => /\ t # NoTab => type'[t] = type[t]
                       /\ store # NoEntry /\ active \notin clobbered' => store.last
  PROVE  /\ store' \in Entries \cup {NoEntry}
         /\ store' # NoEntry <=> active' # NoTab /\ type'[active'] = "board"
         /\ CallsOf(saves', active', store')
         /\ MountedLast'
<1>1. active' = t
  BY DEF Activate
<1>2. CASE t = active
  <2>1. store' = store /\ saves' = calls
    BY <1>2 DEF Activate
  <2>2. QED
    BY <1>1, <1>2, <2>1 DEF StoreInv, MountedLast
<1>3. CASE t # active
  <2>1. saves' = Orphaned(calls)
    BY <1>3 DEF Activate
  <2>2. CallsOf(saves', active', store')
    BY <2>1, Orphans DEF CallsOf
  <2>3. CASE t # NoTab /\ type'[t] = "board"
    <3>1. store' = Hydrated(pend', sess', t)
      BY <1>3, <2>3 DEF Activate
    <3>2. \A u \in TabIds : Hydrated(pend', sess', u) \in Entries
                            /\ Hydrated(pend', sess', u) # NoEntry
      BY HydratedTyped, EntryFields, WorkspaceAssumption
         DEF StorageInv, Hydrated, getItem, Entries
    <3>3. t \notin clobbered' => store'.last
      BY <2>3, <3>1 DEF StorageInv, StoredLast
    <3>4. QED
      BY <1>1, <2>2, <2>3, <3>1, <3>2, <3>3 DEF MountedLast
  <2>4. CASE ~(t # NoTab /\ type'[t] = "board")
    <3>1. store' = NoEntry
      BY <1>3, <2>4 DEF Activate
    <3>2. QED
      BY <1>1, <2>2, <2>4, <3>1 DEF MountedLast
  <2>5. QED
    BY <2>3, <2>4
<1>4. QED
  BY <1>2, <1>3

-----------------------------------------------------------------------------
(* The invariant is inductive.                                              *)

LEMMA InitIInv == Init => IInv
<1> SUFFICES ASSUME Init
             PROVE  IInv
  OBVIOUS
<1>1. PICK t \in TabIds : tabs = <<t>> /\ active = t
  BY DEF Init
<1>2. TabInv
  BY <1>1 DEF TabInv, IsInjective, Open, ToSet
<1>3. StoreInv /\ MountedLast
  BY <1>1 DEF Init, StoreInv, MountedLast, CallsOf, Origins
<1>4. StoredIs(pend, sess, clobbered)
  BY DEF Init, StoredIs, LastOf
<1>5. QED
  BY <1>2, <1>3, <1>4, StorageIs DEF IInv

(* A tab that opens, with a game or without, or as a copy.                  *)
LEMMA OpeningStep ==
  ASSUME IInv, NEW t \in TabIds,
         \/ NewTab(t)
         \/ \E kind \in Origins : OpenGame(t, kind)
         \/ \E u \in Open : duplicateTab(u, t)
  PROVE  IInv'
<1> USE DEF IInv
<1>1. t \notin Open /\ t # active /\ active' = t /\ Activate(t, saves)
      /\ (tabs' = Append(tabs, t) \/ tabs' = <<t>>)
  BY ActiveTyped DEF NewTab, OpenGame, duplicateTab, WithTab, Used, Activate
<1>2. TabInv'
  BY <1>1, TabAdded
<1>3. StorageInv'
  <2> SUFFICES StoredIs(pend', sess', clobbered')
    BY StorageWillBe
  <2> StoredIs(pend, sess, clobbered)
    BY StorageIs
  <2>1. CASE NewTab(t)
    BY <2>1 DEF NewTab, history
  <2>2. CASE \E kind \in Origins : OpenGame(t, kind)
    <3>1. sess' = [sess EXCEPT ![t] = Entry(TRUE, FALSE)] /\ UNCHANGED <<pend, clobbered>>
      BY <2>2 DEF OpenGame, history
    <3>2. QED
      BY <3>1, SessionSet, EntryFields
  <2>3. CASE \E u \in Open : duplicateTab(u, t)
    <3>1. PICK u \in Open : duplicateTab(u, t)
      BY <2>3
    <3> DEFINE e == IF sess[u] = NoEntry THEN NoEntry ELSE Entry(TRUE, sess[u].dirty)
    <3>2. e \in Entries \cup {NoEntry} /\ (e = NoEntry \/ e.last)
      <4>1. CASE sess[u] = NoEntry
        BY <4>1
      <4>2. CASE sess[u] # NoEntry
        <5>1. u \in TabIds
          BY ActiveTyped
        <5>2. sess[u].dirty \in BOOLEAN
          BY <4>2, <5>1 DEF StorageInv, Entries
        <5>3. QED
          BY <4>2, <5>2, EntryFields
      <4>3. QED
        BY <4>1, <4>2
    <3> HIDE DEF e
    <3>3. sess' = [sess EXCEPT ![t] = e] /\ UNCHANGED <<pend, clobbered>>
      BY <3>1 DEF duplicateTab, e
    <3>4. QED
      BY <3>2, <3>3, SessionSet
  <2>4. QED
    BY <2>1, <2>2, <2>3
<1>4. type' \in [TabIds -> {"new", "board", "unused"}] /\ origin' \in [TabIds -> Origins]
  <2>1. CASE NewTab(t)
    BY <2>1 DEF NewTab, StoreInv
  <2>2. CASE \E kind \in Origins : OpenGame(t, kind)
    BY <2>2 DEF OpenGame, StoreInv
  <2>3. CASE \E u \in Open : duplicateTab(u, t)
    <3>1. PICK u \in Open : duplicateTab(u, t)
      BY <2>3
    <3>2. u \in TabIds
      BY ActiveTyped
    <3>3. QED
      BY <3>1, <3>2 DEF duplicateTab, StoreInv
  <2>4. QED
    BY <2>1, <2>2, <2>3
<1>5. CallsOf(saves, active, store)
  BY DEF StoreInv
<1>6. QED
  BY <1>1, <1>2, <1>3, <1>4, <1>5, Activated DEF StoreInv

(* A tab that closes, whatever calls are then under way.                    *)
LEMMA ClosingStep ==
  ASSUME IInv, NEW t \in Open, NEW calls, CallsOf(calls, active, store), DropTab(t, calls)
  PROVE  IInv'
<1> USE DEF IInv
<1> DEFINE next == AfterClosing(t)
<1>1. t \in TabIds
  BY ActiveTyped
<1>2. active' = next /\ Activate(next, calls) /\ tabs' = RemoveAt(tabs, findIndex(t))
  BY DEF DropTab, Activate
<1>3. TabInv' /\ (active' = active => t # active)
  BY <1>2, TabRemoved
<1>4. next \in TabIds \cup {NoTab}
  BY <1>2, <1>3, ActiveTyped DEF TabInv, Open, ToSet
<1>5. StorageInv'
  <2>1. StoredIs([pend EXCEPT ![t] = NoEntry], [sess EXCEPT ![t] = NoEntry], clobbered \ {t})
    BY StorageIs, Dropped
  <2>2. QED
    BY <2>1, StorageWillBe DEF DropTab
<1>6. type' = [type EXCEPT ![t] = "unused"] /\ origin' = [origin EXCEPT ![t] = "none"]
      /\ clobbered' = clobbered \ {t}
  BY DEF DropTab
<1> HIDE DEF next
<1>7. type' \in [TabIds -> {"new", "board", "unused"}] /\ origin' \in [TabIds -> Origins]
  BY <1>6 DEF StoreInv, Origins
<1>8. next = active => /\ next # NoTab => type'[next] = type[next]
                       /\ store # NoEntry /\ active \notin clobbered' => store.last
  BY <1>1, <1>2, <1>3, <1>4, <1>6 DEF StoreInv, MountedLast
<1>9. QED
  BY <1>2, <1>3, <1>4, <1>5, <1>7, <1>8, Activated DEF StoreInv

(* A call of saveToFile() that begins.                                      *)
LEMMA Called ==
  ASSUME IInv, NEW user \in BOOLEAN, store # NoEntry
  PROVE  CallsOf(saves \cup {Call(user)}, active, store)
<1>1. active \in TabIds /\ store.last \in BOOLEAN
  BY ActiveTyped DEF IInv, StoreInv, Entries
<1>2. Call(user) \in Calls /\ Call(user).tab = active
  BY <1>1 DEF Call, Calls
<1>3. QED
  BY <1>2 DEF IInv, StoreInv, CallsOf

(* A change of the mounted tree.                                            *)
LEMMA ChangeStep ==
  ASSUME IInv, NEW dirty \in BOOLEAN, Changes(dirty)
  PROVE  IInv'
<1> USE DEF IInv
<1>1. store # NoEntry /\ active \in TabIds /\ store' = Entry(TRUE, dirty)
  BY ActiveTyped DEF Changes, StoreInv
<1>2. store' \in Entries /\ store' # NoEntry /\ store'.last
  BY <1>1, EntryFields
<1>3. UNCHANGED <<tabs, active, type, origin>>
  BY DEF Changes
<1>4. TabInv'
  BY <1>3 DEF TabInv, Open
<1>5. StorageInv'
  <2> SUFFICES StoredIs(pend', sess', clobbered')
    BY StorageWillBe
  <2> DEFINE e == Entry(TRUE, dirty)
  <2> DEFINE d == IF sess[active] = NoEntry THEN NoEntry ELSE Entry(FALSE, sess[active].dirty)
  <2>1. e \in Entries /\ e.last /\ e # NoEntry
    BY EntryFields
  <2>2. d \in Entries \cup {NoEntry}
    <3>1. CASE sess[active] = NoEntry
      BY <3>1
    <3>2. CASE sess[active] # NoEntry
      <4>1. sess[active].dirty \in BOOLEAN
        BY <1>1, <3>2 DEF StorageInv, Entries
      <4>2. QED
        BY <3>2, <4>1, EntryFields
    <3>3. QED
      BY <3>1, <3>2
  <2> HIDE DEF e, d
  <2>3. /\ pend' = [pend EXCEPT ![active] = e] /\ sess' = [sess EXCEPT ![active] = d]
        /\ clobbered' = clobbered \ {active}
    BY DEF Changes, e, d
  <2>4. StoredIs(pend, sess, clobbered)
    BY StorageIs
  <2>5. QED
    BY <1>1, <2>1, <2>2, <2>3, <2>4 DEF StoredIs, LastOf
<1>6. CallsOf(saves', active', store')
  <2> SUFFICES ASSUME NEW o \in saves'
               PROVE  o \in Calls /\ (o.held = Live => o.tab = active)
    BY <1>2, <1>3 DEF CallsOf
  <2>1. PICK s \in saves :
          o = IF s.tab # active THEN s
              ELSE [s EXCEPT !.pgn = FALSE, !.held = IF @ = Live THEN Live ELSE FALSE]
    BY DEF Changes
  <2>2. s \in Calls /\ (s.held = Live => s.tab = active)
    BY DEF StoreInv, CallsOf
  <2>3. CASE s.tab # active
    BY <2>1, <2>2, <2>3
  <2>4. CASE s.tab = active
    BY <2>1, <2>2, <2>4 DEF Calls
  <2>5. QED
    BY <2>3, <2>4
<1>7. StoreInv'
  BY <1>1, <1>2, <1>3, <1>6 DEF StoreInv
<1>8. MountedLast'
  BY <1>2 DEF MountedLast
<1>9. QED
  BY <1>4, <1>5, <1>7, <1>8

(* A write that ends: the store of its call persists itself, and a tree     *)
(* that is not the tab's last gives the tab up.                             *)
LEMMA WriteStep ==
  ASSUME IInv, NEW s \in saves, NEW ok \in BOOLEAN, WriteEnds(s, ok)
  PROVE  IInv'
<1> USE DEF IInv
<1> DEFINE content == IF s.held = Live THEN store.last ELSE s.held
<1>1. s \in Calls /\ (s.held = Live => s.tab = active /\ store # NoEntry)
  BY DEF StoreInv, CallsOf
<1>2. content \in BOOLEAN
  BY <1>1 DEF StoreInv, Entries, Calls
<1>3. /\ saves' = saves \ {s}
      /\ store' = IF s.held = Live THEN Entry(content, FALSE) ELSE store
      /\ UNCHANGED <<tabs, active, type, origin>>
      /\ IF s.tab \in Open
         THEN /\ pend' = [pend EXCEPT ![s.tab] = Entry(content, FALSE)] /\ UNCHANGED sess
              /\ clobbered' = IF content THEN clobbered ELSE clobbered \cup {s.tab}
         ELSE UNCHANGED <<pend, sess, clobbered>>
  BY DEF WriteEnds, setItem
<1> HIDE DEF content
<1>4. Entry(content, FALSE) \in Entries /\ Entry(content, FALSE).last = content
      /\ Entry(content, FALSE) # NoEntry
  BY <1>2, EntryFields
<1>5. TabInv'
  BY <1>3 DEF TabInv, Open
<1>6. StoreInv'
  <2>1. store' \in Entries \cup {NoEntry} /\ (store' # NoEntry <=> store # NoEntry)
    BY <1>1, <1>3, <1>4 DEF StoreInv
  <2>2. CallsOf(saves', active', store')
    BY <1>3, <2>1 DEF StoreInv, CallsOf
  <2>3. QED
    BY <1>3, <2>1, <2>2 DEF StoreInv
<1>7. StorageInv'
  <2> SUFFICES StoredIs(pend', sess', clobbered')
    BY StorageWillBe
  <2>1. StoredIs(pend, sess, clobbered)
    BY StorageIs
  <2>2. CASE s.tab \in Open
    <3>1. clobbered \subseteq clobbered' \cup {s.tab} /\ (content \/ s.tab \in clobbered')
      BY <1>3, <2>2
    <3> DEFINE e == Entry(content, FALSE)
    <3>2. e \in Entries /\ (e.last \/ s.tab \in clobbered')
      BY <1>4, <3>1
    <3>3. pend' = [pend EXCEPT ![s.tab] = e] /\ sess' = sess
      BY <1>3, <2>2
    <3> HIDE DEF e
    <3>4. StoredIs([pend EXCEPT ![s.tab] = e], sess, clobbered')
      BY <2>1, <3>1, <3>2, ItemSet
    <3>5. QED
      BY <3>3, <3>4
  <2>3. CASE s.tab \notin Open
    BY <1>3, <2>1, <2>3
  <2>4. QED
    BY <2>2, <2>3
<1>8. MountedLast'
  <2>1. CASE s.held = Live
    <3>1. s.tab = active /\ active \in Open /\ content = store.last /\ store # NoEntry
      BY <1>1, <2>1, ActiveTyped DEF content, StoreInv
    <3>2. QED
      BY <1>3, <1>4, <2>1, <3>1 DEF MountedLast
  <2>2. CASE s.held # Live
    BY <1>3, <2>2 DEF MountedLast
  <2>3. QED
    BY <2>1, <2>2
<1>9. QED
  BY <1>5, <1>6, <1>7, <1>8

(* Flushes, reloads and clicks that leave every tree as it is.              *)
LEMMA QuietStep ==
  ASSUME IInv,
         \/ ChooseBoard
         \/ \E t \in Open : Select(t) \/ renameTab(t)
         \/ \E i, j \in DOMAIN tabs : DragTab(i, j)
         \/ userSaveFile \/ AutoSave \/ CancelModal
         \/ \E s \in saves : DialogCancelled(s) \/ DialogChosen(s)
         \/ flush \/ Reload
  PROVE  IInv'
<1> USE DEF IInv
<1>1. CASE ChooseBoard
  <2>1. active \in TabIds /\ store' = Hydrated(pend, sess, active) /\ type' = [type EXCEPT ![active] = "board"]
        /\ UNCHANGED <<tabs, active, origin, pend, sess, saves, clobbered>>
    BY <1>1, ActiveTyped DEF ChooseBoard, history
  <2>2. store' \in Entries /\ store' # NoEntry /\ (active \notin clobbered => store'.last)
    BY <2>1, HydratedTyped DEF StorageInv, StoredLast
  <2>3. CallsOf(saves', active', store')
    BY <2>1, <2>2 DEF StoreInv, CallsOf
  <2>4. StoreInv' /\ MountedLast'
    BY <2>1, <2>2, <2>3, ActiveTyped DEF StoreInv, MountedLast
  <2>5. TabInv'
    BY <2>1 DEF TabInv, Open
  <2>6. StorageInv'
    BY <2>1, StorageIs, StorageWillBe
  <2>7. QED
    BY <2>4, <2>5, <2>6
<1>2. CASE \E t \in Open : Select(t)
  <2>1. PICK t \in Open : Select(t)
    BY <1>2
  <2>2. t \in TabIds /\ t # active /\ active' = t /\ Activate(t, saves)
        /\ UNCHANGED <<tabs, type, origin, pend, sess, clobbered>>
    BY <2>1, ActiveTyped DEF Select, Activate, history
  <2>3. TabInv'
    BY <2>1, <2>2 DEF TabInv, Open, ToSet
  <2>4. StorageInv'
    BY <2>2, StorageIs, StorageWillBe
  <2>5. CallsOf(saves, active, store)
    BY DEF StoreInv
  <2>6. QED
    BY <2>2, <2>3, <2>4, <2>5, Activated DEF StoreInv
<1>3. CASE \E i, j \in DOMAIN tabs : DragTab(i, j)
  <2>1. PICK i, j \in 1 .. Len(tabs) : DragTab(i, j)
    BY <1>3 DEF TabInv
  <2>2. TabInv'
    BY <2>1, TabMoved
  <2>3. UNCHANGED <<active, type, origin, store, pend, sess, saves, clobbered>>
    BY <2>1 DEF DragTab, history
  <2>4. StorageInv'
    BY <2>3, StorageIs, StorageWillBe
  <2>5. QED
    BY <2>2, <2>3, <2>4 DEF StoreInv, MountedLast
<1>4. CASE userSaveFile \/ AutoSave
  <2>1. \/ saves' = saves
        \/ store # NoEntry /\ \E user \in BOOLEAN : saves' = saves \cup {Call(user)}
    BY <1>4 DEF userSaveFile, AutoSave
  <2>2. UNCHANGED <<tabs, active, type, origin, store, pend, sess, clobbered>>
    BY <1>4 DEF userSaveFile, AutoSave, history
  <2>3. CallsOf(saves', active, store)
    BY <2>1, Called DEF StoreInv
  <2>4. StorageInv'
    BY <2>2, StorageIs, StorageWillBe
  <2>5. QED
    BY <2>2, <2>3, <2>4 DEF TabInv, Open, StoreInv, MountedLast
<1>5. CASE \E s \in saves : DialogCancelled(s) \/ DialogChosen(s)
  <2>1. PICK s \in saves : DialogCancelled(s) \/ DialogChosen(s)
    BY <1>5
  <2>2. UNCHANGED <<tabs, active, type, store, pend, sess, clobbered>>
    BY <2>1 DEF DialogCancelled, DialogChosen, history
  <2>3. saves' \subseteq saves \cup {[s EXCEPT !.at = "write"]}
    BY <2>1 DEF DialogCancelled, DialogChosen
  <2>4. [s EXCEPT !.at = "write"] \in Calls /\ [s EXCEPT !.at = "write"].held = s.held
        /\ [s EXCEPT !.at = "write"].tab = s.tab
    BY DEF StoreInv, CallsOf, Calls
  <2>5. CallsOf(saves', active, store)
    BY <2>3, <2>4 DEF StoreInv, CallsOf
  <2>6. origin' \in [TabIds -> Origins]
    BY <2>1 DEF DialogCancelled, DialogChosen, StoreInv, Origins
  <2>7. StorageInv'
    BY <2>2, StorageIs, StorageWillBe
  <2>8. QED
    BY <2>2, <2>5, <2>6, <2>7 DEF TabInv, Open, StoreInv, MountedLast
<1>6. CASE CancelModal \/ \E t \in Open : renameTab(t)
  <2>1. UNCHANGED <<tabs, active, type, origin, store, pend, sess, saves, clobbered>>
    BY <1>6 DEF CancelModal, renameTab, history
  <2>2. StorageInv'
    BY <2>1, StorageIs, StorageWillBe
  <2>3. QED
    BY <2>1, <2>2 DEF TabInv, Open, StoreInv, MountedLast
<1>7. CASE flush \/ Reload
  <2>1. /\ sess' = [t \in TabIds |-> getItem(pend, sess, t)] /\ pend' = [t \in TabIds |-> NoEntry]
        /\ UNCHANGED <<tabs, active, type, origin, clobbered>>
    BY <1>7 DEF flush, Reload, history
  <2>2. StorageInv'
    BY <2>1, Flushed, StorageIs, StorageWillBe
  <2>3. CASE flush
    BY <2>1, <2>2, <2>3 DEF flush, TabInv, Open, StoreInv, MountedLast
  <2>4. CASE Reload
    <3>1. saves' = {} /\ store' = IF active # NoTab /\ type[active] = "board"
                                  THEN Hydrated(pend, sess, active) ELSE NoEntry
      BY <2>4 DEF Reload
    <3>2. active # NoTab => Hydrated(pend, sess, active) \in Entries /\ Hydrated(pend, sess, active) # NoEntry
      BY ActiveTyped, HydratedTyped
    <3>3. active # NoTab /\ active \notin clobbered => Hydrated(pend, sess, active).last
      BY ActiveTyped DEF StorageInv, StoredLast
    <3>4. StoreInv' /\ MountedLast'
      BY <2>1, <3>1, <3>2, <3>3 DEF StoreInv, CallsOf, MountedLast
    <3>5. QED
      BY <2>1, <2>2, <3>4 DEF TabInv, Open
  <2>5. QED
    BY <1>7, <2>3, <2>4
<1>8. QED
  BY <1>1, <1>2, <1>3, <1>4, <1>5, <1>6, <1>7

LEMMA NextIInv ==
  ASSUME IInv, [Next]_vars
  PROVE  IInv'
<1> USE DEF IInv
<1>1. ASSUME NEW t \in TabIds, NewTab(t) \/ \E kind \in Origins : OpenGame(t, kind)
      PROVE  IInv'
  BY <1>1, OpeningStep
<1>2. ASSUME NEW t \in Open, NEW id \in TabIds, duplicateTab(t, id)
      PROVE  IInv'
  BY <1>2, OpeningStep
<1>3. ASSUME NEW t \in Open, closeTab(t)
      PROVE  IInv'
  <2>1. CASE Asks(t)
    <3>1. UNCHANGED <<tabs, active, type, origin, store, pend, sess, saves, clobbered>>
      BY <1>3, <2>1 DEF closeTab, history
    <3>2. StorageInv'
      BY <3>1, StorageIs, StorageWillBe
    <3>3. QED
      BY <3>1, <3>2 DEF TabInv, Open, StoreInv, MountedLast
  <2>2. CASE ~Asks(t)
    <3>1. DropTab(t, saves) /\ CallsOf(saves, active, store)
      BY <1>3, <2>2 DEF closeTab, StoreInv
    <3>2. QED
      BY <3>1, ClosingStep
  <2>3. QED
    BY <2>1, <2>2
<1>4. CASE Edit \/ addGame
  BY <1>4, ChangeStep DEF Edit, addGame
<1>5. CASE CloseWithoutSaving \/ SaveAndClose
  <2>1. store # NoEntry /\ active \in Open
    BY <1>5, ActiveTyped DEF CloseWithoutSaving, SaveAndClose, StoreInv
  <2>2. CASE CloseWithoutSaving
    <3>1. DropTab(active, saves) /\ CallsOf(saves, active, store)
      BY <2>2 DEF CloseWithoutSaving, StoreInv
    <3>2. QED
      BY <2>1, <3>1, ClosingStep
  <2>3. CASE SaveAndClose
    <3>1. DropTab(active, saves \cup {Call(TRUE)})
      BY <2>3 DEF SaveAndClose
    <3>2. CallsOf(saves \cup {Call(TRUE)}, active, store)
      BY <2>1, Called
    <3>3. QED
      BY <2>1, <3>1, <3>2, ClosingStep
  <2>4. QED
    BY <1>5, <2>2, <2>3
<1>6. ASSUME NEW s \in saves, NEW ok \in {TRUE, ~MayFail}, WriteEnds(s, ok)
      PROVE  IInv'
  <2>1. ok \in BOOLEAN
    BY WorkspaceAssumption
  <2>2. QED
    BY <1>6, <2>1, WriteStep
<1>7. CASE UNCHANGED vars
  <2>1. UNCHANGED <<tabs, active, type, origin, store, pend, sess, saves, clobbered>>
    BY <1>7 DEF vars, history
  <2>2. StorageInv'
    BY <2>1, StorageIs, StorageWillBe
  <2>3. QED
    BY <2>1, <2>2 DEF TabInv, Open, StoreInv, MountedLast
<1>8. CASE \/ ChooseBoard
           \/ \E t \in Open : Select(t) \/ renameTab(t)
           \/ \E i, j \in DOMAIN tabs : DragTab(i, j)
           \/ userSaveFile \/ AutoSave \/ CancelModal
           \/ \E s \in saves : DialogCancelled(s) \/ DialogChosen(s)
           \/ flush \/ Reload
  BY <1>8, QuietStep
<1> HIDE DEF IInv
<1>9. QED
  BY <1>1, <1>2, <1>3, <1>4, <1>5, <1>6, <1>7, <1>8 DEF Next

LEMMA Invariance == Spec => []IInv
<1>1. IInv /\ [Next]_vars => IInv'
  BY NextIInv
<1>2. QED
  BY <1>1, InitIInv, PTL DEF Spec

-----------------------------------------------------------------------------
(* What a tab shows as saved. Two more facts, of every tab: one without a   *)
(* board has no unsaved changes anywhere, and a tab whose last tree is not  *)
(* in its file is marked wherever its next mount may look.                  *)

Unsaved(e) == e # NoEntry /\ e.dirty

UnsavedIn(P, S, t) == IF P[t] # NoEntry THEN P[t].dirty ELSE Unsaved(S[t])

HomeInv ==
  \A t \in TabIds : ~(t \in Open /\ type[t] = "board") =>
    pend[t] = NoEntry /\ ~Unsaved(sess[t]) /\ saved[t] # "no"

CallsOfBoards == \A s \in saves : s.tab \in Open => type[s.tab] = "board"

(* Of the storage alone, for steps that change it and mount a tab.          *)
MarkedIn(P, S, F) == \A t \in TabIds : F[t] = "no" => UnsavedIn(P, S, t)

MountedMarked == store # NoEntry /\ saved[active] = "no" => store.dirty

SavedInv ==
  /\ saved \in [TabIds -> {"yes", "no", "unknown"}]
  /\ HomeInv /\ CallsOfBoards
  /\ MarkedIn(pend, sess, saved)
  /\ MountedMarked

LEMMA HydratedDirty ==
  ASSUME NEW P, NEW S, NEW t,
         P[t] \in Entries \cup {NoEntry}, S[t] \in Entries \cup {NoEntry}
  PROVE  Hydrated(P, S, t).dirty = UnsavedIn(P, S, t)
<1>1. Entry(TRUE, FALSE).dirty = FALSE
  BY DEF Entry
<1>2. CASE P[t] # NoEntry
  BY <1>2 DEF Hydrated, getItem, UnsavedIn
<1>3. CASE P[t] = NoEntry /\ S[t] # NoEntry
  <2>1. S[t].dirty \in BOOLEAN
    BY <1>3 DEF Entries
  <2>2. QED
    BY <1>3, <2>1 DEF Hydrated, getItem, UnsavedIn, Unsaved
<1>4. CASE P[t] = NoEntry /\ S[t] = NoEntry
  BY <1>1, <1>4 DEF Hydrated, getItem, UnsavedIn, Unsaved
<1>5. QED
  BY <1>2, <1>3, <1>4

(* A tab that mounts is marked when its storage is.                         *)
LEMMA MountMarked ==
  ASSUME IInv, IInv', MountedMarked, MarkedIn(pend', sess', saved'),
         NEW t, NEW calls, Activate(t, calls),
         t = active /\ t # NoTab /\ saved'[t] = "no" => saved[t] = "no"
  PROVE  MountedMarked'
<1>1. active' = t
  BY DEF Activate
<1>2. CASE t = active
  <2>1. store' = store
    BY <1>2 DEF Activate
  <2>2. store # NoEntry => active # NoTab
    BY DEF IInv, StoreInv
  <2>3. QED
    BY <1>1, <1>2, <2>1, <2>2 DEF MountedMarked
<1>3. CASE t # active
  <2>1. store' # NoEntry => t # NoTab /\ store' = Hydrated(pend', sess', t)
    BY <1>3 DEF Activate
  <2>2. t # NoTab => t \in TabIds
    BY <1>1, ActiveTyped DEF IInv, TabInv, Open, ToSet
  <2>3. t \in TabIds => /\ pend'[t] \in Entries \cup {NoEntry}
                         /\ sess'[t] \in Entries \cup {NoEntry}
    BY DEF IInv, StorageInv
  <2>4. t \in TabIds => Hydrated(pend', sess', t).dirty = UnsavedIn(pend', sess', t)
    BY <2>3, HydratedDirty
  <2>5. QED
    BY <1>1, <2>1, <2>2, <2>4 DEF MountedMarked, MarkedIn
<1>4. QED
  BY <1>2, <1>3

(* The tabs that stay when one opens or closes, or the bar is rearranged.   *)
LEMMA OpeningKeeps ==
  ASSUME TabInv, NEW t, NEW kind, tabs' = WithTab(t, kind) \/ tabs' = Append(tabs, t)
  PROVE  \A u \in Open : u \in Open' \/ type[u] = "new"
<1>1. CASE tabs' = Append(tabs, t)
  <2>1. \A i \in DOMAIN tabs : i \in DOMAIN tabs' /\ tabs'[i] = tabs[i]
    BY <1>1 DEF TabInv
  <2>2. QED
    BY <2>1 DEF Open, ToSet
<1>2. CASE tabs' # Append(tabs, t)
  <2>1. Len(tabs) = 1 /\ type[tabs[1]] = "new"
    BY <1>2 DEF WithTab
  <2>2. Open = {tabs[1]}
    BY <2>1 DEF Open, ToSet, TabInv
  <2>3. QED
    BY <2>1, <2>2
<1>3. QED
  BY <1>1, <1>2

LEMMA ClosingKeeps ==
  ASSUME TabInv, NEW t \in Open, tabs' = RemoveAt(tabs, findIndex(t))
  PROVE  Open' = Open \ {t}
<1> DEFINE n == Len(tabs)
<1> DEFINE i == findIndex(t)
<1>1. n \in Nat /\ DOMAIN tabs = 1 .. n /\ i \in 1 .. n /\ tabs[i] = t
      /\ \A j \in 1 .. n : tabs[j] = t => j = i
  BY Indexed
<1>2. tabs \in Seq(TabIds)
  BY DEF TabInv
<1>3. /\ tabs' \in Seq(TabIds) /\ Len(tabs') = n - 1
      /\ \A j \in 1 .. n - 1 : tabs'[j] = IF j < i THEN tabs[j] ELSE tabs[j + 1]
  BY <1>1, <1>2, RemovedAt, Zenon
<1>4. DOMAIN tabs' = 1 .. n - 1
  BY <1>1, <1>3
<1> HIDE DEF i, n
<1>5. ASSUME NEW j \in 1 .. n, tabs[j] # t
      PROVE  \E k \in 1 .. n - 1 : tabs'[k] = tabs[j]
  <2>1. CASE j < i
    BY <1>1, <1>3, <2>1
  <2>2. CASE ~(j < i)
    <3>1. j - 1 \in 1 .. n - 1 /\ ~(j - 1 < i) /\ j - 1 + 1 = j
      BY <1>1, <1>5, <2>2
    <3>2. QED
      BY <1>3, <3>1
  <2>3. QED
    BY <2>1, <2>2
<1>6. ASSUME NEW k \in 1 .. n - 1
      PROVE  tabs'[k] # t /\ \E j \in 1 .. n : tabs'[k] = tabs[j]
  <2>1. k \in 1 .. n /\ k + 1 \in 1 .. n /\ (k < i => k # i) /\ (~(k < i) => k + 1 # i)
    BY <1>1
  <2>2. QED
    BY <1>1, <1>3, <2>1
<1>7. Open = {tabs[j] : j \in 1 .. n} /\ Open' = {tabs'[k] : k \in 1 .. n - 1}
  BY <1>1, <1>4 DEF Open, ToSet
<1>8. \A u \in Open \ {t} : u \in Open'
  BY <1>5, <1>7
<1>9. \A u \in Open' : u \in Open \ {t}
  BY <1>6, <1>7
<1>10. QED
  BY <1>8, <1>9

LEMMA DraggingKeeps ==
  ASSUME TabInv, NEW i \in DOMAIN tabs, NEW j \in DOMAIN tabs, DragTab(i, j)
  PROVE  Open' = Open
<1> DEFINE n == Len(tabs)
<1> DEFINE moved == InsertAt(RemoveAt(tabs, i), j, tabs[i])
<1>1. n \in Nat /\ DOMAIN tabs = 1 .. n /\ tabs \in Seq(TabIds) /\ i \in 1 .. n /\ j \in 1 .. n
  BY DEF TabInv
<1>2. tabs' = moved
  BY DEF DragTab
<1>3. /\ tabs' \in Seq(TabIds) /\ Len(tabs') = n
      /\ \A k \in 1 .. n : tabs'[k] = tabs[MovedFrom(i, j, k)]
  <2>1. moved \in Seq(TabIds) /\ Len(moved) = n
    BY <1>1, MovedAt
  <2>2. ASSUME NEW k \in 1 .. n
        PROVE  moved[k] = tabs[MovedFrom(i, j, k)]
    BY <1>1, MovedElement
  <2> HIDE DEF moved
  <2>3. QED
    BY <1>2, <2>1, <2>2
<1> HIDE DEF n, moved
<1>4. DOMAIN tabs' = 1 .. n
  BY <1>1, <1>3
<1>5. \A k \in 1 .. n : MovedTo(i, j, k) \in 1 .. n /\ MovedFrom(i, j, MovedTo(i, j, k)) = k
  BY <1>1, MovedAll
<1>6. \A k \in 1 .. n : MovedFrom(i, j, k) \in 1 .. n
  BY <1>1 DEF MovedFrom
<1>7. Open = {tabs[k] : k \in 1 .. n} /\ Open' = {tabs'[k] : k \in 1 .. n}
  BY <1>1, <1>4 DEF Open, ToSet
<1>8. \A u \in Open : u \in Open'
  BY <1>3, <1>5, <1>7
<1>9. \A u \in Open' : u \in Open
  BY <1>3, <1>6, <1>7
<1>10. QED
  BY <1>8, <1>9

-----------------------------------------------------------------------------
(* SavedInv is inductive, given IInv before and after the step.             *)

LEMMA SavedOpening ==
  ASSUME IInv, IInv', SavedInv, NEW t \in TabIds,
         \/ NewTab(t)
         \/ \E kind \in Origins : OpenGame(t, kind)
         \/ \E u \in Open : duplicateTab(u, t)
  PROVE  SavedInv'
<1>1. /\ t \notin Open /\ t # active /\ Activate(t, saves)
      /\ pend' = pend /\ \A s \in saves : s.tab # t
      /\ \A u \in TabIds \ {t} : type'[u] = type[u] /\ sess'[u] = sess[u] /\ saved'[u] = saved[u]
  <2>1. t \notin Used
    BY DEF NewTab, OpenGame, duplicateTab
  <2>2. t \notin Open /\ t # active /\ \A s \in saves : s.tab # t
    BY <2>1, ActiveTyped DEF Used, IInv
  <2>3. CASE NewTab(t)
    BY <2>2, <2>3 DEF NewTab, IInv, StoreInv, history
  <2>4. CASE \E kind \in Origins : OpenGame(t, kind)
    BY <2>2, <2>4 DEF OpenGame, IInv, StoreInv, StorageInv, history
  <2>5. CASE \E u \in Open : duplicateTab(u, t)
    BY <2>2, <2>5 DEF duplicateTab, IInv, StoreInv, StorageInv, SavedInv
  <2>6. QED
    BY <2>3, <2>4, <2>5
<1>2. \A u \in Open : u \in Open' \/ type[u] = "new"
  BY OpeningKeeps DEF NewTab, OpenGame, duplicateTab, IInv
<1>3. pend[t] = NoEntry /\ ~Unsaved(sess[t]) /\ saved[t] # "no"
  BY <1>1 DEF SavedInv, HomeInv
<1>4. /\ saved' \in [TabIds -> {"yes", "no", "unknown"}]
      /\ saved'[t] = "no" => UnsavedIn(pend', sess', t)
      /\ type'[t] # "board" => ~Unsaved(sess'[t]) /\ saved'[t] # "no"
  <2>1. CASE NewTab(t)
    BY <1>3, <2>1 DEF NewTab, history, SavedInv
  <2>2. CASE \E kind \in Origins : OpenGame(t, kind)
    <3>1. type'[t] = "board" /\ saved' = saved
      BY <2>2 DEF OpenGame, history, IInv, StoreInv
    <3>2. QED
      BY <1>3, <3>1 DEF SavedInv
  <2>3. CASE \E u \in Open : duplicateTab(u, t)
    <3>1. PICK u \in Open : duplicateTab(u, t)
      BY <2>3
    <3>2. u \in TabIds
      BY ActiveTyped DEF IInv
    <3>3. saved'[t] = (IF pend[u] = NoEntry THEN saved[u] ELSE "unknown")
          /\ saved' \in [TabIds -> {"yes", "no", "unknown"}]
      BY <3>1, <3>2 DEF duplicateTab, SavedInv
    <3>4. sess'[t] = (IF sess[u] = NoEntry THEN NoEntry ELSE Entry(TRUE, sess[u].dirty))
          /\ type'[t] = type[u]
      BY <3>1, <3>2 DEF duplicateTab, IInv, StorageInv, StoreInv
    <3>5. Unsaved(sess'[t]) = Unsaved(sess[u])
      <4>1. CASE sess[u] = NoEntry
        BY <3>4, <4>1 DEF Unsaved
      <4>2. CASE sess[u] # NoEntry
        <5>1. sess[u].dirty \in BOOLEAN
          BY <3>2, <4>2 DEF IInv, StorageInv, Entries
        <5>2. sess'[t] # NoEntry /\ sess'[t].dirty = sess[u].dirty
          BY <3>4, <4>2, <5>1, EntryFields
        <5>3. QED
          BY <4>2, <5>2 DEF Unsaved
      <4>3. QED
        BY <4>1, <4>2
    <3>6. saved'[t] = "no" => UnsavedIn(pend, sess, u) /\ pend[u] = NoEntry
      BY <3>2, <3>3 DEF SavedInv, MarkedIn
    <3>7. saved'[t] = "no" => UnsavedIn(pend', sess', t)
      <4>1. saved'[t] = "no" => Unsaved(sess[u])
        BY <3>6 DEF UnsavedIn
      <4>2. QED
        BY <1>1, <1>3, <3>5, <4>1 DEF UnsavedIn
    <3>8. type'[t] # "board" => ~Unsaved(sess'[t]) /\ saved'[t] # "no"
      BY <3>2, <3>3, <3>4, <3>5 DEF SavedInv, HomeInv
    <3>9. QED
      BY <3>3, <3>7, <3>8
  <2>4. QED
    BY <2>1, <2>2, <2>3
<1>5. HomeInv'
  <2> SUFFICES ASSUME NEW u \in TabIds, ~(u \in Open' /\ type'[u] = "board")
               PROVE  pend'[u] = NoEntry /\ ~Unsaved(sess'[u]) /\ saved'[u] # "no"
    BY DEF HomeInv
  <2>1. CASE u # t
    <3>1. type'[u] = type[u] /\ sess'[u] = sess[u] /\ saved'[u] = saved[u] /\ pend'[u] = pend[u]
      BY <1>1, <2>1
    <3>2. ~(u \in Open /\ type[u] = "board")
      BY <1>2, <3>1
    <3>3. QED
      BY <3>1, <3>2 DEF SavedInv, HomeInv
  <2>2. CASE u = t
    <3>1. t \in Open' /\ active' = t
      BY <1>1, WorkspaceAssumption DEF Activate, IInv, TabInv
    <3>2. QED
      BY <1>1, <1>3, <1>4, <2>2, <3>1
  <2>3. QED
    BY <2>1, <2>2
<1>6. MarkedIn(pend', sess', saved')
  <2>1. ASSUME NEW u \in TabIds, u # t, saved'[u] = "no"
        PROVE  UnsavedIn(pend', sess', u)
    <3>1. sess'[u] = sess[u] /\ saved'[u] = saved[u] /\ pend'[u] = pend[u]
      BY <1>1, <2>1
    <3>2. UnsavedIn(pend, sess, u)
      BY <2>1, <3>1 DEF SavedInv, MarkedIn
    <3>3. QED
      BY <3>1, <3>2 DEF UnsavedIn
  <2>2. QED
    BY <1>4, <2>1 DEF MarkedIn
<1>7. MountedMarked'
  BY <1>1, <1>6, MountMarked DEF SavedInv
<1>8. CallsOfBoards'
  <2>1. \A u \in Open' : u # t => u \in Open /\ u \in TabIds
    <3>1. tabs' = Append(tabs, t) \/ tabs' = <<t>>
      BY DEF NewTab, OpenGame, duplicateTab, WithTab
    <3>2. \A i \in DOMAIN tabs' : tabs'[i] = t \/ (i \in DOMAIN tabs /\ tabs'[i] = tabs[i])
      BY <3>1 DEF IInv, TabInv
    <3>3. QED
      BY <3>2, ActiveTyped DEF Open, ToSet, IInv
  <2>2. \A s \in saves' : \E r \in saves : s.tab = r.tab
    BY <1>1 DEF Activate, Orphaned, IInv, StoreInv, CallsOf, Calls
  <2>3. QED
    BY <1>1, <2>1, <2>2 DEF SavedInv, CallsOfBoards
<1>9. QED
  BY <1>4, <1>5, <1>6, <1>7, <1>8 DEF SavedInv

LEMMA SavedClosing ==
  ASSUME IInv, IInv', SavedInv, NEW t \in Open, NEW calls, CallsOf(calls, active, store),
         DropTab(t, calls), \A s \in calls : s.tab \in Open => type[s.tab] = "board"
  PROVE  SavedInv'
<1>1. t \in TabIds /\ Activate(AfterClosing(t), calls) /\ active' = AfterClosing(t)
  BY ActiveTyped DEF DropTab, IInv, Activate
<1>2. Open' = Open \ {t} /\ (active' = active => t # active)
  BY ClosingKeeps, TabRemoved, <1>1 DEF DropTab, IInv
<1>4. /\ pend'[t] = NoEntry /\ sess'[t] = NoEntry /\ saved'[t] = "yes" /\ type'[t] # "board"
      /\ saved' \in [TabIds -> {"yes", "no", "unknown"}]
      /\ \A u \in TabIds \ {t} : /\ pend'[u] = pend[u] /\ sess'[u] = sess[u]
                                 /\ saved'[u] = saved[u] /\ type'[u] = type[u]
  BY <1>1 DEF DropTab, IInv, StoreInv, StorageInv, SavedInv
<1>5. HomeInv'
  <2> SUFFICES ASSUME NEW u \in TabIds, u # t, ~(u \in Open' /\ type'[u] = "board")
               PROVE  pend'[u] = NoEntry /\ ~Unsaved(sess'[u]) /\ saved'[u] # "no"
    BY <1>4 DEF HomeInv, Unsaved
  <2>1. ~(u \in Open /\ type[u] = "board")
    BY <1>2, <1>4
  <2>2. QED
    BY <1>4, <2>1 DEF SavedInv, HomeInv
<1>6. MarkedIn(pend', sess', saved')
  BY <1>4 DEF SavedInv, MarkedIn, UnsavedIn
<1>7. MountedMarked'
  <2>1. AfterClosing(t) = active /\ active # NoTab /\ saved'[active] = "no" => saved[active] = "no"
    BY <1>1, <1>2, <1>4, ActiveTyped DEF IInv
  <2>2. QED
    BY <1>1, <1>6, <2>1, MountMarked DEF SavedInv
<1>8. CallsOfBoards'
  <2>1. \A s \in saves' : \E r \in calls : s.tab = r.tab
    <3>1. saves' = calls \/ saves' = Orphaned(calls)
      BY <1>1 DEF Activate
    <3>2. QED
      BY <3>1 DEF Orphaned, CallsOf, Calls
  <2>2. QED
    <3>1. ASSUME NEW s \in saves', s.tab \in Open'
          PROVE  type'[s.tab] = "board"
      <4>1. PICK q \in calls : s.tab = q.tab
        BY <2>1
      <4>2. s.tab \in Open /\ s.tab # t /\ s.tab \in TabIds
        BY <1>2, <3>1, ActiveTyped DEF IInv
      <4>3. QED
        BY <1>4, <4>1, <4>2
    <3>2. QED
      BY <3>1 DEF CallsOfBoards
<1>9. QED
  BY <1>4, <1>5, <1>6, <1>7, <1>8 DEF SavedInv

(* Steps that leave the storage as it is and open no case: what is saved    *)
(* only gets better.                                                        *)
LEMMA StorageKept ==
  ASSUME SavedInv, Open \subseteq Open', UNCHANGED <<pend, sess>>,
         \A u \in TabIds : type[u] = "board" => type'[u] = "board",
         \A u \in TabIds : saved'[u] = "no" => saved[u] = "no"
  PROVE  HomeInv' /\ MarkedIn(pend', sess', saved')
<1>1. HomeInv'
  <2> SUFFICES ASSUME NEW u \in TabIds, ~(u \in Open' /\ type'[u] = "board")
               PROVE  pend'[u] = NoEntry /\ ~Unsaved(sess'[u]) /\ saved'[u] # "no"
    BY DEF HomeInv
  <2>1. QED
    BY DEF SavedInv, HomeInv
<1>2. MarkedIn(pend', sess', saved')
  BY DEF SavedInv, MarkedIn
<1>3. QED
  BY <1>1, <1>2

LEMMA SavedChange ==
  ASSUME IInv, IInv', SavedInv, Edit \/ addGame
  PROVE  SavedInv'
<1>1. PICK dirty \in BOOLEAN :
        Changes(dirty) /\ saved' = [saved EXCEPT ![active] = IF dirty THEN "no" ELSE "yes"]
  BY DEF Edit, addGame
<1>2. /\ active \in TabIds /\ active \in Open /\ store # NoEntry /\ type[active] = "board"
      /\ Open' = Open /\ type' = type /\ active' = active
  BY <1>1, ActiveTyped DEF Changes, IInv, StoreInv, Open
<1>3. /\ saved' \in [TabIds -> {"yes", "no", "unknown"}]
      /\ saved'[active] = "no" => dirty = TRUE
      /\ \A u \in TabIds \ {active} : saved'[u] = saved[u]
  BY <1>1, <1>2 DEF SavedInv
<1>4. /\ store' = Entry(TRUE, dirty) /\ pend'[active] = Entry(TRUE, dirty)
      /\ Entry(TRUE, dirty) # NoEntry /\ Entry(TRUE, dirty).dirty = dirty
      /\ \A u \in TabIds \ {active} : pend'[u] = pend[u] /\ sess'[u] = sess[u]
  BY <1>1, <1>2, EntryFields DEF Changes, IInv, StorageInv
<1>5. HomeInv'
  <2> SUFFICES ASSUME NEW u \in TabIds, ~(u \in Open' /\ type'[u] = "board")
               PROVE  pend'[u] = NoEntry /\ ~Unsaved(sess'[u]) /\ saved'[u] # "no"
    BY DEF HomeInv
  <2>1. u # active /\ ~(u \in Open /\ type[u] = "board")
    BY <1>2
  <2>2. QED
    BY <1>3, <1>4, <2>1 DEF SavedInv, HomeInv
<1>6. MarkedIn(pend', sess', saved')
  BY <1>3, <1>4 DEF SavedInv, MarkedIn, UnsavedIn
<1>7. MountedMarked'
  BY <1>2, <1>3, <1>4 DEF MountedMarked
<1>8. CallsOfBoards'
  <2>1. \A s \in saves' : \E r \in saves : s.tab = r.tab
    BY <1>1 DEF Changes, IInv, StoreInv, CallsOf, Calls
  <2>2. QED
    BY <1>2, <2>1 DEF SavedInv, CallsOfBoards
<1>9. QED
  BY <1>3, <1>5, <1>6, <1>7, <1>8 DEF SavedInv

LEMMA SavedWrite ==
  ASSUME IInv, IInv', SavedInv, NEW s \in saves, NEW ok \in BOOLEAN, WriteEnds(s, ok)
  PROVE  SavedInv'
<1> DEFINE content == IF s.held = Live THEN store.last ELSE s.held
<1>1. s \in Calls /\ (s.held = Live => s.tab = active /\ store # NoEntry)
  BY DEF IInv, StoreInv, CallsOf
<1>2. /\ content \in BOOLEAN /\ s.tab \in TabIds
      /\ Entry(content, FALSE) # NoEntry /\ Entry(content, FALSE).dirty = FALSE
  BY <1>1, EntryFields DEF IInv, StoreInv, Entries, Calls
<1>3. /\ saves' = saves \ {s}
      /\ store' = IF s.held = Live THEN Entry(content, FALSE) ELSE store
      /\ UNCHANGED <<tabs, active, type>> /\ sess' = sess
      /\ IF s.tab \in Open
         THEN /\ pend' = [pend EXCEPT ![s.tab] = Entry(content, FALSE)]
              /\ \E v \in {"yes", "unknown"} : saved' = [saved EXCEPT ![s.tab] = v]
         ELSE UNCHANGED <<pend, saved>>
  BY DEF WriteEnds, setItem
<1> HIDE DEF content
<1>4. Open' = Open
  BY <1>3 DEF Open
<1>5. CallsOfBoards'
  BY <1>3, <1>4 DEF SavedInv, CallsOfBoards
<1>6. CASE s.tab \notin Open
  <2>1. s.held # Live /\ store' = store
    BY <1>1, <1>3, <1>6, ActiveTyped DEF IInv, StoreInv
  <2>2. HomeInv' /\ MarkedIn(pend', sess', saved')
    BY <1>3, <1>4, <1>6, StorageKept
  <2>3. QED
    BY <1>3, <1>5, <1>6, <2>1, <2>2 DEF SavedInv, MountedMarked
<1>7. CASE s.tab \in Open
  <2>1. /\ pend' = [pend EXCEPT ![s.tab] = Entry(content, FALSE)]
        /\ saved' \in [TabIds -> {"yes", "no", "unknown"}] /\ saved'[s.tab] # "no"
        /\ \A u \in TabIds \ {s.tab} : pend'[u] = pend[u] /\ saved'[u] = saved[u]
    BY <1>2, <1>3, <1>7 DEF SavedInv, IInv, StorageInv
  <2>2. type[s.tab] = "board"
    BY <1>7 DEF SavedInv, CallsOfBoards
  <2>3. HomeInv'
    <3> SUFFICES ASSUME NEW u \in TabIds, ~(u \in Open' /\ type'[u] = "board")
                 PROVE  pend'[u] = NoEntry /\ ~Unsaved(sess'[u]) /\ saved'[u] # "no"
      BY DEF HomeInv
    <3>1. u # s.tab
      BY <1>3, <1>4, <1>7, <2>2
    <3>2. QED
      BY <1>3, <1>4, <2>1, <3>1 DEF SavedInv, HomeInv
  <2>4. MarkedIn(pend', sess', saved')
    BY <1>3, <2>1 DEF SavedInv, MarkedIn, UnsavedIn
  <2>5. MountedMarked'
    <3>1. CASE s.tab = active
      BY <1>3, <2>1, <3>1 DEF MountedMarked
    <3>2. CASE s.tab # active
      <4>1. store' = store /\ active' = active
        BY <1>1, <1>3, <3>2
      <4>2. store # NoEntry => active \in TabIds
        BY ActiveTyped DEF IInv, StoreInv
      <4>3. QED
        BY <2>1, <3>2, <4>1, <4>2 DEF MountedMarked, SavedInv
    <3>3. QED
      BY <3>1, <3>2
  <2>6. QED
    BY <1>5, <2>1, <2>3, <2>4, <2>5 DEF SavedInv
<1>8. QED
  BY <1>6, <1>7

(* Flushes, reloads and clicks that leave every tree as it is.              *)
LEMMA SavedQuiet ==
  ASSUME IInv, IInv', SavedInv,
         \/ ChooseBoard
         \/ \E t \in Open : Select(t) \/ renameTab(t) \/ (closeTab(t) /\ Asks(t))
         \/ \E i, j \in DOMAIN tabs : DragTab(i, j)
         \/ userSaveFile \/ AutoSave \/ CancelModal
         \/ \E s \in saves : DialogCancelled(s) \/ DialogChosen(s)
         \/ flush \/ Reload \/ UNCHANGED vars
  PROVE  SavedInv'
<1>1. CASE ChooseBoard
  <2>1. /\ active \in TabIds /\ store' = Hydrated(pend, sess, active)
        /\ type' = [type EXCEPT ![active] = "board"]
        /\ UNCHANGED <<tabs, active, pend, sess, saves, saved>>
    BY <1>1, ActiveTyped DEF ChooseBoard, history, IInv
  <2>2. \A u \in TabIds : type[u] = "board" => type'[u] = "board"
    BY <2>1 DEF IInv, StoreInv
  <2>3. HomeInv' /\ MarkedIn(pend', sess', saved')
    BY <2>1, <2>2, StorageKept DEF Open
  <2>4. CallsOfBoards'
    BY <2>1, <2>2 DEF SavedInv, CallsOfBoards, Open, IInv, StoreInv, CallsOf, Calls
  <2>5. Hydrated(pend, sess, active).dirty = UnsavedIn(pend, sess, active)
    BY <2>1, HydratedDirty DEF IInv, StorageInv
  <2>6. MountedMarked'
    BY <2>1, <2>5 DEF SavedInv, MountedMarked, MarkedIn
  <2>7. QED
    BY <2>1, <2>3, <2>4, <2>6 DEF SavedInv
<1>2. CASE \E t \in Open : Select(t)
  <2>1. PICK t \in Open : Select(t)
    BY <1>2
  <2>2. t # active /\ Activate(t, saves) /\ UNCHANGED <<tabs, type, pend, sess, saved>>
    BY <2>1 DEF Select, history
  <2>3. HomeInv' /\ MarkedIn(pend', sess', saved')
    BY <2>2, StorageKept DEF Open
  <2>4. MountedMarked'
    BY <2>2, <2>3, MountMarked DEF SavedInv
  <2>5. \A s \in saves' : \E q \in saves : s.tab = q.tab
    BY <2>2 DEF Activate, Orphaned, IInv, StoreInv, CallsOf, Calls
  <2>6. CallsOfBoards'
    BY <2>2, <2>5 DEF SavedInv, CallsOfBoards, Open
  <2>7. QED
    BY <2>2, <2>3, <2>4, <2>6 DEF SavedInv
<1>3. CASE \E i, j \in DOMAIN tabs : DragTab(i, j)
  <2>1. PICK i, j \in DOMAIN tabs : DragTab(i, j)
    BY <1>3
  <2>2. UNCHANGED <<active, type, store, pend, sess, saves, saved>>
    BY <2>1 DEF DragTab, history
  <2>3. Open' = Open
    BY <2>1, DraggingKeeps DEF IInv
  <2>4. HomeInv' /\ MarkedIn(pend', sess', saved')
    BY <2>2, <2>3, StorageKept
  <2>5. QED
    BY <2>2, <2>3, <2>4 DEF SavedInv, MountedMarked, CallsOfBoards
<1>4. CASE userSaveFile \/ AutoSave
  <2>1. \/ saves' = saves
        \/ store # NoEntry /\ \E user \in BOOLEAN : saves' = saves \cup {Call(user)}
    BY <1>4 DEF userSaveFile, AutoSave
  <2>2. UNCHANGED <<tabs, active, type, store, pend, sess, saved>>
    BY <1>4 DEF userSaveFile, AutoSave, history
  <2>3. HomeInv' /\ MarkedIn(pend', sess', saved')
    BY <2>2, StorageKept DEF Open
  <2>4. CallsOfBoards'
    BY <2>1, <2>2 DEF SavedInv, CallsOfBoards, Open, Call, IInv, StoreInv
  <2>5. QED
    BY <2>2, <2>3, <2>4 DEF SavedInv, MountedMarked
<1>5. CASE \E s \in saves : DialogCancelled(s) \/ DialogChosen(s)
  <2>1. PICK s \in saves : DialogCancelled(s) \/ DialogChosen(s)
    BY <1>5
  <2>2. /\ UNCHANGED <<tabs, active, type, store, pend, sess>>
        /\ saves' \subseteq saves \cup {[s EXCEPT !.at = "write"]}
        /\ saved' = saved \/ saved' = [saved EXCEPT ![active] = "unknown"]
    BY <2>1 DEF DialogCancelled, DialogChosen, history
  <2>3. /\ saved' \in [TabIds -> {"yes", "no", "unknown"}]
        /\ \A u \in TabIds : saved'[u] = "no" => saved[u] = "no"
        /\ saved'[active] = "no" => saved[active] = "no" \/ active \notin TabIds
    BY <2>2 DEF SavedInv
  <2>4. HomeInv' /\ MarkedIn(pend', sess', saved')
    BY <2>2, <2>3, StorageKept DEF Open
  <2>5. [s EXCEPT !.at = "write"].tab = s.tab
    BY DEF IInv, StoreInv, CallsOf, Calls
  <2>6. CallsOfBoards'
    BY <2>2, <2>5 DEF SavedInv, CallsOfBoards, Open
  <2>7. MountedMarked'
    BY <2>2, <2>3, ActiveTyped DEF SavedInv, MountedMarked, IInv, StoreInv
  <2>8. QED
    BY <2>3, <2>4, <2>6, <2>7 DEF SavedInv
<1>6. CASE \/ CancelModal \/ UNCHANGED vars
           \/ \E t \in Open : renameTab(t) \/ (closeTab(t) /\ Asks(t))
  <2>1. UNCHANGED <<tabs, active, type, store, pend, sess, saves, saved>>
    BY <1>6 DEF CancelModal, renameTab, closeTab, vars, history
  <2>2. HomeInv' /\ MarkedIn(pend', sess', saved')
    BY <2>1, StorageKept DEF Open
  <2>3. QED
    BY <2>1, <2>2 DEF SavedInv, MountedMarked, CallsOfBoards, Open
<1>7. CASE flush \/ Reload
  <2>1. /\ \A u \in TabIds : sess'[u] = getItem(pend, sess, u) /\ pend'[u] = NoEntry
        /\ UNCHANGED <<tabs, active, type, saved>>
    BY <1>7 DEF flush, Reload, history
  <2>2. \A u \in TabIds : Unsaved(sess'[u]) = UnsavedIn(pend, sess, u)
    <3>1. ASSUME NEW u \in TabIds
          PROVE  Unsaved(sess'[u]) = UnsavedIn(pend, sess, u)
      <4>1. CASE pend[u] # NoEntry
        <5>1. sess'[u] = pend[u] /\ pend[u].dirty \in BOOLEAN
          BY <2>1, <4>1 DEF getItem, IInv, StorageInv, Entries
        <5>2. QED
          BY <4>1, <5>1 DEF Unsaved, UnsavedIn
      <4>2. CASE pend[u] = NoEntry
        BY <2>1, <4>2 DEF getItem, Unsaved, UnsavedIn
      <4>3. QED
        BY <4>1, <4>2
    <3>2. QED
      BY <3>1
  <2>3. HomeInv'
    BY <2>1 DEF SavedInv, HomeInv, getItem, Open
  <2>4. MarkedIn(pend', sess', saved')
    BY <2>1, <2>2 DEF SavedInv, MarkedIn, UnsavedIn
  <2>5. MountedMarked'
    <3>1. CASE flush
      BY <2>1, <3>1 DEF flush, SavedInv, MountedMarked
    <3>2. CASE Reload
      <4>1. store' # NoEntry => active \in TabIds /\ store' = Hydrated(pend, sess, active)
        BY <3>2, ActiveTyped DEF Reload, IInv
      <4>2. active \in TabIds => Hydrated(pend, sess, active).dirty = UnsavedIn(pend, sess, active)
        BY HydratedDirty DEF IInv, StorageInv
      <4>3. QED
        BY <2>1, <4>1, <4>2 DEF SavedInv, MountedMarked, MarkedIn
    <3>3. QED
      BY <1>7, <3>1, <3>2
  <2>6. saves' \subseteq saves
    BY <1>7 DEF flush, Reload
  <2>7. QED
    BY <2>1, <2>3, <2>4, <2>5, <2>6 DEF SavedInv, CallsOfBoards, Open
<1>8. QED
  BY <1>1, <1>2, <1>3, <1>4, <1>5, <1>6, <1>7

LEMMA NextSavedInv ==
  ASSUME IInv, IInv', SavedInv, [Next]_vars
  PROVE  SavedInv'
<1>1. CASE \E t \in TabIds : NewTab(t) \/ \E kind \in Origins : OpenGame(t, kind)
  BY <1>1, SavedOpening
<1>2. CASE \E t \in Open : closeTab(t) /\ ~Asks(t)
  <2>1. PICK t \in Open : DropTab(t, saves)
    BY <1>2 DEF closeTab
  <2>2. QED
    BY <2>1, SavedClosing DEF IInv, StoreInv, SavedInv, CallsOfBoards
<1>3. CASE CloseWithoutSaving \/ SaveAndClose
  <2>1. store # NoEntry /\ active \in Open /\ type[active] = "board"
    BY <1>3, ActiveTyped DEF CloseWithoutSaving, SaveAndClose, IInv, StoreInv
  <2>2. PICK calls \in {saves, saves \cup {Call(TRUE)}} : DropTab(active, calls)
    BY <1>3 DEF CloseWithoutSaving, SaveAndClose
  <2>3. CallsOf(calls, active, store)
    BY <2>1, <2>2, Called DEF IInv, StoreInv
  <2>4. \A s \in calls : s.tab \in Open => type[s.tab] = "board"
    BY <2>1, <2>2 DEF SavedInv, CallsOfBoards, Call
  <2>5. QED
    BY <2>1, <2>2, <2>3, <2>4, SavedClosing
<1>4. CASE Edit \/ addGame
  BY <1>4, SavedChange
<1>5. ASSUME NEW s \in saves, NEW ok \in {TRUE, ~MayFail}, WriteEnds(s, ok)
      PROVE  SavedInv'
  BY <1>5, SavedWrite, WorkspaceAssumption
<1>6. CASE \/ ChooseBoard
           \/ \E t \in Open : Select(t) \/ renameTab(t) \/ (closeTab(t) /\ Asks(t))
           \/ \E i, j \in DOMAIN tabs : DragTab(i, j)
           \/ userSaveFile \/ AutoSave \/ CancelModal
           \/ \E s \in saves : DialogCancelled(s) \/ DialogChosen(s)
           \/ flush \/ Reload \/ UNCHANGED vars
  BY <1>6, SavedQuiet
<1>7. ASSUME NEW t \in Open, closeTab(t)
      PROVE  SavedInv'
  BY <1>2, <1>6, <1>7
<1>8. ASSUME NEW t \in Open, NEW id \in TabIds, duplicateTab(t, id)
      PROVE  SavedInv'
  BY <1>8, SavedOpening
<1>9. QED
  BY <1>1, <1>3, <1>4, <1>5, <1>6, <1>7, <1>8 DEF Next

LEMMA SavedInvariance == Spec => [](IInv /\ SavedInv)
<1>1. Init => SavedInv
  BY DEF Init, SavedInv, HomeInv, CallsOfBoards, MarkedIn, MountedMarked, Unsaved
<1>2. IInv /\ IInv' /\ SavedInv /\ [Next]_vars => SavedInv'
  BY NextSavedInv
<1>3. QED
  BY <1>1, <1>2, Invariance, PTL DEF Spec

-----------------------------------------------------------------------------
(* Theorems.                                                                *)

(* The tab bar, the tree store and the saves under way have their types,    *)
(* the active tab is one of the tabs, and its panel is the one mounted.     *)
THEOREM TypeCorrect == Spec => []TypeOK
<1>1. ASSUME IInv
      PROVE  TypeOK
  <2>1. Open \subseteq TabIds
    BY <1>1, ActiveTyped DEF IInv
  <2>2. \A s \in saves : s.tab \in TabIds /\ s.held \in BOOLEAN \cup {Live}
                         /\ (s.held = Live => s.tab = active)
    BY <1>1 DEF IInv, StoreInv, CallsOf, Calls
  <2>3. QED
    BY <1>1, <2>1, <2>2 DEF IInv, TabInv, StoreInv, StorageInv, TypeOK
<1>2. QED
  BY <1>1, Invariance, PTL

(* No edit is lost between mounts, whatever tabs are opened, closed, copied *)
(* or reloaded and however many saves are under way, but to a save that     *)
(* comes back after its panel has left (debouncedStorage.ts, tabs.ts).      *)
THEOREM EditsKept == Spec => []EditsSurvive
<1>1. ASSUME IInv
      PROVE  EditsSurvive
  BY <1>1, ActiveTyped DEF IInv, StorageInv, MountedLast, EditsSurvive
<1>2. QED
  BY <1>1, Invariance, PTL

(* A tab of a file that shows no unsaved changes has been written as it is, *)
(* with the exceptions of the property.                                     *)
THEOREM CleanWritten == Spec => []CleanIsWritten
<1>1. ASSUME IInv, SavedInv
      PROVE  CleanIsWritten
  BY <1>1 DEF SavedInv, MountedMarked, CleanIsWritten
<1>2. QED
  BY <1>1, SavedInvariance, PTL

(* Tabs close in three ways: without a question, by the modal, and as the   *)
(* lone home page in whose place another opens, which HomeInv has clean.    *)
LEMMA ClosedTab ==
  ASSUME IInv, SavedInv, Next, NEW t \in Open \ ToSet(tabs'),
         Persistent(t), Hydrated(pend, sess, t).dirty, pend[t] = NoEntry
  PROVE  modal
<1>1. t \in TabIds /\ t \in Open /\ t \notin Open'
  BY ActiveTyped DEF IInv, Open
<1>2. Unsaved(sess[t])
  BY <1>1, HydratedDirty DEF IInv, StorageInv, UnsavedIn
<1>3. Asks(t) /\ type[t] # "new"
  BY <1>1, <1>2 DEF Asks, Unsaved, SavedInv, HomeInv
<1>4. CASE CloseWithoutSaving \/ SaveAndClose
  BY <1>4 DEF CloseWithoutSaving, SaveAndClose
<1>5. CASE \E u \in Open : closeTab(u)
  <2>1. PICK u \in Open : closeTab(u)
    BY <1>5
  <2>2. CASE Asks(u)
    BY <1>1, <2>1, <2>2 DEF closeTab, Open
  <2>3. CASE ~Asks(u)
    <3>1. Open' = Open \ {u}
      BY <2>1, <2>3, ClosingKeeps DEF closeTab, DropTab, IInv
    <3>2. QED
      BY <1>1, <1>3, <2>3, <3>1
  <2>4. QED
    BY <2>2, <2>3
<1>6. CASE \E u \in TabIds : NewTab(u) \/ \E kind \in Origins : OpenGame(u, kind)
  BY <1>1, <1>3, <1>6, OpeningKeeps DEF NewTab, OpenGame, IInv
<1>7. CASE \E i, j \in DOMAIN tabs : DragTab(i, j)
  BY <1>1, <1>7, DraggingKeeps DEF IInv
<1>8. CASE UNCHANGED tabs
  BY <1>1, <1>8 DEF Open
<1>9. CASE \/ ChooseBoard \/ Edit \/ addGame \/ userSaveFile \/ AutoSave \/ CancelModal
           \/ flush \/ Reload
           \/ \E u \in Open : Select(u) \/ renameTab(u)
           \/ \E s \in saves : \/ DialogCancelled(s) \/ DialogChosen(s)
                               \/ \E ok \in {TRUE, ~MayFail} : WriteEnds(s, ok)
  <2>1. UNCHANGED tabs
    BY <1>9 DEF ChooseBoard, Select, renameTab, Edit, addGame, Changes, userSaveFile, AutoSave,
                CancelModal, DialogCancelled, DialogChosen, WriteEnds, flush, Reload
  <2>2. QED
    BY <1>8, <2>1
<1>10. ASSUME NEW v \in Open, NEW u \in TabIds, duplicateTab(v, u)
       PROVE  modal
  BY <1>1, <1>3, <1>10, OpeningKeeps DEF duplicateTab, IInv
<1>11. QED
  BY <1>4, <1>5, <1>6, <1>7, <1>9, <1>10 DEF Next

(* Unsaved changes of a tab with a file leave without a question only in    *)
(* the 300 ms before the session learns of them.                            *)
THEOREM ClosesAsked == Spec => ClosesUnaskedOnlyUnflushed
<1>1. IInv /\ SavedInv /\ [Next]_vars =>
        [\A t \in Open \ ToSet(tabs') :
           Persistent(t) /\ Hydrated(pend, sess, t).dirty => modal \/ pend[t] # NoEntry]_vars
  BY ClosedTab
<1>2. QED
  BY <1>1, SavedInvariance, PTL DEF Spec, ClosesUnaskedOnlyUnflushed

=============================================================================
