------------------------- MODULE ClientIndexProofs -------------------------
(***************************************************************************)
(* The ordered list and the hash table, for any sockets, usernames and      *)
(* number of buckets: what the operations of list.c do to a strictly        *)
(* ordered list, wherever its cursor is, and what follows for the table of  *)
(* clients and its loops.                                                   *)
(*                                                                          *)
(* list.c stops at the first node whose key is not smaller.  That there is  *)
(* one, or the end, is the least element of a set of numbers, and so is the *)
(* next bucket that is not empty: no induction over the lists is needed.    *)
(***************************************************************************)
EXTENDS ClientIndex, SequenceTheorems, WellFoundedInduction, TLAPS

---------------------------------------------------------------------------
\* The keys of the nodes are numbers that increase strictly.
Increasing(nodes, key) ==
  /\ \A i \in 1 .. Len(nodes) : key[nodes[i]] \in Nat
  /\ \A i, j \in 1 .. Len(nodes) : i < j => key[nodes[i]] < key[nodes[j]]

---------------------------------------------------------------------------
(* Numbers and sequences.                                                   *)

\* A set of numbers has a least one.
LEMMA Least ==
  ASSUME NEW T \in SUBSET Nat, T # {}
  PROVE  \E x \in T : \A y \in T : x <= y
<1> DEFINE R == {ss \in Nat \X Nat : ss[1] < ss[2]}
<1>1. IsWellFoundedOn(R, Nat)
  BY NatLessThanWellFounded DEF OpToRel
<1> HIDE DEF R
<1>2. PICK x \in T : \A y \in T : ~(<<y, x>> \in R)
  BY <1>1, WFMin
<1>3. \A y \in T : ~(y < x)
  BY <1>2 DEF R
<1> QED BY <1>3

\* Two sequences joined.
LEMMA Joined ==
  ASSUME NEW S, NEW a \in Seq(S), NEW b \in Seq(S), NEW r, r = a \o b
  PROVE  /\ r \in Seq(S) /\ Len(r) = Len(a) + Len(b)
         /\ \A j \in 1 .. Len(a) + Len(b) :
              r[j] = IF j <= Len(a) THEN a[j] ELSE b[j - Len(a)]
BY ConcatProperties

\* An element is put before the i-th one.
LEMMA InsertedAt ==
  ASSUME NEW S, NEW s \in Seq(S), NEW i \in 1 .. Len(s) + 1, NEW e \in S
  PROVE  /\ InsertAt(s, i, e) \in Seq(S) /\ Len(InsertAt(s, i, e)) = Len(s) + 1
         /\ \A j \in 1 .. Len(s) + 1 :
              InsertAt(s, i, e)[j] =
                IF j < i THEN s[j] ELSE IF j = i THEN e ELSE s[j - 1]
<1>0. PICK n, r : n = Len(s) /\ r = InsertAt(s, i, e)
  OBVIOUS
<1>1. n \in Nat /\ i \in Nat /\ i >= 1 /\ i <= n + 1
  BY <1>0, LenProperties
<1> DEFINE a == SubSeq(s, 1, i - 1)
           b == SubSeq(s, i, n)
           m == <<e>>
<1>2. \A j \in 1 .. n : s[j] \in S
  BY <1>0, LenProperties
<1>3. a \in Seq(S) /\ Len(a) = i - 1 /\ \A j \in 1 .. i - 1 : a[j] = s[j]
  <2>1. \A j \in 1 .. i - 1 : s[j] \in S
    BY <1>1, <1>2
  <2>2. Len(a) = IF 1 <= i - 1 THEN (i - 1) - 1 + 1 ELSE 0
    BY <1>1, <2>1, SubSeqProperties
  <2>3. a \in Seq(S) /\ \A j \in 1 .. (i - 1) - 1 + 1 : a[j] = s[1 + j - 1]
    BY <1>1, <2>1, SubSeqProperties
  <2> HIDE DEF a
  <2>4. Len(a) = i - 1
    BY <1>1, <2>2
  <2>5. \A j \in 1 .. i - 1 : j \in 1 .. (i - 1) - 1 + 1 /\ 1 + j - 1 = j
    BY <1>1
  <2> QED BY <2>3, <2>4, <2>5
<1>4. b \in Seq(S) /\ Len(b) = n - i + 1 /\ \A j \in 1 .. n - i + 1 : b[j] = s[i + j - 1]
  <2>1. \A j \in i .. n : s[j] \in S
    BY <1>1, <1>2
  <2>2. Len(b) = IF i <= n THEN n - i + 1 ELSE 0
    BY <1>1, <2>1, SubSeqProperties
  <2>3. b \in Seq(S) /\ \A j \in 1 .. n - i + 1 : b[j] = s[i + j - 1]
    BY <1>1, <2>1, SubSeqProperties
  <2> HIDE DEF b
  <2> QED BY <1>1, <2>2, <2>3
<1>5. m \in Seq(S) /\ Len(m) = 1 /\ m[1] = e
  OBVIOUS
<1>6. r = (a \o m) \o b
  BY <1>0 DEF InsertAt
<1> HIDE DEF a, b, m
<1> DEFINE c == a \o m
<1>7. c \in Seq(S) /\ Len(c) = i /\ \A j \in 1 .. i : c[j] = IF j <= i - 1 THEN a[j] ELSE m[j - (i - 1)]
  <2>1. /\ Len(c) = Len(a) + Len(m)
        /\ \A j \in 1 .. Len(a) + Len(m) : c[j] = IF j <= Len(a) THEN a[j] ELSE m[j - Len(a)]
        /\ c \in Seq(S)
    BY <1>3, <1>5, ConcatProperties
  <2> HIDE DEF c
  <2> QED BY <1>1, <1>3, <1>5, <2>1
<1>8. r = c \o b
  BY <1>6
<1> HIDE DEF c
<1>9. r \in Seq(S) /\ Len(r) = n + 1
      /\ \A j \in 1 .. n + 1 : r[j] = IF j <= i THEN c[j] ELSE b[j - i]
  <2>1. /\ Len(r) = Len(c) + Len(b)
        /\ \A j \in 1 .. Len(c) + Len(b) : r[j] = IF j <= Len(c) THEN c[j] ELSE b[j - Len(c)]
        /\ r \in Seq(S)
    <3>1. c \in Seq(S) /\ b \in Seq(S) /\ r = c \o b
      BY <1>4, <1>7, <1>8
    <3> QED BY ONLY <3>1, Joined
  <2>2. Len(c) + Len(b) = n + 1
    BY <1>1, <1>4, <1>7
  <2> QED BY <1>7, <2>1, <2>2
<1>10. ASSUME NEW j \in 1 .. n + 1
       PROVE  r[j] = IF j < i THEN s[j] ELSE IF j = i THEN e ELSE s[j - 1]
  <2>1. CASE j < i
    <3>1. j \in 1 .. i /\ j \in 1 .. i - 1 /\ j <= i /\ j <= i - 1
      BY <1>1, <2>1
    <3> QED BY <1>3, <1>7, <1>9, <2>1, <3>1
  <2>2. CASE j = i
    <3>1. j \in 1 .. i /\ j <= i /\ ~(j <= i - 1) /\ j - (i - 1) = 1 /\ ~(j < i)
      BY <1>1, <2>2
    <3> QED BY <1>5, <1>7, <1>9, <2>2, <3>1
  <2>3. CASE j > i
    <3>1. ~(j <= i) /\ ~(j < i) /\ j # i /\ j - i \in 1 .. n - i + 1 /\ i + (j - i) - 1 = j - 1
      BY <1>1, <2>3
    <3> QED BY <1>4, <1>9, <3>1
  <2> QED BY <1>1, <2>1, <2>2, <2>3
<1> QED BY <1>0, <1>9, <1>10

\* The i-th element is taken away.
LEMMA RemovedAt ==
  ASSUME NEW S, NEW s \in Seq(S), NEW n, n = Len(s), NEW i \in 1 .. n,
         NEW r, r = RemoveAt(s, i)
  PROVE  /\ r \in Seq(S) /\ Len(r) = n - 1
         /\ \A j \in 1 .. n - 1 : r[j] = IF j < i THEN s[j] ELSE s[j + 1]
<1>1. n \in Nat /\ i \in Nat /\ i >= 1 /\ i <= n
  BY LenProperties
<1> DEFINE a == SubSeq(s, 1, i - 1)
           b == SubSeq(s, i + 1, n)
<1>2. \A j \in 1 .. n : s[j] \in S
  BY LenProperties
<1>3. a \in Seq(S) /\ Len(a) = i - 1 /\ \A j \in 1 .. i - 1 : a[j] = s[j]
  <2>1. \A j \in 1 .. i - 1 : s[j] \in S
    BY <1>1, <1>2
  <2>2. Len(a) = IF 1 <= i - 1 THEN (i - 1) - 1 + 1 ELSE 0
    BY <1>1, <2>1, SubSeqProperties
  <2>3. a \in Seq(S) /\ \A j \in 1 .. (i - 1) - 1 + 1 : a[j] = s[1 + j - 1]
    BY <1>1, <2>1, SubSeqProperties
  <2> HIDE DEF a
  <2>4. Len(a) = i - 1
    BY <1>1, <2>2
  <2>5. \A j \in 1 .. i - 1 : j \in 1 .. (i - 1) - 1 + 1 /\ 1 + j - 1 = j
    BY <1>1
  <2> QED BY <2>3, <2>4, <2>5
<1>4. b \in Seq(S) /\ Len(b) = n - i /\ \A j \in 1 .. n - i : b[j] = s[i + j]
  <2>1. \A j \in i + 1 .. n : s[j] \in S
    BY <1>1, <1>2
  <2>2. Len(b) = IF i + 1 <= n THEN n - (i + 1) + 1 ELSE 0
    BY <1>1, <2>1, SubSeqProperties
  <2>3. b \in Seq(S) /\ \A j \in 1 .. n - (i + 1) + 1 : b[j] = s[(i + 1) + j - 1]
    BY <1>1, <2>1, SubSeqProperties
  <2> HIDE DEF b
  <2>4. Len(b) = n - i
    BY <1>1, <2>2
  <2>5. \A j \in 1 .. n - i : j \in 1 .. n - (i + 1) + 1 /\ (i + 1) + j - 1 = i + j
    BY <1>1
  <2> QED BY <2>3, <2>4, <2>5
<1>5. r = a \o b
  BY DEF RemoveAt
<1> HIDE DEF a, b
<1>6. r \in Seq(S) /\ Len(r) = n - 1
      /\ \A j \in 1 .. n - 1 : r[j] = IF j <= i - 1 THEN a[j] ELSE b[j - (i - 1)]
  <2>1. /\ Len(r) = Len(a) + Len(b)
        /\ \A j \in 1 .. Len(a) + Len(b) : r[j] = IF j <= Len(a) THEN a[j] ELSE b[j - Len(a)]
        /\ r \in Seq(S)
    <3>1. a \in Seq(S) /\ b \in Seq(S) /\ r = a \o b
      BY <1>3, <1>4, <1>5
    <3> QED BY ONLY <3>1, Joined
  <2>2. Len(a) + Len(b) = n - 1
    BY <1>1, <1>3, <1>4
  <2> QED BY <1>3, <2>1, <2>2
<1>7. ASSUME NEW j \in 1 .. n - 1 PROVE r[j] = IF j < i THEN s[j] ELSE s[j + 1]
  <2>1. CASE j < i
    <3>1. j \in 1 .. i - 1 /\ j <= i - 1
      BY <1>1, <2>1
    <3> QED BY <1>3, <1>6, <2>1, <3>1
  <2>2. CASE ~(j < i)
    <3>1. ~(j <= i - 1) /\ j - (i - 1) \in 1 .. n - i /\ i + (j - (i - 1)) = j + 1
      BY <1>1, <2>2
    <3> QED BY <1>4, <1>6, <2>2, <3>1
  <2> QED BY <2>1, <2>2
<1> QED BY <1>6, <1>7

---------------------------------------------------------------------------
(* list.c, for a list in order.                                             *)

\* The elements of a list.
LEMMA Members ==
  ASSUME NEW s \in Seq(Fd), NEW n, n = Len(s)
  PROVE  /\ n \in Nat
         /\ \A j \in 1 .. n : s[j] \in Fd /\ s[j] \in ToSet(s)
         /\ \A x : x \in ToSet(s) <=> \E j \in 1 .. n : s[j] = x
         /\ ToSet(s) \subseteq Fd
         /\ s = <<>> <=> n = 0
<1>1. n \in Nat /\ DOMAIN s = 1 .. n /\ \A j \in 1 .. n : s[j] \in Fd
  BY LenProperties
<1>2. s = <<>> <=> n = 0
  BY EmptySeq
<1> QED BY <1>1, <1>2 DEF ToSet

\* The nodes that the loops pass are those with a smaller key.
LEMMA Passed ==
  ASSUME NEW nodes \in Seq(Fd), NEW key, Increasing(nodes, key), NEW k \in Nat,
         NEW n, n = Len(nodes), NEW i, i = passed(nodes, key, k)
  PROVE  /\ i \in 0 .. n
         /\ \A j \in 1 .. n : IF j <= i THEN key[nodes[j]] < k ELSE key[nodes[j]] >= k
<1>1. n \in Nat
  BY Members
<1>2. /\ \A j \in 1 .. n : key[nodes[j]] \in Nat
      /\ \A j, h \in 1 .. n : j < h => key[nodes[j]] < key[nodes[h]]
  BY DEF Increasing
<1> DEFINE T == {j \in 0 .. n : j < n => key[nodes[j + 1]] >= k}
           stops(x) == /\ \A j \in 1 .. x : key[nodes[j]] < k
                       /\ x < n => key[nodes[x + 1]] >= k
<1>3. PICK x \in T : \A y \in T : x <= y
  <2>1. T \in SUBSET Nat /\ n \in T
    BY <1>1
  <2> HIDE DEF T
  <2> QED BY <2>1, Least
<1>4. \A j \in 1 .. x : key[nodes[j]] < k
  <2> SUFFICES ASSUME NEW j \in 1 .. x PROVE key[nodes[j]] < k
    OBVIOUS
  <2>1. j - 1 \in 0 .. n /\ j - 1 < x /\ (j - 1) + 1 = j /\ j \in 1 .. n
    BY <1>1
  <2>2. j - 1 \notin T
    BY <1>3, <2>1
  <2> QED BY <1>2, <2>1, <2>2
<1>5. x \in 0 .. n /\ stops(x)
  BY <1>4
<1>6. i = CHOOSE y \in 0 .. n : stops(y)
  BY DEF passed
<1> HIDE DEF T, stops
<1>7. i \in 0 .. n /\ stops(i)
  BY <1>5, <1>6
<1>8. ASSUME NEW j \in 1 .. n
      PROVE  IF j <= i THEN key[nodes[j]] < k ELSE key[nodes[j]] >= k
  <2>1. CASE j <= i
    BY <1>1, <1>7, <2>1 DEF stops
  <2>2. CASE ~(j <= i)
    <3>1. i + 1 \in 1 .. n /\ i < n /\ (i + 1 < j \/ i + 1 = j)
      BY <1>1, <1>7, <2>2
    <3>2. key[nodes[i + 1]] >= k
      BY <1>7, <3>1 DEF stops
    <3> QED BY <1>2, <2>2, <3>1, <3>2
  <2> QED BY <2>1, <2>2
<1> QED BY <1>7, <1>8

\* list_search() finds the node with the key, and is not misled by its early exit.
LEMMA Searched ==
  ASSUME NEW l \in ListHead, NEW key, Increasing(l.nodes, key), NEW k \in Nat
  PROVE  \/ /\ list_search(l, key, k) = Null
            /\ \A x \in ToSet(l.nodes) : key[x] # k
         \/ LET i == passed(l.nodes, key, k) + 1 IN
            /\ i \in 1 .. Len(l.nodes) /\ list_search(l, key, k) = l.nodes[i]
            /\ l.nodes[i] \in Fd /\ key[l.nodes[i]] = k
<1> DEFINE n == Len(l.nodes)
           i == passed(l.nodes, key, k) + 1
<1>1. l.nodes \in Seq(Fd)
  BY DEF ListHead
<1>2. /\ n \in Nat /\ DOMAIN l.nodes = 1 .. n
      /\ \A j \in 1 .. n : l.nodes[j] \in Fd
      /\ \A x : x \in ToSet(l.nodes) <=> \E j \in 1 .. n : l.nodes[j] = x
  BY <1>1, Members, LenProperties
<1>3. /\ i \in Nat /\ i >= 1
      /\ \A j \in 1 .. n : IF j <= i - 1 THEN key[l.nodes[j]] < k ELSE key[l.nodes[j]] >= k
  <2> DEFINE h == passed(l.nodes, key, k)
  <2>1. /\ h \in 0 .. n
        /\ \A j \in 1 .. n : IF j <= h THEN key[l.nodes[j]] < k ELSE key[l.nodes[j]] >= k
    BY <1>1, Passed
  <2>2. i = h + 1
    OBVIOUS
  <2> HIDE DEF n, i
  <2> HIDE DEF h
  <2>3. i \in Nat /\ i >= 1 /\ i - 1 = h
    BY <1>2, <2>1, <2>2
  <2> QED BY <2>1, <2>3
<1>4. \A j \in 1 .. n : key[l.nodes[j]] \in Nat
  BY DEF Increasing
<1>5. list_search(l, key, k) =
        IF i \in 1 .. n /\ key[l.nodes[i]] = k THEN l.nodes[i] ELSE Null
  BY <1>2 DEF list_search
<1> HIDE DEF n, i
<1>6. CASE i \in 1 .. n /\ key[l.nodes[i]] = k
  <2>1. l.nodes[i] \in Fd /\ list_search(l, key, k) = l.nodes[i]
    BY <1>2, <1>5, <1>6
  <2> QED BY <1>6, <2>1 DEF n, i
<1>7. CASE ~(i \in 1 .. n /\ key[l.nodes[i]] = k)
  <2>1. ASSUME NEW j \in 1 .. n PROVE key[l.nodes[j]] # k
    <3>1. CASE j <= i - 1
      <4>1. key[l.nodes[j]] < k
        BY <1>3, <3>1
      <4> QED BY <1>4, <4>1
    <3>2. CASE ~(j <= i - 1) /\ j # i
      <4>1. i \in 1 .. n /\ i < j
        <5>1. i >= 1
          BY <1>3
        <5> QED BY <1>2, <1>3, <3>2, <5>1
      <4>2. key[l.nodes[i]] < key[l.nodes[j]]
        BY <4>1 DEF Increasing, n
      <4>3. key[l.nodes[i]] >= k
        BY <1>3, <4>1
      <4> QED BY <1>4, <4>1, <4>2, <4>3
    <3>3. CASE j = i
      BY <1>7, <3>3
    <3> QED BY <3>1, <3>2, <3>3
  <2> QED BY <1>2, <1>5, <1>7, <2>1
<1> QED BY <1>6, <1>7 DEF n, i

\* What it returns, wherever that is.
LEMMA Found ==
  ASSUME NEW l \in ListHead, NEW key, Increasing(l.nodes, key), NEW k \in Nat
  PROVE  \/ /\ list_search(l, key, k) = Null
            /\ \A x \in ToSet(l.nodes) : key[x] # k
         \/ /\ list_search(l, key, k) \in ToSet(l.nodes)
            /\ list_search(l, key, k) \in Fd
            /\ key[list_search(l, key, k)] = k
<1> DEFINE i == passed(l.nodes, key, k) + 1
<1>1. \/ /\ list_search(l, key, k) = Null
         /\ \A x \in ToSet(l.nodes) : key[x] # k
      \/ /\ i \in 1 .. Len(l.nodes) /\ list_search(l, key, k) = l.nodes[i]
         /\ l.nodes[i] \in Fd /\ key[l.nodes[i]] = k
  BY Searched
<1>2. l.nodes \in Seq(Fd)
  BY DEF ListHead
<1>3. \A j \in 1 .. Len(l.nodes) : l.nodes[j] \in ToSet(l.nodes)
  BY <1>2, Members
<1> HIDE DEF i
<1> QED BY <1>1, <1>3

\* A node is in the list once: what follows it.
LEMMA After ==
  ASSUME NEW nodes \in Seq(Fd), NEW key, Increasing(nodes, key),
         NEW n, n = Len(nodes), NEW i \in 1 .. n
  PROVE  node_after(nodes, nodes[i]) = IF i = n THEN Null ELSE nodes[i + 1]
<1>1. n \in Nat /\ DOMAIN nodes = 1 .. n
  BY LenProperties
<1>2. \A j \in 1 .. n : nodes[j] = nodes[i] => j = i
  <2> SUFFICES ASSUME NEW j \in 1 .. n, nodes[j] = nodes[i], j # i PROVE FALSE
    OBVIOUS
  <2>1. j < i \/ i < j
    BY <1>1
  <2>2. key[nodes[i]] \in Nat /\ (key[nodes[j]] < key[nodes[i]] \/ key[nodes[i]] < key[nodes[j]])
    BY <2>1 DEF Increasing
  <2> QED BY <2>2
<1> DEFINE c == CHOOSE j \in DOMAIN nodes : nodes[j] = nodes[i]
<1>3. c = i
  BY <1>1, <1>2
<1>4. node_after(nodes, nodes[i]) = IF c = n THEN Null ELSE nodes[c + 1]
  BY DEF node_after
<1> HIDE DEF c
<1> QED BY <1>3, <1>4

\* list_insert_node() keeps the order, and the cursor.
LEMMA Inserted ==
  ASSUME NEW l \in ListHead, NEW key, Increasing(l.nodes, key), NEW f \in Fd, key[f] \in Nat,
         \A x \in ToSet(l.nodes) : key[x] # key[f]
  PROVE  LET r == list_insert(l, key, f) IN
         /\ r \in ListHead /\ r.cur = l.cur
         /\ Increasing(r.nodes, key)
         /\ ToSet(r.nodes) = ToSet(l.nodes) \cup {f}
         /\ Len(r.nodes) = Len(l.nodes) + 1
<1> DEFINE r == list_insert(l, key, f)
           s == l.nodes
           n == Len(s)
           i == passed(s, key, key[f])
           q == InsertAt(s, i + 1, f)
<1>1. s \in Seq(Fd) /\ l.cur \in Fd \cup {Null}
  BY DEF ListHead
<1>2. /\ n \in Nat
      /\ \A j \in 1 .. n : s[j] \in Fd /\ s[j] \in ToSet(s)
      /\ \A x : x \in ToSet(s) <=> \E j \in 1 .. n : s[j] = x
  BY <1>1, Members
<1>3. /\ i \in 0 .. n
      /\ \A j \in 1 .. n : IF j <= i THEN key[s[j]] < key[f] ELSE key[s[j]] >= key[f]
  BY <1>1, Passed, SMTT(30)
<1>4. r = [nodes |-> q, cur |-> l.cur]
  BY DEF list_insert, ListHead
<1> HIDE DEF r
<1>5. /\ \A j \in 1 .. n : key[s[j]] \in Nat
      /\ \A j, h \in 1 .. n : j < h => key[s[j]] < key[s[h]]
  BY DEF Increasing
<1>6. \A j \in 1 .. n : key[s[j]] # key[f]
  BY <1>2
<1> HIDE DEF s, n, i
<1>7. i + 1 \in 1 .. n + 1
  BY <1>2, <1>3
<1>8. /\ q \in Seq(Fd) /\ Len(q) = n + 1
      /\ \A j \in 1 .. n + 1 :
           q[j] = IF j < i + 1 THEN s[j] ELSE IF j = i + 1 THEN f ELSE s[j - 1]
  <2>1. n = Len(s) /\ q = InsertAt(s, i + 1, f)
    BY DEF n
  <2> HIDE DEF q
  <2>2. PICK t, a, h, m : t = s /\ a = q /\ h = i + 1 /\ m = n
    OBVIOUS
  <2>3. /\ t \in Seq(Fd) /\ m = Len(t) /\ m \in Nat /\ f \in Fd
        /\ a = InsertAt(t, h, f) /\ h \in 1 .. m + 1
    BY <1>1, <1>2, <1>7, <2>1, <2>2
  <2>4. h \in 1 .. Len(t) + 1
    BY ONLY <2>3
  <2>5. /\ InsertAt(t, h, f) \in Seq(Fd) /\ Len(InsertAt(t, h, f)) = Len(t) + 1
        /\ \A j \in 1 .. Len(t) + 1 :
             InsertAt(t, h, f)[j] = IF j < h THEN t[j] ELSE IF j = h THEN f ELSE t[j - 1]
    BY ONLY <2>3, <2>4, InsertedAt, SMTT(30)
  <2>6. /\ a \in Seq(Fd) /\ Len(a) = m + 1
        /\ \A j \in 1 .. m + 1 :
             a[j] = IF j < h THEN t[j] ELSE IF j = h THEN f ELSE t[j - 1]
    BY ONLY <2>3, <2>5, Zenon
  <2> QED BY <2>2, <2>6
<1> HIDE DEF q
<1>9. ASSUME NEW j \in 1 .. n + 1
      PROVE  \/ j <= i /\ j \in 1 .. n /\ q[j] = s[j] /\ key[q[j]] < key[f]
             \/ j = i + 1 /\ q[j] = f
             \/ j > i + 1 /\ j - 1 \in 1 .. n /\ q[j] = s[j - 1] /\ key[q[j]] > key[f]
  <2>1. CASE j < i + 1
    BY <1>2, <1>3, <1>8, <2>1
  <2>2. CASE j = i + 1
    BY <1>2, <1>3, <1>8, <2>2
  <2>3. CASE j > i + 1
    <3>1. j - 1 \in 1 .. n /\ ~(j - 1 <= i) /\ ~(j < i + 1) /\ j # i + 1
      BY <1>2, <1>3, <2>3
    <3>2. q[j] = s[j - 1] /\ key[s[j - 1]] >= key[f] /\ key[s[j - 1]] # key[f] /\ key[s[j - 1]] \in Nat
      BY <1>3, <1>5, <1>6, <1>8, <3>1
    <3> QED BY <2>3, <3>1, <3>2
  <2> QED BY <1>2, <1>3, <2>1, <2>2, <2>3
<1>10. Increasing(q, key)
  <2>1. ASSUME NEW j \in 1 .. n + 1 PROVE key[q[j]] \in Nat
    BY <1>5, <1>9
  <2>2. ASSUME NEW j \in 1 .. n + 1, NEW h \in 1 .. n + 1, j < h PROVE key[q[j]] < key[q[h]]
    <3>1. key[q[j]] \in Nat /\ key[q[h]] \in Nat
      BY <2>1
    <3>2. CASE j <= i
      <4>1. j \in 1 .. n /\ q[j] = s[j] /\ key[q[j]] < key[f]
        BY <1>2, <1>3, <1>9, <3>2
      <4>2. CASE h <= i
        BY <1>2, <1>3, <1>5, <1>9, <2>2, <4>1, <4>2
      <4>3. CASE h = i + 1
        <5>1. q[h] = f
          BY <1>2, <1>3, <1>9, <4>3
        <5> QED BY <4>1, <5>1
      <4>4. CASE h > i + 1
        <5>1. key[q[h]] > key[f]
          BY <1>2, <1>3, <1>9, <4>4
        <5> QED BY <3>1, <4>1, <5>1
      <4> QED BY <1>2, <1>3, <4>2, <4>3, <4>4
    <3>3. CASE j = i + 1
      <4>1. q[j] = f /\ key[q[h]] > key[f]
        BY <1>2, <1>3, <1>9, <2>2, <3>3
      <4> QED BY <3>1, <4>1
    <3>4. CASE j > i + 1
      <4>1. /\ j - 1 \in 1 .. n /\ q[j] = s[j - 1] /\ h - 1 \in 1 .. n /\ q[h] = s[h - 1]
            /\ j - 1 < h - 1
        BY <1>2, <1>3, <1>9, <2>2, <3>4
      <4> QED BY <1>5, <4>1
    <3> QED BY <1>2, <1>3, <3>2, <3>3, <3>4
  <2> QED BY <1>8, <2>1, <2>2 DEF Increasing
<1>11. ToSet(q) = ToSet(s) \cup {f}
  <2>1. \A x : x \in ToSet(q) <=> \E j \in 1 .. n + 1 : q[j] = x
    BY <1>8, Members
  <2>2. ASSUME NEW x \in ToSet(q) PROVE x \in ToSet(s) \cup {f}
    <3>1. PICK j \in 1 .. n + 1 : q[j] = x
      BY <2>1
    <3> QED BY <1>2, <1>9, <3>1
  <2>3. f \in ToSet(q)
    <3>1. q[i + 1] = f
      BY <1>2, <1>3, <1>7, <1>8
    <3> QED BY <1>7, <2>1, <3>1
  <2>4. ASSUME NEW x \in ToSet(s) PROVE x \in ToSet(q)
    <3>1. PICK j \in 1 .. n : s[j] = x
      BY <1>2
    <3>2. CASE j <= i
      <4>1. j \in 1 .. n + 1 /\ q[j] = s[j]
        BY <1>2, <1>3, <1>8, <3>2
      <4> QED BY <2>1, <3>1, <4>1
    <3>3. CASE ~(j <= i)
      <4>1. j + 1 \in 1 .. n + 1 /\ ~(j + 1 < i + 1) /\ j + 1 # i + 1 /\ (j + 1) - 1 = j
        BY <1>2, <1>3, <3>3
      <4>2. q[j + 1] = s[j]
        BY <1>8, <4>1
      <4> QED BY <2>1, <3>1, <4>1, <4>2
    <3> QED BY <3>2, <3>3
  <2> QED BY <2>2, <2>3, <2>4
<1> QED BY <1>1, <1>4, <1>8, <1>10, <1>11 DEF ListHead, s, n, r

\* list_remove() takes out the node, and moves the cursor off it.
LEMMA Removed ==
  ASSUME NEW l \in ListHead, NEW key, Increasing(l.nodes, key),
         NEW f \in ToSet(l.nodes), l.cur \in ToSet(l.nodes) \cup {Null},
         NEW r, r = list_remove(l, key, key[f])
  PROVE  /\ r \in ListHead
         /\ Increasing(r.nodes, key)
         /\ ToSet(r.nodes) = ToSet(l.nodes) \ {f}
         /\ Len(l.nodes) \in Nat /\ Len(l.nodes) > 0 /\ Len(r.nodes) = Len(l.nodes) - 1
         /\ r.cur \in ToSet(r.nodes) \cup {Null}
<1> DEFINE s == l.nodes
           n == Len(s)
           i == passed(s, key, key[f]) + 1
           q == RemoveAt(s, i)
<1>1. s \in Seq(Fd)
  BY DEF ListHead
<1>2. /\ n \in Nat
      /\ \A j \in 1 .. n : s[j] \in Fd /\ s[j] \in ToSet(s)
      /\ \A x : x \in ToSet(s) <=> \E j \in 1 .. n : s[j] = x
  BY <1>1, Members
<1>3. /\ \A j \in 1 .. n : key[s[j]] \in Nat
      /\ \A j, h \in 1 .. n : j < h => key[s[j]] < key[s[h]]
  BY DEF Increasing
<1>4. PICK g \in 1 .. n : s[g] = f
  BY <1>2
<1>5. key[f] \in Nat
  BY <1>3, <1>4
<1>6. i \in 1 .. n /\ list_search(l, key, key[f]) = s[i] /\ key[s[i]] = key[f]
  <2> HIDE DEF i, n
  <2>1. \/ /\ list_search(l, key, key[f]) = Null
           /\ \A x \in ToSet(s) : key[x] # key[f]
        \/ /\ i \in 1 .. n /\ list_search(l, key, key[f]) = s[i]
           /\ s[i] \in Fd /\ key[s[i]] = key[f]
    BY <1>5, Searched DEF i, n
  <2> QED BY <2>1
<1> HIDE DEF i
<1>7. i = g
  <2>1. i < g \/ i = g \/ g < i
    BY <1>2, <1>6
  <2> QED BY <1>3, <1>4, <1>5, <1>6, <2>1
<1>8. s[i] = f /\ f \in Fd /\ f # Null
  BY <1>2, <1>4, <1>7, FdAssumption, NullAssumption
<1>9. r = [nodes |-> q, cur |-> IF l.cur = f THEN node_after(s, f) ELSE l.cur]
  BY <1>6, <1>8 DEF list_remove, i
<1>10. node_after(s, f) = IF i = n THEN Null ELSE s[i + 1]
  BY <1>1, <1>6, <1>8, After
<1> HIDE DEF s, n
<1>11. /\ q \in Seq(Fd) /\ Len(q) = n - 1
       /\ \A j \in 1 .. n - 1 : q[j] = IF j < i THEN s[j] ELSE s[j + 1]
  <2>1. n = Len(s) /\ q = RemoveAt(s, i) /\ i \in 1 .. n
    BY <1>6 DEF n
  <2> HIDE DEF q
  <2>2. PICK t, a : t = s /\ a = q
    OBVIOUS
  <2>3. t \in Seq(Fd) /\ n = Len(t) /\ a = RemoveAt(t, i)
    BY <1>1, <2>1, <2>2
  <2>4. /\ a \in Seq(Fd) /\ Len(a) = n - 1
        /\ \A j \in 1 .. n - 1 : a[j] = IF j < i THEN t[j] ELSE t[j + 1]
    BY <2>1, <2>3, RemovedAt, SMTT(30)
  <2> QED BY <2>2, <2>4
<1> HIDE DEF q
<1>12. ASSUME NEW j \in 1 .. n - 1
       PROVE  \/ j < i /\ j \in 1 .. n /\ q[j] = s[j]
              \/ j >= i /\ j + 1 \in 1 .. n /\ j + 1 # i /\ q[j] = s[j + 1]
  BY <1>2, <1>6, <1>11
<1>13. Increasing(q, key)
  <2>1. ASSUME NEW j \in 1 .. n - 1 PROVE key[q[j]] \in Nat
    BY <1>3, <1>12
  <2>2. ASSUME NEW j \in 1 .. n - 1, NEW h \in 1 .. n - 1, j < h PROVE key[q[j]] < key[q[h]]
    <3>1. CASE h < i
      <4>1. j \in 1 .. n /\ h \in 1 .. n /\ q[j] = s[j] /\ q[h] = s[h]
        BY <1>2, <1>6, <1>12, <2>2, <3>1
      <4> QED BY <1>3, <2>2, <4>1
    <3>2. CASE j < i /\ h >= i
      <4>1. j \in 1 .. n /\ h + 1 \in 1 .. n /\ q[j] = s[j] /\ q[h] = s[h + 1] /\ j < h + 1
        BY <1>2, <1>6, <1>12, <2>2, <3>2
      <4> QED BY <1>3, <4>1
    <3>3. CASE j >= i
      <4>1. j + 1 \in 1 .. n /\ h + 1 \in 1 .. n /\ q[j] = s[j + 1] /\ q[h] = s[h + 1] /\ j + 1 < h + 1
        BY <1>2, <1>6, <1>12, <2>2, <3>3
      <4> QED BY <1>3, <4>1
    <3> QED BY <1>2, <1>6, <3>1, <3>2, <3>3
  <2> QED BY <1>11, <2>1, <2>2 DEF Increasing
<1>14. ToSet(q) = ToSet(s) \ {f}
  <2>1. \A x : x \in ToSet(q) <=> \E j \in 1 .. n - 1 : q[j] = x
    BY <1>11, Members
  <2>2. \A j \in 1 .. n : s[j] = f => j = i
    <3> SUFFICES ASSUME NEW j \in 1 .. n, s[j] = f, j # i PROVE FALSE
      OBVIOUS
    <3>1. j < i \/ i < j
      BY <1>2, <1>6
    <3> QED BY <1>3, <1>5, <1>6, <1>8, <3>1
  <2>3. ASSUME NEW x \in ToSet(q) PROVE x \in ToSet(s) \ {f}
    <3>1. PICK j \in 1 .. n - 1 : q[j] = x
      BY <2>1
    <3>2. CASE j < i
      <4>1. j \in 1 .. n /\ q[j] = s[j] /\ j # i
        BY <1>2, <1>6, <1>12, <3>2
      <4> QED BY <1>2, <2>2, <3>1, <4>1
    <3>3. CASE ~(j < i)
      <4>1. j + 1 \in 1 .. n /\ q[j] = s[j + 1] /\ j + 1 # i
        BY <1>2, <1>6, <1>12, <3>3
      <4> QED BY <1>2, <2>2, <3>1, <4>1
    <3> QED BY <3>2, <3>3
  <2>4. ASSUME NEW x \in ToSet(s), x # f PROVE x \in ToSet(q)
    <3>1. PICK j \in 1 .. n : s[j] = x
      BY <1>2
    <3>2. j # i
      BY <1>8, <2>4, <3>1
    <3>3. CASE j < i
      <4>1. j \in 1 .. n - 1 /\ q[j] = s[j]
        BY <1>2, <1>6, <1>11, <3>3
      <4> QED BY <2>1, <3>1, <4>1
    <3>4. CASE j > i
      <4>1. j - 1 \in 1 .. n - 1 /\ ~(j - 1 < i) /\ (j - 1) + 1 = j
        BY <1>2, <1>6, <3>4
      <4>2. q[j - 1] = s[j]
        BY <1>11, <4>1
      <4> QED BY <2>1, <3>1, <4>1, <4>2
    <3> QED BY <1>2, <1>6, <3>2, <3>3, <3>4
  <2> QED BY <2>3, <2>4
<1>15. r.cur \in ToSet(q) \cup {Null}
  <2>1. CASE l.cur = f /\ i # n
    <3>1. i \in 1 .. n - 1 /\ ~(i < i)
      BY <1>2, <1>6, <2>1
    <3>2. q[i] = s[i + 1]
      BY <1>11, <3>1
    <3>3. q[i] \in ToSet(q)
      BY <1>11, <3>1, Members
    <3> QED BY <1>9, <1>10, <2>1, <3>2, <3>3
  <2>2. CASE l.cur = f /\ i = n
    BY <1>9, <1>10, <2>2
  <2>3. CASE l.cur # f
    BY <1>9, <1>14, <2>3 DEF s
  <2> QED BY <2>1, <2>2, <2>3
<1>16. ToSet(q) \subseteq Fd
  BY <1>11, Members
<1>17. n > 0
  BY <1>2, <1>6
<1> QED BY <1>2, <1>9, <1>11, <1>13, <1>14, <1>15, <1>16, <1>17 DEF ListHead, s, n

\* list_first() and list_next() only move the cursor.
LEMMA Moved ==
  ASSUME NEW l \in ListHead, NEW key, Increasing(l.nodes, key),
         NEW n, n = Len(l.nodes)
  PROVE  /\ list_first(l) \in ListHead /\ list_first(l).nodes = l.nodes
         /\ list_first(l).cur = IF n = 0 THEN Null ELSE l.nodes[1]
         /\ list_next(l).nodes = l.nodes
         /\ l.cur = Null => list_next(l).cur = Null /\ list_next(l) \in ListHead
         /\ \A i \in 1 .. n : l.cur = l.nodes[i] =>
              /\ list_next(l).cur = IF i = n THEN Null ELSE l.nodes[i + 1]
              /\ list_next(l) \in ListHead
<1>1. l.nodes \in Seq(Fd) /\ l = [nodes |-> l.nodes, cur |-> l.cur]
  BY DEF ListHead
<1>2. n \in Nat /\ (l.nodes = <<>> <=> n = 0) /\ \A j \in 1 .. n : l.nodes[j] \in Fd
  BY <1>1, Members
<1>3. list_first(l) = [nodes |-> l.nodes, cur |-> IF n = 0 THEN Null ELSE l.nodes[1]]
  <2>1. n # 0 => Head(l.nodes) = l.nodes[1]
    BY <1>1, <1>2
  <2> QED BY <1>1, <1>2, <2>1 DEF list_first
<1>4. list_next(l) = [nodes |-> l.nodes,
                      cur   |-> IF l.cur = Null THEN Null ELSE node_after(l.nodes, l.cur)]
  BY <1>1 DEF list_next
<1>5. n # 0 => l.nodes[1] \in Fd
  BY <1>2
<1>6. ASSUME NEW i \in 1 .. n, l.cur = l.nodes[i]
      PROVE  /\ list_next(l).cur = IF i = n THEN Null ELSE l.nodes[i + 1]
             /\ list_next(l) \in ListHead
  <2>1. l.cur # Null
    BY <1>2, <1>6, FdAssumption, NullAssumption
  <2>2. node_after(l.nodes, l.cur) = IF i = n THEN Null ELSE l.nodes[i + 1]
    BY <1>1, <1>6, After
  <2>3. i # n => l.nodes[i + 1] \in Fd
    <3>1. i # n => i + 1 \in 1 .. n
      BY <1>2
    <3> QED BY <1>2, <3>1
  <2> QED BY <1>1, <1>4, <2>1, <2>2, <2>3 DEF ListHead
<1> QED BY <1>1, <1>3, <1>4, <1>5, <1>6 DEF ListHead

---------------------------------------------------------------------------
(* hashtable.c                                                              *)

\* The buckets are in order, hold what belongs in them, and no cursor dangles.
Buckets(ht) ==
  /\ ht \in [Bucket -> ListHead]
  /\ \A b \in Bucket :
       /\ Increasing(ht[b].nodes, sock)
       /\ \A f \in ToSet(ht[b].nodes) : compute_hash(f) = b
       /\ ht[b].cur \in ToSet(ht[b].nodes) \cup {Null}

\* What the table holds.
held(ht) == UNION {ToSet(ht[b].nodes) : b \in Bucket}

\* Where hashtable_first() and hashtable_next() leave the cursors: nothing else is
\* changed, and the current one is on a client unless the table is at its end.
Placed(ht, r) ==
  /\ r.index \in 0 .. HASHTABLE_SIZE
  /\ Buckets(r.ht)
  /\ \A b \in Bucket : r.ht[b].nodes = ht[b].nodes
  /\ r.index # HASHTABLE_SIZE =>
       /\ r.index \in Bucket /\ r.ht[r.index].cur \in ToSet(ht[r.index].nodes)
       /\ r.ht[r.index].cur # Null

\* What a bucket is.
LEMMA BucketNumbers ==
  /\ HASHTABLE_SIZE \in Nat /\ HASHTABLE_SIZE > 0
  /\ \A b : b \in Bucket <=> b \in Nat /\ b < HASHTABLE_SIZE
  /\ \A f \in Fd : f \in Nat /\ f # Null /\ compute_hash(f) \in Bucket /\ sock[f] = f
<1>1. HASHTABLE_SIZE \in Nat /\ HASHTABLE_SIZE > 0
  BY SizeAssumption
<1>2. \A b : b \in Bucket <=> b \in Nat /\ b < HASHTABLE_SIZE
  BY <1>1 DEF Bucket
<1>3. ASSUME NEW f \in Fd
      PROVE  f \in Nat /\ f # Null /\ compute_hash(f) \in Bucket /\ sock[f] = f
  <2>1. f \in Nat /\ f # Null
    BY FdAssumption, NullAssumption
  <2>2. f % HASHTABLE_SIZE \in 0 .. HASHTABLE_SIZE - 1
    BY <2>1, SizeAssumption
  <2> QED BY <2>1, <2>2 DEF compute_hash, Bucket, sock
<1> QED BY <1>1, <1>2, <1>3

\* What a bucket holds is sockets, and they increase.
LEMMA InBucket ==
  ASSUME NEW ht, Buckets(ht), NEW b \in Bucket
  PROVE  /\ ht[b] \in ListHead /\ ht[b].nodes \in Seq(Fd) /\ Len(ht[b].nodes) \in Nat
         /\ Increasing(ht[b].nodes, sock)
         /\ ToSet(ht[b].nodes) \subseteq Fd
         /\ \A x : x \in ToSet(ht[b].nodes) <=>
                   \E j \in 1 .. Len(ht[b].nodes) : ht[b].nodes[j] = x
         /\ \A j \in 1 .. Len(ht[b].nodes) : ht[b].nodes[j] \in Fd /\ ht[b].nodes[j] \in Nat
         /\ \A j, h \in 1 .. Len(ht[b].nodes) : j < h => ht[b].nodes[j] < ht[b].nodes[h]
         /\ ht[b].nodes = <<>> <=> Len(ht[b].nodes) = 0
         /\ ht[b].cur \in ToSet(ht[b].nodes) \cup {Null}
<1> DEFINE n == Len(ht[b].nodes)
<1>1. ht[b] \in ListHead /\ Increasing(ht[b].nodes, sock) /\ ht[b].cur \in ToSet(ht[b].nodes) \cup {Null}
  BY DEF Buckets
<1>2. ht[b].nodes \in Seq(Fd)
  BY <1>1 DEF ListHead
<1>3. /\ n \in Nat
      /\ \A j \in 1 .. n : ht[b].nodes[j] \in Fd
      /\ \A x : x \in ToSet(ht[b].nodes) <=> \E j \in 1 .. n : ht[b].nodes[j] = x
      /\ ToSet(ht[b].nodes) \subseteq Fd
      /\ ht[b].nodes = <<>> <=> n = 0
  BY <1>2, Members
<1>4. \A j \in 1 .. n : ht[b].nodes[j] \in Nat /\ sock[ht[b].nodes[j]] = ht[b].nodes[j]
  BY <1>3, BucketNumbers
<1>5. \A j, h \in 1 .. n : j < h => ht[b].nodes[j] < ht[b].nodes[h]
  BY <1>1, <1>4 DEF Increasing
<1> QED BY <1>1, <1>2, <1>3, <1>4, <1>5 DEF n

\* A client is found by its socket exactly if it is in the table.
LEMMA FoundBySocket ==
  ASSUME NEW ht, Buckets(ht), NEW f \in Fd
  PROVE  /\ hashtable_search(ht, f) = f <=> f \in held(ht)
         /\ f \in held(ht) <=> f \in ToSet(ht[compute_hash(f)].nodes)
<1> DEFINE b == compute_hash(f)
<1>1. b \in Bucket /\ sock[f] = f /\ f \in Nat /\ f # Null
  BY BucketNumbers
<1>2. f \in held(ht) <=> f \in ToSet(ht[b].nodes)
  <2>1. ASSUME f \in held(ht) PROVE f \in ToSet(ht[b].nodes)
    <3>1. PICK c \in Bucket : f \in ToSet(ht[c].nodes)
      BY <2>1 DEF held
    <3>2. c = b
      BY <3>1 DEF Buckets
    <3> QED BY <3>1, <3>2
  <2>2. ASSUME f \in ToSet(ht[b].nodes) PROVE f \in held(ht)
    BY <1>1, <2>2 DEF held
  <2> QED BY <2>1, <2>2
<1> HIDE DEF b
<1>3. /\ ht[b] \in ListHead /\ Increasing(ht[b].nodes, sock)
      /\ ToSet(ht[b].nodes) \subseteq Fd
      /\ \A x : x \in ToSet(ht[b].nodes) <=> \E j \in 1 .. Len(ht[b].nodes) : ht[b].nodes[j] = x
  <2>1. Buckets(ht) /\ b \in Bucket
    BY <1>1
  <2> QED BY ONLY <2>1, InBucket, ZenonT(60)
<1> DEFINE i == passed(ht[b].nodes, sock, f) + 1
           x == list_search(ht[b], sock, f)
<1>4. \/ x = Null /\ \A y \in ToSet(ht[b].nodes) : sock[y] # f
      \/ i \in 1 .. Len(ht[b].nodes) /\ x = ht[b].nodes[i] /\ x \in Fd /\ sock[x] = f
  BY <1>1, <1>3, Searched
<1>5. hashtable_search(ht, f) = x
  BY DEF hashtable_search, b
<1> HIDE DEF i, x
<1>6. x = f <=> f \in ToSet(ht[b].nodes)
  <2>1. CASE x = Null /\ \A y \in ToSet(ht[b].nodes) : sock[y] # f
    BY <1>1, <2>1
  <2>2. CASE i \in 1 .. Len(ht[b].nodes) /\ x = ht[b].nodes[i] /\ x \in Fd /\ sock[x] = f
    <3>1. x = f
      BY <2>2, BucketNumbers
    <3> QED BY <1>3, <2>2, <3>1
  <2> QED BY <1>4, <2>1, <2>2
<1> QED BY <1>2, <1>5, <1>6 DEF b

\* A new client is put in its bucket.
LEMMA TableInserted ==
  ASSUME NEW ht, Buckets(ht), NEW f \in Fd, f \notin held(ht), NEW r, r = hashtable_insert(ht, f)
  PROVE  /\ Buckets(r) /\ held(r) = held(ht) \cup {f}
<1> DEFINE b == compute_hash(f)
           l == list_insert(ht[b], sock, f)
<1>1. b \in Bucket /\ sock[f] = f /\ f \in Nat
  BY BucketNumbers
<1>2. ht \in [Bucket -> ListHead] /\ r = [ht EXCEPT ![b] = l]
  BY DEF Buckets, hashtable_insert
<1>3. b = compute_hash(f)
  OBVIOUS
<1> HIDE DEF b
<1>4. /\ ht[b] \in ListHead /\ Increasing(ht[b].nodes, sock)
      /\ ToSet(ht[b].nodes) \subseteq Fd /\ ht[b].cur \in ToSet(ht[b].nodes) \cup {Null}
      /\ f \notin ToSet(ht[b].nodes)
  BY <1>1, <1>3, InBucket, FoundBySocket
<1>5. \A x \in ToSet(ht[b].nodes) : sock[x] # sock[f]
  BY <1>1, <1>4, BucketNumbers
<1>6. /\ l \in ListHead /\ l.cur = ht[b].cur /\ Increasing(l.nodes, sock)
      /\ ToSet(l.nodes) = ToSet(ht[b].nodes) \cup {f}
  <2>1. PICK m : m = ht[b]
    OBVIOUS
  <2>2. /\ m \in ListHead /\ Increasing(m.nodes, sock) /\ sock[f] \in Nat /\ f \in Fd
        /\ \A x \in ToSet(m.nodes) : sock[x] # sock[f]
        /\ l = list_insert(m, sock, f)
    BY <1>1, <1>4, <1>5, <2>1
  <2> HIDE DEF l
  <2>3. /\ l \in ListHead /\ l.cur = m.cur /\ Increasing(l.nodes, sock)
        /\ ToSet(l.nodes) = ToSet(m.nodes) \cup {f}
    BY ONLY <2>2, Inserted
  <2> QED BY <2>1, <2>3
<1> HIDE DEF l
<1>7. r \in [Bucket -> ListHead] /\ r[b] = l /\ \A c \in Bucket \ {b} : r[c] = ht[c]
  BY <1>1, <1>2, <1>6
<1>8. Buckets(r)
  <2>1. ASSUME NEW c \in Bucket
        PROVE  /\ Increasing(r[c].nodes, sock)
               /\ \A g \in ToSet(r[c].nodes) : compute_hash(g) = c
               /\ r[c].cur \in ToSet(r[c].nodes) \cup {Null}
    <3>1. CASE c = b
      BY <1>3, <1>4, <1>6, <1>7, <3>1 DEF Buckets
    <3>2. CASE c # b
      BY <1>7, <3>2 DEF Buckets
    <3> QED BY <3>1, <3>2
  <2> QED BY <1>7, <2>1 DEF Buckets
<1>9. held(r) = held(ht) \cup {f}
  BY <1>1, <1>6, <1>7 DEF held
<1> QED BY <1>8, <1>9

\* A client is taken out of its bucket.
LEMMA TableRemoved ==
  ASSUME NEW ht, Buckets(ht), NEW f \in Fd, f \in held(ht), NEW r, r = hashtable_remove(ht, f)
  PROVE  /\ Buckets(r) /\ held(r) = held(ht) \ {f}
<1> DEFINE b == compute_hash(f)
           l == list_remove(ht[b], sock, f)
<1>1. b \in Bucket /\ sock[f] = f /\ f \in Nat
  BY BucketNumbers
<1>2. ht \in [Bucket -> ListHead] /\ r = [ht EXCEPT ![b] = l]
  BY DEF Buckets, hashtable_remove
<1>3. b = compute_hash(f)
  OBVIOUS
<1> HIDE DEF b
<1>4. /\ ht[b] \in ListHead /\ Increasing(ht[b].nodes, sock)
      /\ ht[b].cur \in ToSet(ht[b].nodes) \cup {Null}
      /\ f \in ToSet(ht[b].nodes)
  BY <1>1, <1>3, InBucket, FoundBySocket
<1>5. l = list_remove(ht[b], sock, sock[f])
  BY <1>1
<1> HIDE DEF l
<1>6. /\ l \in ListHead /\ l.cur \in ToSet(l.nodes) \cup {Null} /\ Increasing(l.nodes, sock)
      /\ ToSet(l.nodes) = ToSet(ht[b].nodes) \ {f}
  BY <1>4, <1>5, Removed
<1>7. r \in [Bucket -> ListHead] /\ r[b] = l /\ \A c \in Bucket \ {b} : r[c] = ht[c]
  BY <1>1, <1>2, <1>6 DEF l
<1>8. Buckets(r)
  <2>1. ASSUME NEW c \in Bucket
        PROVE  /\ Increasing(r[c].nodes, sock)
               /\ \A g \in ToSet(r[c].nodes) : compute_hash(g) = c
               /\ r[c].cur \in ToSet(r[c].nodes) \cup {Null}
    <3>1. CASE c = b
      BY <1>3, <1>4, <1>6, <1>7, <3>1 DEF Buckets
    <3>2. CASE c # b
      BY <1>7, <3>2 DEF Buckets
    <3> QED BY <3>1, <3>2
  <2> QED BY <1>7, <2>1 DEF Buckets
<1>9. held(r) = held(ht) \ {f}
  <2>1. \A c \in Bucket : f \in ToSet(ht[c].nodes) => c = b
    BY <1>3 DEF Buckets
  <2> QED BY <1>1, <1>6, <1>7, <2>1 DEF held
<1> QED BY <1>8, <1>9

\* From the end of bucket i to the head of the next one that is not empty.
LEMMA GotNext ==
  ASSUME NEW ht, Buckets(ht), NEW i \in Int, i >= -1, i < HASHTABLE_SIZE,
         NEW r, r = get_next(ht, i)
  PROVE  /\ Placed(ht, r)
         /\ \A b \in Bucket : \A f \in ToSet(ht[b].nodes) :
              b < r.index \/ (b = r.index /\ f < r.ht[r.index].cur) => b <= i
<1> DEFINE N == HASHTABLE_SIZE
           stops(b) == /\ \A c \in i + 1 .. b - 1 : ht[c].nodes = <<>>
                       /\ b < N => ht[b].nodes # <<>>
           T == {b \in i + 1 .. N : b < N => ht[b].nodes # <<>>}
<1>1. N \in Nat /\ i + 1 \in Nat /\ i + 1 <= N
  BY BucketNumbers
<1>2. PICK x \in T : \A y \in T : x <= y
  <2>1. T \in SUBSET Nat /\ N \in T
    BY <1>1
  <2> HIDE DEF T
  <2> QED BY <2>1, Least
<1>3. x \in i + 1 .. N /\ stops(x)
  <2>1. ASSUME NEW c \in i + 1 .. x - 1 PROVE ht[c].nodes = <<>>
    <3>1. c \in i + 1 .. N /\ c < N /\ ~(x <= c)
      BY <1>1
    <3> QED BY <1>2, <3>1
  <2> QED BY <2>1
<1> DEFINE index == CHOOSE b \in i + 1 .. N : stops(b)
           after == [b \in Bucket |-> IF b \in i + 1 .. index THEN list_first(ht[b]) ELSE ht[b]]
<1> HIDE DEF stops, T
<1>4. index \in i + 1 .. N /\ stops(index)
  BY <1>3
<1>5. r = [index |-> index, ht |-> after]
  BY DEF get_next, stops
<1>6. r.index = index /\ r.ht = after
  BY <1>5
<1> HIDE DEF index, N
<1>7. ASSUME NEW b \in Bucket
      PROVE  /\ after[b] = IF b \in i + 1 .. index THEN list_first(ht[b]) ELSE ht[b]
             /\ after[b] \in ListHead /\ after[b].nodes = ht[b].nodes
             /\ after[b].cur \in ToSet(ht[b].nodes) \cup {Null}
             /\ b \in i + 1 .. index /\ ht[b].nodes # <<>> =>
                  after[b].cur = ht[b].nodes[1] /\ after[b].cur \in ToSet(ht[b].nodes)
  <2>1. after[b] = IF b \in i + 1 .. index THEN list_first(ht[b]) ELSE ht[b]
    OBVIOUS
  <2> HIDE DEF after
  <2> DEFINE n == Len(ht[b].nodes)
  <2>2. /\ ht[b] \in ListHead /\ n \in Nat /\ (ht[b].nodes = <<>> <=> n = 0)
        /\ Increasing(ht[b].nodes, sock)
        /\ ht[b].cur \in ToSet(ht[b].nodes) \cup {Null}
        /\ \A y : y \in ToSet(ht[b].nodes) <=> \E j \in 1 .. n : ht[b].nodes[j] = y
    BY InBucket
  <2>3. /\ list_first(ht[b]) \in ListHead /\ list_first(ht[b]).nodes = ht[b].nodes
        /\ list_first(ht[b]).cur = IF n = 0 THEN Null ELSE ht[b].nodes[1]
    BY <2>2, Moved
  <2>4. n # 0 => ht[b].nodes[1] \in ToSet(ht[b].nodes)
    BY <2>2
  <2> HIDE DEF n
  <2> QED BY <2>1, <2>2, <2>3, <2>4
<1>8. Buckets(after)
  <2>1. after \in [Bucket -> ListHead]
    <3>1. \A b \in Bucket : (IF b \in i + 1 .. index THEN list_first(ht[b]) ELSE ht[b]) \in ListHead
      BY <1>7
    <3> QED BY <3>1
  <2> HIDE DEF after
  <2> QED BY <1>7, <2>1 DEF Buckets
<1>9. index # N => index \in Bucket /\ ht[index].nodes # <<>> /\ index \in i + 1 .. index
  BY <1>1, <1>4, BucketNumbers DEF stops, N
<1> HIDE DEF after
<1>10. Placed(ht, r)
  <2>1. index \in 0 .. N
    BY <1>1, <1>4
  <2>2. index # N => after[index].cur \in ToSet(ht[index].nodes) /\ after[index].cur # Null
    <3>1. index # N => ToSet(ht[index].nodes) \subseteq Fd
      BY <1>9, InBucket
    <3> QED BY <1>7, <1>9, <3>1, BucketNumbers
  <2> QED BY <1>6, <1>7, <1>8, <1>9, <2>1, <2>2 DEF Placed, N
<1>11. ASSUME NEW b \in Bucket, NEW f \in ToSet(ht[b].nodes),
              b < index \/ (b = index /\ f < after[index].cur), ~(b <= i)
       PROVE  FALSE
  <2>1. b \in Nat /\ b < N
    BY BucketNumbers DEF N
  <2> DEFINE n == Len(ht[b].nodes)
  <2>2. PICK j \in 1 .. n : ht[b].nodes[j] = f
    <3>1. \A d : d \in ToSet(ht[b].nodes) <=> \E g \in 1 .. n : ht[b].nodes[g] = d
      BY InBucket
    <3> QED BY <3>1
  <2>3. /\ n \in Nat /\ ht[b].nodes # <<>>
        /\ \A h \in 1 .. n : ht[b].nodes[h] \in Nat
        /\ \A h, g \in 1 .. n : h < g => ht[b].nodes[h] < ht[b].nodes[g]
    <3>1. n \in Nat /\ (ht[b].nodes = <<>> <=> n = 0)
      BY InBucket
    <3>2. n # 0
      BY <2>2, <3>1
    <3> QED BY <3>1, <3>2, InBucket
  <2> HIDE DEF n
  <2>4. CASE b < index
    <3>1. b \in i + 1 .. index - 1
      BY <1>1, <1>4, <1>11, <2>1, <2>4
    <3> QED BY <1>4, <2>3, <3>1 DEF stops
  <2>5. CASE b = index /\ f < after[index].cur
    <3>1. after[index].cur = ht[b].nodes[1]
      BY <1>7, <1>9, <2>1, <2>3, <2>5
    <3>2. 1 \in 1 .. n /\ (j = 1 \/ 1 < j)
      BY <2>2, <2>3
    <3>3. ht[b].nodes[1] <= f
      BY <2>2, <2>3, <3>2
    <3>4. f \in Nat /\ ht[b].nodes[1] \in Nat
      BY <2>2, <2>3, <3>2
    <3> QED BY <2>5, <3>1, <3>3, <3>4
  <2> QED BY <1>11, <2>4, <2>5
<1> QED BY <1>6, <1>10, <1>11

\* hashtable_first(): nothing is passed yet.
LEMMA TableFirst ==
  ASSUME NEW ht, Buckets(ht), NEW r, r = hashtable_first(ht)
  PROVE  /\ Placed(ht, r)
         /\ \A b \in Bucket : \A f \in ToSet(ht[b].nodes) :
              ~(b < r.index \/ (b = r.index /\ f < r.ht[r.index].cur))
<1>1. -1 \in Int /\ -1 >= -1 /\ -1 < HASHTABLE_SIZE
  BY BucketNumbers
<1>2. r = get_next(ht, -1)
  BY DEF hashtable_first
<1>3. /\ Placed(ht, r)
      /\ \A b \in Bucket : \A f \in ToSet(ht[b].nodes) :
           b < r.index \/ (b = r.index /\ f < r.ht[r.index].cur) => b <= -1
  BY <1>1, <1>2, GotNext
<1>4. \A b \in Bucket : ~(b <= -1)
  BY BucketNumbers
<1> QED BY <1>3, <1>4

\* hashtable_next(): only the client the cursor was on is passed.
LEMMA TableNext ==
  ASSUME NEW ht, Buckets(ht), NEW i \in Bucket, NEW r, r = hashtable_next(ht, i)
  PROVE  /\ Placed(ht, r)
         /\ \A b \in Bucket : \A f \in ToSet(ht[b].nodes) :
              (b < r.index \/ (b = r.index /\ f < r.ht[r.index].cur)) =>
                 (b < i \/ (b = i /\ (ht[i].cur = Null \/ f <= ht[i].cur)))
<1> DEFINE s == ht[i].nodes
           n == Len(s)
           moved == [ht EXCEPT ![i] = list_next(@)]
<1>1. /\ ht[i] \in ListHead /\ s \in Seq(Fd) /\ n \in Nat
      /\ Increasing(s, sock) /\ ToSet(s) \subseteq Fd
      /\ \A x : x \in ToSet(s) <=> \E j \in 1 .. n : s[j] = x
      /\ \A j \in 1 .. n : s[j] \in Fd /\ s[j] \in Nat
      /\ \A j, h \in 1 .. n : j < h => s[j] < s[h]
      /\ ht[i].cur \in ToSet(s) \cup {Null}
  BY InBucket, ZenonT(60)
<1>2. /\ list_next(ht[i]).nodes = s
      /\ ht[i].cur = Null => list_next(ht[i]).cur = Null /\ list_next(ht[i]) \in ListHead
      /\ \A j \in 1 .. n : ht[i].cur = s[j] =>
           /\ list_next(ht[i]).cur = IF j = n THEN Null ELSE s[j + 1]
           /\ list_next(ht[i]) \in ListHead
  BY <1>1, Moved
<1>3. ht \in [Bucket -> ListHead]
  BY DEF Buckets
<1>4. i \in Nat /\ i < HASHTABLE_SIZE /\ HASHTABLE_SIZE \in Nat
  BY BucketNumbers
<1>5. r = IF moved[i].cur # Null THEN [index |-> i, ht |-> moved] ELSE get_next(moved, i)
  BY DEF hashtable_next
<1> HIDE DEF s, n
<1> DEFINE l == list_next(ht[i])
<1>6. /\ l \in ListHead /\ l.nodes = s
      /\ l.cur \in ToSet(s) \cup {Null}
      /\ \A f \in ToSet(s) :
           (l.cur # Null /\ f < l.cur) => (ht[i].cur = Null \/ f <= ht[i].cur)
      /\ \A f \in ToSet(s) : l.cur = Null => (ht[i].cur = Null \/ f <= ht[i].cur)
  <2>1. CASE ht[i].cur = Null
    BY <1>2, <2>1
  <2>2. CASE ht[i].cur # Null
    <3>1. PICK j \in 1 .. n : s[j] = ht[i].cur
      BY <1>1, <2>2
    <3>2. l.cur = IF j = n THEN Null ELSE s[j + 1]
      BY <1>2, <3>1
    <3>3. l \in ListHead /\ l.nodes = s
      BY <1>2, <3>1
    <3> HIDE DEF l
    <3>4. j # n => j + 1 \in 1 .. n
      BY <1>1
    <3>5. l.cur \in ToSet(s) \cup {Null}
      BY <1>1, <3>2, <3>4
    <3>6. ASSUME NEW f \in ToSet(s), l.cur = Null \/ f < l.cur
          PROVE  f <= ht[i].cur
      <4>1. PICK h \in 1 .. n : s[h] = f
        BY <1>1
      <4>2. h <= j
        <5>1. SUFFICES ASSUME ~(h <= j) PROVE FALSE
          OBVIOUS
        <5>2. j # n /\ j + 1 \in 1 .. n /\ (h = j + 1 \/ j + 1 < h)
          BY <1>1, <5>1
        <5>3. l.cur = s[j + 1] /\ s[j + 1] \in Nat /\ s[j + 1] \in Fd /\ s[h] \in Nat
          BY <1>1, <3>2, <5>2
        <5>4. s[j + 1] <= s[h]
          BY <1>1, <5>2, <5>3
        <5>5. l.cur # Null
          BY <5>3, BucketNumbers
        <5> QED BY <3>6, <4>1, <5>3, <5>4, <5>5
      <4>3. h = j \/ h < j
        BY <1>1, <4>2
      <4> QED BY <1>1, <3>1, <4>1, <4>3
    <3> QED BY <3>3, <3>5, <3>6
  <2> QED BY <2>1, <2>2
<1>7. moved = [ht EXCEPT ![i] = l]
  OBVIOUS
<1> HIDE DEF l, moved
<1>8. /\ moved \in [Bucket -> ListHead] /\ moved[i] = l
      /\ \A b \in Bucket : moved[b].nodes = ht[b].nodes /\ (b # i => moved[b] = ht[b])
  BY <1>3, <1>6, <1>7 DEF s
<1>9. Buckets(moved)
  <2>1. ASSUME NEW b \in Bucket
        PROVE  /\ Increasing(moved[b].nodes, sock)
               /\ \A f \in ToSet(moved[b].nodes) : compute_hash(f) = b
               /\ moved[b].cur \in ToSet(moved[b].nodes) \cup {Null}
    <3>1. Increasing(moved[b].nodes, sock) /\ \A f \in ToSet(moved[b].nodes) : compute_hash(f) = b
      BY <1>8 DEF Buckets
    <3>2. CASE b = i
      BY <1>6, <1>8, <3>1, <3>2 DEF s
    <3>3. CASE b # i
      BY <1>8, <3>1, <3>3 DEF Buckets
    <3> QED BY <3>1, <3>2, <3>3
  <2> QED BY <1>8, <2>1 DEF Buckets
<1>10. CASE l.cur # Null
  <2>1. r.index = i /\ r.ht = moved /\ r.ht[r.index].cur = l.cur
    BY <1>5, <1>8, <1>10
  <2>2. Placed(ht, r)
    BY <1>4, <1>6, <1>8, <1>9, <1>10, <2>1 DEF Placed, s
  <2> QED BY <1>6, <1>10, <2>1, <2>2 DEF s
<1>11. CASE l.cur = Null
  <2>1. r = get_next(moved, i)
    BY <1>5, <1>8, <1>11
  <2>2. i \in Int /\ i >= -1 /\ i < HASHTABLE_SIZE
    BY <1>4
  <2>3. /\ Placed(moved, r)
        /\ \A b \in Bucket : \A f \in ToSet(moved[b].nodes) :
             b < r.index \/ (b = r.index /\ f < r.ht[r.index].cur) => b <= i
    BY <1>9, <2>1, <2>2, GotNext
  <2>4. Placed(ht, r)
    BY <1>8, <2>3 DEF Placed
  <2>5. ASSUME NEW b \in Bucket, NEW f \in ToSet(ht[b].nodes),
               b < r.index \/ (b = r.index /\ f < r.ht[r.index].cur)
        PROVE  b < i \/ (b = i /\ (ht[i].cur = Null \/ f <= ht[i].cur))
    <3>1. b <= i
      BY <1>8, <2>3, <2>5
    <3>2. b \in Nat /\ (b < i \/ b = i)
      BY <1>4, <3>1, BucketNumbers
    <3> QED BY <1>6, <1>11, <3>2 DEF s
  <2> QED BY <2>4, <2>5
<1> QED BY <1>10, <1>11

---------------------------------------------------------------------------
(* The invariant.                                                           *)

\* The lists are in order, and no cursor dangles.
Lists ==
  /\ Increasing(client_list.nodes, username)
  /\ client_list.cur \in ToSet(client_list.nodes) \cup {Null}
  /\ Buckets(client_hashtable)

\* The list holds the clients with a name, and the counter is its length.
Agree ==
  /\ walk # "destroyed" =>
       /\ ToSet(client_list.nodes) = {f \in Stored : logged_in(f)}
       /\ logged_count = Len(client_list.nodes)
  /\ walk = "destroyed" => client_list = LIST_INIT /\ logged_count = 0

\* A loop over the list has passed its first nodes, and is at the next one.
LoggedLoop ==
  IF walk = "logged"
  THEN /\ Len(visited) <= Len(client_list.nodes)
       /\ \A j \in 1 .. Len(visited) : visited[j] = client_list.nodes[j]
       /\ p = client_list.cur
       /\ p = IF Len(visited) = Len(client_list.nodes) THEN Null
              ELSE client_list.nodes[Len(visited) + 1]
  ELSE visited = <<>>

\* A loop over the table is at the current client of the current bucket, or at the
\* end; the cursor may have moved on from a client that is freed.
TableLoop ==
  /\ walk \in {"max_fd", "destroy"} =>
       IF p = Null THEN cur_index = HASHTABLE_SIZE
       ELSE cur_index \in Bucket /\ client_hashtable[cur_index].cur = p
  /\ walk = "destroy_next" => cur_index \in Bucket

\* No client that get_max_fd() has passed is larger than its local.
MaxFdLoop ==
  IF walk = "max_fd"
  THEN /\ maxfd \in Stored \cup {0}
       /\ \A b \in Bucket : \A f \in ToSet(client_hashtable[b].nodes) :
            b < cur_index \/ (b = cur_index /\ f < p) => f <= maxfd
  ELSE maxfd = 0

IInv == TypeOK /\ Lists /\ Agree /\ LoggedLoop /\ TableLoop /\ MaxFdLoop

---------------------------------------------------------------------------
(* What the steps are made of.                                              *)

\* The keys of a list do not depend on the name of a client outside it.
LEMMA OtherName ==
  ASSUME TypeOK, NEW nodes \in Seq(Fd), Increasing(nodes, username), NEW f \in Fd,
         f \notin ToSet(nodes), NEW u, username' = [username EXCEPT ![f] = u]
  PROVE  Increasing(nodes, username')
<1>1. \A j \in 1 .. Len(nodes) : nodes[j] \in Fd /\ nodes[j] # f
  BY Members
<1>2. \A j \in 1 .. Len(nodes) : username'[nodes[j]] = username[nodes[j]]
  BY <1>1 DEF TypeOK
<1> QED BY <1>2 DEF Increasing

\* A client gets a name that no client has.
LEMMA Listed ==
  ASSUME TypeOK, Lists, Agree, walk # "destroyed", NEW f \in Stored, NEW u \in Name,
         ~logged_in(f), get_client_by_username(u) = Null,
         username' = [username EXCEPT ![f] = u],
         client_list' = list_insert(client_list, username', f), logged_count' = logged_count + 1
  PROVE  /\ client_list' \in ListHead /\ username' \in [Fd -> Name \cup {Null}]
         /\ Increasing(client_list'.nodes, username')
         /\ client_list'.cur \in ToSet(client_list'.nodes) \cup {Null}
         /\ ToSet(client_list'.nodes) = ToSet(client_list.nodes) \cup {f}
         /\ logged_count' \in Nat /\ logged_count' = Len(client_list'.nodes)
         /\ \A g \in ToSet(client_list.nodes) : username[g] # u
<1>1. /\ client_list \in ListHead /\ client_list.nodes \in Seq(Fd)
      /\ username \in [Fd -> Name \cup {Null}] /\ u \in Nat
      /\ Increasing(client_list.nodes, username)
  BY FdAssumption DEF TypeOK, ListHead, Lists
<1>2. f \in Fd
  <2>1. PICK b \in Bucket : f \in ToSet(client_hashtable[b].nodes)
    BY DEF Stored
  <2> QED BY <2>1, InBucket DEF Lists
<1>3. ToSet(client_list.nodes) \subseteq Fd /\ f \notin ToSet(client_list.nodes)
  BY <1>1, Members DEF Agree
<1>4. \A g \in ToSet(client_list.nodes) : username[g] # u
  <2>1. get_client_by_username(u) = list_search(client_list, username, u)
    BY DEF get_client_by_username
  <2>2. Null \notin Fd
    BY BucketNumbers
  <2> QED BY <1>1, <2>1, <2>2, Found
<1>5. Increasing(client_list.nodes, username')
  BY <1>1, <1>2, <1>3, OtherName
<1>6. username'[f] = u /\ \A g \in Fd \ {f} : username'[g] = username[g]
  BY <1>1, <1>2
<1>7. \A g \in ToSet(client_list.nodes) : username'[g] # username'[f]
  BY <1>3, <1>4, <1>6
<1>8. PICK key : key = username'
  OBVIOUS
<1>9. /\ Increasing(client_list.nodes, key) /\ f \in Fd /\ key[f] \in Nat
      /\ \A g \in ToSet(client_list.nodes) : key[g] # key[f]
      /\ client_list' = list_insert(client_list, key, f) /\ client_list \in ListHead
  BY <1>1, <1>2, <1>5, <1>6, <1>7, <1>8
<1>10. /\ client_list' \in ListHead /\ client_list'.cur = client_list.cur
       /\ Increasing(client_list'.nodes, key)
       /\ ToSet(client_list'.nodes) = ToSet(client_list.nodes) \cup {f}
  <2>1. PICK l, r : l = client_list /\ r = client_list'
    OBVIOUS
  <2>2. /\ l \in ListHead /\ Increasing(l.nodes, key) /\ f \in Fd /\ key[f] \in Nat
        /\ \A g \in ToSet(l.nodes) : key[g] # key[f]
        /\ r = list_insert(l, key, f)
    BY <1>9, <2>1
  <2>3. /\ r \in ListHead /\ r.cur = l.cur /\ Increasing(r.nodes, key)
        /\ ToSet(r.nodes) = ToSet(l.nodes) \cup {f}
    BY ONLY <2>2, Inserted
  <2> QED BY <2>1, <2>3
<1>11. Len(client_list'.nodes) = Len(client_list.nodes) + 1
  BY ONLY <1>9, Inserted
<1>12. logged_count' = Len(client_list'.nodes) /\ logged_count' \in Nat
  BY <1>11 DEF Agree, TypeOK
<1> QED BY <1>1, <1>2, <1>4, <1>8, <1>10, <1>12 DEF Lists

\* A client loses its name and leaves the list, if it is there.
LEMMA Unlisted ==
  ASSUME TypeOK, Lists, Agree, walk # "destroyed", NEW f \in Stored, unlist(f)
  PROVE  /\ f \in Fd
         /\ client_list' \in ListHead /\ username' = [username EXCEPT ![f] = Null]
         /\ username' \in [Fd -> Name \cup {Null}]
         /\ Increasing(client_list'.nodes, username')
         /\ client_list'.cur \in ToSet(client_list'.nodes) \cup {Null}
         /\ ToSet(client_list'.nodes) = ToSet(client_list.nodes) \ {f}
         /\ logged_count' \in Nat /\ logged_count' = Len(client_list'.nodes)
<1>1. /\ client_list \in ListHead /\ client_list.nodes \in Seq(Fd)
      /\ username \in [Fd -> Name \cup {Null}] /\ logged_count \in Nat
      /\ Increasing(client_list.nodes, username)
      /\ client_list.cur \in ToSet(client_list.nodes) \cup {Null}
  BY DEF TypeOK, ListHead, Lists
<1>2. f \in Fd
  <2>1. PICK b \in Bucket : f \in ToSet(client_hashtable[b].nodes)
    BY DEF Stored
  <2> QED BY <2>1, InBucket DEF Lists
<1>3. username' = [username EXCEPT ![f] = Null] /\ username' \in [Fd -> Name \cup {Null}]
  BY <1>1, <1>2 DEF unlist
<1>4. CASE logged_in(f)
  <2>1. f \in ToSet(client_list.nodes) /\ logged_count = Len(client_list.nodes)
    BY <1>4 DEF Agree
  <2>2. client_list' = list_remove(client_list, username, username[f]) /\ logged_count' = logged_count - 1
    BY <1>4 DEF unlist
  <2>3. /\ client_list' \in ListHead
        /\ Increasing(client_list'.nodes, username)
        /\ ToSet(client_list'.nodes) = ToSet(client_list.nodes) \ {f}
        /\ client_list'.cur \in ToSet(client_list'.nodes) \cup {Null}
    BY ONLY <1>1, <2>1, <2>2, Removed, ZenonT(60)
  <2>4. Len(client_list.nodes) > 0 /\ Len(client_list'.nodes) = Len(client_list.nodes) - 1
    BY ONLY <1>1, <2>1, <2>2, Removed
  <2>5. logged_count' \in Nat /\ logged_count' = Len(client_list'.nodes)
    BY <1>1, <2>1, <2>2, <2>4
  <2>6. client_list'.nodes \in Seq(Fd) /\ f \notin ToSet(client_list'.nodes)
    BY <2>3 DEF ListHead
  <2>7. Increasing(client_list'.nodes, username')
    BY <1>2, <1>3, <2>3, <2>6, OtherName
  <2> QED BY <1>2, <1>3, <2>3, <2>5, <2>7
<1>5. CASE ~logged_in(f)
  <2>1. f \notin ToSet(client_list.nodes) /\ logged_count = Len(client_list.nodes)
    BY <1>5 DEF Agree
  <2>2. client_list' = client_list /\ logged_count' = logged_count
    BY <1>5 DEF unlist
  <2>3. Increasing(client_list'.nodes, username')
    BY <1>1, <1>2, <1>3, <2>1, <2>2, OtherName
  <2> QED BY <1>1, <1>2, <1>3, <2>1, <2>2, <2>3
<1> QED BY <1>4, <1>5

\* A loop over the table goes where the cursors have been put.
LEMMA MovedTo ==
  ASSUME Buckets(client_hashtable), NEW r, Placed(client_hashtable, r), moveTo(r)
  PROVE  /\ Buckets(client_hashtable') /\ Stored' = Stored
         /\ \A b \in Bucket : client_hashtable'[b].nodes = client_hashtable[b].nodes
         /\ cur_index' \in 0 .. HASHTABLE_SIZE /\ p' \in Fd \cup {Null}
         /\ cur_index' = r.index /\ client_hashtable' = r.ht
         /\ IF p' = Null THEN cur_index' = HASHTABLE_SIZE
            ELSE /\ cur_index' \in Bucket /\ client_hashtable'[cur_index'].cur = p'
                 /\ p' = r.ht[r.index].cur
<1>1. /\ client_hashtable' = r.ht /\ cur_index' = r.index
      /\ p' = IF r.index = HASHTABLE_SIZE THEN Null ELSE r.ht[r.index].cur
  BY DEF moveTo
<1>2. /\ r.index \in 0 .. HASHTABLE_SIZE /\ Buckets(r.ht)
      /\ \A b \in Bucket : r.ht[b].nodes = client_hashtable[b].nodes
      /\ r.index # HASHTABLE_SIZE =>
           /\ r.index \in Bucket /\ r.ht[r.index].cur \in ToSet(client_hashtable[r.index].nodes)
           /\ r.ht[r.index].cur # Null
  BY DEF Placed
<1>3. Stored' = Stored
  BY <1>1, <1>2 DEF Stored
<1>4. p' \in Fd \cup {Null}
  <2>1. CASE r.index = HASHTABLE_SIZE
    BY <1>1, <2>1
  <2>2. CASE r.index # HASHTABLE_SIZE
    <3>1. ToSet(client_hashtable[r.index].nodes) \subseteq Fd
      BY <1>2, <2>2, InBucket
    <3> QED BY <1>1, <1>2, <2>2, <3>1
  <2> QED BY <2>1, <2>2
<1> QED BY <1>1, <1>2, <1>3, <1>4

\* What the table holds, by the two names it has here.
LEMMA StoredIsHeld ==
  ASSUME Lists
  PROVE  /\ Stored = held(client_hashtable) /\ Stored \subseteq Fd
         /\ \A f \in Fd : get_client_by_socket(f) = f <=> f \in Stored
<1>1. Stored = held(client_hashtable)
  BY DEF Stored, held
<1>2. Stored \subseteq Fd
  BY InBucket DEF Stored, Lists
<1>3. \A f \in Fd : get_client_by_socket(f) = f <=> f \in Stored
  BY <1>1, FoundBySocket DEF get_client_by_socket, Lists
<1> QED BY <1>1, <1>2, <1>3

---------------------------------------------------------------------------
(* Every step keeps the invariant.                                          *)

\* A new connection.
LEMMA AddKept ==
  ASSUME IInv, NEW f \in Fd, add_client(f)
  PROVE  IInv'
<1> USE DEF IInv
<1>1. /\ walk = "none" /\ f \notin Stored
      /\ username' = [username EXCEPT ![f] = Null]
      /\ client_hashtable' = hashtable_insert(client_hashtable, f)
      /\ UNCHANGED <<client_list, logged_count, cur_index, walk, p, maxfd, visited>>
  BY DEF add_client
<1>2. Buckets(client_hashtable) /\ Stored = held(client_hashtable) /\ Stored \subseteq Fd
  BY StoredIsHeld DEF Lists
<1>3. Buckets(client_hashtable') /\ held(client_hashtable') = Stored \cup {f}
  BY <1>1, <1>2, TableInserted
<1>4. Stored' = Stored \cup {f}
  BY <1>3 DEF Stored, held
<1>5. /\ username \in [Fd -> Name \cup {Null}] /\ client_list.nodes \in Seq(Fd)
      /\ ToSet(client_list.nodes) = {g \in Stored : logged_in(g)}
  BY <1>1 DEF TypeOK, Agree, ListHead
<1>6. TypeOK'
  BY <1>1, <1>3 DEF TypeOK, Buckets
<1>7. Lists'
  <2>1. Increasing(client_list.nodes, username')
    BY <1>1, <1>5, OtherName DEF Lists
  <2> QED BY <1>1, <1>3, <2>1 DEF Lists
<1>8. Agree'
  <2>1. \A g \in Stored' : logged_in(g)' <=> g \in Stored /\ logged_in(g)
    BY <1>1, <1>2, <1>4, <1>5 DEF logged_in
  <2>2. {g \in Stored' : logged_in(g)'} = {g \in Stored : logged_in(g)}
    BY <1>4, <2>1
  <2> QED BY <1>1, <1>5, <2>2 DEF Agree
<1>9. LoggedLoop' /\ TableLoop' /\ MaxFdLoop'
  BY <1>1 DEF LoggedLoop, TableLoop, MaxFdLoop
<1> QED BY <1>6, <1>7, <1>8, <1>9

\* A login.
LEMMA LoginKept ==
  ASSUME IInv, NEW f \in Fd, NEW u \in Name, login_client(f, u)
  PROVE  /\ IInv'
         /\ f \in Stored /\ Stored' = Stored
         /\ \A g \in Stored : username[g] # u
<1> USE DEF IInv
<1>1. /\ walk = "none" /\ get_client_by_socket(f) = f /\ ~logged_in(f)
      /\ get_client_by_username(u) = Null
      /\ username' = [username EXCEPT ![f] = u]
      /\ client_list' = list_insert(client_list, username', f)
      /\ logged_count' = logged_count + 1
      /\ UNCHANGED <<client_hashtable, cur_index, walk, p, maxfd, visited>>
  BY DEF login_client
<1>2. f \in Stored /\ Stored \subseteq Fd /\ Stored' = Stored
  BY <1>1, StoredIsHeld DEF Stored
<1>3. /\ client_list' \in ListHead /\ username' \in [Fd -> Name \cup {Null}]
      /\ Increasing(client_list'.nodes, username')
      /\ client_list'.cur \in ToSet(client_list'.nodes) \cup {Null}
      /\ ToSet(client_list'.nodes) = ToSet(client_list.nodes) \cup {f}
      /\ logged_count' \in Nat /\ logged_count' = Len(client_list'.nodes)
      /\ \A g \in ToSet(client_list.nodes) : username[g] # u
  BY <1>1, <1>2, Listed
<1>4. ToSet(client_list.nodes) = {g \in Stored : logged_in(g)} /\ username \in [Fd -> Name \cup {Null}]
  BY <1>1 DEF Agree, TypeOK
<1>5. u # Null
  BY FdAssumption, NullAssumption
<1>6. TypeOK'
  BY <1>1, <1>3 DEF TypeOK
<1>7. Lists'
  BY <1>1, <1>3 DEF Lists
<1>8. Agree'
  <2>1. \A g \in Stored : logged_in(g)' <=> logged_in(g) \/ g = f
    BY <1>1, <1>2, <1>4, <1>5 DEF logged_in
  <2>2. {g \in Stored' : logged_in(g)'} = {g \in Stored : logged_in(g)} \cup {f}
    BY <1>2, <2>1
  <2> QED BY <1>1, <1>3, <1>4, <2>2 DEF Agree
<1>9. LoggedLoop' /\ TableLoop' /\ MaxFdLoop'
  BY <1>1 DEF LoggedLoop, TableLoop, MaxFdLoop
<1>10. \A g \in Stored : username[g] # u
  BY <1>3, <1>4, <1>5 DEF logged_in
<1> QED BY <1>2, <1>6, <1>7, <1>8, <1>9, <1>10

\* What the removal of a client does, by itself and in client_list_destroy().
LEMMA Gone ==
  ASSUME TypeOK, Lists, Agree, walk # "destroyed", NEW f \in Stored, unlist(f),
         client_hashtable' = hashtable_remove(client_hashtable, f)
  PROVE  /\ f \in Fd /\ Stored' = Stored \ {f}
         /\ Lists'
         /\ client_list' \in ListHead /\ logged_count' \in Nat
         /\ username' \in [Fd -> Name \cup {Null}]
         /\ username' = [username EXCEPT ![f] = Null]
         /\ ToSet(client_list'.nodes) = {g \in Stored' : logged_in(g)'}
         /\ logged_count' = Len(client_list'.nodes)
<1>1. /\ f \in Fd
      /\ client_list' \in ListHead /\ username' = [username EXCEPT ![f] = Null]
      /\ username' \in [Fd -> Name \cup {Null}]
      /\ Increasing(client_list'.nodes, username')
      /\ client_list'.cur \in ToSet(client_list'.nodes) \cup {Null}
      /\ ToSet(client_list'.nodes) = ToSet(client_list.nodes) \ {f}
      /\ logged_count' \in Nat /\ logged_count' = Len(client_list'.nodes)
  BY Unlisted
<1>2. Buckets(client_hashtable) /\ Stored = held(client_hashtable) /\ Stored \subseteq Fd
  BY StoredIsHeld DEF Lists
<1>3. Buckets(client_hashtable') /\ held(client_hashtable') = Stored \ {f}
  BY <1>1, <1>2, TableRemoved
<1>4. Stored' = Stored \ {f}
  BY <1>3 DEF Stored, held
<1>5. Lists'
  BY <1>1, <1>3 DEF Lists
<1>6. ToSet(client_list'.nodes) = {g \in Stored' : logged_in(g)'}
  <2>1. ToSet(client_list.nodes) = {g \in Stored : logged_in(g)}
    BY DEF Agree
  <2>2. username \in [Fd -> Name \cup {Null}]
    BY DEF TypeOK
  <2>3. \A g \in Stored' : logged_in(g)' <=> logged_in(g)
    BY <1>1, <1>2, <1>4, <2>2 DEF logged_in
  <2> QED BY <1>1, <1>4, <2>1, <2>3
<1> QED BY <1>1, <1>4, <1>5, <1>6

\* A connection is closed.
LEMMA RemoveKept ==
  ASSUME IInv, NEW f \in Fd, remove_client(f)
  PROVE  /\ IInv'
         /\ f \in Stored /\ Stored' = Stored \ {f}
         /\ username' = [username EXCEPT ![f] = Null]
<1> USE DEF IInv
<1>1. /\ walk = "none" /\ get_client_by_socket(f) = f /\ unlist(f)
      /\ client_hashtable' = hashtable_remove(client_hashtable, f)
      /\ UNCHANGED <<cur_index, walk, p, maxfd, visited>>
  BY DEF remove_client
<1>2. f \in Stored
  BY <1>1, StoredIsHeld
<1>3. /\ Stored' = Stored \ {f}
      /\ Lists'
      /\ client_list' \in ListHead /\ logged_count' \in Nat
      /\ username' \in [Fd -> Name \cup {Null}]
      /\ username' = [username EXCEPT ![f] = Null]
      /\ ToSet(client_list'.nodes) = {g \in Stored' : logged_in(g)'}
      /\ logged_count' = Len(client_list'.nodes)
  BY <1>1, <1>2, Gone
<1>4. TypeOK'
  BY <1>1, <1>3 DEF TypeOK, Lists, Buckets
<1>5. Agree'
  BY <1>1, <1>3 DEF Agree
<1>6. LoggedLoop' /\ TableLoop' /\ MaxFdLoop'
  BY <1>1 DEF LoggedLoop, TableLoop, MaxFdLoop
<1> QED BY <1>2, <1>3, <1>4, <1>5, <1>6

\* client_list_destroy() frees a client.
LEMMA DestroyTurnKept ==
  ASSUME IInv, client_list_destroy_turn
  PROVE  /\ IInv'
         /\ p \in Stored /\ Stored' = Stored \ {p}
         /\ username' = [username EXCEPT ![p] = Null]
<1> USE DEF IInv
<1>1. /\ walk = "destroy" /\ p # Null /\ walk' = "destroy_next" /\ unlist(p)
      /\ client_hashtable' = hashtable_remove(client_hashtable, p)
      /\ UNCHANGED <<cur_index, p, maxfd, visited>>
  BY DEF client_list_destroy_turn
<1>2. cur_index \in Bucket /\ client_hashtable[cur_index].cur = p
  BY <1>1 DEF TableLoop
<1>3. p \in Stored
  BY <1>1, <1>2 DEF Stored, Lists, Buckets
<1>4. /\ Stored' = Stored \ {p}
      /\ Lists'
      /\ client_list' \in ListHead /\ logged_count' \in Nat
      /\ username' \in [Fd -> Name \cup {Null}]
      /\ username' = [username EXCEPT ![p] = Null]
      /\ ToSet(client_list'.nodes) = {g \in Stored' : logged_in(g)'}
      /\ logged_count' = Len(client_list'.nodes)
  BY <1>1, <1>3, Gone
<1>5. TypeOK'
  BY <1>1, <1>4 DEF TypeOK, Lists, Buckets
<1>6. Agree'
  BY <1>1, <1>4 DEF Agree
<1>7. LoggedLoop' /\ TableLoop' /\ MaxFdLoop'
  BY <1>1, <1>2 DEF LoggedLoop, TableLoop, MaxFdLoop
<1> QED BY <1>3, <1>4, <1>5, <1>6, <1>7

\* A loop over the list begins.
LEMMA FirstKept ==
  ASSUME IInv, first_logged_client
  PROVE  IInv'
<1> USE DEF IInv
<1>1. /\ walk = "none" /\ walk' = "logged"
      /\ client_list' = list_first(client_list) /\ p' = client_list'.cur
      /\ UNCHANGED <<logged_count, client_hashtable, cur_index, username, maxfd, visited>>
  BY DEF first_logged_client
<1> DEFINE n == Len(client_list.nodes)
<1>2. /\ client_list \in ListHead /\ client_list.nodes \in Seq(Fd)
      /\ Increasing(client_list.nodes, username)
  BY DEF TypeOK, ListHead, Lists
<1>3. /\ list_first(client_list) \in ListHead
      /\ list_first(client_list).nodes = client_list.nodes
      /\ list_first(client_list).cur = IF n = 0 THEN Null ELSE client_list.nodes[1]
  BY <1>2, Moved
<1>4. n \in Nat /\ \A j \in 1 .. n : client_list.nodes[j] \in Fd /\ client_list.nodes[j] \in ToSet(client_list.nodes)
  BY <1>2, Members
<1>5. n # 0 => client_list.nodes[1] \in Fd /\ client_list.nodes[1] \in ToSet(client_list.nodes)
  BY <1>4
<1>6. Stored' = Stored /\ \A f : logged_in(f)' <=> logged_in(f)
  BY <1>1 DEF Stored, logged_in
<1>7. TypeOK'
  BY <1>1, <1>3, <1>5 DEF TypeOK
<1>8. Lists'
  BY <1>1, <1>3, <1>5 DEF Lists
<1>9. Agree'
  BY <1>1, <1>3, <1>6 DEF Agree
<1>10. LoggedLoop'
  <2>1. visited' = <<>> /\ Len(visited') = 0
    BY <1>1 DEF LoggedLoop
  <2> QED BY <1>1, <1>3, <1>4, <2>1 DEF LoggedLoop
<1>11. TableLoop' /\ MaxFdLoop'
  BY <1>1 DEF TableLoop, MaxFdLoop
<1> QED BY <1>7, <1>8, <1>9, <1>10, <1>11

\* A turn of it.
LEMMA NextKept ==
  ASSUME IInv, next_logged_client
  PROVE  IInv'
<1> USE DEF IInv
<1>1. /\ walk = "logged" /\ p # Null /\ visited' = Append(visited, p)
      /\ client_list' = list_next(client_list) /\ p' = client_list'.cur
      /\ UNCHANGED <<logged_count, client_hashtable, cur_index, username, walk, maxfd>>
  BY DEF next_logged_client
<1> DEFINE s == client_list.nodes
           n == Len(s)
           v == Len(visited)
<1>2. /\ client_list \in ListHead /\ s \in Seq(Fd)
      /\ Increasing(s, username) /\ visited \in Seq(Fd) /\ p \in Fd \cup {Null}
  BY DEF TypeOK, ListHead, Lists
<1>3. n \in Nat /\ v \in Nat /\ \A j \in 1 .. n : s[j] \in Fd /\ s[j] \in ToSet(s)
  BY <1>2, Members
<1>4. /\ v <= n /\ \A j \in 1 .. v : visited[j] = s[j]
      /\ p = client_list.cur /\ p = IF v = n THEN Null ELSE s[v + 1]
  BY <1>1 DEF LoggedLoop
<1> HIDE DEF n, v
<1>5. v + 1 \in 1 .. n /\ p = s[v + 1] /\ client_list.cur = s[v + 1]
  BY <1>1, <1>3, <1>4
<1>6. n = Len(client_list.nodes)
  BY DEF n
<1>7. /\ list_next(client_list).nodes = s
      /\ list_next(client_list).cur = IF v + 1 = n THEN Null ELSE s[v + 2]
      /\ list_next(client_list) \in ListHead
  <2>1. (v + 1) + 1 = v + 2
    BY <1>3
  <2>2. PICK l, key, m, i : /\ l = client_list /\ key = username
                            /\ m = n /\ i = v + 1
    OBVIOUS
  <2>3. /\ l \in ListHead /\ Increasing(l.nodes, key) /\ m = Len(l.nodes)
        /\ i \in 1 .. m /\ l.cur = l.nodes[i]
    BY <1>2, <1>5, <1>6, <2>2
  <2>4. /\ list_next(l).nodes = l.nodes
        /\ list_next(l).cur = IF i = m THEN Null ELSE l.nodes[i + 1]
        /\ list_next(l) \in ListHead
    BY ONLY <2>3, Moved
  <2> QED BY <2>1, <2>2, <2>4
<1>8. v + 1 # n => s[v + 2] \in Fd /\ s[v + 2] \in ToSet(s)
  <2>1. v + 1 # n => v + 2 \in 1 .. n
    BY <1>3, <1>5
  <2> QED BY <1>3, <2>1
<1>9. /\ Len(visited') = v + 1 /\ visited'[v + 1] = p /\ visited' \in Seq(Fd)
      /\ \A j \in 1 .. v : visited'[j] = visited[j]
  BY <1>1, <1>2, AppendProperties DEF v
<1>10. Stored' = Stored /\ \A f : logged_in(f)' <=> logged_in(f)
  BY <1>1 DEF Stored, logged_in
<1>11. TypeOK'
  BY <1>1, <1>7, <1>8, <1>9 DEF TypeOK
<1>12. Lists'
  BY <1>1, <1>7, <1>8 DEF Lists
<1>13. Agree'
  BY <1>1, <1>7, <1>10 DEF Agree
<1>14. LoggedLoop'
  <2>1. \A j \in 1 .. v + 1 : visited'[j] = s[j]
    <3> SUFFICES ASSUME NEW j \in 1 .. v + 1 PROVE visited'[j] = s[j]
      OBVIOUS
    <3>1. j \in 1 .. v \/ j = v + 1
      BY <1>3
    <3> QED BY <1>4, <1>5, <1>9, <3>1
  <2>2. client_list'.nodes = s /\ p' = client_list'.cur
        /\ p' = IF v + 1 = n THEN Null ELSE s[(v + 1) + 1]
    BY <1>1, <1>3, <1>7
  <2>3. v + 1 <= n
    BY <1>3, <1>5
  <2> QED BY <1>1, <1>6, <1>9, <2>1, <2>2, <2>3 DEF LoggedLoop
<1>15. TableLoop' /\ MaxFdLoop'
  BY <1>1, <1>10 DEF TableLoop, MaxFdLoop
<1> QED BY <1>11, <1>12, <1>13, <1>14, <1>15

\* What every move over the table leaves as it is.
LEMMA TableMoveKept ==
  ASSUME IInv, NEW r, Placed(client_hashtable, r), moveTo(r),
         UNCHANGED <<client_list, logged_count, username, visited>>,
         walk # "logged" /\ walk # "destroyed",
         walk' \in {"max_fd", "destroy"}
  PROVE  /\ Lists' /\ Agree' /\ LoggedLoop' /\ TableLoop'
         /\ maxfd' \in Nat => TypeOK'
         /\ Stored' = Stored
<1> USE DEF IInv
<1>1. /\ Buckets(client_hashtable') /\ Stored' = Stored
      /\ cur_index' \in 0 .. HASHTABLE_SIZE /\ p' \in Fd \cup {Null}
      /\ IF p' = Null THEN cur_index' = HASHTABLE_SIZE
         ELSE cur_index' \in Bucket /\ client_hashtable'[cur_index'].cur = p'
  BY MovedTo DEF Lists
<1>2. \A f : logged_in(f)' <=> logged_in(f)
  BY DEF logged_in
<1>3. Lists'
  BY <1>1 DEF Lists
<1>4. Agree'
  BY <1>1, <1>2 DEF Agree
<1>5. LoggedLoop'
  BY DEF LoggedLoop
<1>6. TableLoop'
  BY <1>1 DEF TableLoop
<1>7. maxfd' \in Nat => TypeOK'
  BY <1>1 DEF TypeOK, Buckets
<1> QED BY <1>1, <1>3, <1>4, <1>5, <1>6, <1>7

\* get_max_fd() begins.
LEMMA MaxFdKept ==
  ASSUME IInv, get_max_fd
  PROVE  IInv'
<1> DEFINE r == hashtable_first(client_hashtable)
<1>1. /\ walk = "none" /\ walk' = "max_fd" /\ moveTo(r)
      /\ UNCHANGED <<client_list, logged_count, username, maxfd, visited>>
  BY DEF get_max_fd
<1>2. Buckets(client_hashtable)
  BY DEF IInv, Lists
<1>3. /\ Placed(client_hashtable, r)
      /\ \A b \in Bucket : \A f \in ToSet(client_hashtable[b].nodes) :
           ~(b < r.index \/ (b = r.index /\ f < r.ht[r.index].cur))
  BY <1>2, TableFirst
<1> HIDE DEF r
<1>4. Lists' /\ Agree' /\ LoggedLoop' /\ TableLoop' /\ (maxfd' \in Nat => TypeOK') /\ Stored' = Stored
  BY <1>1, <1>3, TableMoveKept
<1>5. maxfd = 0 /\ maxfd' = 0
  BY <1>1 DEF IInv, MaxFdLoop
<1>6. MaxFdLoop'
  <2>1. /\ cur_index' = r.index
        /\ \A b \in Bucket : client_hashtable'[b].nodes = client_hashtable[b].nodes
        /\ p' # Null => p' = r.ht[r.index].cur
        /\ p' = Null => cur_index' = HASHTABLE_SIZE
    BY <1>1, <1>2, <1>3, MovedTo
  <2>2. ASSUME NEW b \in Bucket, NEW f \in ToSet(client_hashtable'[b].nodes),
               b < cur_index' \/ (b = cur_index' /\ f < p')
        PROVE  FALSE
    <3>1. f \in ToSet(client_hashtable[b].nodes) /\ b # HASHTABLE_SIZE
      BY <2>1, BucketNumbers
    <3> QED BY <1>3, <2>1, <2>2, <3>1
  <2> QED BY <1>1, <1>5, <2>2 DEF MaxFdLoop
<1> QED BY <1>4, <1>5, <1>6 DEF IInv

\* A turn of it.
LEMMA MaxFdTurnKept ==
  ASSUME IInv, get_max_fd_turn
  PROVE  IInv'
<1> DEFINE r == hashtable_next(client_hashtable, cur_index)
<1>1. /\ walk = "max_fd" /\ p # Null /\ maxfd' = (IF p > maxfd THEN p ELSE maxfd) /\ moveTo(r)
      /\ UNCHANGED <<client_list, logged_count, username, walk, visited>>
  BY DEF get_max_fd_turn
<1>2. Buckets(client_hashtable) /\ cur_index \in Bucket /\ client_hashtable[cur_index].cur = p
  BY <1>1 DEF IInv, Lists, TableLoop
<1>3. /\ Placed(client_hashtable, r)
      /\ \A b \in Bucket : \A f \in ToSet(client_hashtable[b].nodes) :
           (b < r.index \/ (b = r.index /\ f < r.ht[r.index].cur)) =>
             (b < cur_index \/ (b = cur_index /\ (p = Null \/ f <= p)))
  BY <1>2, TableNext
<1> HIDE DEF r
<1>4. Lists' /\ Agree' /\ LoggedLoop' /\ TableLoop' /\ (maxfd' \in Nat => TypeOK') /\ Stored' = Stored
  BY <1>1, <1>3, TableMoveKept
<1>5. /\ maxfd \in Stored \cup {0}
      /\ \A b \in Bucket : \A f \in ToSet(client_hashtable[b].nodes) :
           b < cur_index \/ (b = cur_index /\ f < p) => f <= maxfd
  BY <1>1 DEF IInv, MaxFdLoop
<1>6. p \in Stored /\ Stored \subseteq Fd
  BY <1>1, <1>2, StoredIsHeld DEF Stored, Buckets, IInv
<1>7. p \in Nat /\ maxfd \in Nat /\ \A f \in Stored : f \in Nat
  BY <1>5, <1>6, BucketNumbers
<1>8. maxfd' \in Nat /\ maxfd' \in Stored \cup {0} /\ p <= maxfd' /\ maxfd <= maxfd'
  BY <1>1, <1>5, <1>6, <1>7
<1>9. MaxFdLoop'
  <2>1. /\ cur_index' = r.index
        /\ \A b \in Bucket : client_hashtable'[b].nodes = client_hashtable[b].nodes
        /\ p' # Null => p' = r.ht[r.index].cur
        /\ p' = Null => cur_index' = HASHTABLE_SIZE
    BY <1>1, <1>2, <1>3, MovedTo
  <2>2. ASSUME NEW b \in Bucket, NEW f \in ToSet(client_hashtable'[b].nodes),
               b < cur_index' \/ (b = cur_index' /\ f < p')
        PROVE  f <= maxfd'
    <3>1. f \in ToSet(client_hashtable[b].nodes) /\ b # HASHTABLE_SIZE
      BY <2>1, BucketNumbers
    <3>2. b < cur_index \/ (b = cur_index /\ f <= p)
      BY <1>1, <1>3, <2>1, <2>2, <3>1
    <3>3. f \in Nat
      BY <1>7, <3>1 DEF Stored
    <3>4. f <= maxfd \/ f = p
      BY <1>5, <1>7, <3>1, <3>2, <3>3
    <3> QED BY <1>7, <1>8, <3>3, <3>4
  <2> QED BY <1>1, <1>4, <1>8, <2>2 DEF MaxFdLoop
<1> QED BY <1>4, <1>8, <1>9 DEF IInv

\* client_list_destroy() begins, or goes on.
LEMMA DestroyKept ==
  ASSUME IInv, client_list_destroy \/ client_list_destroy_next
  PROVE  IInv' /\ Stored' = Stored
<1>1. Buckets(client_hashtable)
  BY DEF IInv, Lists
<1>2. PICK r : /\ moveTo(r) /\ Placed(client_hashtable, r)
               /\ walk \in {"none", "destroy_next"} /\ walk' = "destroy"
               /\ UNCHANGED <<client_list, logged_count, username, maxfd, visited>>
  <2>1. CASE client_list_destroy
    BY <1>1, <2>1, TableFirst DEF client_list_destroy
  <2>2. CASE client_list_destroy_next
    <3>1. cur_index \in Bucket
      BY <2>2 DEF IInv, TableLoop, client_list_destroy_next
    <3> QED BY <1>1, <2>2, <3>1, TableNext DEF client_list_destroy_next
  <2> QED BY <2>1, <2>2
<1>3. Lists' /\ Agree' /\ LoggedLoop' /\ TableLoop' /\ (maxfd' \in Nat => TypeOK') /\ Stored' = Stored
  BY <1>2, TableMoveKept
<1>4. maxfd' = 0 /\ MaxFdLoop'
  BY <1>2 DEF IInv, MaxFdLoop
<1> QED BY <1>3, <1>4 DEF IInv

\* The ends of the loops.
LEMMA EndKept ==
  ASSUME IInv, loop_end \/ client_list_destroy_end
  PROVE  IInv' /\ Stored' = Stored
<1> USE DEF IInv
<1>1. CASE loop_end
  <2>1. /\ walk \in {"logged", "max_fd"} /\ walk' = "none" /\ maxfd' = 0 /\ visited' = <<>>
        /\ UNCHANGED <<client_list, logged_count, client_hashtable, cur_index, username, p>>
    BY <1>1 DEF loop_end
  <2>2. Stored' = Stored /\ \A f : logged_in(f)' <=> logged_in(f)
    BY <2>1 DEF Stored, logged_in
  <2>3. TypeOK'
    BY <2>1 DEF TypeOK
  <2>4. Lists'
    BY <2>1 DEF Lists
  <2>5. Agree'
    BY <2>1, <2>2 DEF Agree
  <2>6. LoggedLoop' /\ TableLoop' /\ MaxFdLoop'
    BY <2>1 DEF LoggedLoop, TableLoop, MaxFdLoop
  <2> QED BY <2>2, <2>3, <2>4, <2>5, <2>6
<1>2. CASE client_list_destroy_end
  <2>1. /\ walk = "destroy" /\ walk' = "destroyed" /\ client_list' = LIST_INIT /\ logged_count' = 0
        /\ UNCHANGED <<client_hashtable, cur_index, username, p, maxfd, visited>>
    BY <1>2 DEF client_list_destroy_end
  <2>2. Stored' = Stored
    BY <2>1 DEF Stored
  <2>3. client_list' \in ListHead /\ client_list'.nodes = <<>> /\ client_list'.cur = Null
    <3>1. <<>> \in Seq(Fd)
      OBVIOUS
    <3> QED BY <2>1, <3>1 DEF LIST_INIT, ListHead
  <2>4. TypeOK'
    BY <2>1, <2>3 DEF TypeOK
  <2>5. Increasing(<<>>, username)
    BY DEF Increasing
  <2>6. Lists'
    BY <2>1, <2>3, <2>5 DEF Lists
  <2>7. Agree'
    BY <2>1 DEF Agree
  <2>8. LoggedLoop' /\ TableLoop' /\ MaxFdLoop'
    BY <2>1 DEF LoggedLoop, TableLoop, MaxFdLoop
  <2> QED BY <2>2, <2>4, <2>6, <2>7, <2>8
<1> QED BY <1>1, <1>2

\* The invariant is inductive.
THEOREM Inductive == Spec => []IInv
<1>1. Init => IInv
  <2> SUFFICES ASSUME Init PROVE IInv
    OBVIOUS
  <2>1. <<>> \in Seq(Fd) /\ LIST_INIT \in ListHead /\ LIST_INIT.nodes = <<>> /\ LIST_INIT.cur = Null
    BY DEF LIST_INIT, ListHead
  <2>2. ToSet(<<>>) = {} /\ Len(<<>>) = 0
    BY DEF ToSet
  <2>3. \A key : Increasing(<<>>, key)
    BY DEF Increasing
  <2>4. Buckets(client_hashtable)
    BY <2>1, <2>2, <2>3 DEF Init, Buckets
  <2>5. TypeOK
    BY <2>1, <2>4, BucketNumbers DEF Init, TypeOK, Buckets
  <2>6. Lists
    BY <2>1, <2>3, <2>4 DEF Init, Lists
  <2>7. Stored = {}
    BY <2>1, <2>2 DEF Init, Stored
  <2>8. Agree
    BY <2>1, <2>2, <2>7 DEF Init, Agree
  <2>9. LoggedLoop /\ TableLoop /\ MaxFdLoop
    BY DEF Init, LoggedLoop, TableLoop, MaxFdLoop
  <2> QED BY <2>5, <2>6, <2>8, <2>9 DEF IInv
<1>2. IInv /\ [Next]_vars => IInv'
  <2> SUFFICES ASSUME IInv, [Next]_vars PROVE IInv'
    OBVIOUS
  <2>1. CASE UNCHANGED vars
    <3>1. UNCHANGED <<client_list, logged_count, client_hashtable, cur_index, username,
                      walk, p, maxfd, visited>>
      BY <2>1 DEF vars
    <3>2. Stored' = Stored /\ \A f : logged_in(f)' <=> logged_in(f)
      BY <3>1 DEF Stored, logged_in
    <3>3. TypeOK' /\ Lists'
      BY <3>1 DEF IInv, TypeOK, Lists
    <3>4. Agree' /\ LoggedLoop' /\ TableLoop' /\ MaxFdLoop'
      BY <3>1, <3>2 DEF IInv, Agree, LoggedLoop, TableLoop, MaxFdLoop
    <3> QED BY <3>3, <3>4 DEF IInv
  <2> QED BY <2>1, AddKept, LoginKept, RemoveKept, FirstKept, NextKept, MaxFdKept,
             MaxFdTurnKept, EndKept, DestroyKept, DestroyTurnKept DEF Next, Stopped
<1> QED BY <1>1, <1>2, PTL DEF Spec

---------------------------------------------------------------------------
(* What follows from it.                                                    *)

\* Types of the variables, for any sockets, names and number of buckets.
THEOREM TypeCorrect == Spec => []TypeOK
<1>1. IInv => TypeOK
  BY DEF IInv
<1> QED BY <1>1, Inductive, PTL

\* The list, the counter, the table and the usernames agree after every operation and
\* in the middle of every loop, and the lists stay strictly ordered.
THEOREM ListMatchesNamesAlways == Spec => []ListMatchesNames
<1>1. IInv => ListMatchesNames
  <2> SUFFICES ASSUME IInv PROVE ListMatchesNames
    OBVIOUS
  <2>1. Lists /\ Agree
    BY DEF IInv
  <2>2. client_list.nodes \in Seq(Fd)
    BY DEF IInv, TypeOK, ListHead
  <2>3. DOMAIN client_list.nodes = 1 .. Len(client_list.nodes)
    BY <2>2, LenProperties
  <2>4. \A i, j \in DOMAIN client_list.nodes :
          i < j => username[client_list.nodes[i]] < username[client_list.nodes[j]]
    BY <2>1, <2>3 DEF Lists, Increasing
  <2>5. ASSUME NEW b \in Bucket
        PROVE  /\ \A i, j \in DOMAIN client_hashtable[b].nodes :
                    i < j => client_hashtable[b].nodes[i] < client_hashtable[b].nodes[j]
               /\ \A i \in DOMAIN client_hashtable[b].nodes :
                    compute_hash(client_hashtable[b].nodes[i]) = b
    <3> DEFINE s == client_hashtable[b].nodes
    <3>1. /\ s \in Seq(Fd)
          /\ \A j, h \in 1 .. Len(s) : j < h => s[j] < s[h]
          /\ \A f \in ToSet(s) : compute_hash(f) = b
      BY <2>1, InBucket DEF Lists, Buckets
    <3> HIDE DEF s
    <3>2. DOMAIN s = 1 .. Len(s) /\ \A j \in 1 .. Len(s) : s[j] \in ToSet(s)
      BY <3>1, Members, LenProperties
    <3> QED BY <3>1, <3>2 DEF s
  <2> QED BY <2>1, <2>4, <2>5 DEF ListMatchesNames, Ordered, Agree
<1> QED BY <1>1, Inductive, PTL

\* No cursor is left on a freed node, whatever is removed between two moves.
THEOREM CursorsLiveAlways == Spec => []CursorsLive
<1>1. IInv => CursorsLive
  <2> SUFFICES ASSUME IInv PROVE CursorsLive
    OBVIOUS
  <2>1. Lists /\ TableLoop
    BY DEF IInv
  <2>2. ASSUME walk \in {"max_fd", "destroy"}, p # Null
        PROVE  cur_index = compute_hash(p) /\ client_hashtable[cur_index].cur = p
    <3>1. cur_index \in Bucket /\ client_hashtable[cur_index].cur = p
      BY <2>1, <2>2 DEF TableLoop
    <3> QED BY <2>1, <2>2, <3>1 DEF Lists, Buckets
  <2> QED BY <2>1, <2>2 DEF CursorsLive, Lists, Buckets
<1> QED BY <1>1, Inductive, PTL

\* The loops over the list pass every logged-in client once, in the order of the names.
THEOREM LoggedLoopCompleteAlways == Spec => []LoggedLoopComplete
<1>1. IInv => LoggedLoopComplete
  <2> SUFFICES ASSUME IInv, walk = "logged"
               PROVE  /\ IsPrefix(visited, client_list.nodes)
                      /\ p = IF visited = client_list.nodes THEN Null
                             ELSE client_list.nodes[Len(visited) + 1]
    BY DEF LoggedLoopComplete
  <2> DEFINE s == client_list.nodes
             v == Len(visited)
  <2>1. visited \in Seq(Fd) /\ s \in Seq(Fd)
    BY DEF IInv, TypeOK, ListHead
  <2>2. /\ v <= Len(s) /\ \A j \in 1 .. v : visited[j] = s[j]
        /\ p = IF v = Len(s) THEN Null ELSE s[v + 1]
    BY DEF IInv, LoggedLoop
  <2> HIDE DEF s
  <2>3. v \in Nat /\ Len(s) \in Nat /\ \A j \in 1 .. Len(s) : s[j] \in Fd
    BY <2>1, LenProperties
  <2>4. visited = s <=> v = Len(s)
    BY <2>1, <2>2, SeqEqual
  <2>5. SubSeq(visited, 1, v) = visited
    BY <2>1, SubSeqFull
  <2>6. SubSeq(s, 1, v) = visited
    <3> DEFINE u == SubSeq(s, 1, v)
    <3>1. \A j \in 1 .. v : s[j] \in Fd
      BY <2>2, <2>3
    <3>2. u \in Seq(Fd) /\ Len(u) = v /\ \A j \in 1 .. v : u[j] = s[j]
      BY <2>3, <3>1, SubSeqProperties
    <3> HIDE DEF u
    <3>3. u = visited
      BY <2>1, <2>2, <3>2, SeqEqual
    <3> QED BY <3>3 DEF u
  <2> QED BY <2>2, <2>4, <2>5, <2>6 DEF IsPrefix, s
<1> QED BY <1>1, Inductive, PTL

\* get_max_fd() returns the largest socket of the table, for any number of buckets.
THEOREM MaxFdExactAlways == Spec => []MaxFdExact
<1>1. IInv => MaxFdExact
  <2> SUFFICES ASSUME IInv, walk = "max_fd", p = Null
               PROVE  maxfd \in Stored \cup {0} /\ \A f \in Stored : f <= maxfd
    BY DEF MaxFdExact
  <2>1. /\ maxfd \in Stored \cup {0} /\ cur_index = HASHTABLE_SIZE
        /\ \A b \in Bucket : \A f \in ToSet(client_hashtable[b].nodes) :
             b < cur_index => f <= maxfd
    BY DEF IInv, MaxFdLoop, TableLoop
  <2>2. \A b \in Bucket : b < HASHTABLE_SIZE
    BY BucketNumbers
  <2> QED BY <2>1, <2>2 DEF Stored
<1> QED BY <1>1, Inductive, PTL

\* A step of the data structures is a step of the table, or none.
LEMMA TableStep ==
  ASSUME IInv, [Next]_vars
  PROVE  [Table!Next]_Table!vars
<1> DEFINE names == [f \in Fd |-> IF f \in Stored THEN username[f] ELSE Null]
<1>1. Stored \subseteq Fd /\ username \in [Fd -> Name \cup {Null}]
  BY StoredIsHeld DEF IInv, TypeOK
<1>2. ASSUME NEW f \in Fd, add_client(f) PROVE Table!Next
  <2>1. /\ f \notin Stored /\ username' = [username EXCEPT ![f] = Null]
        /\ client_hashtable' = hashtable_insert(client_hashtable, f)
    BY <1>2 DEF add_client
  <2>2. Stored' = Stored \cup {f}
    BY <1>2, <2>1, StoredIsHeld, TableInserted DEF IInv, Lists, Stored, held
  <2>3. names' = names
    BY <1>1, <2>1, <2>2
  <2> HIDE DEF names
  <2>4. Table!add_client(f)
    BY <2>1, <2>2, <2>3 DEF Table!add_client, names
  <2> QED BY <2>4 DEF Table!Next
<1>3. ASSUME NEW f \in Fd, NEW u \in Name, login_client(f, u) PROVE Table!Next
  <2>1. /\ ~logged_in(f) /\ username' = [username EXCEPT ![f] = u]
        /\ f \in Stored /\ Stored' = Stored /\ \A g \in Stored : username[g] # u
    BY <1>3, LoginKept DEF login_client
  <2>2. names' = [names EXCEPT ![f] = u]
    BY <1>1, <2>1
  <2>3. names[f] = Null /\ \A g \in Stored : names[g] # u
    BY <1>1, <2>1 DEF logged_in
  <2> HIDE DEF names
  <2>4. Table!login_client(f, u)
    BY <2>1, <2>2, <2>3 DEF Table!login_client, names
  <2> QED BY <2>4 DEF Table!Next
<1>4. ASSUME NEW f \in Fd, f \in Stored, Stored' = Stored \ {f},
             username' = [username EXCEPT ![f] = Null]
      PROVE  Table!Next
  <2>1. names' = [names EXCEPT ![f] = Null]
    BY <1>1, <1>4
  <2> HIDE DEF names
  <2>2. Table!remove_client(f)
    BY <1>4, <2>1 DEF Table!remove_client, names
  <2> QED BY <2>2 DEF Table!Next
<1>5. ASSUME Stored' = Stored, username' = username PROVE UNCHANGED Table!vars
  BY <1>5 DEF Table!vars
<1>6. ASSUME NEW f \in Fd, remove_client(f) PROVE Table!Next
  BY <1>4, <1>6, RemoveKept
<1>7. CASE client_list_destroy_turn
  BY <1>1, <1>4, <1>7, DestroyTurnKept
<1>8. CASE first_logged_client \/ next_logged_client \/ UNCHANGED vars
  BY <1>5, <1>8 DEF first_logged_client, next_logged_client, vars, Stored
<1>9. CASE get_max_fd \/ get_max_fd_turn
  <2>1. Buckets(client_hashtable)
    BY DEF IInv, Lists
  <2>2. PICK r : moveTo(r) /\ Placed(client_hashtable, r) /\ username' = username
    <3>1. CASE get_max_fd
      BY <2>1, <3>1, TableFirst DEF get_max_fd
    <3>2. CASE get_max_fd_turn
      <4>1. cur_index \in Bucket
        BY <3>2 DEF IInv, TableLoop, get_max_fd_turn
      <4> QED BY <2>1, <3>2, <4>1, TableNext DEF get_max_fd_turn
    <3> QED BY <1>9, <3>1, <3>2
  <2>3. Stored' = Stored
    BY <2>1, <2>2, MovedTo
  <2> QED BY <1>5, <2>2, <2>3
<1>10. CASE client_list_destroy \/ client_list_destroy_next \/ loop_end \/ client_list_destroy_end
  <2>1. username' = username
    BY <1>10 DEF client_list_destroy, client_list_destroy_next, loop_end, client_list_destroy_end
  <2>2. Stored' = Stored
    BY <1>10, DestroyKept, EndKept
  <2> QED BY <1>5, <2>1, <2>2
<1> QED BY <1>2, <1>3, <1>6, <1>7, <1>8, <1>9, <1>10 DEF Next, Stopped

\* The list and the hash table, cursors, early exits and all, implement the table of
\* clients that the handlers of the server rely on.
THEOREM TableImplemented == Spec => TableSpec
<1>1. Init => Table!Init
  <2> SUFFICES ASSUME Init PROVE Table!Init
    OBVIOUS
  <2>1. \A b \in Bucket : client_hashtable[b].nodes = <<>>
    BY DEF Init, LIST_INIT
  <2>2. Stored = {}
    BY <2>1 DEF Stored, ToSet
  <2> QED BY <2>2 DEF Table!Init
<1>2. IInv /\ [Next]_vars => [Table!Next]_Table!vars
  BY TableStep
<1> QED BY <1>1, <1>2, Inductive, PTL DEF Spec, TableSpec, Table!Spec
=============================================================================
