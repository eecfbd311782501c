----------------------------- MODULE FatFileProofs -----------------------------
(***************************************************************************)
(* Proofs about the FAT driver, for every size of sector, cluster and cache,  *)
(* every number of clusters and calls, and every consistent FAT.             *)
(*                                                                          *)
(* First what the tables give: FAT_NextCluster, the plain and the compressed  *)
(* table and findCluster all lead to the cluster a file's chain has there.    *)
(* Then what a turn transfers: the sectors from a place on, however clusters  *)
(* are grouped, are the file's next bytes.  Then the invariant, step by step, *)
(* and from it the three theorems at the end: the buffer holds what its tags  *)
(* say, a write stays in its range, and the driver's files are ByteFile's.    *)
(***************************************************************************)
EXTENDS FatFile, FiniteSetTheorems, SequenceTheorems, TLAPS

-----------------------------------------------------------------------------
(* Naturals: induction, and what the places of a file need of division.       *)

(* Every non-empty set of naturals has a least element.                     *)
LEMMA LeastExists ==
  ASSUME NEW T, T \subseteq Nat, T # {}
  PROVE  \E x \in T : \A y \in T : x <= y
<1> DEFINE I == {0..x : x \in T}
<1>1. I \subseteq FiniteSubsetsOf(Nat)
  <2> SUFFICES ASSUME NEW x \in T PROVE 0..x \in FiniteSubsetsOf(Nat)
    OBVIOUS
  <2>1. IsFiniteSet(0..x)
    BY FS_Interval
  <2> QED
    BY <2>1 DEF FiniteSubsetsOf
<1>2. I # {}
  OBVIOUS
<1>3. PICK J \in I : \A K \in I : ~ (<<K, J>> \in StrictSubsetOrdering(Nat))
  <2> HIDE DEF I
  <2> QED
    BY <1>1, <1>2, FS_StrictSubsetOrderingWellFounded, WFMin
<1>4. PICK x \in T : J = 0..x
  BY <1>3
<1>5. ASSUME NEW y \in T, y < x PROVE FALSE
  <2>1. /\ 0..y \subseteq Nat /\ 0..x \subseteq Nat
        /\ 0..y \subseteq 0..x /\ 0..y # 0..x
    BY <1>5
  <2>2. <<0..y, 0..x>> \in StrictSubsetOrdering(Nat)
    BY <2>1 DEF StrictSubsetOrdering
  <2> QED
    BY <1>3, <1>4, <2>2
<1> QED
  BY <1>5

(* Induction over the naturals, for a set.                                  *)
LEMMA SetInduction ==
  ASSUME NEW S, 0 \in S, \A n \in Nat : n \in S => n + 1 \in S
  PROVE  Nat \subseteq S
<1> SUFFICES ASSUME NEW x \in Nat, x \notin S PROVE FALSE
  OBVIOUS
<1> DEFINE T == Nat \ S
<1>1. T \subseteq Nat /\ T # {}
  OBVIOUS
<1>2. PICK m \in T : \A y \in T : m <= y
  <2> HIDE DEF T
  <2> QED
    BY <1>1, LeastExists
<1>3. m \in Nat \ {0} /\ m - 1 \in Nat
  OBVIOUS
<1>4. m - 1 \in S
  BY <1>2, <1>3
<1> QED
  BY <1>3, <1>4

(* A product of naturals is one.                                            *)
LEMMA Product ==
  ASSUME NEW a \in Nat, NEW n \in Nat
  PROVE  a * n \in Nat
  OBVIOUS

(* Products keep their order, and a whole factor apart.                     *)
LEMMA ProductLess ==
  ASSUME NEW a \in Nat, NEW b \in Nat, NEW n \in Nat, a < b
  PROVE  a * n + n <= b * n
<1>1. PICK d \in Nat : b = a + 1 + d
  <2>1. b - a - 1 \in Nat
    OBVIOUS
  <2> QED
    BY <2>1
<1>2. b * n = a * n + n + d * n
  BY <1>1
<1>3. d * n \in Nat
  OBVIOUS
<1> QED
  BY <1>2, <1>3

(* The quotient and the remainder of a division.                            *)
LEMMA Division ==
  ASSUME NEW a \in Nat, NEW n \in Nat \ {0}
  PROVE  /\ a \div n \in Nat
         /\ a % n \in 0..(n - 1)
         /\ a = (a \div n) * n + (a % n)
  OBVIOUS

(* A split into a multiple and a remainder is the division.                 *)
LEMMA DivisionUnique ==
  ASSUME NEW q \in Nat, NEW n \in Nat \ {0}, NEW r \in 0..(n - 1)
  PROVE  /\ (q * n + r) \div n = q
         /\ (q * n + r) % n = r
<1> DEFINE a == q * n + r
           p == a \div n
           s == a % n
<1>1. a \in Nat
  OBVIOUS
<1>2. /\ p \in Nat
      /\ s \in 0..(n - 1)
      /\ a = p * n + s
  BY <1>1, Division
<1>3. ~(p < q)
  BY <1>2, ProductLess
<1>4. ~(q < p)
  BY <1>2, ProductLess
<1>5. p = q /\ s = r
  BY <1>2, <1>3, <1>4
<1> QED
  BY <1>5

(* The quotient of what lies below a multiple.                              *)
LEMMA DivisionLess ==
  ASSUME NEW a \in Nat, NEW n \in Nat \ {0}, NEW m \in Nat, a < m * n
  PROVE  a \div n < m
<1> DEFINE q == a \div n
<1>1. q \in Nat /\ a % n \in 0..(n - 1) /\ a = q * n + (a % n) /\ q * n \in Nat /\ m * n \in Nat
  BY Division, Product
<1> SUFFICES ASSUME m <= q PROVE FALSE
  BY <1>1
<1> HIDE DEF q
<1>2. CASE m = q
  BY <1>1, <1>2
<1>3. CASE m < q
  <2>1. m * n + n <= q * n
    BY <1>1, <1>3, ProductLess
  <2> QED
    BY <1>1, <2>1
<1> QED
  BY <1>1, <1>2, <1>3

-----------------------------------------------------------------------------
(* What the boot leaves for good: a FAT that links no cluster twice.         *)
Geometry ==
  /\ discSecPerClus \in Nat \ {0}
  /\ chain \in [File -> Seq(Cluster)]
  /\ \A f, g \in File : \A i \in 1..Len(chain[f]), j \in 1..Len(chain[g]) :
       chain[f][i] = chain[g][j] => f = g /\ i = j

-----------------------------------------------------------------------------
(* Cluster chains and their tables.                                         *)

(* FAT_NextCluster goes from each cluster of a file to the one after it.     *)
LEMMA NextClusterInChain ==
  ASSUME Geometry, NEW f \in File, NEW i \in 1..(Len(chain[f]) - 1)
  PROVE  NextCluster(chain[f][i]) = chain[f][i + 1]
<1> DEFINE c == chain[f][i]
           g == CHOOSE g \in File : \E j \in 1..(Len(chain[g]) - 1) : chain[g][j] = c
           j == CHOOSE j \in 1..(Len(chain[g]) - 1) : chain[g][j] = c
<1>1. g \in File /\ \E k \in 1..(Len(chain[g]) - 1) : chain[g][k] = c
  OBVIOUS
<1>2. j \in 1..(Len(chain[g]) - 1) /\ chain[g][j] = c
  BY <1>1
<1>3. \A h \in File : Len(chain[h]) \in Nat
  BY DEF Geometry
<1>4. i \in 1..Len(chain[f]) /\ j \in 1..Len(chain[g])
  BY <1>1, <1>2, <1>3, SMTT(30)
<1>5. g = f /\ j = i
  BY <1>1, <1>2, <1>4, SMTT(30) DEF Geometry
<1>6. NextCluster(c) = chain[g][j + 1]
  BY <1>1 DEF NextCluster
<1> QED
  BY <1>5, <1>6

(* findCluster's loop: n clusters further along the chain.                  *)
LEMMA FollowChainInChain ==
  ASSUME Geometry, NEW f \in File, NEW i \in 1..Len(chain[f]), NEW n \in Nat,
         i + n <= Len(chain[f])
  PROVE  FollowChain(chain[f][i], n) = chain[f][i + n]
<1> DEFINE c == chain[f][i]
           Body(g) == [k \in 0..n |-> IF k = 0 THEN c ELSE NextCluster(g[k - 1])]
           after == CHOOSE g : g = Body(g)
           walk == [k \in 0..n |-> chain[f][i + k]]
<1>1. walk = Body(walk)
  <2>1. ASSUME NEW k \in 1..n
        PROVE  walk[k] = NextCluster(walk[k - 1])
    <3>1. i + (k - 1) \in 1..(Len(chain[f]) - 1)
      BY DEF Geometry
    <3>2. NextCluster(chain[f][i + (k - 1)]) = chain[f][i + k]
      BY <3>1, NextClusterInChain
    <3> QED
      BY <3>2
  <2>2. walk[0] = c
    BY DEF Geometry
  <2>3. \A k \in 0..n : walk[k] = IF k = 0 THEN c ELSE NextCluster(walk[k - 1])
    <3> HIDE DEF walk, c
    <3> QED
      BY <2>1, <2>2
  <2> QED
    BY <2>3
<1>2. after = Body(after)
  <2> HIDE DEF Body, walk
  <2> QED
    BY <1>1
<1>3. \A k \in Nat : k \in 0..n => after[k] = walk[k]
  <2> DEFINE S == {k \in Nat : k \in 0..n => after[k] = walk[k]}
  <2> HIDE DEF after, walk
  <2>1. 0 \in S
    BY <1>1, <1>2
  <2>2. ASSUME NEW k \in Nat, k \in S
        PROVE  k + 1 \in S
    BY <1>1, <1>2, <2>2
  <2>3. Nat \subseteq S
    <3> HIDE DEF S
    <3> QED
      BY <2>1, <2>2, SetInduction
  <2> QED
    BY <2>3
<1>4. FollowChain(c, n) = after[n]
  BY DEF FollowChain
<1> QED
  BY <1>3, <1>4

(* b counts the clusters of the first runs of table t, and the runs are the   *)
(* first n clusters of s.                                                   *)
Counts(b, t, s, n) ==
  /\ b \in [0..Len(t) -> Nat] /\ b[0] = 0 /\ b[Len(t)] = n
  /\ \A k \in 1..Len(t) :
       /\ b[k] = b[k - 1] + t[k][2]
       /\ \A i \in b[k - 1]..(b[k] - 1) : s[i + 1] = t[k][1] + (i - b[k - 1])

Run == Nat \X Nat

(* A cluster that follows lengthens the last run, another starts one.        *)
LEMMA LongerCounts ==
  ASSUME NEW s \in Seq(Nat), NEW n \in 1..(Len(s) - 1), NEW t \in Seq(Run), t # <<>>,
         NEW b, Counts(b, t, s, n), s[n + 1] = s[n] + 1, t[Len(t)][2] > 0
  PROVE  /\ Longer(t) \in Seq(Run) /\ Longer(t) # <<>>
         /\ Longer(t)[Len(Longer(t))][2] > 0
         /\ \E c : Counts(c, Longer(t), s, n + 1)
<1> DEFINE u == Longer(t)
           m == Len(t)
           c == [b EXCEPT ![m] = n + 1]
<1>0. n \in Nat \ {0} /\ n + 1 \in Nat /\ m = Len(t)
  OBVIOUS
<1>1. m \in Nat \ {0} /\ t[m][1] \in Nat /\ t[m][2] \in Nat /\ t[m][2] > 0
  <2>1. m \in 1..Len(t)
    OBVIOUS
  <2>2. t[m] \in Run
    BY <2>1, ElementOfSeq
  <2> QED
    BY <2>1, <2>2 DEF Run
<1>2. /\ u \in Seq(Run) /\ Len(u) = m
      /\ u[m] = <<t[m][1], t[m][2] + 1>>
      /\ \A k \in 1..(m - 1) : u[k] = t[k]
  <2>1. <<t[m][1], t[m][2] + 1>> \in Run
    BY <1>1 DEF Run
  <2> QED
    BY <1>1, <2>1, ExceptSeq, SMTT(30) DEF Longer
<1>3. /\ b \in [0..m -> Nat] /\ b[0] = 0 /\ b[m] = n
      /\ \A k \in 1..m :
           /\ b[k] = b[k - 1] + t[k][2]
           /\ \A i \in b[k - 1]..(b[k] - 1) : s[i + 1] = t[k][1] + (i - b[k - 1])
  BY DEF Counts
<1>4. c \in [0..m -> Nat] /\ c[0] = 0 /\ c[m] = n + 1 /\ \A k \in 0..(m - 1) : c[k] = b[k]
  BY <1>0, <1>1, <1>3
<1> HIDE DEF u, c, m
<1>5. /\ c[m - 1] = b[m - 1] /\ b[m - 1] \in Nat
      /\ n = b[m - 1] + t[m][2]
      /\ \A j \in b[m - 1]..(n - 1) : s[j + 1] = t[m][1] + (j - b[m - 1])
      /\ s[n + 1] = t[m][1] + (n - b[m - 1])
  <2>1. m - 1 \in 0..(m - 1) /\ m - 1 \in 0..m /\ m \in 1..m
    BY <1>1
  <2>2. c[m - 1] = b[m - 1] /\ b[m - 1] \in Nat
    BY <1>3, <1>4, <2>1
  <2>3. /\ n = b[m - 1] + t[m][2]
        /\ \A j \in b[m - 1]..(n - 1) : s[j + 1] = t[m][1] + (j - b[m - 1])
    <3>1. /\ b[m] = b[m - 1] + t[m][2]
          /\ \A j \in b[m - 1]..(b[m] - 1) : s[j + 1] = t[m][1] + (j - b[m - 1])
      BY <1>3, <2>1
    <3>2. b[m] = n
      BY <1>3
    <3> QED
      BY <3>1, <3>2
  <2>4. n - 1 \in b[m - 1]..(n - 1) /\ (n - 1) + 1 = n
    <3>1. n = b[m - 1] + t[m][2]
      BY <2>3
    <3>2. t[m][2] \in Nat \ {0} /\ b[m - 1] \in Nat
      BY <1>1, <2>2
    <3>3. \A x, y, z \in Int : x = y + z /\ z > 0 => y <= x - 1
      OBVIOUS
    <3>4. b[m - 1] <= n - 1
      BY <1>0, <3>1, <3>2, <3>3, SMTT(30)
    <3> QED
      BY <1>0, <3>2, <3>4
  <2>5. s[n] = t[m][1] + ((n - 1) - b[m - 1])
    BY <2>3, <2>4
  <2>6. s[n + 1] = t[m][1] + (n - b[m - 1])
    BY <1>0, <1>1, <2>2, <2>5, SMTT(30)
  <2> QED
    BY <2>2, <2>3, <2>6
<1>6. ASSUME NEW k \in 1..m, NEW i \in c[k - 1]..(c[k] - 1)
      PROVE  s[i + 1] = u[k][1] + (i - c[k - 1])
  <2>1. CASE k < m
    <3>1. u[k] = t[k]
      BY <1>1, <1>2, <2>1, SMTT(30)
    <3>2. c[k] = b[k] /\ c[k - 1] = b[k - 1]
      BY <1>1, <1>4, <2>1
    <3> QED
      BY <1>3, <3>1, <3>2
  <2>2. CASE k = m
    <3>1. i \in b[m - 1]..n
      BY <1>0, <1>4, <1>5, <2>2
    <3>2. i = n \/ i \in b[m - 1]..(n - 1)
      BY <1>0, <1>5, <3>1
    <3>3. s[i + 1] = t[m][1] + (i - b[m - 1])
      BY <1>0, <1>5, <3>2
    <3>4. c[m - 1] = b[m - 1] /\ u[m][1] = t[m][1]
      BY <1>2, <1>5
    <3> QED
      BY <2>2, <3>3, <3>4
  <2> QED
    BY <1>1, <2>1, <2>2
<1>7. ASSUME NEW k \in 1..m
      PROVE  c[k] = c[k - 1] + u[k][2]
  <2>1. CASE k < m
    <3>1. u[k] = t[k]
      BY <1>1, <1>2, <2>1
    <3>2. c[k] = b[k] /\ c[k - 1] = b[k - 1]
      BY <1>1, <1>4, <2>1
    <3> QED
      BY <1>3, <3>1, <3>2
  <2>2. CASE k = m
    <3>1. c[m] = n + 1 /\ u[m][2] = t[m][2] + 1
      BY <1>2, <1>4
    <3> QED
      BY <1>0, <1>1, <1>5, <2>2, <3>1, SMTT(30)
  <2> QED
    BY <1>1, <2>1, <2>2
<1>8. Counts(c, u, s, n + 1)
  BY <1>2, <1>4, <1>6, <1>7 DEF Counts
<1>9. u # <<>> /\ u[Len(u)][2] > 0
  BY <1>1, <1>2
<1> QED
  BY <1>2, <1>8, <1>9 DEF u

(* A run that is started has one cluster, and counts as one.                *)
LEMMA AppendCounts ==
  ASSUME NEW s \in Seq(Nat), NEW n \in 0..(Len(s) - 1), NEW t \in Seq(Run),
         NEW b, Counts(b, t, s, n)
  PROVE  LET u == Append(t, <<s[n + 1], 1>>)
         IN  /\ u \in Seq(Run) /\ u # <<>> /\ u[Len(u)][2] > 0
             /\ \E c : Counts(c, u, s, n + 1)
<1> DEFINE u == Append(t, <<s[n + 1], 1>>)
           m == Len(t)
           c == [k \in 0..(m + 1) |-> IF k = m + 1 THEN n + 1 ELSE b[k]]
<1>1. m \in Nat /\ s[n + 1] \in Nat /\ n \in Nat
  OBVIOUS
<1>2. /\ u \in Seq(Run) /\ Len(u) = m + 1
      /\ u[m + 1] = <<s[n + 1], 1>>
      /\ \A k \in 1..m : u[k] = t[k]
  <2>1. <<s[n + 1], 1>> \in Run
    BY <1>1 DEF Run
  <2> QED
    BY <2>1, AppendProperties
<1>3. /\ b \in [0..m -> Nat] /\ b[0] = 0 /\ b[m] = n
      /\ \A k \in 1..m :
           /\ b[k] = b[k - 1] + t[k][2]
           /\ \A i \in b[k - 1]..(b[k] - 1) : s[i + 1] = t[k][1] + (i - b[k - 1])
  BY DEF Counts
<1>4. /\ c \in [0..(m + 1) -> Nat] /\ c[m + 1] = n + 1 /\ \A k \in 0..m : c[k] = b[k]
      /\ c[0] = 0 /\ c[m] = n
  BY <1>1, <1>3
<1> HIDE DEF u, c, m
<1>5. ASSUME NEW k \in 1..(m + 1)
      PROVE  /\ c[k] = c[k - 1] + u[k][2]
             /\ \A i \in c[k - 1]..(c[k] - 1) : s[i + 1] = u[k][1] + (i - c[k - 1])
  <2>1. CASE k = m + 1
    <3>1. c[k] = n + 1 /\ c[k - 1] = n /\ u[k] = <<s[n + 1], 1>>
      BY <1>1, <1>2, <1>4, <2>1
    <3> QED
      BY <1>1, <3>1
  <2>2. CASE k \in 1..m
    <3>1. u[k] = t[k]
      BY <1>1, <1>2, <2>2
    <3>2. c[k] = b[k] /\ c[k - 1] = b[k - 1]
      BY <1>1, <1>4, <2>2
    <3> QED
      BY <1>3, <2>2, <3>1, <3>2
  <2> QED
    BY <1>1, <2>1, <2>2
<1>6. Counts(c, u, s, n + 1)
  BY <1>2, <1>4, <1>5 DEF Counts
<1>7. u # <<>> /\ u[Len(u)][2] > 0
  BY <1>1, <1>2
<1> QED
  BY <1>2, <1>6, <1>7 DEF u

(* buildFatTableCacheCompressed: the runs are the whole chain.               *)
LEMMA RunsCount ==
  ASSUME NEW s \in Seq(Nat)
  PROVE  Runs(s) \in Seq(Run) /\ \E b : Counts(b, Runs(s), s, Len(s))
<1> DEFINE Body(g, n) == [i \in 0..n |->
                            IF i = 0 THEN <<>>
                            ELSE IF Follows(s, i) THEN Longer(g[i - 1])
                            ELSE Append(g[i - 1], <<s[i], 1>>)]
           Table(t, n) == /\ t \in Seq(Run) /\ \E b : Counts(b, t, s, n)
                          /\ n > 0 => t # <<>> /\ t[Len(t)][2] > 0
           Good(g, n)  == g = Body(g, n) /\ \A i \in 0..n : Table(g[i], i)
           S == {n \in Nat : n <= Len(s) => \E g : Good(g, n)}
           L == Len(s)
<1>0. L \in Nat /\ L = Len(s)
  OBVIOUS
<1>1. Table(<<>>, 0)
  <2> DEFINE b == [k \in 0..0 |-> 0]
  <2>1. Counts(b, <<>>, s, 0)
    BY DEF Counts
  <2> QED
    BY <2>1
<1>2. ASSUME NEW n \in Nat, n + 1 <= L, NEW t, Table(t, n)
      PROVE  Table(IF Follows(s, n + 1) THEN Longer(t)
                   ELSE Append(t, <<s[n + 1], 1>>), n + 1)
  <2>1. CASE Follows(s, n + 1)
    <3>1. n \in 1..(Len(s) - 1) /\ s[n + 1] = s[n] + 1
      BY <1>0, <1>2, <2>1 DEF Follows
    <3> QED
      BY <1>2, <2>1, <3>1, LongerCounts
  <2>2. CASE ~Follows(s, n + 1)
    <3>1. n \in 0..(Len(s) - 1)
      BY <1>0, <1>2
    <3> QED
      BY <1>2, <2>2, <3>1, AppendCounts
  <2> QED
    BY <2>1, <2>2
<1>3. 0 \in S
  <2> DEFINE g == [i \in 0..0 |-> <<>>]
  <2>1. g = Body(g, 0) /\ g[0] = <<>>
    OBVIOUS
  <2>2. Good(g, 0)
    <3> HIDE DEF g, Body, Table
    <3> QED
      BY <1>1, <2>1
  <2> QED
    BY <2>2
<1>4. ASSUME NEW n \in Nat, n \in S
      PROVE  n + 1 \in S
  <2> SUFFICES ASSUME n + 1 <= L PROVE \E g : Good(g, n + 1)
    <3> HIDE DEF Good, L
    <3> QED
      BY <1>0, <1>4
  <2>1. PICK g : Good(g, n)
    <3> HIDE DEF Good, L
    <3> QED
      BY <1>0, <1>4
  <2> DEFINE new == IF Follows(s, n + 1) THEN Longer(g[n])
                    ELSE Append(g[n], <<s[n + 1], 1>>)
             h == [i \in 0..(n + 1) |-> IF i = n + 1 THEN new ELSE g[i]]
  <2>2. h[n + 1] = new /\ \A i \in 0..n : h[i] = g[i]
    OBVIOUS
  <2>3. Table(new, n + 1)
    <3> HIDE DEF Table
    <3> QED
      BY <1>2, <2>1
  <2>4. h = Body(h, n + 1)
    <3>1. \A i \in 0..(n + 1) : h[i] = IF i = 0 THEN <<>>
                            ELSE IF Follows(s, i) THEN Longer(h[i - 1])
                            ELSE Append(h[i - 1], <<s[i], 1>>)
      <4> SUFFICES ASSUME NEW i \in 0..(n + 1)
                   PROVE  h[i] = IF i = 0 THEN <<>>
                            ELSE IF Follows(s, i) THEN Longer(h[i - 1])
                            ELSE Append(h[i - 1], <<s[i], 1>>)
        OBVIOUS
      <4> HIDE DEF h
      <4>1. CASE i = n + 1
        BY <2>2, <4>1
      <4>2. CASE i \in 0..n
        <5>1. g[i] = IF i = 0 THEN <<>>
                            ELSE IF Follows(s, i) THEN Longer(g[i - 1])
                            ELSE Append(g[i - 1], <<s[i], 1>>)
          BY <2>1, <4>2
        <5>2. h[i] = g[i] /\ (i # 0 => h[i - 1] = g[i - 1])
          BY <2>2, <4>2
        <5> QED
          BY <5>1, <5>2
      <4> QED
        BY <4>1, <4>2
    <3> QED
      BY <3>1
  <2>5. Good(h, n + 1)
    <3> HIDE DEF h, new, Body, Table
    <3>1. \A i \in 0..(n + 1) : Table(h[i], i)
      BY <2>1, <2>2, <2>3
    <3> QED
      BY <2>4, <3>1
  <2> QED
    BY <2>5
<1>5. PICK g : Good(g, L)
  <2>1. Nat \subseteq S
    <3> HIDE DEF S
    <3> QED
      BY <1>3, <1>4, SetInduction
  <2> HIDE DEF Good, L
  <2> QED
    BY <1>0, <2>1
<1> DEFINE runs == CHOOSE r : r = Body(r, L)
<1>6. runs = Body(runs, L)
  <2> HIDE DEF Body
  <2> QED
    BY <1>5
<1>7. \A i \in Nat : i <= L => runs[i] = g[i]
  <2> DEFINE I == {i \in Nat : i <= L => runs[i] = g[i]}
  <2> HIDE DEF runs, L
  <2>1. \A i \in 0..L : /\ runs[i] = Body(runs, L)[i]
                        /\ g[i] = Body(g, L)[i]
    <3> HIDE DEF Body
    <3> QED
      BY <1>5, <1>6
  <2>2. 0 \in I
    <3>1. 0 \in 0..L
      BY <1>0
    <3>2. Body(runs, L)[0] = <<>> /\ Body(g, L)[0] = <<>>
      BY <3>1
    <3> HIDE DEF Body
    <3> QED
      BY <2>1, <3>1, <3>2
  <2>3. ASSUME NEW i \in Nat, i \in I
        PROVE  i + 1 \in I
    <3> SUFFICES ASSUME i + 1 <= L PROVE runs[i + 1] = g[i + 1]
      OBVIOUS
    <3>1. i + 1 \in 0..L /\ i + 1 # 0 /\ (i + 1) - 1 = i
      BY <1>0
    <3>2. runs[i] = g[i]
      BY <1>0, <2>3, <3>1
    <3>3. /\ Body(runs, L)[i + 1] = IF Follows(s, i + 1) THEN Longer(runs[i])
                                    ELSE Append(runs[i], <<s[i + 1], 1>>)
          /\ Body(g, L)[i + 1] = IF Follows(s, i + 1) THEN Longer(g[i])
                                 ELSE Append(g[i], <<s[i + 1], 1>>)
      BY <3>1
    <3> HIDE DEF Body
    <3> QED
      BY <2>1, <3>1, <3>2, <3>3
  <2>4. Nat \subseteq I
    <3> HIDE DEF I
    <3> QED
      BY <2>2, <2>3, SetInduction
  <2> QED
    BY <2>4
<1>8. Runs(s) = runs[L]
  BY DEF Runs
<1>9. runs[L] = g[L] /\ Table(g[L], L)
  <2> HIDE DEF runs, Table, Body
  <2>1. L \in 0..L
    BY <1>0
  <2>2. Table(g[L], L)
    BY <1>5, <2>1
  <2>3. runs[L] = g[L]
    <3> HIDE DEF Good, L
    <3> QED
      BY <1>0, <1>7, <2>1
  <2> QED
    BY <2>2, <2>3
<1> QED
  BY <1>8, <1>9

(* The clusters before each run of a table that counts right.               *)
LEMMA BeforeCounts ==
  ASSUME NEW t \in Seq(Run), NEW s, NEW n, NEW b, Counts(b, t, s, n)
  PROVE  \A k \in 0..Len(t) : Before(t)[k] = b[k]
<1> DEFINE L == Len(t)
           Body(g) == [k \in 0..L |-> IF k = 0 THEN 0 ELSE g[k - 1] + t[k][2]]
           before == CHOOSE g : g = Body(g)
<1>0. L \in Nat /\ L = Len(t)
  OBVIOUS
<1>1. /\ b \in [0..L -> Nat] /\ b[0] = 0
      /\ \A k \in 1..L : b[k] = b[k - 1] + t[k][2]
  BY DEF Counts
<1>2. b = Body(b)
  <2>1. \A k \in 0..L : b[k] = IF k = 0 THEN 0 ELSE b[k - 1] + t[k][2]
    <3> HIDE DEF L
    <3> QED
      BY <1>0, <1>1
  <2> QED
    BY <1>1, <2>1
<1>3. before = Body(before)
  <2> HIDE DEF Body
  <2> QED
    BY <1>2
<1>4. \A k \in Nat : k <= L => before[k] = b[k]
  <2> DEFINE I == {k \in Nat : k <= L => before[k] = b[k]}
  <2> HIDE DEF before, L
  <2>1. 0 \in I
    BY <1>0, <1>1, <1>3
  <2>2. ASSUME NEW k \in Nat, k \in I
        PROVE  k + 1 \in I
    <3> SUFFICES ASSUME k + 1 <= L PROVE before[k + 1] = b[k + 1]
      OBVIOUS
    <3>1. k + 1 \in 1..L /\ (k + 1) - 1 = k
      BY <1>0
    <3>2. before[k] = b[k]
      BY <1>0, <2>2, <3>1
    <3>3. before[k + 1] = before[k] + t[k + 1][2]
      <4>1. Body(before)[k + 1] = before[k] + t[k + 1][2]
        BY <3>1
      <4> HIDE DEF Body
      <4> QED
        BY <1>3, <4>1
    <3> QED
      BY <1>1, <3>1, <3>2, <3>3
  <2>3. Nat \subseteq I
    <3> HIDE DEF I
    <3> QED
      BY <2>1, <2>2, SetInduction
  <2> QED
    BY <2>3
<1>5. Before(t) = before
  BY DEF Before
<1> QED
  BY <1>0, <1>4, <1>5

(* What each file's table holds once the loader has made it.                 *)
Tables ==
  \A f \in File :
    /\ cached[f] \in {"no", "plain", "compressed"}
    /\ cached[f] = "plain" => fatTable[f] = chain[f]
    /\ cached[f] = "compressed" => fatTable[f] = Runs(chain[f])

(* getCachedCluster: within a file, either table gives the chain's cluster.   *)
LEMMA CachedClusterInChain ==
  ASSUME Geometry, Tables, NEW f \in File, cached[f] # "no",
         NEW i \in 0..(Len(chain[f]) - 1)
  PROVE  GetCachedCluster(f, i) = chain[f][i + 1]
<1> DEFINE s == chain[f]
           t == fatTable[f]
<1>1. s \in Seq(Nat) /\ Len(s) \in Nat
  <2>1. s \in Seq(Cluster) /\ Cluster \subseteq Nat
    BY GeometryAssumption DEF Geometry, Cluster
  <2>2. Seq(Cluster) \subseteq Seq(Nat)
    BY <2>1, SeqMonotonic, Zenon
  <2>3. s \in Seq(Nat)
    BY <2>1, <2>2
  <2> QED
    BY <2>3
<1>2. CASE cached[f] = "plain"
  BY <1>1, <1>2 DEF Tables, GetCachedCluster
<1>3. CASE cached[f] = "compressed"
  <2>1. t = Runs(s)
    BY <1>3 DEF Tables
  <2>2. t \in Seq(Run)
    BY <1>1, <2>1, RunsCount
  <2>3. PICK b : Counts(b, t, s, Len(s))
    BY <1>1, <2>1, RunsCount
  <2> DEFINE L == Len(t)
             hit == {k \in 1..L : i \in Before(t)[k - 1]..(Before(t)[k] - 1)}
             k0 == CHOOSE k \in hit : TRUE
  <2>4. L \in Nat /\ \A k \in 0..L : Before(t)[k] = b[k]
    BY <2>2, <2>3, BeforeCounts
  <2>5. /\ b \in [0..L -> Nat] /\ b[0] = 0 /\ b[L] = Len(s)
        /\ \A k \in 1..L : \A j \in b[k - 1]..(b[k] - 1) :
             s[j + 1] = t[k][1] + (j - b[k - 1])
    BY <2>3 DEF Counts
  <2>6. hit # {}
    <3>0. i \in Nat /\ i < Len(s)
      BY <1>1
    <3> DEFINE Past0 == {k \in 0..L : i < b[k]}
    <3> HIDE DEF t, L, s
    <3>1. Past0 \subseteq Nat /\ L \in Past0
      BY <1>1, <3>0, <2>4, <2>5
    <3>2. PICK k \in Past0 : \A j \in Past0 : k <= j
      <4> HIDE DEF Past0
      <4> QED
        BY <3>1, LeastExists
    <3>3. k # 0
      BY <2>5
    <3>4. k \in 1..L /\ k - 1 \in 0..L /\ k - 1 \notin Past0
      BY <2>4, <3>2, <3>3
    <3>5. i \in b[k - 1]..(b[k] - 1)
      BY <2>5, <3>4
    <3>6. k \in hit
      BY <2>4, <3>4, <3>5
    <3> QED
      BY <3>6
  <2>7. k0 \in hit
    <3> HIDE DEF hit
    <3> QED
      BY <2>6
  <2>8. GetCachedCluster(f, i) = t[k0][1] + (i - Before(t)[k0 - 1])
    BY <1>3, <2>6 DEF GetCachedCluster
  <2> HIDE DEF k0, t, s, L
  <2>9. /\ k0 \in 1..L /\ k0 - 1 \in 0..L /\ i \in b[k0 - 1]..(b[k0] - 1)
        /\ Before(t)[k0 - 1] = b[k0 - 1]
    <3>1. k0 \in 1..L /\ k0 - 1 \in 0..L /\ i \in Before(t)[k0 - 1]..(Before(t)[k0] - 1)
      BY <2>4, <2>7
    <3> QED
      BY <2>4, <3>1
  <2> QED
    BY <2>5, <2>8, <2>9 DEF s
<1> QED
  BY <1>2, <1>3 DEF Tables

-----------------------------------------------------------------------------
(* Sectors and bytes.                                                       *)

Sectors(f) == Len(chain[f]) * discSecPerClus

(* The sector of the volume that holds sector k of a file.                   *)
FileSector(f, k) ==
  ClustToSect(chain[f][k \div discSecPerClus + 1]) + (k % discSecPerClus)

(* The sizes of clusters and files.                                         *)
LEMMA ChainTypes ==
  ASSUME Geometry, NEW f \in File
  PROVE  /\ Len(chain[f]) \in Nat
         /\ \A i \in 1..Len(chain[f]) : chain[f][i] \in 1..NClusters
         /\ Sectors(f) \in Nat
         /\ BytePerClus \in Nat \ {0}
         /\ FileSize(f) = Sectors(f) * BytesPerSector
<1>1. chain[f] \in Seq(Cluster) /\ discSecPerClus \in Nat \ {0}
  BY DEF Geometry
<1>2. /\ Len(chain[f]) \in Nat
      /\ \A i \in 1..Len(chain[f]) : chain[f][i] \in 1..NClusters
  <2>1. \A i \in 1..Len(chain[f]) : chain[f][i] \in Cluster
    BY <1>1
  <2> QED
    BY <1>1, <2>1 DEF Cluster
<1>3. \A a, b \in Nat \ {0} : a * b \in Nat \ {0}
  OBVIOUS
<1>4. \A a, b, c \in Nat : a * (b * c) = (a * c) * b
  OBVIOUS
<1>5. BytesPerSector \in Nat \ {0} /\ BytePerClus = BytesPerSector * discSecPerClus
  BY GeometryAssumption DEF BytePerClus
<1>6. FileSize(f) = Len(chain[f]) * (BytesPerSector * discSecPerClus)
  BY <1>5 DEF FileSize
<1>7. Sectors(f) = Len(chain[f]) * discSecPerClus
  BY DEF Sectors
<1>8. Sectors(f) \in Nat /\ BytePerClus \in Nat \ {0}
  BY <1>1, <1>2, <1>3, <1>5, <1>7, Product
<1>9. FileSize(f) = Sectors(f) * BytesPerSector
  <2>1. BytesPerSector \in Nat /\ discSecPerClus \in Nat /\ Len(chain[f]) \in Nat
    BY <1>1, <1>2, <1>5
  <2>2. Len(chain[f]) * (BytesPerSector * discSecPerClus)
          = (Len(chain[f]) * discSecPerClus) * BytesPerSector
    BY <1>4, <2>1
  <2> QED
    BY <1>6, <1>7, <2>2, Zenon
<1> QED
  BY <1>2, <1>8, <1>9

(* A file's size.                                                           *)
LEMMA FileSizeNat ==
  ASSUME Geometry, NEW f \in File
  PROVE  FileSize(f) \in Nat
<1>1. FileSize(f) = Sectors(f) * BytesPerSector /\ Sectors(f) \in Nat
  BY ChainTypes
<1> QED
  BY <1>1, GeometryAssumption, Product

(* A sector's cluster and its place there.                                  *)
LEMMA SectorSplit ==
  ASSUME Geometry, NEW f \in File, NEW k \in 0..(Sectors(f) - 1)
  PROVE  /\ k \div discSecPerClus \in 0..(Len(chain[f]) - 1)
         /\ k % discSecPerClus \in 0..(discSecPerClus - 1)
         /\ k = (k \div discSecPerClus) * discSecPerClus + (k % discSecPerClus)
<1> DEFINE d == discSecPerClus
           m == k \div d
           L == Len(chain[f])
<1>1. d \in Nat \ {0} /\ L \in Nat /\ k \in Nat /\ k < L * d
  BY ChainTypes DEF Geometry, Sectors
<1>2. m \in Nat /\ k % d \in 0..(d - 1) /\ k = m * d + (k % d)
  BY <1>1, Division
<1>3. m < L
  BY <1>1, DivisionLess
<1> HIDE DEF L, m
<1> QED
  BY <1>1, <1>2, <1>3 DEF L, m

(* And the other way round.                                                 *)
LEMMA SectorJoin ==
  ASSUME Geometry, NEW f \in File, NEW m \in 0..(Len(chain[f]) - 1),
         NEW s \in 0..(discSecPerClus - 1)
  PROVE  /\ m * discSecPerClus + s \in 0..(Sectors(f) - 1)
         /\ FileSector(f, m * discSecPerClus + s) = ClustToSect(chain[f][m + 1]) + s
<1> DEFINE d == discSecPerClus
           L == Len(chain[f])
<1>1. d \in Nat \ {0} /\ L \in Nat /\ m \in Nat /\ m < L /\ s \in Nat /\ s < d
  BY ChainTypes DEF Geometry
<1>2. m * d \in Nat /\ L * d \in Nat /\ m * d + d <= L * d
  BY <1>1, Product, ProductLess
<1>3. (m * d + s) \div d = m /\ (m * d + s) % d = s
  BY <1>1, DivisionUnique
<1>4. m * d + s \in 0..(L * d - 1)
  <2> HIDE DEF d, L
  <2>1. \A x, y \in Nat : x + d <= y => x + s \in 0..(y - 1)
    BY <1>1
  <2> QED
    BY <1>2, <2>1
<1> QED
  BY <1>3, <1>4 DEF Sectors, FileSector

(* Different sectors of files are different sectors of the volume.           *)
LEMMA FileSectorInjective ==
  ASSUME Geometry, NEW f \in File, NEW g \in File,
         NEW k \in 0..(Sectors(f) - 1), NEW l \in 0..(Sectors(g) - 1),
         FileSector(f, k) = FileSector(g, l)
  PROVE  f = g /\ k = l
<1> DEFINE d == discSecPerClus
           m == k \div d
           n == l \div d
           a == chain[f][m + 1]
           b == chain[g][n + 1]
<1>1. /\ m \in 0..(Len(chain[f]) - 1) /\ k % d \in 0..(d - 1) /\ k = m * d + (k % d)
      /\ n \in 0..(Len(chain[g]) - 1) /\ l % d \in 0..(d - 1) /\ l = n * d + (l % d)
  BY SectorSplit
<1>2. /\ d \in Nat \ {0} /\ Len(chain[f]) \in Nat /\ Len(chain[g]) \in Nat
      /\ m + 1 \in 1..Len(chain[f]) /\ n + 1 \in 1..Len(chain[g])
  BY <1>1, ChainTypes DEF Geometry
<1>3. a \in Nat /\ b \in Nat
  BY <1>2, ChainTypes, GeometryAssumption, SMTT(30)
<1>4. a * d + (k % d) = b * d + (l % d)
  BY DEF FileSector, ClustToSect
<1>5. /\ (a * d + (k % d)) \div d = a /\ (a * d + (k % d)) % d = k % d
      /\ (b * d + (l % d)) \div d = b /\ (b * d + (l % d)) % d = l % d
  <2>1. k % d \in 0..(d - 1) /\ l % d \in 0..(d - 1) /\ d \in Nat \ {0}
    BY <1>1, <1>2
  <2> HIDE DEF a, b, d
  <2>2. (a * d + (k % d)) \div d = a /\ (a * d + (k % d)) % d = k % d
    BY <1>3, <2>1, DivisionUnique
  <2>3. (b * d + (l % d)) \div d = b /\ (b * d + (l % d)) % d = l % d
    BY <1>3, <2>1, DivisionUnique
  <2> QED
    BY <2>2, <2>3
<1>6. a = b /\ k % d = l % d
  <2> HIDE DEF a, b, d
  <2> QED
    BY <1>4, <1>5
<1>7. f = g /\ m + 1 = n + 1
  BY <1>2, <1>6 DEF Geometry
<1>8. m = n
  <2>1. m \in Nat /\ n \in Nat
    BY <1>1
  <2> HIDE DEF m, n
  <2> QED
    BY <1>7, <2>1
<1> QED
  BY <1>1, <1>6, <1>7, <1>8

(* A file's sectors are sectors of the volume's data clusters.              *)
LEMMA FileSectorRange ==
  ASSUME Geometry, NEW f \in File, NEW k \in 0..(Sectors(f) - 1)
  PROVE  FileSector(f, k) \in discSecPerClus..((NClusters + 1) * discSecPerClus - 1)
<1> DEFINE d == discSecPerClus
           a == chain[f][k \div d + 1]
           N == NClusters
<1>1. k % d \in 0..(d - 1) /\ d \in Nat \ {0} /\ k \div d + 1 \in 1..Len(chain[f])
  <2>1. k % d \in 0..(d - 1) /\ k \div d \in 0..(Len(chain[f]) - 1)
    BY SectorSplit
  <2>2. d \in Nat \ {0} /\ Len(chain[f]) \in Nat
    BY ChainTypes DEF Geometry
  <2> QED
    BY <2>1, <2>2
<1>2. a \in 1..N /\ N \in Nat
  BY <1>1, ChainTypes, GeometryAssumption
<1>3. FileSector(f, k) = a * d + (k % d)
  BY DEF FileSector, ClustToSect
<1>4. a * d + d <= (N + 1) * d /\ a * d \in Nat /\ (N + 1) * d \in Nat
  <2>1. a \in Nat /\ N + 1 \in Nat /\ a < N + 1
    BY <1>2
  <2> HIDE DEF a, N
  <2> QED
    BY <1>1, <2>1, ProductLess, Product
<1>5. d <= a * d
  <2>1. CASE a = 1
    BY <1>1, <2>1
  <2>2. CASE 1 < a
    <3>1. a \in Nat
      BY <1>2
    <3>2. 1 * d + d <= a * d
      BY <1>1, <2>2, <3>1, ProductLess
    <3> QED
      BY <1>1, <1>4, <3>2
  <2> QED
    BY <1>2, <2>1, <2>2
<1>6. \A x, y, r \in Nat : /\ d <= x /\ x + d <= y /\ r <= d - 1
                           => x + r \in d..(y - 1)
  BY <1>1
<1> QED
  BY <1>1, <1>3, <1>4, <1>5, <1>6

(* The byte of a sector of the volume.                                      *)
LEMMA InVolume ==
  ASSUME Geometry, NEW c \in discSecPerClus..((NClusters + 1) * discSecPerClus - 1),
         NEW b \in 0..(BytesPerSector - 1)
  PROVE  c * BytesPerSector + b \in Volume
<1> DEFINE d == discSecPerClus
           z == (NClusters + 1) * d
           B == BytesPerSector
<1>1. d \in Nat \ {0} /\ B \in Nat \ {0} /\ z \in Nat /\ c \in Nat /\ d <= c /\ c < z
  <2>1. d \in Nat \ {0} /\ B \in Nat \ {0} /\ NClusters + 1 \in Nat
    BY GeometryAssumption DEF Geometry
  <2>2. z \in Nat
    BY <2>1, Product
  <2> QED
    BY <2>1, <2>2
<1>2. Volume = (d * B)..(z * B - 1)
  <2>1. (NClusters + 1) * discSecPerClus * BytesPerSector = z * B
    OBVIOUS
  <2> QED
    BY <2>1 DEF Volume
<1>3. c * B + B <= z * B
  BY <1>1, ProductLess
<1>4. d * B <= c * B
  <2>1. CASE d < c
    <3>1. d * B + B <= c * B
      BY <1>1, <2>1, ProductLess
    <3> QED
      BY <1>1, <3>1, Product
  <2> QED
    BY <1>1, <2>1
<1>5. c * B \in Nat /\ z * B \in Nat /\ d * B \in Nat
  BY <1>1, Product
<1>6. \A w, x, y \in Nat : /\ w <= x /\ x + B <= y => x + b \in w..(y - 1)
  BY <1>1
<1> QED
  <2> HIDE DEF d, z, B
  <2> QED
    BY <1>2, <1>3, <1>4, <1>5, <1>6 DEF B

(* A byte of a file lies at its place in its sector.                         *)
LEMMA AddressOfByte ==
  ASSUME Geometry, NEW f \in File, NEW k \in 0..(Sectors(f) - 1),
         NEW b \in 0..(BytesPerSector - 1)
  PROVE  /\ k * BytesPerSector + b \in 0..(FileSize(f) - 1)
         /\ Address(f, k * BytesPerSector + b) = FileSector(f, k) * BytesPerSector + b
<1> DEFINE d == discSecPerClus
           B == BytesPerSector
           C == BytePerClus
           m == k \div d
           s == k % d
           a == chain[f][m + 1]
<1>1. /\ d \in Nat \ {0} /\ B \in Nat \ {0} /\ C \in Nat \ {0} /\ C = B * d
      /\ b \in Nat /\ b < B /\ k \in Nat /\ k < Sectors(f) /\ Sectors(f) \in Nat
  BY ChainTypes, GeometryAssumption DEF Geometry, BytePerClus
<1>2. m \in 0..(Len(chain[f]) - 1) /\ s \in 0..(d - 1) /\ k = m * d + s
  BY SectorSplit
<1>3. m \in Nat /\ s \in Nat /\ s < d
  BY <1>1, <1>2
<1>4. a \in Nat
  <2>1. m + 1 \in 1..Len(chain[f])
    BY <1>2, ChainTypes
  <2> QED
    BY <2>1, ChainTypes, GeometryAssumption
<1>5. FileSector(f, k) = a * d + s
  BY DEF FileSector, ClustToSect
<1>6. k * B + b \in 0..(FileSize(f) - 1)
  <2>1. k * B + B <= Sectors(f) * B /\ k * B \in Nat /\ Sectors(f) * B \in Nat
    BY <1>1, ProductLess, Product
  <2>2. FileSize(f) = Sectors(f) * B
    BY ChainTypes
  <2>3. \A x, y \in Nat : x + B <= y => x + b \in 0..(y - 1)
    BY <1>1
  <2> QED
    BY <2>1, <2>2, <2>3
<1>7. s * B + b \in 0..(C - 1)
  <2>1. s * B + B <= d * B /\ s * B \in Nat /\ d * B = C
    BY <1>1, <1>3, ProductLess, Product
  <2>2. \A x, y \in Nat : x + B <= y => x + b \in 0..(y - 1)
    BY <1>1
  <2> QED
    BY <1>1, <2>1, <2>2
<1>8. k * B + b = m * C + (s * B + b)
  <2>1. \A x, y, z, u \in Nat : (x * y + z) * u + b = x * (u * y) + (z * u + b)
    BY <1>1
  <2>2. (m * d + s) * B + b = m * (B * d) + (s * B + b)
    <3> HIDE DEF m, s, d, B
    <3> QED
      BY <1>1, <1>3, <2>1
  <2> QED
    BY <1>1, <1>2, <2>2
<1>9. (k * B + b) \div C = m /\ (k * B + b) % C = s * B + b
  <2> DEFINE r == s * B + b
  <2>1. (m * C + r) \div C = m /\ (m * C + r) % C = r
    <3>1. r \in 0..(C - 1)
      BY <1>7
    <3> HIDE DEF m, C, r
    <3> QED
      BY <1>1, <1>3, <3>1, DivisionUnique, SMTT(30)
  <2> QED
    BY <1>8, <2>1
<1>10. Address(f, k * B + b) = (a * d) * B + (s * B + b)
  BY <1>9 DEF Address, ClustToSect
<1>11. (a * d) * B + (s * B + b) = (a * d + s) * B + b
  <2>1. \A x, z, u \in Nat : x * u + (z * u + b) = (x + z) * u + b
    BY <1>1
  <2>2. a * d \in Nat
    BY <1>1, <1>4, Product
  <2> HIDE DEF a, s, d, B
  <2> QED
    BY <1>1, <1>3, <2>1, <2>2
<1> QED
  BY <1>5, <1>6, <1>10, <1>11

(* Every byte of a file is one of a sector of it.                            *)
LEMMA ByteSplit ==
  ASSUME Geometry, NEW f \in File, NEW o \in 0..(FileSize(f) - 1)
  PROVE  /\ o \div BytesPerSector \in 0..(Sectors(f) - 1)
         /\ o % BytesPerSector \in 0..(BytesPerSector - 1)
         /\ o = (o \div BytesPerSector) * BytesPerSector + (o % BytesPerSector)
         /\ Address(f, o) = FileSector(f, o \div BytesPerSector) * BytesPerSector
                            + (o % BytesPerSector)
         /\ Address(f, o) \in Volume
<1> DEFINE B == BytesPerSector
           q == o \div B
           r == o % B
<1>1. B \in Nat \ {0} /\ o \in Nat /\ Sectors(f) \in Nat /\ o < Sectors(f) * B
  BY ChainTypes, GeometryAssumption
<1>2. q \in Nat /\ r \in 0..(B - 1) /\ o = q * B + r
  BY <1>1, Division
<1>3. q < Sectors(f)
  BY <1>1, DivisionLess
<1>4. q \in 0..(Sectors(f) - 1)
  <2> HIDE DEF q
  <2> QED
    BY <1>1, <1>2, <1>3
<1>5. Address(f, q * B + r) = FileSector(f, q) * B + r
  <2> HIDE DEF q, r
  <2> QED
    BY <1>2, <1>4, AddressOfByte DEF B
<1>6. FileSector(f, q) * B + r \in Volume
  <2> HIDE DEF q, r
  <2> QED
    BY <1>2, <1>4, FileSectorRange, InVolume DEF B
<1> QED
  BY <1>2, <1>4, <1>5, <1>6

(* Different bytes of files have different addresses.                       *)
LEMMA AddressInjective ==
  ASSUME Geometry, NEW f \in File, NEW g \in File,
         NEW o \in 0..(FileSize(f) - 1), NEW p \in 0..(FileSize(g) - 1),
         Address(f, o) = Address(g, p)
  PROVE  f = g /\ o = p
<1> DEFINE B == BytesPerSector
           q == o \div B
           r == o % B
           t == p \div B
           u == p % B
           x == FileSector(f, q)
           y == FileSector(g, t)
<1>1. B \in Nat \ {0}
  BY GeometryAssumption
<1>2. /\ q \in 0..(Sectors(f) - 1) /\ r \in 0..(B - 1) /\ o = q * B + r
      /\ Address(f, o) = x * B + r
  BY ByteSplit
<1>3. /\ t \in 0..(Sectors(g) - 1) /\ u \in 0..(B - 1) /\ p = t * B + u
      /\ Address(g, p) = y * B + u
  BY ByteSplit
<1>4. x \in Nat /\ y \in Nat
  <2>1. discSecPerClus \in Nat
    BY DEF Geometry
  <2>2. \A z, w : z \in discSecPerClus..w => z \in Nat
    BY <2>1
  <2> QED
    BY <1>2, <1>3, <2>2, FileSectorRange
<1>5. x = y /\ r = u
  <2> HIDE DEF x, y, r, u, B
  <2>1. (x * B + r) \div B = x /\ (x * B + r) % B = r
    BY <1>1, <1>2, <1>4, DivisionUnique
  <2>2. (y * B + u) \div B = y /\ (y * B + u) % B = u
    BY <1>1, <1>3, <1>4, DivisionUnique
  <2> QED
    BY <1>2, <1>3, <2>1, <2>2
<1>6. f = g /\ q = t
  BY <1>2, <1>3, <1>5, FileSectorInjective
<1> QED
  BY <1>2, <1>3, <1>5, <1>6

(* findCluster and its callers: an offset's cluster, and its sector there.    *)
LEMMA OffsetPlace ==
  ASSUME Geometry, NEW f \in File, NEW o \in 0..(FileSize(f) - 1)
  PROVE  /\ o \div BytePerClus \in 0..(Len(chain[f]) - 1)
         /\ (o % BytePerClus) \div BytesPerSector \in 0..(discSecPerClus - 1)
         /\ (o \div BytePerClus) * discSecPerClus + (o % BytePerClus) \div BytesPerSector
              = o \div BytesPerSector
         /\ (o \div BytePerClus) * BytePerClus <= o
         /\ o % BytePerClus \in 0..(BytePerClus - 1)
         /\ o = (o \div BytePerClus) * BytePerClus + (o % BytePerClus)
<1> DEFINE d == discSecPerClus
           B == BytesPerSector
           C == BytePerClus
           L == Len(chain[f])
           i == o \div C
           e == o % C
           s == e \div B
           b == e % B
<1>1. /\ d \in Nat \ {0} /\ B \in Nat \ {0} /\ C \in Nat \ {0} /\ C = d * B
      /\ L \in Nat /\ o \in Nat /\ o < L * C
  <2>1. FileSize(f) = L * C
    BY DEF FileSize
  <2>2. L * C \in Nat
    BY ChainTypes, Product
  <2> QED
    BY <2>1, <2>2, ChainTypes, GeometryAssumption DEF Geometry, BytePerClus
<1>2. i \in Nat /\ e \in 0..(C - 1) /\ o = i * C + e /\ i * C \in Nat
  BY <1>1, Division, Product
<1>3. i < L
  BY <1>1, DivisionLess
<1>4. s \in Nat /\ b \in 0..(B - 1) /\ e = s * B + b
  <2>1. e \in Nat
    BY <1>2
  <2> HIDE DEF e
  <2> QED
    BY <1>1, <2>1, Division
<1>5. s < d
  <2>1. e \in Nat /\ e < d * B
    BY <1>1, <1>2
  <2> HIDE DEF e
  <2> QED
    BY <1>1, <2>1, DivisionLess
<1> HIDE DEF i, e, s, b
<1>6. o = (i * d + s) * B + b
  <2>1. \A x, y, z, u, v \in Nat : x * (y * u) + (z * u + v) = (x * y + z) * u + v
    OBVIOUS
  <2>2. i * (d * B) + (s * B + b) = (i * d + s) * B + b
    BY <1>1, <1>2, <1>4, <2>1
  <2> QED
    BY <1>1, <1>2, <1>4, <2>2
<1>7. o \div B = i * d + s
  <2>1. i * d + s \in Nat
    BY <1>1, <1>2, <1>4, Product
  <2> DEFINE k == i * d + s
  <2>2. o = k * B + b /\ k \in Nat
    BY <1>6, <2>1
  <2> HIDE DEF k
  <2>3. (k * B + b) \div B = k
    BY <1>1, <1>4, <2>2, DivisionUnique
  <2> QED
    BY <2>2, <2>3 DEF k
<1>8. i \in 0..(L - 1) /\ s \in 0..(d - 1) /\ i * C <= o
  BY <1>1, <1>2, <1>3, <1>4, <1>5
<1> QED
  BY <1>2, <1>7, <1>8 DEF i, e, s

-----------------------------------------------------------------------------
(* Where a call is in its file.                                             *)

(* p is in cluster m of the file; the offset counts when the file has no      *)
(* table, the index when it has one.                                        *)
InCluster(f, p, m) ==
  /\ cached[f] = "no" => p.offset = m * BytePerClus
  /\ cached[f] # "no" => p.index = m

(* p stands on sector k of file f.                                          *)
On(f, p, k) ==
  /\ p = Place(p.index, p.cluster, p.offset, p.sect)
  /\ \E m \in 0..(Len(chain[f]) - 1) :
       /\ p.sect \in 0..(discSecPerClus - 1)
       /\ m * discSecPerClus + p.sect = k
       /\ p.cluster = chain[f][m + 1]
       /\ InCluster(f, p, m)

(* p is where the next turn finds sector k: maybe at the end of the cluster    *)
(* before, and past the end of the file when k is.                           *)
At(f, p, k) ==
  /\ p = Place(p.index, p.cluster, p.offset, p.sect)
  /\ \E m \in Nat :
       /\ p.sect \in 0..discSecPerClus
       /\ m * discSecPerClus + p.sect = k
       /\ m < Len(chain[f]) /\ (cached[f] = "no" \/ p.sect < discSecPerClus) =>
            p.cluster = chain[f][m + 1]
       /\ cached[f] = "no" => m < Len(chain[f])
       /\ InCluster(f, p, m)

(* What currentCluster and currentOffset of a file without a table say.      *)
CursorRight(f, c) ==
  cached[f] = "no" /\ chain[f] # <<>> =>
    \E m \in 0..(Len(chain[f]) - 1) :
      c = [cluster |-> chain[f][m + 1], offset |-> m * BytePerClus]

(* A cluster of a file and a sector of it make a place on that sector.      *)
LEMMA OnFrom ==
  ASSUME NEW f, NEW m \in 0..(Len(chain[f]) - 1), NEW s \in 0..(discSecPerClus - 1),
         NEW i, NEW o, cached[f] = "no" => o = m * BytePerClus, cached[f] # "no" => i = m
  PROVE  On(f, Place(i, chain[f][m + 1], o, s), m * discSecPerClus + s)
<1> DEFINE p == Place(i, chain[f][m + 1], o, s)
<1>1. p.index = i /\ p.cluster = chain[f][m + 1] /\ p.offset = o /\ p.sect = s
  BY DEF Place
<1>2. InCluster(f, p, m)
  BY <1>1 DEF InCluster
<1> HIDE DEF p
<1>3. p = Place(p.index, p.cluster, p.offset, p.sect)
  BY <1>1 DEF p
<1> QED
  BY <1>1, <1>2, <1>3 DEF On, p

(* A place on the k-th sector of a file leads to it, and to a good cursor.  *)
LEMMA OnSector ==
  ASSUME Geometry, NEW f \in File, NEW p, NEW k, On(f, p, k)
  PROVE  /\ k \in 0..(Sectors(f) - 1)
         /\ SectorOf(p) = FileSector(f, k)
         /\ CursorRight(f, [cluster |-> p.cluster, offset |-> p.offset])
<1>1. PICK m \in 0..(Len(chain[f]) - 1) :
        /\ p.sect \in 0..(discSecPerClus - 1)
        /\ m * discSecPerClus + p.sect = k
        /\ p.cluster = chain[f][m + 1]
        /\ InCluster(f, p, m)
  BY DEF On
<1>2. k \in 0..(Sectors(f) - 1) /\ FileSector(f, k) = ClustToSect(chain[f][m + 1]) + p.sect
  BY <1>1, SectorJoin
<1>3. CursorRight(f, [cluster |-> p.cluster, offset |-> p.offset])
  BY <1>1 DEF CursorRight, InCluster
<1> QED
  BY <1>1, <1>2, <1>3 DEF SectorOf

(* findCluster: the place of an offset, wherever the cursor stood.          *)
LEMMA FindClusterOn ==
  ASSUME Geometry, Tables, NEW f \in File, CursorRight(f, cursor[f]),
         NEW o \in 0..(FileSize(f) - 1)
  PROVE  On(f, FindCluster(f, o), o \div BytesPerSector)
<1> DEFINE d == discSecPerClus
           C == BytePerClus
           i == o \div C
           s == (o % C) \div BytesPerSector
           L == Len(chain[f])
           p == FindCluster(f, o)
<1>1. /\ i \in 0..(L - 1) /\ s \in 0..(d - 1) /\ i * d + s = o \div BytesPerSector
      /\ o % C \in 0..(C - 1) /\ o = i * C + (o % C)
  BY OffsetPlace
<1>2. L \in Nat /\ C \in Nat \ {0} /\ o \in Nat
  BY ChainTypes
<1>3. CASE cached[f] # "no"
  <2>1. p = Place(i, chain[f][i + 1], i * C, s)
    BY <1>1, <1>3, CachedClusterInChain DEF FindCluster
  <2> HIDE DEF p, i, s, d, L, C
  <2> QED
    BY <1>1, <1>3, <2>1 DEF On, InCluster, Place, p, d, L
<1>4. CASE cached[f] = "no"
  <2> DEFINE from == IF o < cursor[f].offset
                       THEN [cluster |-> chain[f][1], offset |-> 0] ELSE cursor[f]
             steps == (o - from.offset) \div C
  <2>1. PICK m \in 0..i : from = [cluster |-> chain[f][m + 1], offset |-> m * C]
    <3>1. chain[f] # <<>>
      BY <1>1, <1>2
    <3>2. PICK n \in 0..(L - 1) :
            cursor[f] = [cluster |-> chain[f][n + 1], offset |-> n * C]
      BY <1>4, <3>1 DEF CursorRight
    <3>3. CASE o < n * C
      <4>1. from = [cluster |-> chain[f][0 + 1], offset |-> 0 * C]
        BY <1>2, <3>2, <3>3
      <4>2. 0 \in 0..i
        BY <1>1
      <4> HIDE DEF from, i
      <4> QED
        BY <4>1, <4>2
    <3>4. CASE ~(o < n * C)
      <4>1. ~(i < n)
        <5>1. i \in Nat /\ n \in Nat /\ i * C \in Nat /\ n * C \in Nat
          BY <1>1, <1>2, Product
        <5>2. SUFFICES ASSUME i < n PROVE FALSE
          OBVIOUS
        <5>3. i * C + C <= n * C
          BY <1>2, <5>1, <5>2, ProductLess
        <5>4. \A x, y, r \in Nat : x + C <= y /\ r <= C - 1 => x + r < y
          BY <1>2
        <5> QED
          BY <1>1, <3>4, <5>1, <5>3, <5>4
      <4>2. n \in 0..i
        BY <1>1, <3>2, <4>1
      <4>3. from = cursor[f]
        BY <3>2, <3>4
      <4> HIDE DEF from, i, C
      <4> QED
        BY <3>2, <4>2, <4>3
    <3> QED
      BY <3>3, <3>4
  <2>2. steps = i - m
    <3>1. m \in Nat /\ i \in Nat /\ i - m \in Nat
      BY <1>1, <2>1
    <3>2. o - m * C = (i - m) * C + (o % C)
      <4>1. \A x, y, r \in Nat : (x * C + r) - y * C = (x - y) * C + r
        BY <1>2
      <4> QED
        BY <1>1, <3>1, <4>1
    <3>3. ((i - m) * C + (o % C)) \div C = i - m
      <4> DEFINE q == i - m
                 r == o % C
      <4>1. q \in Nat /\ r \in 0..(C - 1)
        BY <1>1, <3>1
      <4> HIDE DEF q, r, C
      <4>2. (q * C + r) \div C = q
        BY <1>2, <4>1, DivisionUnique
      <4> QED
        BY <4>2 DEF q, r
    <3> QED
      BY <2>1, <3>2, <3>3
  <2>3. FollowChain(chain[f][m + 1], i - m) = chain[f][i + 1]
    <3>1. m + 1 \in 1..L /\ i - m \in Nat /\ (m + 1) + (i - m) = i + 1 /\ i + 1 <= L
      BY <1>1, <1>2, <2>1
    <3> QED
      BY <3>1, FollowChainInChain
  <2>4. from.offset + steps * C = i * C
    <3>1. \A x, y \in Nat : y * C + (x - y) * C = x * C
      BY <1>2
    <3>2. m \in Nat /\ i \in Nat
      BY <1>1, <2>1
    <3> QED
      BY <2>1, <2>2, <3>1, <3>2
  <2>5. p = Place(0, chain[f][i + 1], i * C, s)
    <3>1. p = Place(0, FollowChain(from.cluster, steps), from.offset + steps * C, s)
      BY <1>4 DEF FindCluster
    <3> QED
      BY <2>1, <2>2, <2>3, <2>4, <3>1
  <2> HIDE DEF p, i, s, d, L, C
  <2> QED
    BY <1>1, <1>4, <2>5 DEF On, InCluster, Place, p, d, L, C
<1> QED
  BY <1>3, <1>4

(* "Move to the next cluster if necessary": the turn's sector.               *)
LEMMA NextPlaceOn ==
  ASSUME Geometry, Tables, NEW f \in File, NEW p, NEW k \in 0..(Sectors(f) - 1),
         At(f, p, k)
  PROVE  On(f, NextPlace(f, p), k)
<1> DEFINE d == discSecPerClus
           L == Len(chain[f])
           q == NextPlace(f, p)
<1>1. PICK m \in Nat :
        /\ p.sect \in 0..d
        /\ m * d + p.sect = k
        /\ m < L /\ (cached[f] = "no" \/ p.sect < d) => p.cluster = chain[f][m + 1]
        /\ cached[f] = "no" => m < L
        /\ InCluster(f, p, m)
  BY DEF At
<1>2. d \in Nat \ {0} /\ L \in Nat /\ k \in Nat /\ k < L * d
  BY ChainTypes DEF Geometry, Sectors
<1>3. p = Place(p.index, p.cluster, p.offset, p.sect)
  BY DEF At
<1>4. CASE p.sect < d
  <2>1. m < L
    <3> DEFINE r == p.sect
    <3>1. r \in 0..(d - 1)
      BY <1>1, <1>2, <1>4
    <3> HIDE DEF r, d
    <3>2. (m * d + r) \div d = m
      BY <1>2, <3>1, DivisionUnique
    <3> QED
      BY <1>1, <1>2, <3>2, DivisionLess DEF r
  <2>2. q = p
    BY <1>4 DEF NextPlace
  <2>3. m \in 0..(L - 1) /\ p.sect \in 0..(d - 1)
    BY <1>1, <1>2, <1>4, <2>1
  <2>4. p = Place(p.index, chain[f][m + 1], p.offset, p.sect)
    BY <1>1, <1>3, <1>4, <2>1
  <2>5. On(f, Place(p.index, chain[f][m + 1], p.offset, p.sect), m * d + p.sect)
    <3> HIDE DEF q
    <3> QED
      BY <1>1, <2>3, OnFrom DEF InCluster
  <2>6. m * d + p.sect = k
    BY <1>1
  <2> QED
    BY <2>2, <2>4, <2>5, <2>6
<1>5. CASE p.sect = d
  <2>1. m + 1 < L /\ (m + 1) * d = k
    <3>1. \A x \in Nat : x * d + d = (x + 1) * d
      BY <1>2
    <3>2. (m + 1) * d = k
      BY <1>1, <1>5, <3>1
    <3>3. ((m + 1) * d + 0) \div d = m + 1
      BY <1>1, <1>2, DivisionUnique
    <3>4. k \div d = m + 1
      BY <1>2, <3>2, <3>3
    <3>5. k \div d < L
      BY <1>2, DivisionLess
    <3> QED
      BY <3>2, <3>4, <3>5
  <2>2. m + 1 \in 0..(L - 1) /\ m + 1 \in 1..(L - 1) /\ m + 2 = (m + 1) + 1
    BY <1>1, <1>2, <2>1
  <2>3. m * BytePerClus + BytePerClus = (m + 1) * BytePerClus
    <3>1. BytePerClus \in Nat
      BY ChainTypes
    <3> QED
      BY <1>1, <3>1
  <2>4. d \div d = 1 /\ d % d = 0
    <3>1. (1 * d + 0) \div d = 1 /\ (1 * d + 0) % d = 0
      BY <1>2, DivisionUnique
    <3> QED
      BY <1>2, <3>1
  <2>5. CASE cached[f] # "no"
    <3>1. GetCachedCluster(f, m + 1) = chain[f][m + 2]
      BY <2>2, <2>5, CachedClusterInChain
    <3>2. p.index + p.sect \div d = m + 1
      BY <1>1, <1>5, <2>4, <2>5 DEF InCluster
    <3>3. q = Place(m + 1, chain[f][m + 2], p.offset + BytePerClus, 0)
      BY <1>2, <1>5, <2>4, <2>5, <3>1, <3>2 DEF NextPlace
    <3>4. On(f, Place(m + 1, chain[f][(m + 1) + 1], p.offset + BytePerClus, 0), (m + 1) * d + 0)
      <4>1. m + 1 \in 0..(L - 1) /\ 0 \in 0..(d - 1)
        BY <1>2, <2>2
      <4>2. /\ cached[f] = "no" => p.offset + BytePerClus = (m + 1) * BytePerClus
            /\ cached[f] # "no" => m + 1 = m + 1
        BY <2>5
      <4> QED
        BY <4>1, <4>2, OnFrom
    <3>5. (m + 1) * d + 0 = k
      BY <1>2, <2>1
    <3>6. chain[f][m + 2] = chain[f][(m + 1) + 1]
      BY <2>2
    <3> QED
      BY <3>3, <3>4, <3>5, <3>6
  <2>6. CASE cached[f] = "no"
    <3>1. NextCluster(p.cluster) = chain[f][m + 2]
      <4>1. p.cluster = chain[f][m + 1]
        BY <1>1, <1>5, <2>6
      <4> QED
        BY <2>2, <4>1, NextClusterInChain
    <3>2. p.offset + BytePerClus = (m + 1) * BytePerClus
      BY <1>1, <2>3, <2>6 DEF InCluster
    <3>3. q = Place(p.index, chain[f][m + 2], (m + 1) * BytePerClus, 0)
      BY <1>2, <1>5, <2>6, <3>1, <3>2 DEF NextPlace
    <3>4. On(f, Place(p.index, chain[f][(m + 1) + 1], (m + 1) * BytePerClus, 0), (m + 1) * d + 0)
      <4>1. m + 1 \in 0..(L - 1) /\ 0 \in 0..(d - 1)
        BY <1>2, <2>2
      <4> QED
        BY <2>6, <4>1, OnFrom
    <3>5. (m + 1) * d + 0 = k
      BY <1>2, <2>1
    <3>6. chain[f][m + 2] = chain[f][(m + 1) + 1]
      BY <2>2
    <3> QED
      BY <3>3, <3>4, <3>5, <3>6
  <2> QED
    BY <2>5, <2>6
<1> QED
  BY <1>1, <1>2, <1>4, <1>5

(* After n sectors, all in the cluster of p.                                *)
LEMMA StepInCluster ==
  ASSUME Geometry, NEW f \in File, NEW p, NEW k, On(f, p, k),
         NEW n \in 0..(discSecPerClus - p.sect)
  PROVE  At(f, [p EXCEPT !.sect = @ + n], k + n)
<1> DEFINE d == discSecPerClus
           L == Len(chain[f])
           q == [p EXCEPT !.sect = @ + n]
<1>1. PICK m \in 0..(L - 1) :
        /\ p.sect \in 0..(d - 1)
        /\ m * d + p.sect = k
        /\ p.cluster = chain[f][m + 1]
        /\ InCluster(f, p, m)
  BY DEF On
<1>2. d \in Nat \ {0} /\ L \in Nat /\ n \in Nat /\ m \in Nat /\ m < L
  BY <1>1, ChainTypes DEF Geometry
<1>3. q = Place(p.index, p.cluster, p.offset, p.sect + n)
  BY DEF On, Place
<1>4. m * d + (p.sect + n) = k + n /\ p.sect + n \in 0..d
  <2>1. m * d \in Nat
    BY <1>2, Product
  <2> QED
    BY <1>1, <1>2, <2>1
<1> HIDE DEF q, d, L
<1> QED
  BY <1>1, <1>2, <1>3, <1>4 DEF At, InCluster, Place, q, d, L

(* The clusters that a read takes at once are one after the other on the      *)
(* volume, as far as they are the file's: the grouping of fileRead may look    *)
(* at a word past the table, but does not use it.                           *)
LEMMA GroupConsecutive ==
  ASSUME Geometry, Tables, NEW f \in File, cached[f] # "no", NEW chunks \in Nat, NEW m \in Nat,
         NEW g, \A j \in 0..(g - 1) :
                  GetCachedCluster(f, m + j) + 1 = GetCachedCluster(f, (m + j) + 1),
         g \in Nat
  PROVE  \A j \in Nat : j <= g /\ m + j < Len(chain[f]) =>
           chain[f][m + j + 1] = chain[f][m + 1] + j
<1> DEFINE L == Len(chain[f])
           I == {j \in Nat : j <= g /\ m + j < L => chain[f][m + j + 1] = chain[f][m + 1] + j}
<1>1. L \in Nat /\ \A i \in 1..L : chain[f][i] \in Nat
  BY ChainTypes, GeometryAssumption
<1>2. 0 \in I
  <2>1. m + 0 + 1 = m + 1 /\ (m < L => chain[f][m + 1] \in Nat)
    BY <1>1
  <2> QED
    BY <2>1
<1>3. ASSUME NEW j \in Nat, j \in I
      PROVE  j + 1 \in I
  <2> SUFFICES ASSUME j + 1 <= g, m + (j + 1) < L
               PROVE  chain[f][m + (j + 1) + 1] = chain[f][m + 1] + (j + 1)
    OBVIOUS
  <2>1. m + j \in 0..(L - 1) /\ (m + j) + 1 \in 0..(L - 1) /\ j \in 0..(g - 1)
    BY <1>1
  <2>2. /\ GetCachedCluster(f, m + j) = chain[f][m + j + 1]
        /\ GetCachedCluster(f, (m + j) + 1) = chain[f][(m + j) + 1 + 1]
    BY <2>1, CachedClusterInChain
  <2>3. chain[f][m + j + 1] + 1 = chain[f][(m + j) + 1 + 1]
    BY <2>1, <2>2
  <2>4. chain[f][m + j + 1] = chain[f][m + 1] + j
    BY <1>1, <1>3, <2>1
  <2>5. m + (j + 1) + 1 = (m + j) + 1 + 1 /\ m + 1 \in 1..L
    BY <1>1, <2>1
  <2> HIDE DEF I, L
  <2> QED
    BY <1>1, <2>3, <2>4, <2>5
<1>4. Nat \subseteq I
  <2> HIDE DEF I
  <2> QED
    BY <1>2, <1>3, SetInduction
<1> QED
  BY <1>4

(* How many clusters a read groups.                                         *)
Grouped(f, p, chunks, c) ==
  /\ c \in Nat \ {0}
  /\ SectorsToRead(f, p, chunks) = Smaller(chunks, c * discSecPerClus - p.sect)
  /\ cached[f] = "no" => c = 1
  /\ cached[f] # "no" =>
       \A j \in 0..(c - 1) : p.index + j < Len(chain[f]) =>
         chain[f][p.index + j + 1] = chain[f][p.index + 1] + j

(* The loop that groups contiguous clusters ends.                           *)
LEMMA GroupExists ==
  ASSUME Geometry, Tables, NEW f \in File, NEW p, cached[f] # "no" => p.index \in Nat,
         p.index < Len(chain[f]) \/ cached[f] = "no", NEW chunks \in Nat
  PROVE  \E c : Grouped(f, p, chunks, c)
<1> DEFINE d == discSecPerClus
           joined(i) == GetCachedCluster(f, i) + 1 = GetCachedCluster(f, i + 1)
           stops(k)  == k * d > chunks \/ ~joined(p.index + k)
           Q(k)      == stops(k) /\ \A j \in 0..(k - 1) : ~stops(j)
           K         == 0..(chunks \div d + 1)
           group     == CHOOSE k \in K : Q(k)
           c         == IF cached[f] = "no" \/ group = 0 THEN 1 ELSE group
<1>1. SectorsToRead(f, p, chunks) = Smaller(chunks, c * d - p.sect)
  BY DEF SectorsToRead
<1>2. group \in K /\ Q(group)
  <2>1. d \in Nat \ {0} /\ chunks \div d \in Nat
    BY Division DEF Geometry
  <2> DEFINE top == chunks \div d + 1
             T == {k \in Nat : stops(k)}
  <2>2. top \in Nat /\ top * d > chunks
    <3>1. chunks = (chunks \div d) * d + (chunks % d) /\ chunks % d \in 0..(d - 1)
      BY <2>1, Division
    <3> DEFINE q == chunks \div d
               r == chunks % d
    <3>2. chunks = q * d + r /\ r \in 0..(d - 1) /\ q \in Nat
      BY <2>1, <3>1
    <3> HIDE DEF q, r, d
    <3>3. (q + 1) * d = q * d + d /\ q * d \in Nat
      BY <2>1, <3>2
    <3> QED
      BY <2>1, <3>2, <3>3 DEF q
  <2>3. T \subseteq Nat /\ top \in T
    <3> HIDE DEF joined, top, d
    <3> QED
      BY <2>2
  <2>4. PICK k \in T : \A j \in T : k <= j
    <3> HIDE DEF T
    <3> QED
      BY <2>3, LeastExists
  <2>5. k \in K /\ stops(k)
    <3> HIDE DEF joined
    <3>1. k \in Nat /\ k <= top /\ stops(k)
      BY <2>3, <2>4
    <3> HIDE DEF stops
    <3> QED
      BY <2>2, <3>1
  <2>6. \A j \in 0..(k - 1) : ~stops(j)
    <3> SUFFICES ASSUME NEW j \in 0..(k - 1), stops(j) PROVE FALSE
      OBVIOUS
    <3>1. j \in Nat /\ j < k
      BY <2>4
    <3>2. j \in T
      <4> HIDE DEF stops
      <4> QED
        BY <3>1
    <3> QED
      BY <2>4, <3>1, <3>2
  <2>7. Q(k)
    BY <2>5, <2>6
  <2> HIDE DEF Q, K
  <2> QED
    BY <2>5, <2>7
<1>3. group \in Nat
  <2> HIDE DEF Q, group
  <2>1. chunks \div d \in Nat
    BY Division DEF Geometry
  <2> QED
    BY <1>2, <2>1
<1>4. c \in Nat \ {0}
  <2> HIDE DEF group
  <2> QED
    BY <1>3
<1>5. ASSUME cached[f] # "no", NEW j \in 0..(c - 1), p.index + j < Len(chain[f])
      PROVE  chain[f][p.index + j + 1] = chain[f][p.index + 1] + j
  <2>1. \A i \in 0..(group - 1) : joined(p.index + i)
    <3> HIDE DEF group, joined
    <3> QED
      BY <1>2
  <2>2. \A i \in Nat : i <= group /\ p.index + i < Len(chain[f]) =>
           chain[f][p.index + i + 1] = chain[f][p.index + 1] + i
    <3> DEFINE m == p.index
    <3>1. m \in Nat
      BY <1>5
    <3>2. \A i \in 0..(group - 1) :
            GetCachedCluster(f, m + i) + 1 = GetCachedCluster(f, (m + i) + 1)
      BY <2>1
    <3> HIDE DEF group, m
    <3>3. \A i \in Nat : i <= group /\ m + i < Len(chain[f]) =>
            chain[f][m + i + 1] = chain[f][m + 1] + i
      BY <1>3, <1>5, <3>1, <3>2, GroupConsecutive
    <3> QED
      BY <3>3 DEF m
  <2>3. j \in Nat /\ j <= group
    <3> HIDE DEF group
    <3> QED
      BY <1>3, <1>4, <1>5
  <2> HIDE DEF group
  <2> QED
    BY <1>5, <2>2, <2>3
<1> HIDE DEF group
<1>6. cached[f] = "no" => c = 1
  OBVIOUS
<1> HIDE DEF c
<1> QED
  BY <1>1, <1>4, <1>5, <1>6 DEF Grouped

(* One turn of a read: its sectors lie side by side on the volume, and it      *)
(* leaves the place before the sector after them.                           *)
LEMMA ReadTurn ==
  ASSUME Geometry, Tables, NEW f \in File, NEW p, NEW k, On(f, p, k),
         NEW chunks \in Nat \ {0}, k + chunks <= Sectors(f), NEW n,
         n = SectorsToRead(f, p, chunks)
  PROVE  /\ n \in 1..chunks
         /\ \A t \in 0..(n - 1) : FileSector(f, k + t) = SectorOf(p) + t
         /\ At(f, AfterRead(f, p, n), k + n)
         /\ CursorRight(f, [cluster |-> AfterRead(f, p, n).cluster,
                            offset |-> AfterRead(f, p, n).offset])
<1> DEFINE d == discSecPerClus
           L == Len(chain[f])
           s == p.sect
           q == AfterRead(f, p, n)
<1>1. PICK m \in 0..(L - 1) :
        /\ s \in 0..(d - 1)
        /\ m * d + s = k
        /\ p.cluster = chain[f][m + 1]
        /\ InCluster(f, p, m)
  BY DEF On
<1>2. /\ d \in Nat \ {0} /\ L \in Nat /\ m \in Nat /\ m < L /\ s \in Nat /\ s < d
      /\ \A i \in 1..L : chain[f][i] \in Nat
  BY <1>1, ChainTypes, GeometryAssumption, SMTT(30) DEF Geometry
<1>3. cached[f] # "no" => p.index = m
  BY <1>1 DEF InCluster
<1>4. PICK c : Grouped(f, p, chunks, c)
  BY <1>2, <1>3, GroupExists
<1>5. /\ c \in Nat \ {0}
      /\ n = Smaller(chunks, c * d - s)
      /\ cached[f] = "no" => c = 1
  BY <1>4 DEF Grouped
<1>6. \A j \in 0..(c - 1) : m + j < L => chain[f][m + j + 1] = chain[f][m + 1] + j
  <2>1. CASE cached[f] = "no"
    <3> SUFFICES ASSUME NEW j \in 0..(c - 1)
                 PROVE  chain[f][m + j + 1] = chain[f][m + 1] + j
      OBVIOUS
    <3>1. j = 0 /\ m + 1 \in 1..L /\ m + 0 + 1 = m + 1
      BY <1>2, <1>5, <2>1
    <3>2. chain[f][m + 1] \in Nat
      BY <1>2, <3>1
    <3> QED
      BY <3>1, <3>2
  <2>2. CASE cached[f] # "no"
    BY <1>3, <1>4, <2>2 DEF Grouped
  <2> QED
    BY <2>1, <2>2
<1>7. n \in 1..chunks /\ n <= c * d - s /\ c * d \in Nat
  <2>1. c * d \in Nat /\ d <= c * d
    <3>1. c * d \in Nat
      BY <1>2, <1>5, Product
    <3>2. CASE c = 1
      BY <1>2, <3>2
    <3>3. CASE 1 < c
      <4>1. 1 * d + d <= c * d
        BY <1>2, <1>5, <3>3, ProductLess
      <4> QED
        BY <1>2, <3>1, <4>1
    <3> QED
      BY <1>5, <3>1, <3>2, <3>3
  <2> DEFINE e == c * d
  <2>2. e \in Nat /\ d <= e /\ n = Smaller(chunks, e - s)
    BY <1>5, <2>1
  <2> HIDE DEF e, d, s
  <2>3. n \in 1..chunks /\ n <= e - s
    BY <1>2, <2>2 DEF Smaller
  <2> QED
    BY <2>2, <2>3 DEF e
<1>8. ASSUME NEW t \in 0..(n - 1)
      PROVE  FileSector(f, k + t) = SectorOf(p) + t
  <2> DEFINE j == (s + t) \div d
             r == (s + t) % d
             a == chain[f][m + 1]
  <2>1. /\ t \in Nat /\ s + t \in Nat /\ s + t < c * d /\ k + t < L * d /\ k + t \in Nat
    <3>1. L * d = Sectors(f) /\ L * d \in Nat /\ k \in Nat
      <4>1. m * d \in Nat /\ L * d \in Nat
        BY <1>2, Product
      <4> QED
        BY <1>1, <1>2, <4>1, SMTT(30) DEF Sectors
    <3> DEFINE e == c * d
    <3>2. n \in 1..chunks /\ n <= e - s /\ e \in Nat
      BY <1>7
    <3> HIDE DEF e, d, s
    <3>3. t \in Nat /\ t < n
      BY <3>2
    <3>4. s + t < e /\ k + t < L * d
      BY <1>2, <3>1, <3>2, <3>3
    <3> QED
      BY <1>2, <3>1, <3>3, <3>4 DEF e
  <2>2. j \in Nat /\ r \in 0..(d - 1) /\ s + t = j * d + r /\ j < c
    BY <1>2, <1>5, <2>1, Division, DivisionLess
  <2> HIDE DEF j, r
  <2>3. k + t = (m + j) * d + r
    <3>1. (m + j) * d = m * d + j * d /\ m * d \in Nat /\ j * d \in Nat
      BY <1>2, <2>2, Product
    <3> DEFINE x == m * d
               y == j * d
    <3>2. (m + j) * d = x + y /\ x \in Nat /\ y \in Nat /\ x + s = k /\ s + t = y + r
      BY <1>1, <2>2, <3>1
    <3>3. \A x1, y1, r1, s1, t1 \in Int : s1 + t1 = y1 + r1 => (x1 + s1) + t1 = (x1 + y1) + r1
      OBVIOUS
    <3>4. r \in Int /\ s \in Int /\ t \in Int
      BY <1>2, <2>1, <2>2
    <3> HIDE DEF x, y, s
    <3>5. (x + s) + t = (x + y) + r
      BY <3>2, <3>3, <3>4
    <3> QED
      BY <3>2, <3>5
  <2>4. ((m + j) * d + r) \div d = m + j
    <3>1. m + j \in Nat
      BY <1>2, <2>2
    <3> HIDE DEF d
    <3> QED
      BY <1>2, <2>2, <3>1, DivisionUnique
  <2>5. m + j < L
    <3>1. (k + t) \div d < L
      BY <1>2, <2>1, DivisionLess
    <3> QED
      BY <2>3, <2>4, <3>1
  <2>6. /\ m + j \in 0..(L - 1) /\ j \in 0..(c - 1)
    BY <1>2, <1>5, <2>2, <2>5
  <2>7. FileSector(f, (m + j) * d + r) = ClustToSect(chain[f][(m + j) + 1]) + r
    BY <2>2, <2>6, SectorJoin
  <2>8. chain[f][(m + j) + 1] = a + j /\ a \in Nat
    <3>1. m + 1 \in 1..L
      BY <1>2
    <3> QED
      BY <1>2, <1>6, <2>5, <2>6, <3>1
  <2>9. (a + j) * d + r = a * d + s + t
    <3> HIDE DEF a, s, d
    <3>1. (a + j) * d = a * d + j * d /\ a * d \in Nat /\ j * d \in Nat
      BY <1>2, <2>2, <2>8, Product
    <3> DEFINE x == a * d
               y == j * d
    <3>2. (a + j) * d = x + y /\ x \in Nat /\ y \in Nat /\ s + t = y + r
      BY <2>2, <3>1
    <3> HIDE DEF x, y
    <3>3. (x + y) + r = x + s + t
      BY <1>2, <2>1, <2>2, <3>2
    <3> QED
      BY <3>2, <3>3 DEF x
  <2>10. SectorOf(p) = a * d + s
    BY <1>1 DEF SectorOf, ClustToSect
  <2> QED
    BY <2>3, <2>7, <2>8, <2>9, <2>10 DEF ClustToSect
<1>9. CASE cached[f] = "no"
  <2>1. q = [p EXCEPT !.sect = p.sect + n]
    BY <1>9 DEF AfterRead
  <2>2. n \in 0..(d - p.sect)
    <3>1. c * d = d
      BY <1>2, <1>5, <1>9
    <3> QED
      BY <1>2, <1>7, <3>1
  <2>3. At(f, [p EXCEPT !.sect = p.sect + n], k + n)
    BY <2>2, StepInCluster
  <2>4. q.cluster = p.cluster /\ q.offset = p.offset
    <3>1. p = Place(p.index, p.cluster, p.offset, p.sect)
      BY DEF On
    <3> QED
      BY <2>1, <3>1 DEF Place
  <2>5. CursorRight(f, [cluster |-> q.cluster, offset |-> q.offset])
    BY <2>4, OnSector
  <2> QED
    BY <1>7, <1>8, <2>1, <2>3, <2>5
<1>10. CASE cached[f] # "no"
  <2> DEFINE j == (s + n) \div d
             r == (s + n) % d
             i == m + j
  <2>1. s + n \in Nat /\ n \in Nat
    BY <1>2, <1>7
  <2>2. j \in Nat /\ r \in 0..(d - 1) /\ s + n = j * d + r
    BY <1>2, <2>1, Division
  <2>3. i * d + r = k + n
    <3> HIDE DEF j, r
    <3>1. (m + j) * d = m * d + j * d /\ m * d \in Nat /\ j * d \in Nat
      BY <1>2, <2>2, Product
    <3> DEFINE x == m * d
               y == j * d
    <3>2. (m + j) * d = x + y /\ x \in Nat /\ y \in Nat /\ x + s = k /\ s + n = y + r
      BY <1>1, <2>2, <3>1
    <3>3. \A x1, y1, r1, s1, t1 \in Int : s1 + t1 = y1 + r1 => (x1 + s1) + t1 = (x1 + y1) + r1
      OBVIOUS
    <3>4. r \in Int /\ s \in Int /\ n \in Int
      BY <1>2, <2>1, <2>2
    <3> HIDE DEF x, y, s
    <3>5. (x + s) + n = (x + y) + r
      BY <3>2, <3>3, <3>4
    <3> QED
      BY <3>2, <3>5
  <2>4. q = Place(i, GetCachedCluster(f, i), p.offset, r)
    BY <1>3, <1>10 DEF AfterRead
  <2> HIDE DEF j, r
  <2>5. i \in Nat /\ (i < L => i \in 0..(L - 1))
    BY <1>2, <2>2
  <2>6. i < L => GetCachedCluster(f, i) = chain[f][i + 1]
    BY <1>10, <2>5, CachedClusterInChain
  <2>7. /\ q.index = i /\ q.cluster = GetCachedCluster(f, i) /\ q.sect = r
        /\ q = Place(q.index, q.cluster, q.offset, q.sect)
    BY <2>4 DEF Place
  <2> HIDE DEF q, i
  <2>8. At(f, q, k + n)
    <3>1. q.sect \in 0..d
      BY <1>2, <2>2, <2>7
    <3>2. InCluster(f, q, i)
      BY <1>10, <2>7 DEF InCluster
    <3> QED
      BY <1>10, <2>3, <2>5, <2>6, <2>7, <3>1, <3>2 DEF At
  <2>9. CursorRight(f, [cluster |-> q.cluster, offset |-> q.offset])
    BY <1>10 DEF CursorRight
  <2> QED
    BY <1>7, <1>8, <2>8, <2>9 DEF q
<1> QED
  BY <1>9, <1>10

(* One turn of a write, which stays in its cluster.                          *)
LEMMA WriteTurn ==
  ASSUME Geometry, NEW f \in File, NEW p, NEW k, On(f, p, k),
         NEW chunks \in Nat \ {0}, k + chunks <= Sectors(f), NEW n,
         n = SectorsToWrite(p, chunks)
  PROVE  /\ n \in 1..chunks
         /\ \A t \in 0..(n - 1) : FileSector(f, k + t) = SectorOf(p) + t
         /\ At(f, [p EXCEPT !.sect = @ + n], k + n)
<1> DEFINE d == discSecPerClus
           L == Len(chain[f])
           s == p.sect
<1>1. PICK m \in 0..(L - 1) :
        /\ s \in 0..(d - 1)
        /\ m * d + s = k
        /\ p.cluster = chain[f][m + 1]
  BY DEF On
<1>2. d \in Nat \ {0} /\ L \in Nat /\ m \in Nat /\ s \in Nat /\ s < d
  BY <1>1, ChainTypes DEF Geometry
<1>3. n \in 1..chunks /\ n <= d - s
  <2> HIDE DEF d, s
  <2>1. n = Smaller(chunks, d - s)
    BY DEF SectorsToWrite, d, s
  <2> QED
    BY <1>2, <2>1 DEF Smaller
<1>4. ASSUME NEW t \in 0..(n - 1)
      PROVE  FileSector(f, k + t) = SectorOf(p) + t
  <2>1. s + t \in 0..(d - 1) /\ m * d \in Nat /\ k + t = m * d + (s + t)
    <3>1. m * d \in Nat
      BY <1>2, Product
    <3>2. t \in Nat /\ t < n
      BY <1>3
    <3> QED
      BY <1>1, <1>2, <1>3, <3>1, <3>2, SMTT(30)
  <2>2. FileSector(f, m * d + (s + t)) = ClustToSect(chain[f][m + 1]) + (s + t)
    BY <2>1, SectorJoin
  <2>3. ClustToSect(chain[f][m + 1]) \in Nat
    <3>1. m + 1 \in 1..L
      BY <1>1, <1>2
    <3>2. chain[f][m + 1] \in Nat
      BY <3>1, ChainTypes, GeometryAssumption
    <3> QED
      BY <1>2, <3>2, Product DEF ClustToSect
  <2>4. t \in Nat
    BY <1>3
  <2>5. SectorOf(p) = ClustToSect(chain[f][m + 1]) + s
    BY <1>1 DEF SectorOf
  <2> DEFINE x == ClustToSect(chain[f][m + 1])
  <2> HIDE DEF x, s
  <2>6. x + (s + t) = (x + s) + t
    BY <1>2, <2>3, <2>4 DEF x
  <2> QED
    BY <2>1, <2>2, <2>5, <2>6 DEF x
<1>5. n \in 0..(d - p.sect)
  BY <1>2, <1>3
<1> QED
  BY <1>3, <1>4, <1>5, StepInCluster

-----------------------------------------------------------------------------
(* Transfers.                                                               *)

(* n sectors of file f from sector k on lie side by side from sector c on.    *)
Transfer(f, k, n, c) ==
  /\ k \in Nat /\ n \in Nat \ {0} /\ k + n <= Sectors(f) /\ c \in Nat
  /\ \A t \in 0..(n - 1) : FileSector(f, k + t) = c + t

(* The addresses that a transfer of whole sectors goes through.             *)
LEMMA TransferBytes ==
  ASSUME Geometry, NEW f \in File, NEW k, NEW n, NEW c, Transfer(f, k, n, c)
  PROVE  /\ n * BytesPerSector \in Nat
         /\ \A b \in 0..(n * BytesPerSector - 1) :
              /\ k * BytesPerSector + b \in 0..(FileSize(f) - 1)
              /\ Address(f, k * BytesPerSector + b) = c * BytesPerSector + b
              /\ c * BytesPerSector + b \in Volume
<1> DEFINE B == BytesPerSector
<1>1. /\ k \in Nat /\ n \in Nat \ {0} /\ k + n <= Sectors(f) /\ B \in Nat \ {0}
      /\ Sectors(f) \in Nat /\ discSecPerClus \in Nat
      /\ \A t \in 0..(n - 1) : FileSector(f, k + t) = c + t
  BY ChainTypes, GeometryAssumption DEF Transfer, Geometry
<1>2. \A t \in 0..(n - 1) : k + t \in 0..(Sectors(f) - 1) /\ FileSector(f, k + t) \in Nat
  <2> SUFFICES ASSUME NEW t \in 0..(n - 1)
               PROVE  k + t \in 0..(Sectors(f) - 1) /\ FileSector(f, k + t) \in Nat
    OBVIOUS
  <2>1. k + t \in 0..(Sectors(f) - 1)
    BY <1>1
  <2>2. \A z, w : z \in discSecPerClus..w => z \in Nat
    BY <1>1
  <2> QED
    BY <2>1, <2>2, FileSectorRange
<1>3. c \in Nat
  BY DEF Transfer
<1>4. ASSUME NEW b \in 0..(n * B - 1)
      PROVE  /\ k * B + b \in 0..(FileSize(f) - 1)
             /\ Address(f, k * B + b) = c * B + b
             /\ c * B + b \in Volume
  <2> DEFINE t == b \div B
             r == b % B
  <2>1. n * B \in Nat /\ b \in Nat /\ b < n * B
    BY <1>1, Product
  <2>2. t \in Nat /\ r \in 0..(B - 1) /\ b = t * B + r /\ t < n
    BY <1>1, <2>1, Division, DivisionLess
  <2> HIDE DEF t, r
  <2>3. t \in 0..(n - 1)
    BY <1>1, <2>2
  <2>4. /\ (k + t) * B + r \in 0..(FileSize(f) - 1)
        /\ Address(f, (k + t) * B + r) = FileSector(f, k + t) * B + r
    BY <1>2, <2>2, <2>3, AddressOfByte
  <2>5. \A x, y \in Nat : (x + y) * B + r = x * B + (y * B + r)
    BY <1>1, <2>2
  <2>6. (k + t) * B + r = k * B + b /\ (c + t) * B + r = c * B + b
    BY <1>1, <1>3, <2>2, <2>5
  <2>7. FileSector(f, k + t) = c + t
    BY <1>1, <2>3
  <2>8. (c + t) * B + r \in Volume
    <3>1. c + t \in discSecPerClus..((NClusters + 1) * discSecPerClus - 1)
      BY <1>2, <2>3, <2>7, FileSectorRange
    <3> QED
      BY <2>2, <3>1, InVolume
  <2> QED
    BY <2>4, <2>6, <2>7, <2>8
<1> QED
  BY <1>1, <1>3, <1>4, Product

(* What a read brings: the file's bytes.                                    *)
Content(d) == [f \in File |-> [o \in 0..(FileSize(f) - 1) |-> d[Address(f, o)]]]

(* The n bytes of file f from offset a on.                                  *)
Bytes(f, a, n) == [i \in 1..n |-> Content(disk)[f][a + i - 1]]

(* A transfer of whole sectors reads the file's bytes in order.             *)
LEMMA TransferRead ==
  ASSUME Geometry, NEW f \in File, NEW k, NEW n, NEW c, Transfer(f, k, n, c)
  PROVE  SectorsFrom(c, n) = Bytes(f, k * BytesPerSector, n * BytesPerSector)
<1> DEFINE B == BytesPerSector
<1> SUFFICES ASSUME NEW i \in 1..(n * B)
             PROVE  disk[c * B + i - 1] = Content(disk)[f][k * B + i - 1]
  BY DEF SectorsFrom, Bytes
<1>1. n * B \in Nat /\ i - 1 \in 0..(n * B - 1) /\ c \in Nat /\ k \in Nat /\ B \in Nat
  <2>1. c \in Nat /\ k \in Nat /\ B \in Nat /\ n * B \in Nat
    BY TransferBytes, GeometryAssumption DEF Transfer
  <2> QED
    BY <2>1
<1>2. c * B \in Nat /\ k * B \in Nat
  BY <1>1, Product
<1>3. c * B + (i - 1) = c * B + i - 1 /\ k * B + (i - 1) = k * B + i - 1
  BY <1>1, <1>2
<1>4. /\ k * B + (i - 1) \in 0..(FileSize(f) - 1)
      /\ Address(f, k * B + (i - 1)) = c * B + (i - 1)
  BY <1>1, TransferBytes
<1>5. Content(disk)[f][k * B + (i - 1)] = disk[Address(f, k * B + (i - 1))]
  BY <1>4 DEF Content
<1> QED
  BY <1>3, <1>4, <1>5

(* What is true once the bytes of the range [a, z) of f are those of call id.  *)
Stores(f, a, z, id) ==
  /\ disk' = [x \in Volume |-> disk'[x]]
  /\ \A o \in a..(z - 1) : disk'[Address(f, o)] = Byte(f, o, id)
  /\ \A x \in Volume : disk'[x] # disk[x] => \E o \in a..(z - 1) : x = Address(f, o)

(* s is what n sectors from sector c on hold, but for the bytes [a, z) of f.   *)
Overlaid(s, f, k, n, c, a, z, id) ==
  \A i \in 1..(n * BytesPerSector) :
    LET o == k * BytesPerSector + (i - 1)
    IN  s[i] = IF o \in a..(z - 1) THEN Byte(f, o, id)
                                   ELSE disk[c * BytesPerSector + (i - 1)]

(* A write of n sectors: the bytes s where they differ from what was there.    *)
LEMMA TransferWrite ==
  ASSUME Geometry, NEW f \in File, NEW k, NEW n, NEW c, Transfer(f, k, n, c),
         DOMAIN disk = Volume, NEW s, Len(s) = n * BytesPerSector,
         disk' = Written(c * BytesPerSector, s), NEW a \in Nat, NEW z \in Nat, NEW id,
         k * BytesPerSector <= a, z <= k * BytesPerSector + n * BytesPerSector,
         Overlaid(s, f, k, n, c, a, z, id)
  PROVE  Stores(f, a, z, id)
<1> DEFINE B == BytesPerSector
           m == n * B
           e == c * B
           g == k * B
<1>1. m \in Nat /\ e \in Nat /\ g \in Nat
  <2>1. n \in Nat /\ c \in Nat /\ k \in Nat /\ B \in Nat
    BY TransferBytes, GeometryAssumption DEF Transfer
  <2> QED
    BY <2>1, Product
<1>2. \A b \in 0..(m - 1) : /\ Address(f, g + b) = e + b
                            /\ e + b \in Volume
  BY TransferBytes
<1>3. disk' = [x \in Volume |-> IF x - e \in 0..(m - 1) THEN s[x - e + 1] ELSE disk[x]]
  BY DEF Written
<1>4. Volume \subseteq Int
  <2>1. discSecPerClus \in Nat /\ BytesPerSector \in Nat /\ NClusters + 1 \in Nat
    BY GeometryAssumption DEF Geometry
  <2> QED
    BY <2>1 DEF Volume
<1>5. \A i \in 1..m : s[i] = IF g + (i - 1) \in a..(z - 1) THEN Byte(f, g + (i - 1), id)
                                                       ELSE disk[e + (i - 1)]
  BY DEF Overlaid
<1>6. g <= a /\ z <= g + m
  OBVIOUS
<1> HIDE DEF m, e, g
<1>7. ASSUME NEW b \in 0..(m - 1)
      PROVE  /\ disk'[e + b] = IF g + b \in a..(z - 1) THEN Byte(f, g + b, id)
                                                       ELSE disk[e + b]
  <2>1. b + 1 \in 1..m /\ (b + 1) - 1 = b /\ (e + b) - e = b
    BY <1>1
  <2>2. disk'[e + b] = s[b + 1]
    BY <1>2, <1>3, <2>1
  <2> QED
    BY <1>5, <2>1, <2>2
<1>8. ASSUME NEW o \in a..(z - 1)
      PROVE  disk'[Address(f, o)] = Byte(f, o, id)
  <2>1. o - g \in 0..(m - 1) /\ g + (o - g) = o
    BY <1>1, <1>6
  <2> QED
    BY <1>2, <1>7, <2>1
<1>9. ASSUME NEW x \in Volume, disk'[x] # disk[x]
      PROVE  \E o \in a..(z - 1) : x = Address(f, o)
  <2>1. x - e \in 0..(m - 1)
    BY <1>3, <1>9
  <2>2. e + (x - e) = x
    BY <1>1, <1>4
  <2>3. g + (x - e) \in a..(z - 1) /\ Address(f, g + (x - e)) = x
    BY <1>2, <1>7, <1>9, <2>1, <2>2
  <2> QED
    BY <2>3
<1>10. disk' = [x \in Volume |-> disk'[x]]
  BY <1>3
<1> QED
  BY <1>8, <1>9, <1>10 DEF Stores

-----------------------------------------------------------------------------
(* A call under way.                                                        *)

IsCall(r) ==
  r = [open |-> r.open, kind |-> r.kind, file |-> r.file, start |-> r.start,
       len |-> r.len, id |-> r.id, pos |-> r.pos, chunks |-> r.chunks,
       place |-> r.place]

Underway(r) ==
  /\ r.file \in File /\ r.kind \in {"read", "write"}
  /\ r.start \in 0..(FileSize(r.file) - 1)
  /\ r.len \in Nat /\ r.start + r.len <= FileSize(r.file)
  /\ r.pos \in 0..r.len /\ r.chunks \in Nat
  /\ r.pos + r.chunks * BytesPerSector <= r.len
  /\ r.len < r.pos + r.chunks * BytesPerSector + BytesPerSector
  /\ r.pos < r.len =>
       /\ r.pos > 0
       /\ \E k \in Nat : /\ r.start + r.pos = k * BytesPerSector
                         /\ At(r.file, r.place, k)

(* A call that has bytes to move stands on the sector that holds them.        *)
LEMMA Turn ==
  ASSUME Geometry, Tables, NEW r, Underway(r), r.pos < r.len
  PROVE  \E k \in 0..(Sectors(r.file) - 1) :
           /\ r.start + r.pos = k * BytesPerSector
           /\ On(r.file, NextPlace(r.file, r.place), k)
           /\ k + r.chunks <= Sectors(r.file)
           /\ r.start \div BytesPerSector < k
<1> DEFINE B == BytesPerSector
           f == r.file
           S == Sectors(f)
           o == r.start + r.pos
           N == r.chunks
<1>1. /\ f \in File /\ r.start \in Nat /\ r.pos \in Nat \ {0} /\ N \in Nat
      /\ r.len \in Nat /\ r.start + r.len <= S * B
      /\ S \in Nat /\ B \in Nat \ {0} /\ S * B \in Nat /\ N * B \in Nat
      /\ r.pos + N * B <= r.len
  <2>1. f \in File /\ r.chunks \in Nat /\ FileSize(f) = S * B /\ S \in Nat /\ B \in Nat \ {0}
    BY ChainTypes, GeometryAssumption DEF Underway
  <2>2. S * B \in Nat /\ N * B \in Nat
    BY <2>1, Product
  <2>3. /\ r.start \in Nat /\ r.pos \in Nat \ {0}
        /\ r.len \in Nat /\ r.start + r.len <= S * B
        /\ r.pos + N * B <= r.len
    <3> DEFINE x == N * B
    <3>1. r.pos + x <= r.len
      BY DEF Underway
    <3> HIDE DEF x
    <3> QED
      BY <2>1, <2>2, <3>1 DEF Underway, x
  <2> QED
    BY <2>1, <2>2, <2>3
<1>2. PICK k \in Nat : o = k * B /\ At(f, r.place, k)
  BY DEF Underway
<1>3. o < S * B /\ o + N * B <= S * B /\ r.start < o
  <2> DEFINE x == N * B
             y == S * B
  <2>1. /\ r.start + r.len <= y /\ r.pos + x <= r.len /\ x \in Nat /\ y \in Nat
    BY <1>1
  <2> HIDE DEF x, y
  <2> QED
    BY <1>1, <2>1 DEF x, y
<1>4. k + N <= S
  <2>1. (k + N) * B = k * B + N * B
    BY <1>1, <1>2
  <2>2. ~(S < k + N)
    <3> SUFFICES ASSUME S < k + N PROVE FALSE
      OBVIOUS
    <3>1. S * B + B <= (k + N) * B
      BY <1>1, <1>2, ProductLess
    <3>2. (k + N) * B <= S * B
      BY <1>2, <1>3, <2>1
    <3>3. \A x, y \in Nat : ~(x + B <= y /\ y <= x)
      BY <1>1
    <3>4. (k + N) * B \in Nat
      BY <1>1, <1>2, Product
    <3> QED
      BY <1>1, <3>1, <3>2, <3>3, <3>4
  <2> QED
    BY <1>1, <1>2, <2>2
<1>5. k < S
  <2> SUFFICES ASSUME S <= k PROVE FALSE
    BY <1>1, <1>2
  <2>1. CASE S = k
    <3>1. o < k * B /\ o = k * B /\ o \in Nat
      BY <1>1, <1>2, <1>3, <2>1
    <3> HIDE DEF o
    <3> QED
      BY <3>1
  <2>2. CASE S < k
    <3>1. S * B + B <= k * B
      BY <1>1, <1>2, <2>2, ProductLess
    <3> HIDE DEF o
    <3> QED
      BY <1>1, <1>2, <1>3, <3>1
  <2> QED
    BY <1>1, <1>2, <2>1, <2>2
<1>6. r.start \div B < k
  <2>1. r.start < k * B
    BY <1>2, <1>3
  <2> QED
    BY <1>1, <1>2, <2>1, DivisionLess
<1>7. k \in 0..(S - 1)
  BY <1>1, <1>2, <1>5
<1>8. On(f, NextPlace(f, r.place), k)
  <2> HIDE DEF f
  <2> QED
    BY <1>1, <1>2, <1>7, NextPlaceOn
<1> QED
  BY <1>2, <1>4, <1>6, <1>7, <1>8

(* The call after a turn that moved n whole sectors, or the last bytes.       *)
Advanced(r, q, n) ==
  [r EXCEPT !.place = q, !.chunks = @ - n, !.pos = @ + n * BytesPerSector]

Ended(r, p) == [r EXCEPT !.place = p, !.pos = r.len]

(* A turn of either loop leaves the call as far as it says.                 *)
LEMMA TurnUnderway ==
  ASSUME Geometry, NEW r, IsCall(r), Underway(r), r.chunks > 0, NEW n \in 1..r.chunks,
         NEW k \in Nat, r.start + r.pos = k * BytesPerSector, NEW q, At(r.file, q, k + n), r.pos > 0,
         NEW s, s = Advanced(r, q, n)
  PROVE  IsCall(s) /\ Underway(s)
<1> DEFINE B == BytesPerSector
           x == n * B
           y == (r.chunks - n) * B
<1>1. /\ B \in Nat \ {0} /\ n \in Nat /\ r.chunks \in Nat /\ r.chunks - n \in Nat
      /\ r.file \in File
  BY GeometryAssumption DEF Underway
<1>2. r.chunks * B = x + y /\ x \in Nat /\ y \in Nat
  <2>1. \A a, b \in Int : a * B = b * B + (a - b) * B
    BY <1>1
  <2>2. r.chunks * B = n * B + (r.chunks - n) * B
    BY <1>1, <2>1
  <2> QED
    BY <1>1, <2>2, Product
<1>3. /\ s.file = r.file /\ s.kind = r.kind /\ s.start = r.start /\ s.len = r.len
      /\ s.pos = r.pos + x /\ s.chunks = r.chunks - n /\ s.place = q
      /\ IsCall(s)
  BY DEF IsCall, Advanced
<1>4. /\ r.start \in Nat /\ r.len \in Nat /\ r.pos \in Nat
      /\ r.pos + (x + y) <= r.len /\ r.len < r.pos + (x + y) + B
  <2>1. /\ r.pos + r.chunks * B <= r.len /\ r.len < r.pos + r.chunks * B + B
    BY DEF Underway
  <2> QED
    BY <1>2, <2>1 DEF Underway
<1>5. /\ s.pos \in 0..s.len /\ s.chunks \in Nat
      /\ s.pos + y <= s.len /\ s.len < s.pos + y + B /\ s.pos > 0
  <2> HIDE DEF x, y
  <2> QED
    BY <1>1, <1>2, <1>3, <1>4
<1>6. s.start + s.pos = (k + n) * B
  <2>1. (k + n) * B = k * B + x
    BY <1>1
  <2> HIDE DEF x
  <2> QED
    BY <1>2, <1>3, <1>4, <2>1
<1>7. s.chunks * B = y
  BY <1>3
<1> HIDE DEF y, x
<1>8. /\ s.file \in File /\ s.kind \in {"read", "write"}
      /\ s.start \in 0..(FileSize(s.file) - 1)
      /\ s.len \in Nat /\ s.start + s.len <= FileSize(s.file)
  BY <1>3 DEF Underway
<1> QED
  BY <1>1, <1>3, <1>5, <1>6, <1>7, <1>8 DEF Underway

(* The part of a call before its loop.                                      *)
LEMMA BegunUnderway ==
  ASSUME Geometry, Tables, NEW f \in File, CursorRight(f, cursor[f]),
         NEW start \in 0..(FileSize(f) - 1), NEW len \in Nat, start + len <= FileSize(f),
         NEW kind \in {"read", "write"}, NEW r, r = Begun(kind, f, start, len)
  PROVE  /\ IsCall(r) /\ Underway(r)
         /\ r.open /\ r.kind = kind /\ r.file = f /\ r.start = start /\ r.len = len
         /\ r.pos = FirstBytes(start, len) /\ r.id = calls + 1
         /\ start % BytesPerSector \in 0..(BytesPerSector - 1)
         /\ (start % BytesPerSector) + r.pos <= BytesPerSector
         /\ start = (start \div BytesPerSector) * BytesPerSector + (start % BytesPerSector)
         /\ Transfer(f, start \div BytesPerSector, 1, SectorOf(FindCluster(f, start)))
<1> DEFINE B == BytesPerSector
           k == start \div B
           e == start % B
           n == FirstBytes(start, len)
           p == FindCluster(f, start)
           c == (len - n) \div B
<1>1. /\ B \in Nat \ {0} /\ start \in Nat /\ discSecPerClus \in Nat \ {0}
      /\ Sectors(f) \in Nat
  BY ChainTypes, GeometryAssumption DEF Geometry
<1>2. k \in Nat /\ e \in 0..(B - 1) /\ start = k * B + e
  BY <1>1, Division
<1>3. On(f, p, k)
  BY FindClusterOn
<1>4. k \in 0..(Sectors(f) - 1) /\ SectorOf(p) = FileSector(f, k)
  <2> HIDE DEF p, k
  <2> QED
    BY <1>3, OnSector
<1>5. /\ p = Place(p.index, p.cluster, p.offset, p.sect)
      /\ p.sect \in 0..(discSecPerClus - 1)
  BY <1>3 DEF On
<1>6. /\ n \in 0..len /\ e + n <= B /\ (n < len => n = B - e)
  <2>1. n = IF B < len + e THEN B - e ELSE len
    BY DEF FirstBytes
  <2> HIDE DEF n, e, B
  <2> QED
    BY <1>1, <1>2, <2>1
<1>7. c \in Nat /\ n + c * B <= len /\ len < n + c * B + B
  <2>1. len - n \in Nat
    BY <1>6
  <2>2. c \in Nat /\ len - n = c * B + ((len - n) % B) /\ (len - n) % B \in 0..(B - 1)
    BY <1>1, <2>1, Division
  <2>3. c * B \in Nat
    BY <1>1, <2>2, Product
  <2> DEFINE x == c * B
             y == (len - n) % B
  <2>4. len - n = x + y /\ y \in 0..(B - 1) /\ x \in Nat
    BY <2>2, <2>3
  <2> HIDE DEF x, y, n
  <2>5. n + x <= len /\ len < n + x + B
    BY <1>1, <1>6, <2>4
  <2> QED
    BY <2>2, <2>5 DEF x
<1>8. /\ r.open /\ r.kind = kind /\ r.file = f /\ r.start = start /\ r.len = len
      /\ r.pos = n /\ r.id = calls + 1 /\ r.chunks = c
      /\ r.place = [p EXCEPT !.sect = @ + 1]
      /\ IsCall(r)
  BY DEF Begun, IsCall
<1>9. At(f, r.place, k + 1)
  <2>1. 1 \in 0..(discSecPerClus - p.sect)
    BY <1>1, <1>5
  <2> HIDE DEF p, k
  <2> QED
    BY <1>3, <1>8, <2>1, StepInCluster
<1>10. n < len => n > 0 /\ start + n = (k + 1) * B
  <2>1. (k + 1) * B = k * B + B /\ k * B \in Nat
    BY <1>1, <1>2, Product
  <2> DEFINE x == k * B
  <2>2. (k + 1) * B = x + B /\ x \in Nat /\ start = x + e
    BY <1>2, <2>1
  <2> HIDE DEF x, e, n
  <2> QED
    BY <1>1, <1>2, <1>6, <2>2
<1>11. Underway(r)
  <2> HIDE DEF n, c, p, k, e
  <2>1. r.pos < r.len =>
          /\ r.pos > 0
          /\ r.start + r.pos = (k + 1) * B /\ At(r.file, r.place, k + 1) /\ k + 1 \in Nat
    BY <1>2, <1>8, <1>9, <1>10
  <2> QED
    BY <1>1, <1>6, <1>7, <1>8, <2>1 DEF Underway
<1>12. Transfer(f, k, 1, SectorOf(p))
  <2>1. FileSector(f, k) \in Nat
    <3>1. \A z, w : z \in discSecPerClus..w => z \in Nat
      BY <1>1
    <3> QED
      BY <1>4, <3>1, FileSectorRange
  <2> DEFINE v == SectorOf(p)
  <2>2. v \in Nat /\ v = FileSector(f, k)
    BY <1>4, <2>1
  <2> HIDE DEF v, p, k
  <2>3. \A t \in 0..(1 - 1) : FileSector(f, k + t) = v + t
    <3> SUFFICES ASSUME NEW t \in 0..(1 - 1) PROVE FileSector(f, k + t) = v + t
      OBVIOUS
    <3>1. t = 0 /\ k + t = k /\ v + t = v
      BY <1>2, <2>2
    <3> QED
      BY <2>2, <3>1
  <2> QED
    BY <1>1, <1>2, <1>4, <2>2, <2>3 DEF Transfer, v
<1> HIDE DEF c, p, k
<1> QED
  BY <1>2, <1>6, <1>8, <1>11, <1>12 DEF p, k

-----------------------------------------------------------------------------
(* The invariant.                                                           *)

Shapes ==
  /\ cursor = [f \in File |-> cursor[f]]
  /\ cached = [f \in File |-> cached[f]]
  /\ fatTable = [f \in File |-> fatTable[f]]
  /\ disk = [x \in Volume |-> disk[x]]
  /\ IsCall(call) /\ IsCall(context)

Cursors ==
  \A f \in File : /\ CursorRight(f, cursor[f])
                  /\ f \notin booted => cached[f] = "no"

(* The sector buffer during a write: still the first sector of the range,     *)
(* which the loop does not come back to.                                    *)
WriteBuffer ==
  call.open /\ call.kind = "write" =>
    /\ out = <<>>
    /\ call.pos < call.len =>
         /\ prev.sect # -1
         /\ ClustToSect(prev.cluster) + prev.sect
              = FileSector(call.file, call.start \div BytesPerSector)

Polled ==
  context.open =>
    /\ booted = File /\ Underway(context)
    /\ context.file = "rom" /\ context.kind = "read"
    /\ context.pos + context.chunks * BytesPerSector = context.len

Calling == call.open => booted = File /\ Underway(call)

Inv ==
  /\ Geometry /\ Tables /\ Shapes /\ Cursors
  /\ BufferCoherent /\ WriteBuffer /\ Calling /\ Polled

(* loadSectorBuf: the buffer holds the sector, read or not.                  *)
LEMMA Loaded ==
  ASSUME Inv, NEW f \in File, NEW p, NEW k, On(f, p, k)
  PROVE  /\ LoadedBuffer(f, p) = SectorsFrom(SectorOf(p), 1)
         /\ p.sect # -1
<1>1. p.sect # -1
  BY DEF On
<1>2. CASE BufferHolds(f, p)
  <2>1. prev.sect = p.sect /\ prev.cluster = p.cluster
    BY <1>2 DEF BufferHolds
  <2>2. globalBuffer = SectorsFrom(ClustToSect(prev.cluster) + prev.sect, 1)
    BY <1>1, <2>1 DEF Inv, BufferCoherent
  <2> QED
    BY <1>1, <1>2, <2>1, <2>2 DEF LoadedBuffer, SectorOf
<1>3. CASE ~BufferHolds(f, p)
  BY <1>1, <1>3 DEF LoadedBuffer
<1> QED
  BY <1>2, <1>3

(* currentCluster and currentOffset move together.                          *)
LEMMA CursorMoved ==
  ASSUME Inv, NEW f \in File, NEW p, MoveCursor(f, p),
         CursorRight(f, [cluster |-> p.cluster, offset |-> p.offset])
  PROVE  /\ cursor' = [g \in File |-> cursor'[g]]
         /\ \A g \in File : CursorRight(g, cursor'[g])
<1>1. cursor' = [g \in File |-> IF g = f THEN [cluster |-> p.cluster, offset |-> p.offset]
                                ELSE cursor[g]]
  BY DEF Inv, Shapes, MoveCursor
<1>2. \A g \in File : CursorRight(g, cursor[g])
  BY DEF Inv, Cursors
<1> QED
  BY <1>1, <1>2

(* What a step that leaves the files alone must show.                        *)
LEMMA FilesKept ==
  ASSUME Inv, UNCHANGED files
  PROVE  /\ Geometry' /\ Tables'
         /\ cached' = [f \in File |-> cached'[f]] /\ fatTable' = [f \in File |-> fatTable'[f]]
         /\ Volume' = Volume
         /\ (\A f \in File : CursorRight(f, cursor'[f])) => Cursors'
         /\ (call'.open => booted = File /\ Underway(call')) => Calling'
         /\ (context'.open =>
               /\ booted = File /\ Underway(context')
               /\ context'.file = "rom" /\ context'.kind = "read"
               /\ context'.pos + context'.chunks * BytesPerSector = context'.len) => Polled'
         /\ (call'.open /\ call'.kind = "write" =>
               /\ out' = <<>>
               /\ call'.pos < call'.len =>
                    /\ prev'.sect # -1
                    /\ ClustToSect(prev'.cluster) + prev'.sect
                         = FileSector(call'.file, call'.start \div BytesPerSector))
            => WriteBuffer'
<1> USE DEF Inv, files
<1>1. Geometry'
  BY DEF Geometry
<1>2. Tables'
  BY DEF Tables
<1>3. cached' = [f \in File |-> cached'[f]] /\ fatTable' = [f \in File |-> fatTable'[f]]
  BY DEF Shapes
<1>4. Volume' = Volume
  BY DEF Volume
<1>5. (\A f \in File : CursorRight(f, cursor'[f])) => Cursors'
  BY DEF Cursors, CursorRight, BytePerClus
<1>6. (call'.open => booted = File /\ Underway(call')) => Calling'
  BY DEF Calling, Underway, At, InCluster, FileSize, BytePerClus
<1>7. (context'.open =>
               /\ booted = File /\ Underway(context')
               /\ context'.file = "rom" /\ context'.kind = "read"
               /\ context'.pos + context'.chunks * BytesPerSector = context'.len) => Polled'
  BY DEF Polled, Underway, At, InCluster, FileSize, BytePerClus
<1>8. (call'.open /\ call'.kind = "write" =>
               /\ out' = <<>>
               /\ call'.pos < call'.len =>
                    /\ prev'.sect # -1
                    /\ ClustToSect(prev'.cluster) + prev'.sect
                         = FileSector(call'.file, call'.start \div BytesPerSector))
            => WriteBuffer'
  BY DEF WriteBuffer, FileSector, ClustToSect
<1> QED
  BY <1>1, <1>2, <1>3, <1>4, <1>5, <1>6, <1>7, <1>8

(* Before the loader has run.                                               *)
LEMMA InitInv == Init => Inv
<1> SUFFICES ASSUME Init PROVE Inv
  OBVIOUS
<1> USE DEF Init
<1>1. Geometry
  BY GeometryAssumption, LayoutsAssumption DEF Geometry
<1>2. Tables
  BY DEF Tables
<1>3. Shapes
  <2>1. IsCall(call) /\ IsCall(context)
    BY DEF NoCall, IsCall
  <2>2. disk = [x \in Volume |-> disk[x]]
    OBVIOUS
  <2> QED
    BY <2>1, <2>2 DEF Shapes
<1>4. Cursors
  <2>1. ASSUME NEW f \in File, chain[f] # <<>>
        PROVE  /\ 0 \in 0..(Len(chain[f]) - 1)
               /\ cursor[f] = [cluster |-> chain[f][0 + 1], offset |-> 0 * BytePerClus]
    <3>1. BytePerClus \in Nat
      BY <1>1, ChainTypes
    <3>2. Len(chain[f]) \in Nat \ {0}
      BY <1>1, <2>1, EmptySeq DEF Geometry
    <3> QED
      BY <3>1, <3>2
  <2> QED
    BY <2>1 DEF Cursors, CursorRight
<1>5. BufferCoherent /\ WriteBuffer /\ Calling /\ Polled
  BY DEF BufferCoherent, WriteBuffer, Calling, Polled, NoCall
<1> QED
  BY <1>1, <1>2, <1>3, <1>4, <1>5 DEF Inv

(* The loader's steps: the tables they make are the file's clusters.         *)
LEMMA BootInv == Inv /\ Boot => Inv'
<1> SUFFICES ASSUME Inv, NEW f \in File,
                    BuildFatTableCache(f) \/ BuildFatTableCacheCompressed(f) \/ SkipTable(f)
             PROVE  Inv'
  BY DEF Boot
<1>1. /\ f \notin booted /\ booted' = booted \cup {f}
      /\ UNCHANGED <<discSecPerClus, chain, cursor, disk, globalBuffer, prev, call, out,
                     context>>
      /\ \/ cached' = [cached EXCEPT ![f] = "plain"] /\ fatTable' = [fatTable EXCEPT ![f] = chain[f]]
         \/ cached' = [cached EXCEPT ![f] = "compressed"]
            /\ fatTable' = [fatTable EXCEPT ![f] = Runs(chain[f])]
         \/ cached' = [cached EXCEPT ![f] = "no"] /\ fatTable' = [fatTable EXCEPT ![f] = <<>>]
         \/ UNCHANGED <<cached, fatTable>>
  <2>1. CASE BuildFatTableCache(f)
    BY <2>1 DEF BuildFatTableCache
  <2>2. CASE BuildFatTableCacheCompressed(f)
    BY <2>2 DEF BuildFatTableCacheCompressed
  <2>3. CASE SkipTable(f)
    BY <2>3 DEF SkipTable
  <2> QED
    BY <2>1, <2>2, <2>3
<1>2. /\ cached = [g \in File |-> cached[g]] /\ fatTable = [g \in File |-> fatTable[g]]
      /\ Tables /\ Geometry /\ cached[f] = "no"
      /\ \A g \in File : CursorRight(g, cursor[g]) /\ (g \notin booted => cached[g] = "no")
      /\ ~call.open /\ ~context.open
  BY <1>1 DEF Inv, Shapes, Cursors, Calling, Polled
<1>3. /\ Tables' /\ cached' = [g \in File |-> cached'[g]]
      /\ fatTable' = [g \in File |-> fatTable'[g]]
  BY <1>1, <1>2 DEF Tables
<1>4. Geometry'
  BY <1>1, <1>2 DEF Geometry
<1>5. Shapes'
  BY <1>1, <1>3 DEF Inv, Shapes, Volume
<1>6. Cursors'
  <2> SUFFICES ASSUME NEW g \in File
               PROVE  CursorRight(g, cursor[g])' /\ (g \notin booted' => cached'[g] = "no")
    BY DEF Cursors
  <2>1. g # f => cached'[g] = cached[g]
    BY <1>1, <1>2
  <2>2. cached'[g] = "no" => cached[g] = "no"
    BY <1>2, <2>1
  <2> QED
    BY <1>1, <1>2, <2>1, <2>2 DEF CursorRight, BytePerClus
<1>7. BufferCoherent' /\ WriteBuffer' /\ Calling' /\ Polled'
  BY <1>1, <1>2 DEF Inv, BufferCoherent, WriteBuffer, Calling, Polled, SectorsFrom, ClustToSect
<1> QED
  BY <1>3, <1>4, <1>5, <1>6, <1>7 DEF Inv

-----------------------------------------------------------------------------
(* The bytes that one step moves.                                           *)

(* A part of a sector, taken out of the buffer.                              *)
LEMMA SectorBytes ==
  ASSUME Geometry, NEW f \in File, NEW k, NEW c, Transfer(f, k, 1, c),
         NEW e \in Nat, NEW n \in Nat, e + n <= BytesPerSector
  PROVE  SubSeq(SectorsFrom(c, 1), e + 1, e + n) = Bytes(f, k * BytesPerSector + e, n)
<1> DEFINE B == BytesPerSector
           s == [i \in 1..B |-> Content(disk)[f][k * B + i - 1]]
           S == {s[i] : i \in 1..B}
<1>1. B \in Nat /\ 1 * B = B /\ k * B \in Nat
  BY GeometryAssumption, Product DEF Transfer
<1>2. SectorsFrom(c, 1) = s
  BY <1>1, TransferRead DEF Bytes
<1>3. s \in Seq(S) /\ Len(s) = B
  BY <1>1
<1>4. \A i \in 1..n : s[i + (e + 1) - 1] = Content(disk)[f][k * B + e + i - 1]
  <2> SUFFICES ASSUME NEW i \in 1..n
               PROVE  s[i + (e + 1) - 1] = Content(disk)[f][k * B + e + i - 1]
    OBVIOUS
  <2>1. i + (e + 1) - 1 \in 1..B /\ k * B + (i + (e + 1) - 1) - 1 = k * B + e + i - 1
    BY <1>1
  <2>2. \A j \in 1..B : s[j] = Content(disk)[f][k * B + j - 1]
    OBVIOUS
  <2> HIDE DEF s
  <2> QED
    BY <2>1, <2>2
<1> HIDE DEF s, S
<1>5. SubSeq(s, e + 1, e + n) = [i \in 1..(e + n - (e + 1) + 1) |-> s[i + (e + 1) - 1]]
  OBVIOUS
<1>6. e + n - (e + 1) + 1 = n
  OBVIOUS
<1> QED
  BY <1>2, <1>4, <1>5, <1>6 DEF Bytes

(* loadSectorBuf leaves the buffer with what its tags name.                 *)
LEMMA ReadBuffer ==
  ASSUME Inv, UNCHANGED <<files, disk>>, NEW f \in File, NEW p, NEW k, On(f, p, k),
         LoadSectorBuf(f, p), globalBuffer' = LoadedBuffer(f, p)
  PROVE  BufferCoherent'
<1>1. globalBuffer' = SectorsFrom(SectorOf(p), 1)
  BY Loaded
<1>2. prev'.sect = p.sect /\ prev'.cluster = p.cluster
  BY DEF LoadSectorBuf
<1>3. SectorsFrom(ClustToSect(prev.cluster) + prev.sect, 1)' = SectorsFrom(SectorOf(p), 1)
  BY <1>2 DEF SectorsFrom, SectorOf, ClustToSect, files
<1> QED
  BY <1>1, <1>3 DEF BufferCoherent

(* Neither the buffer nor the volume moves.                                 *)
LEMMA KeptBuffer ==
  ASSUME Inv, UNCHANGED <<files, disk, globalBuffer, prev>>
  PROVE  BufferCoherent'
BY DEF Inv, BufferCoherent, SectorsFrom, ClustToSect, files

(* A request accepted by fileRead.                                          *)
LEMMA BeginReadStep ==
  ASSUME Inv, NEW f \in File, NEW start \in 0..(FileSize(f) - 1), NEW len \in 0..FileSize(f),
         start + len <= FileSize(f), BeginRead(f, start, len)
  PROVE  /\ Inv'
         /\ IsCall(call') /\ Underway(call')
         /\ call'.open /\ call'.kind = "read" /\ call'.file = f /\ call'.start = start
         /\ call'.len = len
         /\ out' = Bytes(f, start, call'.pos)
<1> DEFINE p == FindCluster(f, start)
           k == start \div BytesPerSector
           e == start % BytesPerSector
<1>1. /\ Geometry /\ Tables /\ CursorRight(f, cursor[f])
      /\ len \in Nat
  BY ChainTypes DEF Inv, Cursors
<1>2. /\ booted = File /\ ~call.open
      /\ LoadSectorBuf(f, p) /\ globalBuffer' = LoadedBuffer(f, p)
      /\ out' = SubSeq(LoadedBuffer(f, p), e + 1, e + FirstBytes(start, len))
      /\ call' = Begun("read", f, start, len)
      /\ MoveCursor(f, p)
      /\ UNCHANGED files /\ UNCHANGED disk /\ UNCHANGED context
  BY DEF BeginRead, Ready
<1>3. /\ IsCall(call') /\ Underway(call')
      /\ call'.open /\ call'.kind = "read" /\ call'.file = f /\ call'.start = start
      /\ call'.len = len /\ call'.pos = FirstBytes(start, len)
      /\ e \in 0..(BytesPerSector - 1) /\ e + call'.pos <= BytesPerSector
      /\ start = k * BytesPerSector + e
      /\ Transfer(f, k, 1, SectorOf(p))
  <2> DEFINE r == Begun("read", f, start, len)
  <2>0. r = Begun("read", f, start, len)
    OBVIOUS
  <2> HIDE DEF r
  <2>1. /\ IsCall(r) /\ Underway(r)
        /\ r.open /\ r.kind = "read" /\ r.file = f /\ r.start = start
        /\ r.len = len /\ r.pos = FirstBytes(start, len)
        /\ e \in 0..(BytesPerSector - 1) /\ e + r.pos <= BytesPerSector
        /\ start = k * BytesPerSector + e
        /\ Transfer(f, k, 1, SectorOf(p))
    BY <1>1, <2>0, BegunUnderway
  <2> QED
    BY <1>2, <2>0, <2>1
<1>4. On(f, p, k)
  BY <1>1, FindClusterOn
<1> HIDE DEF p, k, e
<1>5. /\ LoadedBuffer(f, p) = SectorsFrom(SectorOf(p), 1)
      /\ CursorRight(f, [cluster |-> p.cluster, offset |-> p.offset])
  BY <1>1, <1>4, Loaded, OnSector
<1>6. /\ cursor' = [g \in File |-> cursor'[g]]
      /\ \A g \in File : CursorRight(g, cursor'[g])
  BY <1>2, <1>5, CursorMoved
<1>7. Shapes'
  BY <1>2, <1>3, <1>6, FilesKept DEF Inv, Shapes
<1>8. WriteBuffer' /\ Calling' /\ Cursors' /\ Geometry' /\ Tables'
  BY <1>2, <1>3, <1>6, FilesKept
<1>9. Polled'
  BY <1>2, FilesKept DEF Inv, Polled
<1>10. BufferCoherent'
  BY <1>2, <1>4, ReadBuffer
<1>11. out' = Bytes(f, start, call'.pos)
  <2> DEFINE n == call'.pos
  <2>1. /\ e \in Nat /\ n \in Nat /\ e + n <= BytesPerSector
    BY <1>3, GeometryAssumption DEF Underway
  <2>2. out' = SubSeq(SectorsFrom(SectorOf(p), 1), e + 1, e + n)
    BY <1>2, <1>3, <1>5
  <2> HIDE DEF n
  <2>3. SubSeq(SectorsFrom(SectorOf(p), 1), e + 1, e + n)
          = Bytes(f, k * BytesPerSector + e, n)
    BY <1>1, <1>3, <2>1, SectorBytes
  <2> QED
    BY <1>3, <2>2, <2>3 DEF n
<1> QED
  BY <1>3, <1>7, <1>8, <1>9, <1>10, <1>11 DEF Inv

(* A call with whole sectors left has bytes to move.                         *)
LEMMA ChunksLeft ==
  ASSUME NEW r, Underway(r), r.chunks > 0
  PROVE  r.pos < r.len /\ r.pos > 0 /\ r.chunks \in Nat \ {0} /\ r.file \in File
<1>1. /\ BytesPerSector \in Nat \ {0} /\ r.chunks \in Nat \ {0} /\ r.pos \in Nat /\ r.len \in Nat
  BY GeometryAssumption DEF Underway
<1> DEFINE x == r.chunks * BytesPerSector
<1>2. x \in Nat \ {0}
  BY <1>1
<1>3. r.pos + x <= r.len
  BY DEF Underway
<1> HIDE DEF x
<1>4. r.pos < r.len
  BY <1>1, <1>2, <1>3
<1> QED
  BY <1>1, <1>4 DEF Underway

(* One turn of the loop of fileRead, or of resumeFileRead.                    *)
TurnPlace(r)   == NextPlace(r.file, r.place)
TurnSectors(r) == SectorsToRead(r.file, TurnPlace(r), r.chunks)
TurnEnd(r)     == AfterRead(r.file, TurnPlace(r), TurnSectors(r))
TurnRead(r)    == Advanced(r, TurnEnd(r), TurnSectors(r))

(* A turn of a read, of either kind: what it returns and where it ends.     *)
LEMMA ReadTurnStep ==
  ASSUME Inv, NEW r, IsCall(r), Underway(r), r.chunks > 0
  PROVE  /\ IsCall(TurnRead(r)) /\ Underway(TurnRead(r))
         /\ TurnRead(r).pos \in r.pos..r.len /\ r.pos < TurnRead(r).pos
         /\ TurnRead(r).pos - r.pos = TurnSectors(r) * BytesPerSector
         /\ TurnRead(r).open = r.open /\ TurnRead(r).kind = r.kind
         /\ TurnRead(r).file = r.file /\ TurnRead(r).start = r.start
         /\ TurnRead(r).len = r.len /\ TurnRead(r).id = r.id
         /\ TurnRead(r).pos + TurnRead(r).chunks * BytesPerSector
              = r.pos + r.chunks * BytesPerSector
         /\ CursorRight(r.file, [cluster |-> TurnEnd(r).cluster, offset |-> TurnEnd(r).offset])
         /\ SectorsFrom(SectorOf(TurnPlace(r)), TurnSectors(r))
              = Bytes(r.file, r.start + r.pos, TurnSectors(r) * BytesPerSector)
<1> DEFINE p == TurnPlace(r)
           n == TurnSectors(r)
           q == TurnEnd(r)
           s == TurnRead(r)
<1>0. /\ p = NextPlace(r.file, r.place) /\ n = SectorsToRead(r.file, p, r.chunks)
      /\ q = AfterRead(r.file, p, n) /\ s = Advanced(r, q, n)
  BY DEF TurnPlace, TurnSectors, TurnEnd, TurnRead
<1> HIDE DEF p, n, q, s
<1> DEFINE f == r.file
           B == BytesPerSector
<1>1. Geometry /\ Tables /\ f \in File /\ r.chunks \in Nat \ {0} /\ r.pos < r.len /\ r.pos > 0
  BY ChunksLeft DEF Inv
<1>2. PICK k \in 0..(Sectors(f) - 1) :
        /\ r.start + r.pos = k * B /\ On(f, p, k) /\ k + r.chunks <= Sectors(f)
  BY <1>0, <1>1, Turn
<1>3. k \in Nat /\ Sectors(f) \in Nat
  BY <1>1, ChainTypes
<1>4. /\ n \in 1..r.chunks
      /\ \A t \in 0..(n - 1) : FileSector(f, k + t) = SectorOf(p) + t
      /\ At(f, q, k + n)
      /\ CursorRight(f, [cluster |-> q.cluster, offset |-> q.offset])
  <2> HIDE DEF f
  <2> DEFINE chunks == r.chunks
  <2>1. chunks \in Nat \ {0} /\ k + chunks <= Sectors(f) /\ n = SectorsToRead(f, p, chunks)
    BY <1>0, <1>1, <1>2 DEF f
  <2> HIDE DEF chunks
  <2>2. /\ n \in 1..chunks
        /\ \A t \in 0..(n - 1) : FileSector(f, k + t) = SectorOf(p) + t
        /\ At(f, AfterRead(f, p, n), k + n)
        /\ CursorRight(f, [cluster |-> AfterRead(f, p, n).cluster,
                           offset |-> AfterRead(f, p, n).offset])
    BY <1>1, <1>2, <2>1, ReadTurn
  <2>3. q = AfterRead(f, p, n)
    BY <1>0 DEF f
  <2> QED
    BY <2>2, <2>3 DEF chunks
<1>5. IsCall(s) /\ Underway(s)
  BY <1>0, <1>1, <1>2, <1>3, <1>4, TurnUnderway
<1>6. /\ s.open = r.open /\ s.kind = r.kind /\ s.file = r.file /\ s.start = r.start
      /\ s.len = r.len /\ s.id = r.id /\ s.pos = r.pos + n * B /\ s.chunks = r.chunks - n
  BY <1>0 DEF IsCall, Advanced
<1>7. n * B \in Nat /\ r.pos \in Nat /\ r.len \in Nat /\ n \in Nat
  BY <1>4, GeometryAssumption, Product DEF Underway
<1>8. s.pos \in r.pos..r.len /\ r.pos < s.pos /\ s.pos - r.pos = n * B
  <2> DEFINE x == n * B
  <2>1. x \in Nat \ {0} /\ s.pos = r.pos + x /\ s.pos \in 0..s.len /\ s.len = r.len
    BY <1>4, <1>5, <1>6, <1>7, GeometryAssumption DEF Underway
  <2> HIDE DEF x
  <2> QED
    BY <1>7, <2>1 DEF x
<1>9. s.pos + s.chunks * B = r.pos + r.chunks * B
  <2> DEFINE a == r.pos
             u == r.chunks
  <2>1. B \in Int /\ u \in Int /\ a \in Int /\ n \in Int
    BY <1>1, <1>7, GeometryAssumption
  <2>2. s.pos = a + n * B /\ s.chunks = u - n
    BY <1>6
  <2> HIDE DEF a, u, B
  <2>3. (a + n * B) + (u - n) * B = a + u * B
    BY <2>1
  <2> QED
    BY <2>2, <2>3, Zenon DEF a, u, B
<1>10. SectorsFrom(SectorOf(p), n) = Bytes(f, r.start + r.pos, n * B)
  <2> DEFINE c == SectorOf(p)
  <2>1. c \in Nat
    <3>1. SectorOf(p) = FileSector(f, k) /\ discSecPerClus \in Nat
      BY <1>1, <1>2, OnSector DEF Geometry
    <3>2. \A z, w : z \in discSecPerClus..w => z \in Nat
      BY <3>1
    <3> QED
      BY <1>1, <1>2, <3>1, <3>2, FileSectorRange
  <2>2. Transfer(f, k, n, c)
    <3> DEFINE chunks == r.chunks
    <3>1. chunks \in Nat /\ n \in 1..chunks /\ k + chunks <= Sectors(f)
      BY <1>1, <1>2, <1>4
    <3> HIDE DEF c, f, chunks
    <3>2. n \in Nat \ {0} /\ k + n <= Sectors(f)
      BY <1>3, <3>1
    <3> QED
      BY <1>3, <1>4, <2>1, <3>2 DEF Transfer, c
  <2> HIDE DEF c, f
  <2>3. SectorsFrom(c, n) = Bytes(f, k * B, n * B)
    BY <1>1, <2>2, TransferRead
  <2> QED
    BY <1>2, <2>3 DEF c
<1> QED
  BY <1>4, <1>5, <1>6, <1>8, <1>9, <1>10 DEF p, n, q, s

(* A turn of fileRead.                                                      *)
LEMMA ReadChunksStep ==
  ASSUME Inv, ReadChunks
  PROVE  /\ Inv'
         /\ call' = [call EXCEPT !.place = call'.place, !.chunks = call'.chunks,
                                 !.pos = call'.pos]
         /\ call.pos > 0 /\ call'.pos \in call.pos..call.len /\ call.pos < call'.pos
         /\ out' = out \o Bytes(call.file, call.start + call.pos, call'.pos - call.pos)
<1> DEFINE f == call.file
           p == TurnPlace(call)
           n == TurnSectors(call)
           q == TurnEnd(call)
<1>1. /\ call.open /\ call.kind = "read" /\ call.chunks > 0
      /\ out' = out \o SectorsFrom(SectorOf(p), n)
      /\ call' = TurnRead(call)
      /\ MoveCursor(f, q)
      /\ UNCHANGED <<files, disk, globalBuffer, prev, context>>
  BY DEF ReadChunks, TurnPlace, TurnSectors, TurnEnd, TurnRead, Advanced
<1>2. IsCall(call) /\ Underway(call) /\ booted = File /\ call.pos > 0 /\ f \in File
  BY <1>1, ChunksLeft DEF Inv, Shapes, Calling
<1>3. /\ IsCall(call') /\ Underway(call')
      /\ call'.pos \in call.pos..call.len /\ call.pos < call'.pos
      /\ call'.pos - call.pos = n * BytesPerSector
      /\ call'.open = call.open /\ call'.kind = call.kind
      /\ CursorRight(f, [cluster |-> q.cluster, offset |-> q.offset])
      /\ SectorsFrom(SectorOf(p), n) = Bytes(f, call.start + call.pos, n * BytesPerSector)
  BY <1>1, <1>2, ReadTurnStep
<1> HIDE DEF f, p, n, q
<1>4. /\ cursor' = [g \in File |-> cursor'[g]]
      /\ \A g \in File : CursorRight(g, cursor'[g])
  BY <1>1, <1>2, <1>3, CursorMoved
<1>5. Shapes'
  BY <1>1, <1>3, <1>4, FilesKept DEF Inv, Shapes
<1>6. WriteBuffer' /\ Calling' /\ Cursors' /\ Geometry' /\ Tables'
  BY <1>1, <1>2, <1>3, <1>4, FilesKept
<1>7. Polled'
  BY <1>1, FilesKept DEF Inv, Polled
<1>8. BufferCoherent'
  BY <1>1, KeptBuffer
<1>9. call' = [call EXCEPT !.place = call'.place, !.chunks = call'.chunks, !.pos = call'.pos]
  BY <1>1, <1>2 DEF IsCall, TurnRead, Advanced
<1>10. out' = out \o Bytes(call.file, call.start + call.pos, call'.pos - call.pos)
  BY <1>1, <1>3 DEF f
<1> QED
  BY <1>2, <1>3, <1>5, <1>6, <1>7, <1>8, <1>9, <1>10 DEF Inv

(* The place of a call's last, partial sector.                              *)
LEMMA TailPlace ==
  ASSUME Inv, NEW r, Underway(r), r.pos < r.len, r.chunks <= 0, NEW p, p = NextPlace(r.file, r.place)
  PROVE  \E k \in Nat :
           /\ r.start + r.pos = k * BytesPerSector
           /\ On(r.file, p, k)
           /\ r.start \div BytesPerSector < k
           /\ Transfer(r.file, k, 1, SectorOf(p))
           /\ r.chunks = 0 /\ r.pos > 0 /\ r.pos \in Nat /\ r.len \in Nat
           /\ r.len - r.pos \in 1..(BytesPerSector - 1)
           /\ r.file \in File
           /\ CursorRight(r.file, [cluster |-> p.cluster, offset |-> p.offset])
<1> DEFINE f == r.file
           B == BytesPerSector
           c == SectorOf(p)
<1>1. Geometry /\ Tables /\ f \in File /\ r.pos > 0 /\ B \in Nat \ {0}
  BY GeometryAssumption DEF Inv, Underway
<1>2. PICK k \in 0..(Sectors(f) - 1) :
        /\ r.start + r.pos = k * B /\ On(f, p, k) /\ r.start \div B < k
  BY <1>1, Turn
<1>3. Sectors(f) \in Nat /\ k \in Nat
  BY <1>1, ChainTypes
<1>4. r.chunks = 0 /\ r.pos \in Nat /\ r.len \in Nat /\ r.len - r.pos \in 1..(B - 1)
  <2>1. r.chunks = 0 /\ 0 * B = 0
    BY <1>1 DEF Underway
  <2> QED
    BY <1>1, <2>1 DEF Underway
<1>5. c = FileSector(f, k) /\ CursorRight(f, [cluster |-> p.cluster, offset |-> p.offset])
  BY <1>1, <1>2, OnSector
<1>6. Transfer(f, k, 1, c)
  <2>1. discSecPerClus \in Nat
    BY <1>1 DEF Geometry
  <2>2. \A z, w : z \in discSecPerClus..w => z \in Nat
    BY <2>1
  <2>3. FileSector(f, k) \in Nat
    BY <1>1, <1>2, <2>2, FileSectorRange
  <2> HIDE DEF c, f
  <2>4. \A t \in 0..(1 - 1) : FileSector(f, k + t) = c + t
    <3> SUFFICES ASSUME NEW t \in 0..(1 - 1) PROVE FileSector(f, k + t) = c + t
      OBVIOUS
    <3>1. t = 0 /\ k + t = k /\ c + t = c
      BY <1>3, <1>5, <2>3
    <3> QED
      BY <1>5, <3>1
  <2> QED
    BY <1>2, <1>3, <1>5, <2>3, <2>4 DEF Transfer
<1> QED
  BY <1>1, <1>2, <1>3, <1>4, <1>5, <1>6

(* The call once that sector has been moved.                                *)
LEMMA TailUnderway ==
  ASSUME NEW r, IsCall(r), Underway(r), r.chunks = 0, NEW p, NEW s, s = Ended(r, p)
  PROVE  /\ IsCall(s) /\ Underway(s)
         /\ s.open = r.open /\ s.kind = r.kind /\ s.file = r.file /\ s.start = r.start
         /\ s.len = r.len /\ s.id = r.id /\ s.pos = r.len /\ s.chunks = r.chunks /\ s.place = p
<1>1. /\ IsCall(s)
      /\ s.open = r.open /\ s.kind = r.kind /\ s.file = r.file /\ s.start = r.start
      /\ s.len = r.len /\ s.id = r.id /\ s.pos = r.len /\ s.chunks = r.chunks /\ s.place = p
  BY DEF IsCall, Ended
<1>2. Underway(s)
  <2>1. s.chunks = 0 /\ 0 * BytesPerSector = 0 /\ BytesPerSector \in Nat \ {0}
    BY <1>1, GeometryAssumption
  <2> QED
    BY <1>1, <2>1 DEF Underway
<1> QED
  BY <1>1, <1>2

(* The last sector of a read comes through the buffer.                      *)
LEMMA ReadTailStep ==
  ASSUME Inv, ReadTail
  PROVE  /\ Inv'
         /\ call' = [call EXCEPT !.place = call'.place, !.pos = call'.pos]
         /\ call.pos > 0 /\ call'.pos \in call.pos..call.len /\ call.pos < call'.pos
         /\ out' = out \o Bytes(call.file, call.start + call.pos, call'.pos - call.pos)
<1> DEFINE f == call.file
           p == NextPlace(f, call.place)
<1>1. /\ call.open /\ call.kind = "read" /\ call.chunks <= 0 /\ call.pos < call.len
      /\ LoadSectorBuf(f, p) /\ globalBuffer' = LoadedBuffer(f, p)
      /\ out' = out \o SubSeq(LoadedBuffer(f, p), 1, call.len - call.pos)
      /\ call' = [call EXCEPT !.place = p, !.pos = call.len]
      /\ MoveCursor(f, p)
      /\ UNCHANGED <<files, disk, context>>
  BY DEF ReadTail
<1>2. IsCall(call) /\ Underway(call) /\ booted = File /\ Geometry
  BY <1>1 DEF Inv, Shapes, Calling
<1>3. PICK k \in Nat :
           /\ call.start + call.pos = k * BytesPerSector
           /\ On(f, p, k)
           /\ Transfer(f, k, 1, SectorOf(p))
           /\ call.chunks = 0 /\ call.pos > 0 /\ call.pos \in Nat /\ call.len \in Nat
           /\ call.len - call.pos \in 1..(BytesPerSector - 1)
           /\ f \in File
           /\ CursorRight(f, [cluster |-> p.cluster, offset |-> p.offset])
  BY <1>1, <1>2, TailPlace
<1> HIDE DEF p
<1>4. /\ IsCall(call') /\ Underway(call')
      /\ call'.open = call.open /\ call'.kind = call.kind /\ call'.pos = call.len
  <2> DEFINE s == Ended(call, p)
  <2>1. s = Ended(call, p)
    OBVIOUS
  <2> HIDE DEF s
  <2>2. /\ IsCall(s) /\ Underway(s)
        /\ s.open = call.open /\ s.kind = call.kind /\ s.pos = call.len
    BY <1>2, <1>3, <2>1, TailUnderway
  <2> QED
    BY <1>1, <2>1, <2>2 DEF Ended
<1>5. LoadedBuffer(f, p) = SectorsFrom(SectorOf(p), 1)
  BY <1>3, Loaded
<1> HIDE DEF f
<1>6. /\ cursor' = [g \in File |-> cursor'[g]]
      /\ \A g \in File : CursorRight(g, cursor'[g])
  BY <1>1, <1>3, CursorMoved
<1>7. Shapes'
  BY <1>1, <1>4, <1>6, FilesKept DEF Inv, Shapes
<1>8. WriteBuffer' /\ Calling' /\ Cursors' /\ Geometry' /\ Tables'
  BY <1>1, <1>2, <1>4, <1>6, FilesKept
<1>9. Polled'
  BY <1>1, FilesKept DEF Inv, Polled
<1>10. BufferCoherent'
  BY <1>1, <1>3, ReadBuffer
<1>11. call' = [call EXCEPT !.place = call'.place, !.pos = call'.pos]
  BY <1>1, <1>2, <1>4 DEF IsCall
<1>12. out' = out \o Bytes(call.file, call.start + call.pos, call'.pos - call.pos)
  <2> DEFINE n == call.len - call.pos
             B == BytesPerSector
  <2>1. n \in 1..(B - 1) /\ B \in Nat \ {0} /\ k * B \in Nat
    BY <1>3, GeometryAssumption, Product
  <2> HIDE DEF n, B
  <2>2. 0 + 1 = 1 /\ 0 + n = n /\ k * B + 0 = k * B /\ 0 + n <= B /\ n \in Nat
    BY <2>1
  <2>3. SubSeq(SectorsFrom(SectorOf(p), 1), 0 + 1, 0 + n) = Bytes(f, k * B + 0, n)
    BY <1>2, <1>3, <2>2, SectorBytes DEF B
  <2>4. SubSeq(LoadedBuffer(f, p), 1, n) = Bytes(f, k * B, n)
    BY <1>5, <2>2, <2>3
  <2> QED
    BY <1>1, <1>3, <1>4, <2>4 DEF n, B, f
<1> QED
  BY <1>1, <1>3, <1>4, <1>7, <1>8, <1>9, <1>10, <1>11, <1>12, SMTT(30) DEF Inv

(* A call that has moved all its bytes.                                     *)
LEMMA ReturnStep ==
  ASSUME Inv, Return
  PROVE  /\ Inv' /\ call.open /\ call.pos = call.len
         /\ call' = [call EXCEPT !.open = FALSE] /\ UNCHANGED out
<1>1. /\ call.open /\ call.pos = call.len
      /\ call' = [call EXCEPT !.open = FALSE]
      /\ UNCHANGED <<files, cursor, disk, globalBuffer, prev, out, context>>
  BY DEF Return
<1>2. IsCall(call') /\ ~call'.open
  BY <1>1 DEF Inv, Shapes, IsCall
<1>3. Shapes'
  BY <1>1, <1>2, FilesKept DEF Inv, Shapes
<1>4. WriteBuffer' /\ Calling' /\ Cursors' /\ Geometry' /\ Tables'
  BY <1>1, <1>2, FilesKept DEF Inv, Cursors
<1>5. Polled'
  BY <1>1, FilesKept DEF Inv, Polled
<1>6. BufferCoherent'
  BY <1>1, KeptBuffer
<1> QED
  BY <1>1, <1>3, <1>4, <1>5, <1>6 DEF Inv

(* The first sector of a polled read.                                       *)
LEMMA FileReadNonBlockingStep ==
  ASSUME Inv, NEW start \in 0..(FileSize("rom") - 1), NEW len \in 0..FileSize("rom"),
         start + len <= FileSize("rom"), start % BytesPerSector = 0,
         len % BytesPerSector = 0, len > 0,
         FileReadNonBlocking(start, len \div BytesPerSector)
  PROVE  /\ Inv'
         /\ ~context.open
         /\ IsCall(context') /\ Underway(context')
         /\ context'.open /\ context'.kind = "read" /\ context'.file = "rom"
         /\ context'.start = start /\ context'.len = len
         /\ pollOut' = Bytes("rom", start, context'.pos)
<1> DEFINE f == "rom"
           B == BytesPerSector
           p == FindCluster(f, start)
           k == start \div B
           e == start % B
           n == len \div B
           r == Begun("read", f, start, n * B)
<1>1. /\ Geometry /\ Tables /\ f \in File /\ CursorRight(f, cursor[f])
      /\ B \in Nat \ {0} /\ len \in Nat
  BY ChainTypes, GeometryAssumption DEF Inv, Cursors, File
<1>2. /\ booted = File /\ ~call.open /\ ~context.open
      /\ pollOut' = SectorsFrom(SectorOf(p), 1)
      /\ context' = r
      /\ MoveCursor(f, p)
      /\ UNCHANGED files /\ UNCHANGED <<disk, globalBuffer, prev, call, out>>
  BY DEF FileReadNonBlocking, Ready
<1>3. n \in Nat \ {0} /\ n * B = len
  <2>1. n \in Nat /\ len = n * B + (len % B)
    BY <1>1, Division
  <2> HIDE DEF n
  <2>2. n * B \in Nat
    BY <1>1, <2>1, Product
  <2>3. n * B = len
    BY <1>1, <2>1, <2>2
  <2>4. n # 0
    BY <1>1, <2>3
  <2> QED
    BY <2>1, <2>3, <2>4
<1> HIDE DEF n
<1>4. /\ IsCall(r) /\ Underway(r)
      /\ r.open /\ r.kind = "read" /\ r.file = f /\ r.start = start
      /\ r.len = len /\ r.pos = FirstBytes(start, len)
      /\ start = k * B + e
      /\ Transfer(f, k, 1, SectorOf(p))
  <2>0. r = Begun("read", f, start, len)
    BY <1>3
  <2> HIDE DEF r
  <2> QED
    BY <1>1, <2>0, BegunUnderway
<1>5. r.pos = B /\ r.chunks = n - 1
  <2>1. r.pos = IF B < len + e THEN B - e ELSE len
    BY <1>4 DEF FirstBytes
  <2>2. r.chunks = (n * B - r.pos) \div B
    BY DEF Begun
  <2>3. (n - 1) * B + B = n * B /\ (n - 1) * B \in Nat /\ n - 1 \in Nat
    <3>1. n - 1 \in Nat
      BY <1>3
    <3>2. (n - 1) * B + B = n * B
      BY <1>1, <1>3
    <3> QED
      BY <1>1, <3>1, <3>2, Product
  <2> DEFINE x == (n - 1) * B
  <2>4. x \in Nat /\ x + B = len /\ e = 0
    BY <1>3, <2>3
  <2>5. r.pos = B
    <3> HIDE DEF x, e
    <3> QED
      BY <1>1, <2>1, <2>4
  <2>6. (x + 0) \div B = n - 1
    <3>1. n - 1 \in Nat
      BY <1>3
    <3> QED
      BY <1>1, <3>1, DivisionUnique
  <2>7. n * B - B = x + 0
    <3> HIDE DEF x
    <3> QED
      BY <1>1, <1>3, <2>4
  <2> QED
    BY <2>2, <2>5, <2>6, <2>7
<1>6. r.pos + r.chunks * B = r.len
  <2>1. B + (n - 1) * B = n * B
    BY <1>1, <1>3
  <2> QED
    BY <1>3, <1>4, <1>5, <2>1
<1>7. On(f, p, k)
  BY <1>1, FindClusterOn
<1> HIDE DEF r, p, k, e
<1>8. CursorRight(f, [cluster |-> p.cluster, offset |-> p.offset])
  BY <1>1, <1>7, OnSector
<1>9. /\ cursor' = [g \in File |-> cursor'[g]]
      /\ \A g \in File : CursorRight(g, cursor'[g])
  BY <1>1, <1>2, <1>8, CursorMoved
<1>10. Shapes'
  BY <1>2, <1>4, <1>9, FilesKept DEF Inv, Shapes
<1>11. WriteBuffer' /\ Calling' /\ Cursors' /\ Geometry' /\ Tables'
  BY <1>2, <1>9, FilesKept
<1>12. Polled'
  BY <1>2, <1>4, <1>6, FilesKept
<1>13. BufferCoherent'
  BY <1>2, KeptBuffer
<1>14. pollOut' = Bytes(f, start, context'.pos)
  <2>1. e = 0
    BY DEF e
  <2>2. start = k * B /\ 1 * B = B
    <3>1. k * B \in Nat
      BY <1>1, <1>4, Product DEF Transfer
    <3> QED
      BY <1>1, <1>4, <2>1, <3>1
  <2>3. SectorsFrom(SectorOf(p), 1) = Bytes(f, k * B, 1 * B)
    BY <1>1, <1>4, TransferRead
  <2> QED
    BY <1>2, <1>5, <2>2, <2>3
<1> QED
  BY <1>2, <1>4, <1>10, <1>11, <1>12, <1>13, <1>14 DEF Inv

(* A turn of resumeFileRead.                                                *)
LEMMA ResumeFileReadStep ==
  ASSUME Inv, ResumeFileRead
  PROVE  /\ Inv'
         /\ context.open
         /\ context' = [context EXCEPT !.place = context'.place, !.chunks = context'.chunks,
                                       !.pos = context'.pos]
         /\ context.pos > 0 /\ context'.pos \in context.pos..context.len
         /\ context.pos < context'.pos
         /\ pollOut' = pollOut \o Bytes(context.file, context.start + context.pos,
                                        context'.pos - context.pos)
<1> DEFINE f == context.file
           p == TurnPlace(context)
           n == TurnSectors(context)
           q == TurnEnd(context)
<1>1. /\ context.open /\ context.chunks > 0 /\ ~call.open
      /\ pollOut' = pollOut \o SectorsFrom(SectorOf(p), n)
      /\ context' = TurnRead(context)
      /\ MoveCursor(f, q)
      /\ UNCHANGED <<files, disk, globalBuffer, prev, call, out>>
  <2>1. context.open /\ context.file = "rom"
    BY DEF ResumeFileRead, Inv, Polled
  <2> QED
    BY <2>1 DEF ResumeFileRead, TurnPlace, TurnSectors, TurnEnd, TurnRead, Advanced
<1>2. /\ IsCall(context) /\ Underway(context) /\ booted = File /\ context.pos > 0 /\ f \in File
      /\ f = "rom" /\ context.kind = "read"
      /\ context.pos + context.chunks * BytesPerSector = context.len
  BY <1>1, ChunksLeft DEF Inv, Shapes, Polled
<1>3. /\ IsCall(context') /\ Underway(context')
      /\ context'.pos \in context.pos..context.len /\ context.pos < context'.pos
      /\ context'.pos - context.pos = n * BytesPerSector
      /\ context'.open = context.open /\ context'.kind = context.kind
      /\ context'.file = context.file /\ context'.len = context.len
      /\ context'.pos + context'.chunks * BytesPerSector
           = context.pos + context.chunks * BytesPerSector
      /\ CursorRight(f, [cluster |-> q.cluster, offset |-> q.offset])
      /\ SectorsFrom(SectorOf(p), n) = Bytes(f, context.start + context.pos, n * BytesPerSector)
  BY <1>1, <1>2, ReadTurnStep
<1> HIDE DEF f, p, n, q
<1>4. /\ cursor' = [g \in File |-> cursor'[g]]
      /\ \A g \in File : CursorRight(g, cursor'[g])
  BY <1>1, <1>2, <1>3, CursorMoved
<1>5. Shapes'
  BY <1>1, <1>3, <1>4, FilesKept DEF Inv, Shapes
<1>6. WriteBuffer' /\ Calling' /\ Cursors' /\ Geometry' /\ Tables'
  BY <1>1, <1>4, FilesKept
<1>7. Polled'
  <2>1. context'.file = "rom" /\ context'.kind = "read"
    BY <1>2, <1>3 DEF f
  <2>2. context'.pos + context'.chunks * BytesPerSector = context'.len
    BY <1>2, <1>3
  <2> QED
    BY <1>1, <1>2, <1>3, <2>1, <2>2, FilesKept
<1>8. BufferCoherent'
  BY <1>1, KeptBuffer
<1>9. context' = [context EXCEPT !.place = context'.place, !.chunks = context'.chunks,
                                 !.pos = context'.pos]
  BY <1>1, <1>2 DEF IsCall, TurnRead, Advanced
<1>10. pollOut' = pollOut \o Bytes(context.file, context.start + context.pos,
                                   context'.pos - context.pos)
  BY <1>1, <1>3 DEF f
<1> QED
  BY <1>1, <1>2, <1>3, <1>5, <1>6, <1>7, <1>8, <1>9, <1>10 DEF Inv

(* resumeFileRead has nothing left to do.                                   *)
LEMMA ResumeFileReadDoneStep ==
  ASSUME Inv, ResumeFileReadDone
  PROVE  /\ Inv' /\ context.open /\ context.pos = context.len
         /\ context' = [context EXCEPT !.open = FALSE] /\ UNCHANGED pollOut
<1>1. /\ context.open /\ context.chunks = 0 /\ ~call.open
      /\ context' = [context EXCEPT !.open = FALSE]
      /\ UNCHANGED <<files, cursor, disk, globalBuffer, prev, call, out, pollOut>>
  BY DEF ResumeFileReadDone
<1>2. IsCall(context') /\ ~context'.open
  BY <1>1 DEF Inv, Shapes, IsCall
<1>3. Shapes'
  BY <1>1, <1>2, FilesKept DEF Inv, Shapes
<1>4. WriteBuffer' /\ Calling' /\ Cursors' /\ Geometry' /\ Tables'
  BY <1>1, FilesKept DEF Inv, Cursors
<1>5. Polled'
  BY <1>1, <1>2, FilesKept
<1>6. BufferCoherent'
  BY <1>1, KeptBuffer
<1>7. context.pos = context.len
  <2>1. context.pos + 0 * BytesPerSector = context.len /\ context.pos \in Nat
    BY <1>1 DEF Inv, Polled, Underway
  <2>2. 0 * BytesPerSector = 0
    BY GeometryAssumption
  <2> QED
    BY <2>1, <2>2
<1> QED
  BY <1>1, <1>3, <1>4, <1>5, <1>6, <1>7 DEF Inv

(* What sector c holds after the step.                                      *)
SectorAfter(c) == [i \in 1..BytesPerSector |-> disk'[c * BytesPerSector + i - 1]]

(* b is sector c, which holds sector k of f, with the bytes [from, to) of call  *)
(* r put in.                                                                *)
PatchOf(b, f, k, c, r, from, to) ==
  /\ Transfer(f, k, 1, c) /\ r.file = f /\ r.start \in Nat
  /\ from \in Nat /\ to \in Nat /\ from <= to
  /\ k * BytesPerSector <= r.start + from
  /\ r.start + to <= k * BytesPerSector + BytesPerSector
  /\ b = Patched(SectorsFrom(c, 1), (r.start + from) - k * BytesPerSector, Data(r, from, to))

(* A sector patched in the buffer and written back: the caller's bytes, and    *)
(* the buffer still equal to the sector.                                    *)
LEMMA PatchedWrite ==
  ASSUME Geometry, DOMAIN disk = Volume, NEW f \in File, NEW k, NEW c, NEW r, NEW from, NEW to,
         NEW b, PatchOf(b, f, k, c, r, from, to), disk' = Written(c * BytesPerSector, b)
  PROVE  /\ Stores(f, r.start + from, r.start + to, r.id)
         /\ SectorAfter(c) = b
<1> DEFINE B == BytesPerSector
           g == k * B
           a == r.start + from
           w == SectorsFrom(c, 1)
           s == Data(r, from, to)
           n == to - from
           e == a - g
<1>0. /\ Transfer(f, k, 1, c) /\ r.start \in Nat
      /\ from \in Nat /\ to \in Nat /\ from <= to
      /\ g <= a /\ r.start + to <= g + B /\ r.file = f
      /\ b = Patched(w, e, s)
  <2>1. b = Patched(w, e, s)
    BY DEF PatchOf
  <2>2. Transfer(f, k, 1, c) /\ r.start \in Nat /\ from \in Nat /\ to \in Nat /\ from <= to
        /\ r.file = f
    BY DEF PatchOf
  <2>3. g <= a /\ r.start + to <= g + B
    BY DEF PatchOf
  <2> QED
    BY <2>1, <2>2, <2>3
<1>1. /\ B \in Nat \ {0} /\ 1 * B = B /\ g \in Nat /\ c * B \in Nat /\ k \in Nat /\ c \in Nat
      /\ a \in Nat
  BY <1>0, GeometryAssumption, Product DEF Transfer
<1> HIDE DEF g
<1>2. a = g + e /\ e \in Nat /\ n \in Nat /\ e + n <= B /\ a + n = r.start + to
  BY <1>0, <1>1
<1>3. w = [i \in 1..B |-> disk[c * B + i - 1]] /\ Len(w) = B
  BY <1>1 DEF SectorsFrom
<1>4. s = [i \in 1..n |-> Byte(f, a + i - 1, r.id)] /\ Len(s) = n
  <2>1. s = [i \in 1..n |-> Byte(f, a + i - 1, r.id)]
    BY <1>0 DEF Data
  <2> HIDE DEF n, s, a
  <2> QED
    BY <1>2, <2>1
<1> HIDE DEF w, s, a, n, e
<1>5. b = [i \in 1..B |-> IF i - e \in 1..n THEN s[i - e] ELSE w[i]] /\ Len(b) = B
  <2>1. b = [i \in 1..Len(w) |-> IF i - e \in 1..Len(s) THEN s[i - e] ELSE w[i]]
    BY <1>0 DEF Patched
  <2>2. b = [i \in 1..B |-> IF i - e \in 1..n THEN s[i - e] ELSE w[i]]
    BY <1>3, <1>4, <2>1
  <2> QED
    BY <1>1, <2>2
<1>6. ASSUME NEW i \in 1..B
      PROVE  b[i] = IF g + (i - 1) \in a..(a + n - 1) THEN Byte(f, g + (i - 1), r.id)
                                                      ELSE disk[c * B + (i - 1)]
  <2>1. i - e \in 1..n <=> g + (i - 1) \in a..(a + n - 1)
    BY <1>1, <1>2
  <2>2. CASE i - e \in 1..n
    <3>1. b[i] = s[i - e]
      BY <1>5, <2>2
    <3>2. s[i - e] = Byte(f, a + (i - e) - 1, r.id)
      BY <1>4, <2>2
    <3>3. a + (i - e) - 1 = g + (i - 1)
      BY <1>1, <1>2
    <3> QED
      BY <2>1, <2>2, <3>1, <3>2, <3>3
  <2>3. CASE i - e \notin 1..n
    <3>1. b[i] = w[i] /\ w[i] = disk[c * B + i - 1]
      BY <1>3, <1>5, <2>3
    <3>2. c * B + i - 1 = c * B + (i - 1)
      BY <1>1
    <3> QED
      BY <2>1, <2>3, <3>1, <3>2
  <2> QED
    BY <2>2, <2>3
<1>7. Stores(f, a, a + n, r.id)
  <2> DEFINE z == a + n
  <2>1. g <= a /\ z <= g + B /\ z \in Nat
    BY <1>1, <1>2
  <2>2. Overlaid(b, f, k, 1, c, a, z, r.id)
    <3>1. \A i \in 1..(1 * B) :
            b[i] = IF k * B + (i - 1) \in a..(z - 1) THEN Byte(f, k * B + (i - 1), r.id)
                                                     ELSE disk[c * B + (i - 1)]
      <4> HIDE DEF B, z
      <4>1. k * B = g
        BY DEF g, B
      <4>2. \A i \in 1..B :
               b[i] = IF g + (i - 1) \in a..(z - 1) THEN Byte(f, g + (i - 1), r.id)
                                                    ELSE disk[c * B + (i - 1)]
        <5>1. a + n - 1 = z - 1
          BY <1>1, <1>2 DEF z
        <5> QED
          BY <1>6, <5>1
      <4> QED
        BY <1>1, <4>1, <4>2, Zenon
    <3> QED
      BY <3>1, Zenon DEF Overlaid
  <2>3. Len(b) = 1 * B /\ g + 1 * B = g + B
    BY <1>1, <1>5
  <2> HIDE DEF z
  <2>4. k * B <= a /\ z <= k * B + 1 * B
    BY <2>1, <2>3 DEF g
  <2>5. Stores(f, a, z, r.id)
    BY <1>0, <1>1, <2>1, <2>2, <2>3, <2>4, TransferWrite
  <2> QED
    BY <2>5 DEF z
<1>8. SectorAfter(c) = b
  <2>1. SectorAfter(c) = [i \in 1..B |-> disk'[c * B + i - 1]]
    BY DEF SectorAfter
  <2>2. ASSUME NEW i \in 1..B
        PROVE  disk'[c * B + i - 1] = b[i]
    <3>1. i - 1 \in 0..(1 * B - 1)
      BY <1>1
    <3>2. c * B + (i - 1) \in Volume
      BY <1>0, <3>1, TransferBytes
    <3>3. /\ c * B + (i - 1) = c * B + i - 1 /\ (c * B + i - 1) - c * B = i - 1
          /\ (i - 1) + 1 = i /\ i - 1 \in 0..(Len(b) - 1)
      BY <1>1, <1>5
    <3>4. disk' = [x \in Volume |-> IF x - c * B \in 0..(Len(b) - 1) THEN b[x - c * B + 1] ELSE disk[x]]
      BY DEF Written
    <3> DEFINE y == c * B + i - 1
    <3>5. y \in Volume /\ y - c * B = i - 1
      BY <3>2, <3>3
    <3>6. disk'[y] = IF y - c * B \in 0..(Len(b) - 1) THEN b[y - c * B + 1] ELSE disk[y]
      BY <3>4, <3>5
    <3> QED
      BY <3>3, <3>5, <3>6
  <2>3. b = [i \in 1..B |-> b[i]]
    BY <1>5
  <2> QED
    BY <2>1, <2>2, <2>3
<1> QED
  BY <1>2, <1>7, <1>8 DEF a

(* What a write keeps of the shapes.                                        *)
LEMMA StoresShape ==
  ASSUME UNCHANGED files, NEW f, NEW a, NEW z, NEW id, Stores(f, a, z, id)
  PROVE  disk' = [x \in Volume' |-> disk'[x]]
BY DEF Stores, Volume, files

(* A sector is written from the buffer, which then holds it.                *)
LEMMA WrittenBuffer ==
  ASSUME UNCHANGED files, NEW f, NEW p, LoadSectorBuf(f, p),
         globalBuffer' = SectorAfter(SectorOf(p))
  PROVE  BufferCoherent'
<1>1. prev'.sect = p.sect /\ prev'.cluster = p.cluster
  BY DEF LoadSectorBuf
<1>2. ClustToSect(prev.cluster)' + prev'.sect = SectorOf(p)
  BY <1>1 DEF ClustToSect, SectorOf, files
<1>3. SectorsFrom(ClustToSect(prev.cluster) + prev.sect, 1)'
        = [i \in 1..(1 * BytesPerSector) |-> disk'[SectorOf(p) * BytesPerSector + i - 1]]
  BY <1>2 DEF SectorsFrom
<1>4. 1 * BytesPerSector = BytesPerSector
  BY GeometryAssumption
<1> QED
  BY <1>3, <1>4 DEF BufferCoherent, SectorAfter

(* A request accepted by fileWrite: the first sector goes through the buffer.*)
LEMMA BeginWriteStep ==
  ASSUME Inv, NEW f \in File, NEW start \in 0..(FileSize(f) - 1), NEW len \in 0..FileSize(f),
         start + len <= FileSize(f), BeginWrite(f, start, len)
  PROVE  /\ Inv'
         /\ IsCall(call') /\ Underway(call')
         /\ call'.open /\ call'.kind = "write" /\ call'.file = f /\ call'.start = start
         /\ call'.len = len
         /\ out' = <<>>
         /\ Stores(f, start, start + call'.pos, call'.id)
<1> DEFINE p == FindCluster(f, start)
           k == start \div BytesPerSector
           e == start % BytesPerSector
           r == Begun("write", f, start, len)
           n == FirstBytes(start, len)
           b == Patched(LoadedBuffer(f, p), e, Data(r, 0, n))
<1>1. /\ Geometry /\ Tables /\ CursorRight(f, cursor[f]) /\ DOMAIN disk = Volume
      /\ len \in Nat
  BY ChainTypes DEF Inv, Cursors, Shapes
<1>2. /\ booted = File /\ ~call.open
      /\ LoadSectorBuf(f, p) /\ globalBuffer' = b
      /\ disk' = Written(SectorOf(p) * BytesPerSector, b)
      /\ call' = r /\ out' = <<>>
      /\ MoveCursor(f, p)
      /\ UNCHANGED files /\ UNCHANGED context
  BY DEF BeginWrite, Ready
<1>3. /\ IsCall(r) /\ Underway(r)
      /\ r.open /\ r.kind = "write" /\ r.file = f /\ r.start = start
      /\ r.len = len /\ r.pos = n
      /\ e \in 0..(BytesPerSector - 1) /\ e + r.pos <= BytesPerSector
      /\ start = k * BytesPerSector + e
      /\ Transfer(f, k, 1, SectorOf(p))
  <2>0. r = Begun("write", f, start, len)
    OBVIOUS
  <2> HIDE DEF r
  <2> QED
    BY <1>1, <2>0, BegunUnderway
<1>4. On(f, p, k)
  BY <1>1, FindClusterOn
<1>5. /\ LoadedBuffer(f, p) = SectorsFrom(SectorOf(p), 1)
      /\ CursorRight(f, [cluster |-> p.cluster, offset |-> p.offset])
      /\ SectorOf(p) = FileSector(f, k) /\ p.sect # -1
  <2> HIDE DEF p, k
  <2> QED
    BY <1>1, <1>4, Loaded, OnSector
<1> HIDE DEF p, k, e, r, n
<1>6. Stores(f, start, start + n, r.id) /\ SectorAfter(SectorOf(p)) = b
  <2> DEFINE c == SectorOf(p)
             B == BytesPerSector
  <2>1. k * B \in Nat /\ B \in Nat
    BY <1>3, GeometryAssumption, Product DEF Transfer
  <2> HIDE DEF B
  <2>2. /\ e \in Nat /\ n \in Nat /\ e + n <= B /\ r.start \in Nat
        /\ 0 <= n /\ (r.start + 0) - k * B = e /\ k * B <= r.start + 0 /\ r.start + n <= k * B + B
    <3>1. /\ e \in 0..(B - 1) /\ e + r.pos <= B /\ r.start = k * B + e /\ r.pos = n
      BY <1>3 DEF B
    <3>2. r.pos \in Nat /\ r.start \in Nat
      BY <1>3 DEF Underway
    <3> QED
      BY <2>1, <3>1, <3>2
  <2>3. b = Patched(SectorsFrom(c, 1), (r.start + 0) - k * B, Data(r, 0, n))
    BY <1>5, <2>2
  <2>4. PatchOf(b, f, k, c, r, 0, n)
    <3> HIDE DEF b, c
    <3> QED
      BY <1>3, <2>2, <2>3 DEF PatchOf, B, c
  <2>5. disk' = Written(c * BytesPerSector, b)
    BY <1>2
  <2> HIDE DEF b, c
  <2>6. Stores(f, r.start + 0, r.start + n, r.id) /\ SectorAfter(c) = b
    BY <1>1, <2>4, <2>5, PatchedWrite
  <2>7. r.start + 0 = start /\ r.start + n = start + n
    BY <1>3, <2>2
  <2> QED
    BY <2>6, <2>7 DEF c
<1> HIDE DEF b
<1>7. /\ cursor' = [g \in File |-> cursor'[g]]
      /\ \A g \in File : CursorRight(g, cursor'[g])
  BY <1>2, <1>5, CursorMoved
<1>8. Shapes'
  BY <1>2, <1>3, <1>6, <1>7, FilesKept, StoresShape DEF Inv, Shapes
<1>9. prev'.sect = p.sect /\ prev'.cluster = p.cluster
  BY <1>2 DEF LoadSectorBuf
<1>10. Calling' /\ Cursors' /\ Geometry' /\ Tables'
  BY <1>2, <1>3, <1>7, FilesKept
<1>11. WriteBuffer'
  <2>1. prev'.sect # -1 /\ ClustToSect(prev'.cluster) + prev'.sect
                             = FileSector(call'.file, call'.start \div BytesPerSector)
    BY <1>2, <1>3, <1>5, <1>9 DEF SectorOf, k
  <2> QED
    BY <1>2, <2>1, FilesKept
<1>12. Polled'
  BY <1>2, FilesKept DEF Inv, Polled
<1>13. BufferCoherent'
  BY <1>2, <1>6, WrittenBuffer
<1> QED
  BY <1>2, <1>3, <1>6, <1>8, <1>10, <1>11, <1>12, <1>13 DEF Inv

(* A write leaves the sectors before it alone.                              *)
LEMMA SectorKept ==
  ASSUME Geometry, NEW f \in File, NEW k \in 0..(Sectors(f) - 1), NEW a \in Nat, NEW z \in Nat,
         NEW id, Stores(f, a, z, id), k * BytesPerSector + BytesPerSector <= a, z <= FileSize(f)
  PROVE  SectorAfter(FileSector(f, k)) = SectorsFrom(FileSector(f, k), 1)
<1> DEFINE B == BytesPerSector
           c == FileSector(f, k)
           e == c * B
           g == k * B
<1>1. /\ B \in Nat \ {0} /\ 1 * B = B /\ FileSize(f) \in Nat
      /\ k \in Nat /\ c \in Nat
      /\ c \in discSecPerClus..((NClusters + 1) * discSecPerClus - 1)
  <2>1. discSecPerClus \in Nat /\ B \in Nat \ {0}
    BY GeometryAssumption DEF Geometry
  <2>2. \A x, w : x \in discSecPerClus..w => x \in Nat
    BY <2>1
  <2>3. FileSize(f) \in Nat
    <3>1. FileSize(f) = Sectors(f) * B /\ Sectors(f) \in Nat
      BY ChainTypes
    <3> QED
      BY <2>1, <3>1, Product
  <2> QED
    BY <2>1, <2>2, <2>3, FileSectorRange
<1>2. e \in Nat /\ g \in Nat
  BY <1>1, Product
<1>3. ASSUME NEW b \in 0..(B - 1)
      PROVE  disk'[e + b] = disk[e + b]
  <2>1. e + b \in Volume
    <3> HIDE DEF c
    <3> QED
      BY <1>1, InVolume DEF B
  <2>2. g + b \in 0..(FileSize(f) - 1) /\ Address(f, g + b) = e + b
    BY AddressOfByte
  <2> HIDE DEF e, g
  <2>3. ASSUME NEW o \in a..(z - 1), e + b = Address(f, o)
        PROVE  FALSE
    <3>1. o \in 0..(FileSize(f) - 1)
      BY <1>1
    <3>2. o = g + b
      BY <2>2, <2>3, <3>1, AddressInjective
    <3> QED
      BY <1>1, <1>2, <3>2 DEF g
  <2> QED
    BY <2>1, <2>3 DEF Stores
<1>4. ASSUME NEW i \in 1..B
      PROVE  disk'[c * B + i - 1] = disk[c * B + i - 1]
  <2>1. i - 1 \in 0..(B - 1) /\ e + (i - 1) = c * B + i - 1
    BY <1>1, <1>2
  <2> QED
    BY <1>3, <2>1
<1> QED
  <2> HIDE DEF c
  <2>1. SectorsFrom(c, 1) = [i \in 1..B |-> disk[c * B + i - 1]]
    BY <1>1 DEF SectorsFrom
  <2>2. SectorAfter(c) = [i \in 1..B |-> disk'[c * B + i - 1]]
    BY DEF SectorAfter
  <2>3. [i \in 1..B |-> disk[c * B + i - 1]] = [i \in 1..B |-> disk'[c * B + i - 1]]
    BY <1>4
  <2> QED
    BY <2>1, <2>2, <2>3, Zenon DEF c

(* One turn of the loop of fileWrite.                                       *)
WriteSectors(r) == SectorsToWrite(TurnPlace(r), r.chunks)
WriteEnd(r)     == [TurnPlace(r) EXCEPT !.sect = @ + WriteSectors(r)]
TurnWrite(r)    == Advanced(r, WriteEnd(r), WriteSectors(r))

(* What a turn of fileWrite stores, and where it ends.                      *)
LEMMA WriteTurnStep ==
  ASSUME Inv, NEW r, IsCall(r), Underway(r), r.chunks > 0,
         disk' = Written(SectorOf(TurnPlace(r)) * BytesPerSector,
                         Data(r, r.pos, r.pos + WriteSectors(r) * BytesPerSector))
  PROVE  /\ IsCall(TurnWrite(r)) /\ Underway(TurnWrite(r))
         /\ TurnWrite(r).pos \in r.pos..r.len /\ r.pos < TurnWrite(r).pos
         /\ TurnWrite(r).open = r.open /\ TurnWrite(r).kind = r.kind
         /\ TurnWrite(r).file = r.file /\ TurnWrite(r).start = r.start
         /\ TurnWrite(r).len = r.len /\ TurnWrite(r).id = r.id
         /\ CursorRight(r.file, [cluster |-> TurnPlace(r).cluster, offset |-> TurnPlace(r).offset])
         /\ Stores(r.file, r.start + r.pos, r.start + TurnWrite(r).pos, r.id)
         /\ (r.start \div BytesPerSector) * BytesPerSector + BytesPerSector <= r.start + r.pos
         /\ r.start + TurnWrite(r).pos <= FileSize(r.file)
<1> DEFINE f == r.file
           B == BytesPerSector
           p == TurnPlace(r)
           n == WriteSectors(r)
           q == WriteEnd(r)
           s == TurnWrite(r)
           d == Data(r, r.pos, r.pos + n * B)
<1>0. /\ p = NextPlace(f, r.place) /\ n = SectorsToWrite(p, r.chunks)
      /\ q = [p EXCEPT !.sect = @ + n] /\ s = Advanced(r, q, n)
      /\ disk' = Written(SectorOf(p) * B, d)
  BY DEF TurnPlace, WriteSectors, WriteEnd, TurnWrite
<1> HIDE DEF p, n, q, s
<1>1. /\ Geometry /\ Tables /\ f \in File /\ r.chunks \in Nat \ {0} /\ r.pos < r.len /\ r.pos > 0
      /\ DOMAIN disk = Volume
  BY ChunksLeft DEF Inv, Shapes
<1>2. PICK k \in 0..(Sectors(f) - 1) :
        /\ r.start + r.pos = k * B /\ On(f, p, k) /\ k + r.chunks <= Sectors(f)
        /\ r.start \div B < k
  BY <1>0, <1>1, Turn
<1>3. k \in Nat /\ Sectors(f) \in Nat
  BY <1>1, ChainTypes
<1>4. /\ n \in 1..r.chunks
      /\ \A t \in 0..(n - 1) : FileSector(f, k + t) = SectorOf(p) + t
      /\ At(f, q, k + n)
  <2> DEFINE chunks == r.chunks
  <2>1. chunks \in Nat \ {0} /\ k + chunks <= Sectors(f) /\ n = SectorsToWrite(p, chunks)
    BY <1>0, <1>1, <1>2
  <2> HIDE DEF chunks, f
  <2>2. /\ n \in 1..chunks
        /\ \A t \in 0..(n - 1) : FileSector(f, k + t) = SectorOf(p) + t
        /\ At(f, [p EXCEPT !.sect = @ + n], k + n)
    BY <1>1, <1>2, <2>1, WriteTurn
  <2> QED
    BY <1>0, <2>2 DEF chunks
<1>5. IsCall(s) /\ Underway(s)
  BY <1>0, <1>1, <1>2, <1>3, <1>4, TurnUnderway
<1>6. /\ s.open = r.open /\ s.kind = r.kind /\ s.file = r.file /\ s.start = r.start
      /\ s.len = r.len /\ s.id = r.id /\ s.pos = r.pos + n * B
  BY <1>0 DEF IsCall, Advanced
<1>7. n * B \in Nat /\ r.pos \in Nat /\ r.len \in Nat /\ n \in Nat /\ r.start \in Nat
      /\ B \in Nat \ {0} /\ k * B \in Nat
  BY <1>3, <1>4, GeometryAssumption, Product DEF Underway
<1>8. s.pos \in r.pos..r.len /\ r.pos < s.pos /\ r.start + s.pos <= FileSize(f)
      /\ r.start + s.pos = k * B + n * B
  <2> DEFINE x == n * B
             y == k * B
  <2>1. /\ x \in Nat \ {0} /\ s.pos = r.pos + x /\ s.pos \in 0..s.len /\ s.len = r.len
        /\ r.start + r.pos = y /\ y \in Nat
    BY <1>2, <1>4, <1>5, <1>6, <1>7 DEF Underway
  <2>2. r.start + r.len <= FileSize(f) /\ FileSize(f) \in Nat
    <3>1. FileSize(f) = Sectors(f) * B
      BY <1>1, ChainTypes
    <3>2. FileSize(f) \in Nat
      BY <1>3, <1>7, <3>1, Product
    <3> QED
      BY <3>2 DEF Underway
  <2> HIDE DEF x, y, f
  <2>3. s.pos \in r.pos..r.len /\ r.pos < s.pos /\ r.start + s.pos <= FileSize(f)
        /\ r.start + s.pos = y + x
    BY <1>7, <2>1, <2>2
  <2> QED
    BY <2>3 DEF x, y
<1>9. CursorRight(f, [cluster |-> p.cluster, offset |-> p.offset])
      /\ SectorOf(p) = FileSector(f, k)
  <2> HIDE DEF f
  <2> QED
    BY <1>1, <1>2, OnSector
<1>10. (r.start \div B) * B + B <= r.start + r.pos
  <2>1. r.start \div B \in Nat
    BY <1>7, Division
  <2> DEFINE h == r.start \div B
  <2> HIDE DEF h
  <2>2. h * B + B <= k * B
    BY <1>2, <1>3, <1>7, <2>1, ProductLess DEF h
  <2> QED
    BY <1>2, <2>2 DEF h
<1>11. Stores(f, r.start + r.pos, r.start + s.pos, r.id)
  <2> DEFINE c == SectorOf(p)
             m == n * B
             g == k * B
             a == r.start + r.pos
             z == r.start + s.pos
  <2>1. c \in Nat
    <3>1. discSecPerClus \in Nat
      BY <1>1 DEF Geometry
    <3>2. \A x, w : x \in discSecPerClus..w => x \in Nat
      BY <3>1
    <3> QED
      BY <1>1, <1>2, <1>9, <3>2, FileSectorRange
  <2>2. Transfer(f, k, n, c)
    <3> DEFINE chunks == r.chunks
    <3>1. chunks \in Nat /\ n \in 1..chunks /\ k + chunks <= Sectors(f)
      BY <1>1, <1>2, <1>4
    <3> HIDE DEF c, f, chunks
    <3>2. n \in Nat \ {0} /\ k + n <= Sectors(f)
      BY <1>3, <3>1
    <3> QED
      BY <1>3, <1>4, <2>1, <3>2 DEF Transfer, c
  <2>3. m \in Nat /\ g \in Nat /\ a = g /\ z = g + m
    BY <1>2, <1>7, <1>8
  <2>4. d = [i \in 1..m |-> Byte(f, a + i - 1, r.id)] /\ Len(d) = m
    <3>1. (r.pos + m) - r.pos = m
      <4> HIDE DEF m
      <4> QED
        BY <1>7, <2>3
    <3>2. d = [i \in 1..m |-> Byte(f, a + i - 1, r.id)]
      BY <3>1 DEF Data
    <3> HIDE DEF m, d
    <3> QED
      BY <2>3, <3>2
  <2> HIDE DEF a, z, d, c
  <2>5. Overlaid(d, f, k, n, c, a, z, r.id)
    <3> SUFFICES ASSUME NEW i \in 1..(n * B)
                 PROVE  d[i] = IF k * B + (i - 1) \in a..(z - 1)
                                 THEN Byte(f, k * B + (i - 1), r.id)
                                 ELSE disk[c * B + (i - 1)]
      BY Zenon DEF Overlaid
    <3> HIDE DEF m, g
    <3>1. i \in 1..m /\ g + (i - 1) \in a..(z - 1) /\ a + i - 1 = g + (i - 1)
      <4>1. i \in 1..m
        BY DEF m
      <4> QED
        BY <2>3, <4>1
    <3>2. d[i] = Byte(f, g + (i - 1), r.id)
      BY <2>4, <3>1
    <3> QED
      BY <3>1, <3>2 DEF g
  <2>6. k * B <= a /\ z <= k * B + n * B /\ a \in Nat /\ z \in Nat /\ Len(d) = n * B
    <3> HIDE DEF m, g
    <3>1. g <= a /\ z <= g + m /\ a \in Nat /\ z \in Nat /\ Len(d) = m
      BY <2>3, <2>4
    <3> QED
      BY <3>1 DEF m, g
  <2>7. disk' = Written(c * B, d)
    BY <1>0 DEF c, d
  <2>8. Stores(f, a, z, r.id)
    <3> HIDE DEF f
    <3> QED
      BY <1>1, <2>2, <2>5, <2>6, <2>7, TransferWrite
  <2> QED
    BY <2>8 DEF a, z
<1> QED
  BY <1>5, <1>6, <1>8, <1>9, <1>10, <1>11 DEF p, n, q, s

(* A turn of fileWrite: the buffer's sector is behind it.                    *)
LEMMA WriteChunksStep ==
  ASSUME Inv, WriteChunks
  PROVE  /\ Inv'
         /\ call' = [call EXCEPT !.place = call'.place, !.chunks = call'.chunks,
                                 !.pos = call'.pos]
         /\ call.pos > 0 /\ call'.pos \in call.pos..call.len /\ call.pos < call'.pos
         /\ call.kind = "write" /\ out = <<>> /\ UNCHANGED out
         /\ Stores(call.file, call.start + call.pos, call.start + call'.pos, call.id)
<1> DEFINE f == call.file
           p == TurnPlace(call)
           n == WriteSectors(call)
           k == call.start \div BytesPerSector
           c == FileSector(f, k)
<1>1. /\ call.open /\ call.kind = "write" /\ call.chunks > 0
      /\ disk' = Written(SectorOf(p) * BytesPerSector,
                         Data(call, call.pos, call.pos + n * BytesPerSector))
      /\ call' = TurnWrite(call)
      /\ MoveCursor(f, p)
      /\ UNCHANGED <<files, globalBuffer, prev, out, context>>
  BY DEF WriteChunks, TurnPlace, WriteSectors, WriteEnd, TurnWrite, Advanced
<1>2. /\ IsCall(call) /\ Underway(call) /\ booted = File /\ call.pos > 0 /\ f \in File
      /\ call.pos < call.len /\ Geometry
  BY <1>1, ChunksLeft DEF Inv, Shapes, Calling
<1>3. /\ IsCall(call') /\ Underway(call')
      /\ call'.pos \in call.pos..call.len /\ call.pos < call'.pos
      /\ call'.open = call.open /\ call'.kind = call.kind /\ call'.len = call.len
      /\ call'.file = call.file /\ call'.start = call.start
      /\ CursorRight(f, [cluster |-> p.cluster, offset |-> p.offset])
      /\ Stores(f, call.start + call.pos, call.start + call'.pos, call.id)
      /\ k * BytesPerSector + BytesPerSector <= call.start + call.pos
      /\ call.start + call'.pos <= FileSize(f)
  BY <1>1, <1>2, WriteTurnStep
<1>4. /\ out = <<>> /\ prev.sect # -1 /\ ClustToSect(prev.cluster) + prev.sect = c
  BY <1>1, <1>2 DEF Inv, WriteBuffer
<1> HIDE DEF p, n
<1>5. SectorAfter(c) = SectorsFrom(c, 1)
  <2>1. k \in 0..(Sectors(f) - 1)
    BY <1>2, ByteSplit DEF Underway
  <2>2. /\ call.start + call.pos \in Nat /\ call.start + call'.pos \in Nat
    BY <1>2, <1>3 DEF Underway
  <2> DEFINE a == call.start + call.pos
             z == call.start + call'.pos
             id == call.id
  <2>3. /\ Stores(f, a, z, id) /\ k * BytesPerSector + BytesPerSector <= a
        /\ z <= FileSize(f) /\ a \in Nat /\ z \in Nat
    BY <1>3, <2>2
  <2> HIDE DEF a, z, id, k, f
  <2> QED
    BY <1>2, <2>1, <2>3, SectorKept
<1> HIDE DEF f, k, c
<1>6. BufferCoherent'
  <2>1. globalBuffer' = SectorAfter(c)
    BY <1>1, <1>4, <1>5 DEF Inv, BufferCoherent
  <2>2. ClustToSect(prev.cluster)' + prev'.sect = c
    BY <1>1, <1>4 DEF ClustToSect, files
  <2>3. SectorsFrom(ClustToSect(prev.cluster) + prev.sect, 1)'
          = [i \in 1..(1 * BytesPerSector) |-> disk'[c * BytesPerSector + i - 1]]
    BY <2>2 DEF SectorsFrom
  <2>4. 1 * BytesPerSector = BytesPerSector
    BY GeometryAssumption
  <2> QED
    BY <2>1, <2>3, <2>4 DEF BufferCoherent, SectorAfter
<1>7. /\ cursor' = [g \in File |-> cursor'[g]]
      /\ \A g \in File : CursorRight(g, cursor'[g])
  BY <1>1, <1>2, <1>3, CursorMoved
<1>8. Shapes'
  BY <1>1, <1>3, <1>7, FilesKept, StoresShape DEF Inv, Shapes
<1>9. Calling' /\ Cursors' /\ Geometry' /\ Tables'
  BY <1>1, <1>2, <1>3, <1>7, FilesKept
<1>10. WriteBuffer'
  <2>1. /\ out' = <<>> /\ prev'.sect # -1
        /\ ClustToSect(prev'.cluster) + prev'.sect
             = FileSector(call'.file, call'.start \div BytesPerSector)
    BY <1>1, <1>3, <1>4 DEF c, f, k
  <2> QED
    BY <1>1, <2>1, FilesKept
<1>11. Polled'
  BY <1>1, FilesKept DEF Inv, Polled
<1>12. call' = [call EXCEPT !.place = call'.place, !.chunks = call'.chunks, !.pos = call'.pos]
  BY <1>1, <1>2 DEF IsCall, TurnWrite, Advanced
<1> QED
  BY <1>1, <1>2, <1>3, <1>4, <1>6, <1>8, <1>9, <1>10, <1>11, <1>12 DEF Inv, f

(* The last sector of a write goes through the buffer too.                  *)
LEMMA WriteTailStep ==
  ASSUME Inv, WriteTail
  PROVE  /\ Inv'
         /\ call' = [call EXCEPT !.place = call'.place, !.pos = call'.pos]
         /\ call.pos > 0 /\ call'.pos \in call.pos..call.len /\ call.pos < call'.pos
         /\ call.kind = "write" /\ out = <<>> /\ UNCHANGED out
         /\ Stores(call.file, call.start + call.pos, call.start + call'.pos, call.id)
<1> DEFINE f == call.file
           p == NextPlace(f, call.place)
           b == Patched(LoadedBuffer(f, p), 0, Data(call, call.pos, call.len))
<1>1. /\ call.open /\ call.kind = "write" /\ call.chunks <= 0 /\ call.pos < call.len
      /\ LoadSectorBuf(f, p) /\ globalBuffer' = b
      /\ disk' = Written(SectorOf(p) * BytesPerSector, b)
      /\ call' = [call EXCEPT !.place = p, !.pos = call.len]
      /\ MoveCursor(f, p)
      /\ UNCHANGED <<files, out, context>>
  BY DEF WriteTail
<1>2. /\ IsCall(call) /\ Underway(call) /\ booted = File /\ Geometry /\ out = <<>>
      /\ DOMAIN disk = Volume
  BY <1>1 DEF Inv, Shapes, Calling, WriteBuffer
<1>3. PICK k \in Nat :
           /\ call.start + call.pos = k * BytesPerSector
           /\ On(f, p, k)
           /\ Transfer(f, k, 1, SectorOf(p))
           /\ call.chunks = 0 /\ call.pos > 0 /\ call.pos \in Nat /\ call.len \in Nat
           /\ call.len - call.pos \in 1..(BytesPerSector - 1)
           /\ f \in File
           /\ CursorRight(f, [cluster |-> p.cluster, offset |-> p.offset])
  BY <1>1, <1>2, TailPlace
<1>4. LoadedBuffer(f, p) = SectorsFrom(SectorOf(p), 1)
  <2> HIDE DEF p
  <2> QED
    BY <1>3, Loaded
<1> HIDE DEF p
<1>5. /\ IsCall(call') /\ Underway(call')
      /\ call'.open = call.open /\ call'.kind = call.kind /\ call'.pos = call.len
      /\ call'.len = call.len
  <2> DEFINE s == Ended(call, p)
  <2>1. s = Ended(call, p)
    OBVIOUS
  <2> HIDE DEF s
  <2>2. /\ IsCall(s) /\ Underway(s)
        /\ s.open = call.open /\ s.kind = call.kind /\ s.pos = call.len /\ s.len = call.len
    BY <1>2, <1>3, <2>1, TailUnderway
  <2> QED
    BY <1>1, <2>1, <2>2 DEF Ended
<1>6. Stores(f, call.start + call.pos, call.start + call.len, call.id)
      /\ SectorAfter(SectorOf(p)) = b
  <2> DEFINE c == SectorOf(p)
             B == BytesPerSector
             g == k * B
  <2>1. /\ g \in Nat /\ B \in Nat \ {0} /\ call.start \in Nat
    BY <1>2, <1>3, GeometryAssumption, Product DEF Underway
  <2>2. /\ call.pos <= call.len /\ g <= call.start + call.pos
        /\ call.start + call.len <= g + B /\ (call.start + call.pos) - g = 0
    <3>1. call.start + call.pos = g /\ call.len - call.pos \in 1..(B - 1)
      BY <1>3
    <3> HIDE DEF g, B
    <3> QED
      BY <1>3, <2>1, <3>1
  <2>3. b = Patched(SectorsFrom(c, 1), (call.start + call.pos) - g,
                    Data(call, call.pos, call.len))
    BY <1>4, <2>2
  <2>4. PatchOf(b, f, k, c, call, call.pos, call.len)
    <3> HIDE DEF b, c
    <3> QED
      BY <1>3, <2>1, <2>2, <2>3 DEF PatchOf, c
  <2>5. disk' = Written(c * BytesPerSector, b)
    BY <1>1
  <2> HIDE DEF b, c, f
  <2>6. Stores(f, call.start + call.pos, call.start + call.len, call.id) /\ SectorAfter(c) = b
    BY <1>2, <1>3, <2>4, <2>5, PatchedWrite
  <2> QED
    BY <2>6 DEF c
<1> HIDE DEF b, f
<1>7. /\ cursor' = [g \in File |-> cursor'[g]]
      /\ \A g \in File : CursorRight(g, cursor'[g])
  BY <1>1, <1>3, CursorMoved
<1>8. Shapes'
  BY <1>1, <1>5, <1>6, <1>7, FilesKept, StoresShape DEF Inv, Shapes
<1>9. Calling' /\ Cursors' /\ Geometry' /\ Tables'
  BY <1>1, <1>2, <1>5, <1>7, FilesKept
<1>10. WriteBuffer'
  <2>1. out' = <<>> /\ ~(call'.pos < call'.len)
    BY <1>1, <1>2, <1>3, <1>5
  <2> QED
    BY <1>1, <2>1, FilesKept
<1>11. Polled'
  BY <1>1, FilesKept DEF Inv, Polled
<1>12. BufferCoherent'
  BY <1>1, <1>6, WrittenBuffer
<1>13. call' = [call EXCEPT !.place = call'.place, !.pos = call'.pos]
  BY <1>1, <1>2, <1>5 DEF IsCall
<1>14. call.pos > 0 /\ call'.pos \in call.pos..call.len
  BY <1>1, <1>3, <1>5
<1> QED
  BY <1>1, <1>2, <1>5, <1>6, <1>8, <1>9, <1>10, <1>11, <1>12, <1>13, <1>14 DEF Inv, f

-----------------------------------------------------------------------------
(* The abstract files.                                                      *)

(* What ByteFile sees of a call, and of both channels.                       *)
Rec(r) == [open |-> r.open, kind |-> r.kind, file |-> r.file, start |-> r.start,
           len |-> r.len, id |-> r.id, pos |-> r.pos]

Reqs == [c \in {"call", "poll"} |-> Rec(IF c = "call" THEN call ELSE context)]
Gots == [c \in {"call", "poll"} |-> IF c = "call" THEN out ELSE pollOut]

(* Call r of channel c reads, or writes, its bytes from the from-th up to the   *)
(* to-th.                                                                   *)
Reading(c, r, from, to) ==
  /\ Reqs' = [Reqs EXCEPT ![c] = [r EXCEPT !.pos = to]]
  /\ r.kind = "read"
  /\ Gots' = [Gots EXCEPT ![c] = (IF from = 0 THEN <<>> ELSE @) \o
       [i \in 1..(to - from) |-> Content(disk)[r.file][r.start + from + i - 1]]]
  /\ Content(disk)' = Content(disk)

Writing(c, r, from, to) ==
  /\ Reqs' = [Reqs EXCEPT ![c] = [r EXCEPT !.pos = to]]
  /\ r.kind = "write"
  /\ Content(disk)' = [Content(disk) EXCEPT ![r.file] = [o \in DOMAIN @ |->
       IF o - r.start \in from..(to - 1) THEN Byte(r.file, o, r.id) ELSE @[o]]]
  /\ Gots' = [Gots EXCEPT ![c] = <<>>]

(* The moves of the abstract files, in the terms above.                     *)
LEMMA AbstractMove ==
  ASSUME NEW c, NEW r, NEW from, NEW to, Reading(c, r, from, to) \/ Writing(c, r, from, to)
  PROVE  Files!Move(c, r, from, to)
BY Zenon DEF Reading, Writing, Files!Move, Reqs, Rec, Gots, Content

(* The same for a call that returns,                                        *)
LEMMA AbstractReturn ==
  ASSUME NEW c, Reqs[c].open, Reqs[c].pos = Reqs[c].len, Reqs' = [Reqs EXCEPT ![c].open = FALSE],
         Content(disk)' = Content(disk), Gots' = Gots
  PROVE  Files!Return(c)
BY Zenon DEF Files!Return, Reqs, Rec, Gots, Content

(* one that goes on,                                                        *)
LEMMA AbstractContinue ==
  ASSUME NEW c, Reqs[c].open, NEW to \in Reqs[c].pos..Reqs[c].len,
         Files!Move(c, Reqs[c], Reqs[c].pos, to)
  PROVE  Files!Continue(c)
BY Zenon DEF Files!Continue, Reqs, Rec, Gots, Content

(* and one that begins.                                                     *)
LEMMA AbstractBegin ==
  ASSUME NEW c, ~Reqs[c].open, Reqs'[c].open,
         Reqs'[c].start \in DOMAIN Content(disk)[Reqs'[c].file],
         Reqs'[c].start + Reqs'[c].len - 1
           \in DOMAIN Content(disk)[Reqs'[c].file] \cup {Reqs'[c].start - 1},
         Reqs'[c].pos \in 0..Reqs'[c].len,
         Files!Move(c, Reqs'[c], 0, Reqs'[c].pos)
  PROVE  Files!Begin(c)
BY Zenon DEF Files!Begin, Reqs, Rec, Gots, Content

(* Without a write the files keep their bytes.                              *)
LEMMA ContentKept ==
  ASSUME UNCHANGED <<files, disk>>
  PROVE  Content(disk)' = Content(disk)
BY DEF Content, FileSize, BytePerClus, Address, ClustToSect, files

(* A write changes its file's bytes and no others.                          *)
LEMMA ContentWritten ==
  ASSUME Geometry, UNCHANGED files, NEW f \in File, NEW s \in Nat, NEW from \in Nat, NEW to \in Nat,
         NEW id, s + to <= FileSize(f), Stores(f, s + from, s + to, id)
  PROVE  Content(disk)'
           = [Content(disk) EXCEPT ![f] = [o \in DOMAIN @ |->
                IF o - s \in from..(to - 1) THEN Byte(f, o, id) ELSE @[o]]]
<1> DEFINE D == [g \in File |-> [o \in 0..(FileSize(g) - 1) |-> disk'[Address(g, o)]]]
           a == s + from
           z == s + to
<1>1. Content(disk)' = D
  BY DEF Content, FileSize, BytePerClus, Address, ClustToSect, files
<1>2. \A g \in File : FileSize(g) \in Nat
  BY FileSizeNat
<1>3. /\ \A o \in a..(z - 1) : disk'[Address(f, o)] = Byte(f, o, id)
      /\ \A x \in Volume : disk'[x] # disk[x] => \E o \in a..(z - 1) : x = Address(f, o)
      /\ z <= FileSize(f) /\ a \in Nat /\ z \in Nat
  BY DEF Stores
<1>4. ASSUME NEW g \in File, NEW o \in 0..(FileSize(g) - 1), ~(g = f /\ o \in a..(z - 1))
      PROVE  disk'[Address(g, o)] = disk[Address(g, o)]
  <2> SUFFICES ASSUME disk'[Address(g, o)] # disk[Address(g, o)] PROVE FALSE
    OBVIOUS
  <2>1. Address(g, o) \in Volume
    BY ByteSplit
  <2>2. PICK u \in a..(z - 1) : Address(g, o) = Address(f, u)
    BY <1>3, <2>1
  <2>3. u \in 0..(FileSize(f) - 1)
    <3> HIDE DEF a, z
    <3> QED
      BY <1>2, <1>3
  <2>4. g = f /\ o = u
    <3> HIDE DEF a, z
    <3> QED
      BY <2>2, <2>3, AddressInjective
  <2> QED
    BY <1>4, <2>2, <2>4
<1>5. \A o \in 0..(FileSize(f) - 1) : o \in a..(z - 1) <=> o - s \in from..(to - 1)
  BY <1>2
<1> HIDE DEF a, z
<1> DEFINE E == [o \in 0..(FileSize(f) - 1) |->
                   IF o - s \in from..(to - 1) THEN Byte(f, o, id) ELSE Content(disk)[f][o]]
<1>6. D[f] = E
  <2> SUFFICES ASSUME NEW o \in 0..(FileSize(f) - 1)
               PROVE  disk'[Address(f, o)]
                        = IF o - s \in from..(to - 1) THEN Byte(f, o, id) ELSE disk[Address(f, o)]
    BY DEF Content
  <2> QED
    BY <1>3, <1>4, <1>5
<1>7. ASSUME NEW g \in File, g # f
      PROVE  D[g] = Content(disk)[g]
  <2> SUFFICES ASSUME NEW o \in 0..(FileSize(g) - 1)
               PROVE  disk'[Address(g, o)] = disk[Address(g, o)]
    BY DEF Content
  <2> QED
    BY <1>4, <1>7
<1>8. DOMAIN Content(disk)[f] = 0..(FileSize(f) - 1)
  BY DEF Content
<1>9. Content(disk) = [g \in File |-> Content(disk)[g]]
  BY DEF Content
<1> DEFINE C == Content(disk)
<1>10. [C EXCEPT ![f] = [o \in DOMAIN @ |-> IF o - s \in from..(to - 1) THEN Byte(f, o, id)
                                                                     ELSE @[o]]]
         = [C EXCEPT ![f] = E]
  BY <1>8
<1>11. D = [g \in File |-> D[g]]
  OBVIOUS
<1>12. D = [C EXCEPT ![f] = E]
  <2> HIDE DEF C, D, E
  <2> QED
    BY <1>6, <1>7, <1>9, <1>11 DEF C
<1> QED
  BY <1>1, <1>10, <1>12, Zenon

(* The records of the calls.                                                *)
LEMMA CallMoved ==
  ASSUME IsCall(call), IsCall(call'), UNCHANGED context, call'.open = call.open,
         call'.kind = call.kind, call'.file = call.file, call'.start = call.start,
         call'.len = call.len, call'.id = call.id
  PROVE  /\ Reqs["call"] = Rec(call)
         /\ Reqs' = [Reqs EXCEPT !["call"] = [Rec(call) EXCEPT !.pos = call'.pos]]
<1>1. Rec(call') = [Rec(call) EXCEPT !.pos = call'.pos]
  BY DEF Rec
<1>2. Reqs' = [c \in {"call", "poll"} |-> Rec(IF c = "call" THEN call' ELSE context')]
  BY DEF Reqs, Rec
<1> QED
  BY <1>1, <1>2 DEF Reqs

(* A read that goes on.                                                     *)
LEMMA ReadContinues ==
  ASSUME NEW c \in {"call", "poll"}, NEW r, r = Reqs[c], NEW to,
         r.open /\ r.kind = "read" /\ r.pos \in Nat /\ r.pos > 0 /\ to \in r.pos..r.len,
         Reqs' = [Reqs EXCEPT ![c] = [r EXCEPT !.pos = to]],
         Content(disk)' = Content(disk),
         Gots' = [Gots EXCEPT ![c] = @ \o Bytes(r.file, r.start + r.pos, to - r.pos)]
  PROVE  Files!Continue(c)
<1>1. r.pos # 0
  OBVIOUS
<1>2. Gots' = [Gots EXCEPT ![c] = (IF r.pos = 0 THEN <<>> ELSE @) \o
                 [i \in 1..(to - r.pos) |-> Content(disk)[r.file][r.start + r.pos + i - 1]]]
  BY <1>1, Zenon DEF Bytes
<1>3. Reading(c, r, r.pos, to)
  BY <1>2, Zenon DEF Reading
<1>4. Files!Move(c, r, r.pos, to)
  BY <1>3, AbstractMove
<1> QED
  BY <1>4, AbstractContinue

(* A read that begins.                                                      *)
LEMMA ReadBegins ==
  ASSUME Geometry, NEW c \in {"call", "poll"}, NEW r, r = Reqs'[c], ~Reqs[c].open,
         r = [open |-> r.open, kind |-> r.kind, file |-> r.file, start |-> r.start,
              len |-> r.len, id |-> r.id, pos |-> r.pos],
         r.open /\ r.kind = "read" /\ r.file \in File,
         r.start \in 0..(FileSize(r.file) - 1), r.len \in Nat, r.pos \in 0..r.len,
         r.start + r.len <= FileSize(r.file),
         Reqs' = [Reqs EXCEPT ![c] = r],
         Content(disk)' = Content(disk),
         Gots' = [Gots EXCEPT ![c] = Bytes(r.file, r.start, r.pos)]
  PROVE  Files!Begin(c)
<1>1. r.start \in Nat /\ r.pos \in Nat /\ FileSize(r.file) \in Nat
  BY FileSizeNat
<1>2. Reqs' = [Reqs EXCEPT ![c] = [r EXCEPT !.pos = r.pos]]
  <2>1. r = [r EXCEPT !.pos = r.pos]
    OBVIOUS
  <2> QED
    BY <2>1, Zenon
<1> DEFINE s == [i \in 1..(r.pos - 0) |-> Content(disk)[r.file][r.start + 0 + i - 1]]
<1>3. s = Bytes(r.file, r.start, r.pos)
  <2>1. r.pos - 0 = r.pos /\ r.start + 0 = r.start
    BY <1>1
  <2> QED
    BY <2>1, Zenon DEF Bytes
<1>4. <<>> \o s = s
  <2> DEFINE S == {Content(disk)[r.file][r.start + i - 1] : i \in 1..r.pos}
  <2>1. Bytes(r.file, r.start, r.pos) \in Seq(S)
    BY <1>1 DEF Bytes
  <2> HIDE DEF s, S
  <2> QED
    BY <1>3, <2>1, ConcatEmptySeq
<1>5. Gots' = [Gots EXCEPT ![c] = (IF 0 = 0 THEN <<>> ELSE @) \o s]
  <2> HIDE DEF s
  <2> QED
    BY <1>3, <1>4, Zenon
<1>6. Files!Move(c, Reqs'[c], 0, Reqs'[c].pos)
  <2>1. Reading(c, Reqs'[c], 0, Reqs'[c].pos)
    BY <1>2, <1>5, Zenon DEF Reading
  <2> QED
    BY <2>1, Zenon DEF Reading, Files!Move, Reqs, Rec, Gots, Content
<1>7. DOMAIN Content(disk)[r.file] = 0..(FileSize(r.file) - 1)
  BY DEF Content
<1>8. r.start + r.len - 1 \in (0..(FileSize(r.file) - 1)) \cup {r.start - 1}
  BY <1>1
<1> QED
  BY <1>6, <1>7, <1>8, AbstractBegin, Zenon

(* A write's steps.                                                         *)
LEMMA WriteContinues ==
  ASSUME Geometry, UNCHANGED files, NEW c \in {"call", "poll"}, NEW r, r = Reqs[c], NEW to,
         r.open /\ r.kind = "write" /\ r.pos \in Nat /\ to \in r.pos..r.len /\ r.file \in File,
         r.start \in Nat, r.start + to <= FileSize(r.file),
         Reqs' = [Reqs EXCEPT ![c] = [r EXCEPT !.pos = to]],
         Stores(r.file, r.start + r.pos, r.start + to, r.id),
         Gots' = Gots, Gots[c] = <<>>, Gots = [d \in {"call", "poll"} |-> Gots[d]]
  PROVE  Files!Continue(c)
<1>1. to \in Nat
  OBVIOUS
<1>2. Content(disk)' = [Content(disk) EXCEPT ![r.file] = [o \in DOMAIN @ |->
                 IF o - r.start \in r.pos..(to - 1) THEN Byte(r.file, o, r.id) ELSE @[o]]]
  BY <1>1, ContentWritten
<1>3. Gots' = [Gots EXCEPT ![c] = <<>>]
  OBVIOUS
<1>4. Files!Move(c, r, r.pos, to)
  <2>1. Writing(c, r, r.pos, to)
    BY <1>2, <1>3, Zenon DEF Writing
  <2> QED
    BY <2>1, AbstractMove
<1> QED
  BY <1>4, AbstractContinue

(* A write that begins.                                                     *)
LEMMA WriteBegins ==
  ASSUME Geometry, UNCHANGED files, NEW c \in {"call", "poll"}, NEW r, r = Reqs'[c],
         ~Reqs[c].open,
         r = [open |-> r.open, kind |-> r.kind, file |-> r.file, start |-> r.start,
              len |-> r.len, id |-> r.id, pos |-> r.pos],
         r.open /\ r.kind = "write" /\ r.file \in File,
         r.start \in 0..(FileSize(r.file) - 1), r.len \in Nat, r.pos \in 0..r.len,
         r.start + r.len <= FileSize(r.file),
         Reqs' = [Reqs EXCEPT ![c] = r],
         Stores(r.file, r.start, r.start + r.pos, r.id),
         Gots' = [Gots EXCEPT ![c] = <<>>]
  PROVE  Files!Begin(c)
<1>1. /\ r.start \in Nat /\ r.pos \in Nat /\ FileSize(r.file) \in Nat /\ r.start + 0 = r.start
      /\ r.start + r.pos <= FileSize(r.file)
  BY FileSizeNat
<1>2. Reqs' = [Reqs EXCEPT ![c] = [r EXCEPT !.pos = r.pos]]
  <2>1. r = [r EXCEPT !.pos = r.pos]
    OBVIOUS
  <2> QED
    BY <2>1, Zenon
<1>3. Content(disk)' = [Content(disk) EXCEPT ![r.file] = [o \in DOMAIN @ |->
                 IF o - r.start \in 0..(r.pos - 1) THEN Byte(r.file, o, r.id) ELSE @[o]]]
  <2>1. Stores(r.file, r.start + 0, r.start + r.pos, r.id)
    BY <1>1
  <2> QED
    BY <1>1, <2>1, ContentWritten
<1>4. Files!Move(c, Reqs'[c], 0, Reqs'[c].pos)
  <2>1. Writing(c, Reqs'[c], 0, Reqs'[c].pos)
    BY <1>2, <1>3, Zenon DEF Writing
  <2> QED
    BY <2>1, Zenon DEF Writing, Files!Move, Reqs, Rec, Gots, Content
<1>5. DOMAIN Content(disk)[r.file] = 0..(FileSize(r.file) - 1)
  BY DEF Content
<1>6. r.start + r.len - 1 \in (0..(FileSize(r.file) - 1)) \cup {r.start - 1}
  BY <1>1
<1> QED
  BY <1>4, <1>5, <1>6, AbstractBegin, Zenon

-----------------------------------------------------------------------------
(* The theorems.                                                            *)

(* The steps, with the request of a call taken apart.                       *)
LEMMA Asked ==
  ASSUME Geometry, NEW f \in File, NEW r \in InFile(f)
  PROVE  /\ r[1] \in 0..(FileSize(f) - 1) /\ r[2] \in 0..FileSize(f)
         /\ r[1] + r[2] <= FileSize(f)
BY DEF InFile

(* Nothing moves.                                                           *)
LEMMA StutterInv == Inv /\ UNCHANGED vars => Inv'
<1> SUFFICES ASSUME Inv, UNCHANGED vars PROVE Inv'
  OBVIOUS
<1>1. UNCHANGED files /\ UNCHANGED <<cursor, disk, globalBuffer, prev, call, out, context>>
  BY DEF vars
<1>2. BufferCoherent'
  BY <1>1, KeptBuffer
<1>3. Geometry' /\ Tables'
  BY <1>1, FilesKept
<1>4. Cursors'
  <2>1. \A f \in File : CursorRight(f, cursor'[f])
    BY <1>1 DEF Inv, Cursors
  <2> QED
    BY <1>1, <2>1, FilesKept
<1>5. Calling'
  <2>1. call'.open => booted = File /\ Underway(call')
    BY <1>1 DEF Inv, Calling
  <2> QED
    BY <1>1, <2>1, FilesKept
<1>6. Polled'
  BY <1>1 DEF Inv, Polled, Underway, At, InCluster, FileSize, BytePerClus, files
<1>7. WriteBuffer'
  BY <1>1 DEF Inv, WriteBuffer, FileSector, ClustToSect, files
<1>8. Shapes'
  BY <1>1 DEF Inv, Shapes, IsCall, Volume, files
<1> QED
  BY <1>2, <1>3, <1>4, <1>5, <1>6, <1>7, <1>8 DEF Inv

(* Every step keeps the invariant.                                          *)
LEMMA NextInv == Inv /\ [Next]_vars => Inv'
<1> SUFFICES ASSUME Inv, [Next]_vars PROVE Inv'
  OBVIOUS
<1>0. Geometry
  BY DEF Inv
<1>1. CASE Boot
  BY <1>1, BootInv
<1>2. ASSUME NEW f \in File, NEW r \in InFile(f), BeginRead(f, r[1], r[2])
      PROVE  Inv'
  BY <1>0, <1>2, Asked, BeginReadStep
<1>3. ASSUME NEW r \in InFile("sav"), BeginWrite("sav", r[1], r[2])
      PROVE  Inv'
  BY <1>0, <1>3, Asked, BeginWriteStep DEF File
<1>4. ASSUME NEW r \in InFile("rom"), r[1] % BytesPerSector = 0, r[2] % BytesPerSector = 0,
             r[2] > 0, FileReadNonBlocking(r[1], r[2] \div BytesPerSector)
      PROVE  Inv'
  BY <1>0, <1>4, Asked, FileReadNonBlockingStep DEF File
<1>5. CASE Ask
  BY <1>2, <1>3, <1>4, <1>5 DEF Ask, File
<1>6. CASE Serve
  BY <1>6, ReadChunksStep, ReadTailStep, WriteChunksStep, WriteTailStep, ReturnStep DEF Serve
<1>7. CASE Poll
  BY <1>7, ResumeFileReadStep, ResumeFileReadDoneStep DEF Poll
<1>8. CASE UNCHANGED vars
  BY <1>8, StutterInv
<1> QED
  BY <1>1, <1>5, <1>6, <1>7, <1>8 DEF Next

(* The driver's invariant, on every layout of the volume, every size of sector, *)
(* cluster and cache.                                                       *)
THEOREM DriverInvariant == Spec => []Inv
<1> QED
  BY InitInv, NextInv, PTL DEF Spec

(* loadSectorBuf never takes an old sector for the one asked for.            *)
THEOREM BufferCoherence == Spec => []BufferCoherent
<1>1. Inv => BufferCoherent
  BY DEF Inv
<1> QED
  BY <1>1, DriverInvariant, PTL

(* What NoStrayWrite says of one step.                                      *)
InRange ==
  \A x \in Volume : disk'[x] # disk[x] =>
    /\ call'.kind = "write"
    /\ \E o \in call'.start..(call'.start + call'.len - 1) : x = Address(call'.file, o)

(* What a part of a write stores lies in the write's range.                 *)
LEMMA StoresInRange ==
  ASSUME NEW f, NEW s \in Nat, NEW from \in Nat, NEW to \in Nat, NEW id,
         Stores(f, s + from, s + to, id),
         call'.kind = "write", call'.file = f, call'.start = s, call'.len \in Nat, to <= call'.len
  PROVE  InRange
<1> SUFFICES ASSUME NEW x \in Volume, disk'[x] # disk[x]
             PROVE  \E o \in s..(s + call'.len - 1) : x = Address(f, o)
  BY DEF InRange
<1>1. PICK o \in (s + from)..(s + to - 1) : x = Address(f, o)
  BY DEF Stores
<1>2. o \in s..(s + call'.len - 1)
  OBVIOUS
<1> QED
  BY <1>1, <1>2

(* Only fileWrite stores, and only there.                                   *)
LEMMA NextInRange == Inv /\ [Next]_vars => InRange
<1> SUFFICES ASSUME Inv, [Next]_vars, disk' # disk PROVE InRange
  BY DEF InRange
<1>0. Geometry
  BY DEF Inv
<1>1. ~Boot /\ ~Poll
  BY DEF Boot, BuildFatTableCache, BuildFatTableCacheCompressed, SkipTable, Poll,
         ResumeFileRead, ResumeFileReadDone
<1>2. ASSUME NEW r \in InFile("sav"), BeginWrite("sav", r[1], r[2])
      PROVE  InRange
  <2>1. /\ r[1] \in 0..(FileSize("sav") - 1) /\ r[2] \in 0..FileSize("sav")
        /\ r[1] + r[2] <= FileSize("sav") /\ "sav" \in File
    BY <1>0, Asked DEF File
  <2>2. /\ Underway(call') /\ call'.kind = "write" /\ call'.file = "sav"
        /\ call'.start = r[1] /\ call'.len = r[2]
        /\ Stores("sav", r[1], r[1] + call'.pos, call'.id)
    BY <1>2, <2>1, BeginWriteStep
  <2>3. call'.pos \in 0..r[2] /\ r[2] \in Nat
    BY <2>1, <2>2 DEF Underway
  <2>4. r[1] \in Nat /\ r[1] + 0 = r[1]
    BY <2>1
  <2>5. Stores("sav", r[1] + 0, r[1] + call'.pos, call'.id)
    BY <2>2, <2>4
  <2> QED
    BY <2>2, <2>3, <2>4, <2>5, StoresInRange
<1>3. ASSUME Ask PROVE InRange
  <2>1. ~ \E f \in File : \E r \in InFile(f) : BeginRead(f, r[1], r[2])
    BY DEF BeginRead
  <2>2. ~ \E r \in InFile("rom") : FileReadNonBlocking(r[1], r[2] \div BytesPerSector)
    BY DEF FileReadNonBlocking
  <2> QED
    BY <1>2, <1>3, <2>1, <2>2 DEF Ask, File
<1>4. ASSUME WriteChunks \/ WriteTail PROVE InRange
  <2>1. /\ call.pos > 0 /\ call'.pos \in call.pos..call.len
        /\ call.kind = "write"
        /\ Stores(call.file, call.start + call.pos, call.start + call'.pos, call.id)
        /\ call'.kind = call.kind /\ call'.file = call.file /\ call'.start = call.start
        /\ call'.len = call.len
    <3>1. IsCall(call)
      BY DEF Inv, Shapes
    <3>2. CASE WriteChunks
      BY <3>1, <3>2, WriteChunksStep DEF IsCall
    <3>3. CASE WriteTail
      BY <3>1, <3>3, WriteTailStep DEF IsCall
    <3> QED
      BY <1>4, <3>2, <3>3
  <2>2. call.open
    BY <1>4 DEF WriteChunks, WriteTail
  <2>3. call.start \in Nat /\ call.pos \in Nat /\ call.len \in Nat
    BY <2>2 DEF Inv, Calling, Underway
  <2>4. call'.pos \in Nat /\ call'.pos <= call'.len
    BY <2>1, <2>3
  <2> QED
    BY <2>1, <2>3, <2>4, StoresInRange
<1>5. ASSUME Serve PROVE InRange
  <2>1. ~ReadChunks /\ ~ReadTail /\ ~Return
    BY DEF ReadChunks, ReadTail, Return
  <2> QED
    BY <1>4, <1>5, <2>1 DEF Serve
<1>6. ~UNCHANGED vars
  BY DEF vars
<1> QED
  BY <1>1, <1>3, <1>5, <1>6 DEF Next

(* fileWrite changes no byte of the card but those it was asked to write.    *)
THEOREM WritesStayInRange == Spec => NoStrayWrite
<1>1. Inv /\ [Next]_vars => InRange
  BY NextInRange
<1>2. Spec => [][InRange]_vars
  BY <1>1, DriverInvariant, PTL DEF Spec
<1> QED
  BY <1>2 DEF NoStrayWrite, InRange

-----------------------------------------------------------------------------
(* The driver's steps are the abstract files' steps.                        *)

(* A step the abstract files do not see.                                    *)
LEMMA AbstractStutter ==
  ASSUME Content(disk)' = Content(disk), Reqs' = Reqs, Gots' = Gots
  PROVE  UNCHANGED Files!vars
BY Zenon DEF Files!vars, Content, Reqs, Rec, Gots

(* What the abstract files see of the two channels, before and after a step.   *)
LEMMA Channels ==
  /\ Reqs = [c \in {"call", "poll"} |-> Reqs[c]]
  /\ Gots = [c \in {"call", "poll"} |-> Gots[c]]
  /\ Reqs["call"] = Rec(call) /\ Reqs["poll"] = Rec(context)
  /\ Gots["call"] = out /\ Gots["poll"] = pollOut
  /\ UNCHANGED <<context, pollOut>> =>
       /\ Reqs' = [Reqs EXCEPT !["call"] = Rec(call')]
       /\ Gots' = [Gots EXCEPT !["call"] = out']
       /\ Reqs'["call"] = Rec(call')
  /\ UNCHANGED <<call, out>> =>
       /\ Reqs' = [Reqs EXCEPT !["poll"] = Rec(context')]
       /\ Gots' = [Gots EXCEPT !["poll"] = pollOut']
       /\ Reqs'["poll"] = Rec(context')
<1>1. Reqs' = [c \in {"call", "poll"} |-> Rec(IF c = "call" THEN call' ELSE context')]
  BY DEF Reqs, Rec
<1>2. Gots' = [c \in {"call", "poll"} |-> IF c = "call" THEN out' ELSE pollOut']
  BY DEF Gots
<1>3. /\ Reqs = [c \in {"call", "poll"} |-> Reqs[c]]
      /\ Gots = [c \in {"call", "poll"} |-> Gots[c]]
      /\ Reqs["call"] = Rec(call) /\ Reqs["poll"] = Rec(context)
      /\ Gots["call"] = out /\ Gots["poll"] = pollOut
  BY DEF Reqs, Gots
<1>4. ASSUME UNCHANGED <<context, pollOut>>
      PROVE  /\ Reqs' = [Reqs EXCEPT !["call"] = Rec(call')]
             /\ Gots' = [Gots EXCEPT !["call"] = out']
             /\ Reqs'["call"] = Rec(call')
  BY <1>1, <1>2, <1>4 DEF Reqs, Gots
<1>5. ASSUME UNCHANGED <<call, out>>
      PROVE  /\ Reqs' = [Reqs EXCEPT !["poll"] = Rec(context')]
             /\ Gots' = [Gots EXCEPT !["poll"] = pollOut']
             /\ Reqs'["poll"] = Rec(context')
  BY <1>1, <1>2, <1>5 DEF Reqs, Gots
<1> QED
  BY <1>3, <1>4, <1>5

(* No call is open at first.                                                *)
LEMMA InitRefines == Init => Files!Init
BY DEF Init, NoCall, Files!Init

(* The loader's tables are not seen.                                        *)
LEMMA BootRefines == Inv /\ Boot => UNCHANGED Files!vars
<1> SUFFICES ASSUME Boot PROVE UNCHANGED Files!vars
  OBVIOUS
<1>1. UNCHANGED <<discSecPerClus, chain, disk, call, context, out, pollOut>>
  BY DEF Boot, BuildFatTableCache, BuildFatTableCacheCompressed, SkipTable
<1>2. Content(disk)' = Content(disk)
  BY <1>1 DEF Content, FileSize, BytePerClus, Address, ClustToSect
<1>3. Reqs' = Reqs /\ Gots' = Gots
  BY <1>1 DEF Reqs, Gots, Rec
<1> QED
  BY <1>2, <1>3, AbstractStutter

(* Nor is a step of no one.                                                 *)
LEMMA StutterRefines == UNCHANGED vars => UNCHANGED Files!vars
<1> SUFFICES ASSUME UNCHANGED vars PROVE UNCHANGED Files!vars
  OBVIOUS
<1>1. Content(disk)' = Content(disk)
  BY ContentKept DEF vars
<1>2. Reqs' = Reqs /\ Gots' = Gots
  BY DEF Reqs, Gots, Rec, vars
<1> QED
  BY <1>1, <1>2, AbstractStutter

(* fileRead, its first sector.                                              *)
LEMMA BeginReadRefines ==
  ASSUME Inv, NEW f \in File, NEW start \in 0..(FileSize(f) - 1), NEW len \in 0..FileSize(f),
         start + len <= FileSize(f), BeginRead(f, start, len)
  PROVE  Files!Begin("call")
<1>1. /\ Underway(call') /\ call'.open /\ call'.kind = "read"
      /\ call'.file = f /\ call'.start = start /\ call'.len = len
      /\ out' = Bytes(f, start, call'.pos)
  BY BeginReadStep
<1>2. UNCHANGED <<files, disk, context, pollOut>> /\ ~call.open
  BY DEF BeginRead, Ready
<1>3. call'.pos \in 0..len /\ len \in Nat
  BY <1>1 DEF Underway
<1>4. Content(disk)' = Content(disk)
  BY <1>2, ContentKept
<1> DEFINE r == Rec(call')
<1>5. /\ r.open = call'.open /\ r.kind = call'.kind /\ r.file = call'.file
      /\ r.start = call'.start /\ r.len = call'.len /\ r.id = call'.id /\ r.pos = call'.pos
      /\ r = [open |-> r.open, kind |-> r.kind, file |-> r.file, start |-> r.start,
              len |-> r.len, id |-> r.id, pos |-> r.pos]
  BY DEF Rec
<1>6. /\ Reqs' = [Reqs EXCEPT !["call"] = r] /\ Gots' = [Gots EXCEPT !["call"] = out']
      /\ r = Reqs'["call"] /\ ~Reqs["call"].open
  BY <1>2, Channels DEF Rec
<1> HIDE DEF r
<1>7. Gots' = [Gots EXCEPT !["call"] = Bytes(r.file, r.start, r.pos)]
  BY <1>1, <1>5, <1>6, Zenon
<1>8. Geometry
  BY DEF Inv
<1>9. /\ r.open /\ r.kind = "read" /\ r.file \in File
      /\ r.start \in 0..(FileSize(r.file) - 1) /\ r.len \in Nat /\ r.pos \in 0..r.len
      /\ r.start + r.len <= FileSize(r.file)
  BY <1>1, <1>3, <1>5
<1> QED
  BY <1>4, <1>5, <1>6, <1>7, <1>8, <1>9, ReadBegins

(* fileRead, what follows.                                                  *)
LEMMA ReadRefines ==
  ASSUME Inv, ReadChunks \/ ReadTail
  PROVE  Files!Continue("call")
<1>1. /\ IsCall(call) /\ IsCall(call') /\ call.open
      /\ call.kind = "read"
      /\ call'.open = call.open /\ call'.kind = call.kind /\ call'.file = call.file
      /\ call'.start = call.start /\ call'.len = call.len /\ call'.id = call.id
      /\ call.pos > 0 /\ call'.pos \in call.pos..call.len
      /\ out' = out \o Bytes(call.file, call.start + call.pos, call'.pos - call.pos)
  <2>1. IsCall(call) /\ call.open /\ call.kind = "read"
    BY DEF Inv, Shapes, ReadChunks, ReadTail
  <2>2. CASE ReadChunks
    <3>1. Inv'
      BY <2>2, ReadChunksStep
    <3> QED
      BY <2>1, <2>2, <3>1, ReadChunksStep DEF IsCall, Inv, Shapes
  <2>3. CASE ReadTail
    <3>1. Inv'
      BY <2>3, ReadTailStep
    <3> QED
      BY <2>1, <2>3, <3>1, ReadTailStep DEF IsCall, Inv, Shapes
  <2> QED
    BY <2>2, <2>3
<1>2. UNCHANGED <<files, disk, context, pollOut>>
  BY DEF ReadChunks, ReadTail
<1>3. call.pos \in Nat
  BY <1>1 DEF Inv, Calling, Underway
<1>4. Content(disk)' = Content(disk)
  BY <1>2, ContentKept
<1> DEFINE r == Rec(call)
<1>5. /\ r.open = call.open /\ r.kind = call.kind /\ r.file = call.file
      /\ r.start = call.start /\ r.len = call.len /\ r.id = call.id /\ r.pos = call.pos
  BY DEF Rec
<1>6. r = Reqs["call"] /\ Reqs' = [Reqs EXCEPT !["call"] = [r EXCEPT !.pos = call'.pos]]
  BY <1>1, <1>2, CallMoved
<1>7. Gots' = [Gots EXCEPT !["call"] = out'] /\ Gots["call"] = out
  BY <1>2, Channels
<1> HIDE DEF r
<1>8. Gots' = [Gots EXCEPT !["call"] = @ \o Bytes(r.file, r.start + r.pos, call'.pos - r.pos)]
  BY <1>1, <1>5, <1>7, Zenon
<1>9. r.open /\ r.kind = "read" /\ r.pos \in Nat /\ r.pos > 0 /\ call'.pos \in r.pos..r.len
  BY <1>1, <1>3, <1>5
<1> QED
  BY <1>4, <1>6, <1>8, <1>9, ReadContinues

(* The record of the polled call.                                           *)
LEMMA PollMoved ==
  ASSUME IsCall(context), IsCall(context'), UNCHANGED call, context'.open = context.open,
         context'.kind = context.kind, context'.file = context.file, context'.start = context.start,
         context'.len = context.len, context'.id = context.id
  PROVE  /\ Reqs["poll"] = Rec(context)
         /\ Reqs' = [Reqs EXCEPT !["poll"] = [Rec(context) EXCEPT !.pos = context'.pos]]
<1>1. Rec(context') = [Rec(context) EXCEPT !.pos = context'.pos]
  BY DEF Rec
<1>2. Reqs' = [c \in {"call", "poll"} |-> Rec(IF c = "call" THEN call' ELSE context')]
  BY DEF Reqs, Rec
<1> QED
  BY <1>1, <1>2 DEF Reqs

(* fileWrite, its first sector.                                             *)
LEMMA BeginWriteRefines ==
  ASSUME Inv, NEW f \in File, NEW start \in 0..(FileSize(f) - 1), NEW len \in 0..FileSize(f),
         start + len <= FileSize(f), BeginWrite(f, start, len)
  PROVE  Files!Begin("call")
<1>1. /\ Underway(call') /\ call'.open /\ call'.kind = "write"
      /\ call'.file = f /\ call'.start = start /\ call'.len = len
      /\ out' = <<>>
      /\ Stores(f, start, start + call'.pos, call'.id)
  BY BeginWriteStep
<1>2. UNCHANGED <<files, context, pollOut>> /\ ~call.open
  BY DEF BeginWrite, Ready
<1>3. call'.pos \in 0..len /\ len \in Nat
  BY <1>1 DEF Underway
<1>4. UNCHANGED files
  BY <1>2
<1> DEFINE r == Rec(call')
<1>5. /\ r.open = call'.open /\ r.kind = call'.kind /\ r.file = call'.file
      /\ r.start = call'.start /\ r.len = call'.len /\ r.id = call'.id /\ r.pos = call'.pos
      /\ r = [open |-> r.open, kind |-> r.kind, file |-> r.file, start |-> r.start,
              len |-> r.len, id |-> r.id, pos |-> r.pos]
  BY DEF Rec
<1>6. /\ Reqs' = [Reqs EXCEPT !["call"] = r] /\ Gots' = [Gots EXCEPT !["call"] = out']
      /\ r = Reqs'["call"] /\ ~Reqs["call"].open
  BY <1>2, Channels DEF Rec
<1> HIDE DEF r
<1>7. /\ Gots' = [Gots EXCEPT !["call"] = <<>>]
      /\ Stores(r.file, r.start, r.start + r.pos, r.id)
  BY <1>1, <1>5, <1>6, Zenon
<1>8. Geometry
  BY DEF Inv
<1>9. /\ r.open /\ r.kind = "write" /\ r.file \in File
      /\ r.start \in 0..(FileSize(r.file) - 1) /\ r.len \in Nat /\ r.pos \in 0..r.len
      /\ r.start + r.len <= FileSize(r.file)
  BY <1>1, <1>3, <1>5
<1> QED
  BY <1>4, <1>5, <1>6, <1>7, <1>8, <1>9, WriteBegins

(* fileWrite, what follows.                                                 *)
LEMMA WriteRefines ==
  ASSUME Inv, WriteChunks \/ WriteTail
  PROVE  Files!Continue("call")
<1>1. /\ IsCall(call) /\ IsCall(call') /\ call.open
      /\ call.kind = "write"
      /\ call'.open = call.open /\ call'.kind = call.kind /\ call'.file = call.file
      /\ call'.start = call.start /\ call'.len = call.len /\ call'.id = call.id
      /\ call.pos > 0 /\ call'.pos \in call.pos..call.len
      /\ out = <<>> /\ UNCHANGED out
      /\ Stores(call.file, call.start + call.pos, call.start + call'.pos, call.id)
  <2>1. IsCall(call) /\ call.open /\ call.kind = "write"
    BY DEF Inv, Shapes, WriteChunks, WriteTail
  <2>2. CASE WriteChunks
    <3>1. Inv'
      BY <2>2, WriteChunksStep
    <3> QED
      BY <2>1, <2>2, <3>1, WriteChunksStep DEF IsCall, Inv, Shapes
  <2>3. CASE WriteTail
    <3>1. Inv'
      BY <2>3, WriteTailStep
    <3> QED
      BY <2>1, <2>3, <3>1, WriteTailStep DEF IsCall, Inv, Shapes
  <2> QED
    BY <2>2, <2>3
<1>2. UNCHANGED <<files, context, pollOut>> /\ UNCHANGED files
  BY DEF WriteChunks, WriteTail
<1>3. /\ call.pos \in Nat /\ call.file \in File /\ call.start \in Nat
      /\ call.start + call'.pos <= FileSize(call.file) /\ Geometry
  <2>1. /\ call.pos \in Nat /\ call.file \in File /\ call.start \in 0..(FileSize(call.file) - 1)
        /\ call.len \in Nat /\ call.start + call.len <= FileSize(call.file) /\ Geometry
    BY <1>1 DEF Inv, Calling, Underway
  <2>2. FileSize(call.file) \in Nat
    BY <2>1, FileSizeNat
  <2> QED
    BY <1>1, <2>1, <2>2
<1> DEFINE r == Rec(call)
<1>5. /\ r.open = call.open /\ r.kind = call.kind /\ r.file = call.file
      /\ r.start = call.start /\ r.len = call.len /\ r.id = call.id /\ r.pos = call.pos
  BY DEF Rec
<1>6. r = Reqs["call"] /\ Reqs' = [Reqs EXCEPT !["call"] = [r EXCEPT !.pos = call'.pos]]
  BY <1>1, <1>2, CallMoved
<1>7. /\ Gots' = Gots /\ Gots["call"] = <<>>
      /\ Gots = [d \in {"call", "poll"} |-> Gots[d]]
  BY <1>1, <1>2 DEF Gots
<1> HIDE DEF r
<1>8. Stores(r.file, r.start + r.pos, r.start + call'.pos, r.id)
  BY <1>1, <1>5, Zenon
<1>9. /\ r.open /\ r.kind = "write" /\ r.pos \in Nat /\ call'.pos \in r.pos..r.len
      /\ r.file \in File /\ r.start \in Nat /\ r.start + call'.pos <= FileSize(r.file)
  BY <1>1, <1>3, <1>5
<1> QED
  BY <1>2, <1>3, <1>6, <1>7, <1>8, <1>9, WriteContinues

(* fileRead and fileWrite return.                                           *)
LEMMA ReturnRefines ==
  ASSUME Inv, Return
  PROVE  Files!Return("call")
<1>1. /\ call.open /\ call.pos = call.len
      /\ call' = [call EXCEPT !.open = FALSE] /\ UNCHANGED out /\ IsCall(call)
  BY ReturnStep DEF Inv, Shapes
<1>2. UNCHANGED <<files, disk, context, pollOut>>
  BY DEF Return
<1>3. Rec(call') = [Rec(call) EXCEPT !.open = FALSE]
  <2>1. /\ call'.open = FALSE /\ call'.kind = call.kind /\ call'.file = call.file
        /\ call'.start = call.start /\ call'.len = call.len /\ call'.id = call.id
        /\ call'.pos = call.pos
    BY <1>1 DEF IsCall
  <2>2. Rec(call')
          = [open |-> FALSE, kind |-> call.kind, file |-> call.file, start |-> call.start,
             len |-> call.len, id |-> call.id, pos |-> call.pos]
    BY <2>1, Zenon DEF Rec
  <2>3. \A b : [Rec(call) EXCEPT !.open = b]
                 = [open |-> b, kind |-> call.kind, file |-> call.file, start |-> call.start,
                    len |-> call.len, id |-> call.id, pos |-> call.pos]
    BY DEF Rec
  <2> QED
    BY <2>2, <2>3, Zenon
<1>4. Reqs' = [Reqs EXCEPT !["call"].open = FALSE]
  BY <1>2, <1>3, Channels
<1>5. Gots' = Gots
  BY <1>1, <1>2 DEF Gots
<1>6. Content(disk)' = Content(disk)
  BY <1>2, ContentKept
<1>7. Reqs["call"].open /\ Reqs["call"].pos = Reqs["call"].len
  BY <1>1 DEF Reqs, Rec
<1> QED
  BY <1>4, <1>5, <1>6, <1>7, AbstractReturn

(* resumeFileRead says that it is done.                                     *)
LEMMA DoneRefines ==
  ASSUME Inv, ResumeFileReadDone
  PROVE  Files!Return("poll")
<1>1. /\ context.open /\ context.pos = context.len
      /\ context' = [context EXCEPT !.open = FALSE] /\ UNCHANGED pollOut /\ IsCall(context)
  BY ResumeFileReadDoneStep DEF Inv, Shapes
<1>2. UNCHANGED <<files, disk, call, out>>
  BY DEF ResumeFileReadDone
<1>3. Rec(context') = [Rec(context) EXCEPT !.open = FALSE]
  <2>1. /\ context'.open = FALSE /\ context'.kind = context.kind /\ context'.file = context.file
        /\ context'.start = context.start /\ context'.len = context.len /\ context'.id = context.id
        /\ context'.pos = context.pos
    BY <1>1 DEF IsCall
  <2>2. Rec(context')
          = [open |-> FALSE, kind |-> context.kind, file |-> context.file, start |-> context.start,
             len |-> context.len, id |-> context.id, pos |-> context.pos]
    BY <2>1, Zenon DEF Rec
  <2>3. \A b : [Rec(context) EXCEPT !.open = b]
                 = [open |-> b, kind |-> context.kind, file |-> context.file, start |-> context.start,
                    len |-> context.len, id |-> context.id, pos |-> context.pos]
    BY DEF Rec
  <2> QED
    BY <2>2, <2>3, Zenon
<1>4. Reqs' = [Reqs EXCEPT !["poll"].open = FALSE]
  BY <1>2, <1>3, Channels
<1>5. Gots' = Gots
  BY <1>1, <1>2 DEF Gots
<1>6. Content(disk)' = Content(disk)
  BY <1>2, ContentKept
<1>7. Reqs["poll"].open /\ Reqs["poll"].pos = Reqs["poll"].len
  BY <1>1 DEF Reqs, Rec
<1> QED
  BY <1>4, <1>5, <1>6, <1>7, AbstractReturn

(* fileReadNonBLocking.                                                     *)
LEMMA FileReadNonBlockingRefines ==
  ASSUME Inv, NEW start \in 0..(FileSize("rom") - 1), NEW len \in 0..FileSize("rom"),
         start + len <= FileSize("rom"), start % BytesPerSector = 0,
         len % BytesPerSector = 0, len > 0,
         FileReadNonBlocking(start, len \div BytesPerSector)
  PROVE  Files!Begin("poll")
<1>1. /\ Underway(context') /\ context'.open /\ context'.kind = "read"
      /\ context'.file = "rom" /\ context'.start = start /\ context'.len = len
      /\ pollOut' = Bytes("rom", start, context'.pos)
  BY FileReadNonBlockingStep
<1>2. UNCHANGED <<files, disk, call, out>> /\ ~context.open
  BY DEF FileReadNonBlocking
<1>3. context'.pos \in 0..len /\ len \in Nat
  BY <1>1 DEF Underway
<1>4. Content(disk)' = Content(disk)
  BY <1>2, ContentKept
<1> DEFINE r == Rec(context')
<1>5. /\ r.open = context'.open /\ r.kind = context'.kind /\ r.file = context'.file
      /\ r.start = context'.start /\ r.len = context'.len /\ r.id = context'.id /\ r.pos = context'.pos
      /\ r = [open |-> r.open, kind |-> r.kind, file |-> r.file, start |-> r.start,
              len |-> r.len, id |-> r.id, pos |-> r.pos]
  BY DEF Rec
<1>6. /\ Reqs' = [Reqs EXCEPT !["poll"] = r] /\ Gots' = [Gots EXCEPT !["poll"] = pollOut']
      /\ r = Reqs'["poll"] /\ ~Reqs["poll"].open
  BY <1>2, Channels DEF Rec
<1> HIDE DEF r
<1>7. Gots' = [Gots EXCEPT !["poll"] = Bytes(r.file, r.start, r.pos)]
  BY <1>1, <1>5, <1>6, Zenon
<1>8. Geometry
  BY DEF Inv
<1>9. /\ r.open /\ r.kind = "read" /\ r.file \in File
      /\ r.start \in 0..(FileSize(r.file) - 1) /\ r.len \in Nat /\ r.pos \in 0..r.len
      /\ r.start + r.len <= FileSize(r.file)
  BY <1>1, <1>3, <1>5 DEF File
<1> QED
  BY <1>4, <1>5, <1>6, <1>7, <1>8, <1>9, ReadBegins

(* resumeFileRead.                                                          *)
LEMMA ResumeRefines ==
  ASSUME Inv, ResumeFileRead
  PROVE  Files!Continue("poll")
<1>1. /\ IsCall(context) /\ IsCall(context') /\ context.open
      /\ context.kind = "read"
      /\ context'.open = context.open /\ context'.kind = context.kind
      /\ context'.file = context.file /\ context'.start = context.start
      /\ context'.len = context.len /\ context'.id = context.id
      /\ context.pos > 0 /\ context'.pos \in context.pos..context.len
      /\ pollOut' = pollOut \o Bytes(context.file, context.start + context.pos,
                                     context'.pos - context.pos)
  <2>1. IsCall(context) /\ context.open /\ context.kind = "read"
    BY DEF Inv, Shapes, Polled, ResumeFileRead
  <2>2. Inv'
    BY ResumeFileReadStep
  <2> QED
    BY <2>1, <2>2, ResumeFileReadStep DEF IsCall, Inv, Shapes
<1>2. UNCHANGED <<files, disk, call, out>>
  BY DEF ResumeFileRead
<1>3. context.pos \in Nat
  BY <1>1 DEF Inv, Polled, Underway
<1>4. Content(disk)' = Content(disk)
  BY <1>2, ContentKept
<1> DEFINE r == Rec(context)
<1>5. /\ r.open = context.open /\ r.kind = context.kind /\ r.file = context.file
      /\ r.start = context.start /\ r.len = context.len /\ r.id = context.id /\ r.pos = context.pos
  BY DEF Rec
<1>6. r = Reqs["poll"] /\ Reqs' = [Reqs EXCEPT !["poll"] = [r EXCEPT !.pos = context'.pos]]
  BY <1>1, <1>2, PollMoved
<1>7. Gots' = [Gots EXCEPT !["poll"] = pollOut'] /\ Gots["poll"] = pollOut
  BY <1>2, Channels
<1> HIDE DEF r
<1>8. Gots' = [Gots EXCEPT !["poll"] = @ \o Bytes(r.file, r.start + r.pos, context'.pos - r.pos)]
  BY <1>1, <1>5, <1>7, Zenon
<1>9. r.open /\ r.kind = "read" /\ r.pos \in Nat /\ r.pos > 0 /\ context'.pos \in r.pos..r.len
  BY <1>1, <1>3, <1>5
<1> QED
  BY <1>4, <1>6, <1>8, <1>9, ReadContinues

(* Every step is a step of the abstract files, or none.                     *)
LEMMA NextRefines == Inv /\ [Next]_vars => [Files!Next]_(Files!vars)
<1> SUFFICES ASSUME Inv, [Next]_vars PROVE Files!Next \/ UNCHANGED Files!vars
  OBVIOUS
<1>1. Geometry
  BY DEF Inv
<1>2. \A c \in {"call", "poll"} : Files!Begin(c) \/ Files!Continue(c) \/ Files!Return(c) => Files!Next
  BY Zenon DEF Files!Next
<1>3. CASE Boot
  BY <1>3, BootRefines
<1>4. ASSUME NEW f \in File, NEW r \in InFile(f), BeginRead(f, r[1], r[2])
      PROVE  Files!Next
  <2>1. Files!Begin("call")
    BY <1>1, <1>4, Asked, BeginReadRefines
  <2> QED
    BY <1>2, <2>1
<1>5. ASSUME NEW r \in InFile("sav"), BeginWrite("sav", r[1], r[2])
      PROVE  Files!Next
  <2>1. Files!Begin("call")
    BY <1>1, <1>5, Asked, BeginWriteRefines DEF File
  <2> QED
    BY <1>2, <2>1
<1>6. ASSUME NEW r \in InFile("rom"), r[1] % BytesPerSector = 0, r[2] % BytesPerSector = 0,
             r[2] > 0, FileReadNonBlocking(r[1], r[2] \div BytesPerSector)
      PROVE  Files!Next
  <2>1. Files!Begin("poll")
    BY <1>1, <1>6, Asked, FileReadNonBlockingRefines DEF File
  <2> QED
    BY <1>2, <2>1
<1>7. CASE Ask
  BY <1>4, <1>5, <1>6, <1>7 DEF Ask, File
<1>8. CASE Serve
  BY <1>2, <1>8, ReadRefines, WriteRefines, ReturnRefines DEF Serve
<1>9. CASE Poll
  BY <1>2, <1>9, ResumeRefines, DoneRefines DEF Poll
<1>10. CASE UNCHANGED vars
  BY <1>10, StutterRefines
<1> QED
  BY <1>3, <1>7, <1>8, <1>9, <1>10 DEF Next

(* Whatever table finds its clusters, and whatever comes between two polls,    *)
(* the driver's files are arrays of bytes.                                  *)
THEOREM DriverImplementsByteFile == Spec => ImplementsByteFile
<1>1. Init => Files!Init
  BY InitRefines
<1>2. Inv /\ [Next]_vars => [Files!Next]_(Files!vars)
  BY NextRefines
<1>3. Spec => Files!Init /\ [][Files!Next]_(Files!vars)
  BY <1>1, <1>2, DriverInvariant, PTL DEF Spec
<1> QED
  BY <1>3 DEF ImplementsByteFile, Files!Spec

-----------------------------------------------------------------------------
(* That a call ends.  EveryCallReturns is about time and stays with TLC; what   *)
(* makes it true is that each turn moves a byte at least, towards the end of    *)
(* the range and not past it.                                                *)

(* fileRead, fileWrite and resumeFileRead have a step to take until they end:   *)
(* no count of sectors stops short of the end or runs past it.               *)
GoesOn ==
  /\ call.open =>
       \/ call.chunks > 0
       \/ call.chunks <= 0 /\ (call.pos < call.len \/ call.pos = call.len)
  /\ context.open => context.chunks > 0 \/ context.chunks = 0

(* Each turn gets on, and touches no other call than its own.                 *)
GetsOn ==
  /\ Serve => /\ UNCHANGED context
              /\ ~call'.open \/ (call.pos < call'.pos /\ call'.pos \in 0..call.len)
  /\ Poll => /\ UNCHANGED call
             /\ ~context'.open
                \/ (context.pos < context'.pos /\ context'.pos \in 0..context.len)

LEMMA InvGoesOn == Inv => GoesOn
<1> SUFFICES ASSUME Inv PROVE GoesOn
  OBVIOUS
<1>1. call.open => call.pos \in 0..call.len /\ call.len \in Nat /\ call.chunks \in Nat
  BY DEF Inv, Calling, Underway
<1>2. context.open => context.chunks \in Nat
  BY DEF Inv, Polled, Underway
<1> QED
  BY <1>1, <1>2 DEF GoesOn

LEMMA NextGetsOn == Inv /\ [Next]_vars => [GetsOn]_vars
<1> SUFFICES ASSUME Inv, Next PROVE GetsOn
  OBVIOUS
<1>1. \A b, c : b \in c..call.len /\ c \in Nat => b \in 0..call.len
  OBVIOUS
<1>2. \A b, c : b \in c..context.len /\ c \in Nat => b \in 0..context.len
  OBVIOUS
<1>3. ASSUME Serve
      PROVE  /\ UNCHANGED context
             /\ ~call'.open \/ (call.pos < call'.pos /\ call'.pos \in 0..call.len)
  <2>1. UNCHANGED context
    BY <1>3 DEF Serve, ReadChunks, ReadTail, WriteChunks, WriteTail, Return
  <2>2. CASE Return
    <3>1. call' = [call EXCEPT !.open = FALSE] /\ IsCall(call)
      BY <2>2 DEF Return, Inv, Shapes
    <3>2. ~call'.open
      BY <3>1 DEF IsCall
    <3> QED
      BY <2>1, <3>2
  <2>3. CASE ReadChunks \/ ReadTail \/ WriteChunks \/ WriteTail
    <3>1. call.pos < call'.pos /\ call'.pos \in call.pos..call.len
      BY <2>3, ReadChunksStep, ReadTailStep, WriteChunksStep, WriteTailStep
    <3>2. call.open
      BY <2>3 DEF ReadChunks, ReadTail, WriteChunks, WriteTail
    <3>3. call.pos \in Nat
      BY <3>2 DEF Inv, Calling, Underway
    <3> QED
      BY <1>1, <2>1, <3>1, <3>3, Zenon
  <2> QED
    BY <1>3, <2>2, <2>3 DEF Serve
<1>4. ASSUME Poll
      PROVE  /\ UNCHANGED call
             /\ ~context'.open
                \/ (context.pos < context'.pos /\ context'.pos \in 0..context.len)
  <2>1. UNCHANGED call
    BY <1>4 DEF Poll, ResumeFileRead, ResumeFileReadDone
  <2>2. CASE ResumeFileReadDone
    <3>1. context' = [context EXCEPT !.open = FALSE] /\ IsCall(context)
      BY <2>2 DEF ResumeFileReadDone, Inv, Shapes
    <3>2. ~context'.open
      BY <3>1 DEF IsCall
    <3> QED
      BY <2>1, <3>2
  <2>3. CASE ResumeFileRead
    <3>1. /\ context.open /\ context.pos < context'.pos
          /\ context'.pos \in context.pos..context.len
      BY <2>3, ResumeFileReadStep
    <3>2. context.pos \in Nat
      BY <3>1 DEF Inv, Polled, Underway
    <3> QED
      BY <1>2, <2>1, <3>1, <3>2, Zenon
  <2> QED
    BY <1>4, <2>2, <2>3 DEF Poll
<1> QED
  BY <1>3, <1>4 DEF GetsOn

(* A read, write or polled read of n bytes ends after at most n turns, over     *)
(* any table and any fragmentation: neither the grouping of clusters nor the   *)
(* step to the next cluster can leave a turn of fileRead, fileWrite or         *)
(* resumeFileRead with nothing to move, nor can the turns of one call be        *)
(* undone by another call that comes between two of its polls.                *)
THEOREM DriverCallsGetOn == Spec => []GoesOn /\ [][GetsOn]_vars
<1>1. Inv => GoesOn
  BY InvGoesOn
<1>2. Inv /\ [Next]_vars => [GetsOn]_vars
  BY NextGetsOn
<1> QED
  BY <1>1, <1>2, DriverInvariant, PTL DEF Spec
=============================================================================
