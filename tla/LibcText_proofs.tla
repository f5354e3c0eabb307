--------------------------- MODULE LibcText_proofs ---------------------------
(***************************************************************************)
(* Proofs about LibcString and LibcStdio: what the memory and string         *)
(* functions do, for every size and content of memory, every size of a word  *)
(* and all strings; and what the buffer of vsnprintf holds, for every format *)
(* and every size.                                                          *)
(*                                                                          *)
(* The loops of the copies are functions of the number of turns.  Moved      *)
(* says in closed form what each turn leaves, so it is the value of the loop *)
(* (UpwardMoves, DownwardMoves, MemcpyMoves): this is where a copy that      *)
(* overwrote what it has still to read would fail.  Comparisons and searches *)
(* are reduced to the first place where two texts differ.                    *)
(***************************************************************************)
EXTENDS LibcString, LibcStdio, SequenceTheorems, FiniteSetTheorems, WellFoundedInduction, TLAPS

(* A set of naturals that is not empty has a least one.                     *)
LEMMA LeastNatural ==
  ASSUME NEW T \in SUBSET Nat, T # {}
  PROVE  \E x \in T : \A y \in T : x <= y
<1>1. PICK x \in T : \A y \in T : ~(<<y, x>> \in OpToRel(<, Nat))
  BY NatLessThanWellFounded, WFMin
<1>2. ASSUME NEW y \in T PROVE ~(y < x)
  BY <1>1, <1>2 DEF OpToRel
<1>3. ASSUME NEW y \in T PROVE x <= y
  BY <1>2
<1> QED
  BY <1>1, <1>3

(* Smallest is what it says.                                                *)
LEMMA SmallestIs ==
  ASSUME NEW T \in SUBSET Nat, T # {}
  PROVE  Smallest(T) \in T /\ \A y \in T : Smallest(T) <= y
BY LeastNatural DEF Smallest

(* What holds of 0 and of a number after one of which it holds, holds of    *)
(* every number up to n.                                                    *)
LEMMA UpTo ==
  ASSUME NEW n \in Nat, NEW T, 0 \in T, \A k \in 1 .. n : k - 1 \in T => k \in T
  PROVE  \A k \in 0 .. n : k \in T
<1> DEFINE bad == {k \in 0 .. n : k \notin T}
<1>1. SUFFICES ASSUME bad # {} PROVE FALSE
  OBVIOUS
<1>2. bad \in SUBSET Nat
  OBVIOUS
<1>3. PICK k \in bad : \A j \in bad : k <= j
  BY <1>1, <1>2, LeastNatural
<1>4. k \in 1 .. n
  BY <1>3
<1>5. k - 1 \in 0 .. n /\ ~(k <= k - 1)
  BY <1>4
<1>6. k - 1 \in T
  BY <1>3, <1>5
<1> QED
  BY <1>3, <1>4, <1>6

-----------------------------------------------------------------------------
(* Memory of some length.                                                   *)
Memories(M) == [0 .. M - 1 -> Nat]

(* k bytes at s have been put at d.                                         *)
Moved(m, d, s, k) ==
  [a \in DOMAIN m |-> IF a \in d .. d + k - 1 THEN m[s + (a - d)] ELSE m[a]]

(* Ranges of k bytes at d and s lie within m.                               *)
Within(M, m, d, s, k) ==
  /\ M \in Nat /\ m \in Memories(M) /\ d \in Nat /\ s \in Nat /\ k \in Nat
  /\ d + k <= M /\ s + k <= M

(* Memory with bytes moved is memory.                                       *)
LEMMA MovedIn ==
  ASSUME NEW M, NEW m, NEW d, NEW s, NEW k, Within(M, m, d, s, k)
  PROVE  Moved(m, d, s, k) \in Memories(M)
BY DEF Within, Memories, Moved

(* Bytes moved after others are moved as if at once, if the first ones have *)
(* not changed what is read.                                                *)
LEMMA MovedAfter ==
  ASSUME NEW M, NEW m, NEW d, NEW s, NEW x \in Nat, NEW y \in Nat,
         Within(M, m, d, s, x + y), d <= s \/ s + x + y <= d
  PROVE  Moved(Moved(m, d, s, x), d + x, s + x, y) = Moved(m, d, s, x + y)
<1> DEFINE w == Moved(m, d, s, x)
<1>1. M \in Nat /\ DOMAIN m = 0 .. M - 1 /\ d \in Nat /\ s \in Nat /\ d + (x + y) <= M /\ s + (x + y) <= M
  BY DEF Within, Memories
<1>2. DOMAIN w = 0 .. M - 1
  BY <1>1 DEF Moved
<1>3. ASSUME NEW a \in 0 .. M - 1
      PROVE  (IF a \in d + x .. d + x + y - 1 THEN w[s + x + (a - (d + x))] ELSE w[a])
               = (IF a \in d .. d + (x + y) - 1 THEN m[s + (a - d)] ELSE m[a])
  <2>1. \A c \in 0 .. M - 1 : w[c] = IF c \in d .. d + x - 1 THEN m[s + (c - d)] ELSE m[c]
    BY <1>1 DEF Moved
  <2> HIDE DEF w
  <2>2. CASE a \in d + x .. d + x + y - 1
    <3>1. PICK c \in 0 .. M - 1 : c = s + (a - d)
      BY <1>1, <2>2
    <3>2. c = s + x + (a - (d + x))
      BY <1>1, <3>1
    <3>3. ~(c \in d .. d + x - 1)
      BY <1>1, <2>2, <3>1
    <3>4. w[c] = m[c]
      BY <2>1, <3>3
    <3> QED
      BY <1>1, <2>2, <3>1, <3>2, <3>4
  <2>3. CASE ~(a \in d + x .. d + x + y - 1)
    <3>1. a \in d .. d + (x + y) - 1 <=> a \in d .. d + x - 1
      BY <1>1, <2>3
    <3> QED
      BY <2>1, <2>3, <3>1
  <2> QED
    BY <2>2, <2>3
<1> HIDE DEF w
<1>4. Moved(w, d + x, s + x, y)
        = [a \in 0 .. M - 1 |-> IF a \in d + x .. d + x + y - 1 THEN w[s + x + (a - (d + x))] ELSE w[a]]
  BY <1>2 DEF Moved
<1>5. Moved(m, d, s, x + y)
        = [a \in 0 .. M - 1 |-> IF a \in d .. d + (x + y) - 1 THEN m[s + (a - d)] ELSE m[a]]
  BY <1>1 DEF Moved
<1>6. Moved(w, d + x, s + x, y) = Moved(m, d, s, x + y)
  BY <1>3, <1>4, <1>5
<1> QED
  BY <1>6 DEF w

(* One byte. *)
LEMMA MovedOne ==
  ASSUME NEW M, NEW m, NEW d, NEW s, Within(M, m, d, s, 1)
  PROVE  [m EXCEPT ![d] = m[s]] = Moved(m, d, s, 1)
<1>1. M \in Nat /\ DOMAIN m = 0 .. M - 1 /\ d \in 0 .. M - 1 /\ s \in Nat /\ m \in Memories(M)
  BY DEF Within, Memories
<1>2. ASSUME NEW a \in 0 .. M - 1
      PROVE  [m EXCEPT ![d] = m[s]][a] = IF a \in d .. d + 1 - 1 THEN m[s + (a - d)] ELSE m[a]
  BY <1>1 DEF Memories
<1>3. [m EXCEPT ![d] = m[s]] = [a \in 0 .. M - 1 |-> [m EXCEPT ![d] = m[s]][a]]
  BY <1>1 DEF Memories
<1> QED
  BY <1>1, <1>2, <1>3 DEF Moved

(* Nothing moved.                                                           *)
LEMMA MovedNone ==
  ASSUME NEW M, NEW m, NEW d, NEW s, Within(M, m, d, s, 0)
  PROVE  Moved(m, d, s, 0) = m
BY DEF Within, Memories, Moved

UpwardIs(m, d, s, k, f) ==
  f = [i \in 0 .. k |-> IF i = 0 THEN m ELSE [f[i - 1] EXCEPT ![d + i - 1] = f[i - 1][s + i - 1]]]

(* A turn of the loop moves one byte more.                                  *)
LEMMA UpwardTurn ==
  ASSUME NEW M, NEW m, NEW d, NEW s, NEW k, Within(M, m, d, s, k),
         d <= s \/ s + k <= d, NEW i \in 1 .. k
  PROVE  [Moved(m, d, s, i - 1) EXCEPT ![d + i - 1] = Moved(m, d, s, i - 1)[s + i - 1]] = Moved(m, d, s, i)
<1>1. M \in Nat /\ m \in Memories(M) /\ d \in Nat /\ s \in Nat /\ k \in Nat /\ d + k <= M /\ s + k <= M
  BY DEF Within
<1>2. PICK x \in Nat : x = i - 1
  BY <1>1
<1>3. i = x + 1 /\ x + 1 <= k /\ d + i - 1 = d + x /\ s + i - 1 = s + x
  BY <1>1, <1>2
<1>4. Within(M, m, d, s, x) /\ Within(M, m, d, s, x + 1)
  BY <1>1, <1>3 DEF Within
<1>5. PICK w : w = Moved(m, d, s, x)
  OBVIOUS
<1>6. w \in Memories(M)
  BY <1>4, <1>5, MovedIn
<1>7. Within(M, w, d + x, s + x, 1)
  BY <1>1, <1>3, <1>6 DEF Within
<1>8. [w EXCEPT ![d + x] = w[s + x]] = Moved(w, d + x, s + x, 1)
  BY <1>7, MovedOne
<1>9. Moved(w, d + x, s + x, 1) = Moved(m, d, s, x + 1)
  <2>1. d <= s \/ s + x + 1 <= d
    BY <1>1, <1>3
  <2> QED
    BY <1>4, <1>5, <2>1, MovedAfter
<1> QED
  BY <1>2, <1>3, <1>5, <1>8, <1>9

(* Bytes copied from the first one on are moved, unless they are written     *)
(* before they are read.                                                    *)
LEMMA UpwardMoves ==
  ASSUME NEW M, NEW m, NEW d, NEW s, NEW k, Within(M, m, d, s, k), d <= s \/ s + k <= d
  PROVE  Upward(m, d, s, k) = Moved(m, d, s, k)
<1>1. k \in Nat /\ m = Moved(m, d, s, 0)
  <2>1. k \in Nat /\ Within(M, m, d, s, 0)
    BY DEF Within
  <2> QED
    BY <2>1, MovedNone
<1> DEFINE Turn(x, i) == [x EXCEPT ![d + i - 1] = x[s + i - 1]]
<1>2. \A i \in 1 .. k : Turn(Moved(m, d, s, i - 1), i) = Moved(m, d, s, i)
  BY UpwardTurn
<1> DEFINE g == [i \in 0 .. k |-> Moved(m, d, s, i)]
<1>3. UpwardIs(m, d, s, k, g)
  <2>1. ASSUME NEW i \in 0 .. k
        PROVE  Moved(m, d, s, i) = IF i = 0 THEN m ELSE Turn(g[i - 1], i)
    <3>1. CASE i = 0
      BY <1>1, <3>1
    <3>2. CASE i # 0
      <4>1. i \in 1 .. k /\ i - 1 \in 0 .. k
        BY <1>1, <3>2
      <4>2. g[i - 1] = Moved(m, d, s, i - 1)
        BY <4>1
      <4> HIDE DEF g, Turn
      <4> QED
        BY <1>2, <3>2, <4>1, <4>2
    <3> QED
      BY <3>1, <3>2
  <2>2. g = [i \in 0 .. k |-> IF i = 0 THEN m ELSE Turn(g[i - 1], i)]
    BY <2>1
  <2> QED
    BY <2>2 DEF UpwardIs
<1> DEFINE f == CHOOSE h : UpwardIs(m, d, s, k, h)
<1>4. UpwardIs(m, d, s, k, f)
  BY <1>3
<1>5. Upward(m, d, s, k) = f[k]
  BY DEF Upward, UpwardIs
<1> HIDE DEF f
<1>6. f[0] = m /\ \A i \in 1 .. k : f[i] = Turn(f[i - 1], i)
  <2>1. f = [i \in 0 .. k |-> IF i = 0 THEN m ELSE Turn(f[i - 1], i)]
    BY <1>4 DEF UpwardIs
  <2>2. 0 \in 0 .. k /\ \A i \in 1 .. k : i \in 0 .. k /\ i # 0
    BY <1>1
  <2> HIDE DEF Turn
  <2> QED
    BY <2>1, <2>2
<1> DEFINE T == {i \in 0 .. k : f[i] = Moved(m, d, s, i)}
<1> HIDE DEF Turn
<1>7. 0 \in T
  BY <1>1, <1>6
<1>8. \A i \in 1 .. k : i - 1 \in T => i \in T
  BY <1>2, <1>6
<1>9. \A i \in 0 .. k : i \in T
  <2> HIDE DEF T
  <2> QED
    BY <1>1, <1>7, <1>8, UpTo
<1> QED
  BY <1>1, <1>5, <1>9

DownwardIs(m, d, s, k, f) ==
  f = [i \in 0 .. k |-> IF i = 0 THEN m ELSE [f[i - 1] EXCEPT ![d + k - i] = f[i - 1][s + k - i]]]

(* A turn of the loop moves the byte before those already moved.            *)
LEMMA DownwardTurn ==
  ASSUME NEW M, NEW m, NEW d, NEW s, NEW k, Within(M, m, d, s, k), s < d, NEW i \in 1 .. k,
         NEW w, w = Moved(m, d + k - (i - 1), s + k - (i - 1), i - 1)
  PROVE  [w EXCEPT ![d + k - i] = w[s + k - i]] = Moved(m, d + k - i, s + k - i, i)
<1>1. M \in Nat /\ m \in Memories(M) /\ d \in Nat /\ s \in Nat /\ k \in Nat /\ d + k <= M /\ s + k <= M
  BY DEF Within
<1>2. PICK x \in Nat, to \in Nat, from \in Nat : x = i - 1 /\ to = d + k - i /\ from = s + k - i
  BY <1>1
<1>3. /\ i = x + 1 /\ d + k - (i - 1) = to + 1 /\ s + k - (i - 1) = from + 1
      /\ from < to /\ to + x + 1 <= M /\ from + x + 1 <= M
  BY <1>1, <1>2
<1>4. w = Moved(m, to + 1, from + 1, x)
  BY <1>2, <1>3
<1>5. Within(M, m, to + 1, from + 1, x)
  BY <1>1, <1>3 DEF Within
<1>6. w \in Memories(M)
  BY <1>4, <1>5, MovedIn
<1>7. \A a \in 0 .. M - 1 : w[a] = IF a \in to + 1 .. to + 1 + x - 1 THEN m[from + 1 + (a - (to + 1))] ELSE m[a]
  BY <1>1, <1>4 DEF Moved, Memories
<1>8. w[from] = m[from]
  <2>1. from \in 0 .. M - 1 /\ ~(from \in to + 1 .. to + 1 + x - 1)
    BY <1>1, <1>3
  <2> QED
    BY <1>7, <2>1
<1>9. ASSUME NEW a \in 0 .. M - 1
      PROVE  (IF a = to THEN w[from] ELSE w[a]) = IF a \in to .. to + i - 1 THEN m[from + (a - to)] ELSE m[a]
  <2>1. CASE a = to
    BY <1>3, <1>8, <2>1
  <2>2. CASE a # to
    <3>1. a \in to .. to + i - 1 <=> a \in to + 1 .. to + 1 + x - 1
      BY <1>3, <2>2
    <3>2. from + 1 + (a - (to + 1)) = from + (a - to)
      OBVIOUS
    <3> QED
      BY <1>7, <2>2, <3>1, <3>2
  <2> QED
    BY <2>1, <2>2
<1>10. [w EXCEPT ![to] = w[from]] = [a \in 0 .. M - 1 |-> IF a = to THEN w[from] ELSE w[a]]
  <2>1. to \in 0 .. M - 1 /\ DOMAIN w = 0 .. M - 1 /\ w = [a \in 0 .. M - 1 |-> w[a]]
    BY <1>1, <1>2, <1>3, <1>6 DEF Memories
  <2> QED
    BY <2>1
<1>11. Moved(m, to, from, i) = [a \in 0 .. M - 1 |-> IF a \in to .. to + i - 1 THEN m[from + (a - to)] ELSE m[a]]
  BY <1>1 DEF Moved, Memories
<1> QED
  BY <1>2, <1>9, <1>10, <1>11

(* Bytes copied from the last one on are moved, if they go up.              *)
LEMMA DownwardMoves ==
  ASSUME NEW M, NEW m, NEW d, NEW s, NEW k, Within(M, m, d, s, k), s < d
  PROVE  Downward(m, d, s, k) = Moved(m, d, s, k)
<1>1. d \in Nat /\ s \in Nat /\ k \in Nat /\ m \in Memories(M) /\ M \in Nat
  BY DEF Within
<1> DEFINE Turn(x, i) == [x EXCEPT ![d + k - i] = x[s + k - i]]
           Last(i) == Moved(m, d + k - i, s + k - i, i)
<1>2. \A i \in 1 .. k : Turn(Last(i - 1), i) = Last(i)
  BY DownwardTurn
<1>3. Last(0) = m /\ Last(k) = Moved(m, d, s, k)
  <2>1. Within(M, m, d + k - 0, s + k - 0, 0)
    BY DEF Within
  <2>2. d + k - k = d /\ s + k - k = s
    BY <1>1
  <2> QED
    BY <2>1, <2>2, MovedNone
<1> HIDE DEF Last
<1> DEFINE g == [i \in 0 .. k |-> Last(i)]
<1>4. DownwardIs(m, d, s, k, g)
  <2>1. ASSUME NEW i \in 0 .. k
        PROVE  Last(i) = IF i = 0 THEN m ELSE Turn(g[i - 1], i)
    <3>1. CASE i = 0
      BY <1>3, <3>1
    <3>2. CASE i # 0
      <4>1. i \in 1 .. k /\ i - 1 \in 0 .. k
        BY <1>1, <3>2
      <4>2. g[i - 1] = Last(i - 1)
        BY <4>1
      <4> HIDE DEF g, Turn
      <4> QED
        BY <1>2, <3>2, <4>1, <4>2
    <3> QED
      BY <3>1, <3>2
  <2>2. g = [i \in 0 .. k |-> IF i = 0 THEN m ELSE Turn(g[i - 1], i)]
    BY <2>1
  <2> QED
    BY <2>2 DEF DownwardIs
<1> DEFINE f == CHOOSE h : DownwardIs(m, d, s, k, h)
<1>5. DownwardIs(m, d, s, k, f)
  BY <1>4
<1>6. Downward(m, d, s, k) = f[k]
  BY DEF Downward, DownwardIs
<1> HIDE DEF f
<1>7. f[0] = m /\ \A i \in 1 .. k : f[i] = Turn(f[i - 1], i)
  <2>1. f = [i \in 0 .. k |-> IF i = 0 THEN m ELSE Turn(f[i - 1], i)]
    BY <1>5 DEF DownwardIs
  <2>2. 0 \in 0 .. k /\ \A i \in 1 .. k : i \in 0 .. k /\ i # 0
    BY <1>1
  <2> HIDE DEF Turn
  <2> QED
    BY <2>1, <2>2
<1> DEFINE T == {i \in 0 .. k : f[i] = Last(i)}
<1> HIDE DEF Turn
<1>8. 0 \in T
  BY <1>1, <1>3, <1>7
<1>9. \A i \in 1 .. k : i - 1 \in T => i \in T
  BY <1>2, <1>7
<1>10. \A i \in 0 .. k : i \in T
  <2> HIDE DEF T
  <2> QED
    BY <1>1, <1>8, <1>9, UpTo
<1> QED
  BY <1>1, <1>3, <1>6, <1>10

(* The sizes are not 0.                                                     *)
LEMMA Sizes == MemSize \in Nat \ {0} /\ TextSize \in Nat \ {0} /\ WordBytes \in Nat \ {0}
BY StringAssumption

(* A word is moved at once. *)
LEMMA WordMoves ==
  ASSUME NEW M, NEW m, NEW d, NEW s, Within(M, m, d, s, WordBytes)
  PROVE  CopyWord(m, d, s) = Moved(m, d, s, WordBytes)
<1>1. M \in Nat /\ DOMAIN m = 0 .. M - 1 /\ d \in Nat /\ s \in Nat
  BY DEF Within, Memories
<1>2. \A a \in 0 .. M - 1 : s + a - d = s + (a - d)
  BY <1>1
<1> QED
  BY <1>1, <1>2 DEF CopyWord, Moved

(* The words fit into what is left. *)
LEMMA WordsFit ==
  ASSUME NEW d, NEW s, NEW n \in Nat
  PROVE  Words(d, s, n) \in Nat /\ Words(d, s, n) * WordBytes <= n
<1>1. n \div WordBytes \in Nat /\ n % WordBytes \in Nat /\ n = WordBytes * (n \div WordBytes) + (n % WordBytes)
  BY Sizes
<1>2. (n \div WordBytes) * WordBytes <= n /\ 0 * WordBytes = 0
  BY Sizes, <1>1
<1> QED
  BY <1>1, <1>2 DEF Words

BodyIs(m, d, s, ahead, words, f) ==
  f = [i \in 0 .. words |->
         IF i = 0 THEN Upward(m, d, s, ahead)
         ELSE CopyWord(f[i - 1], d + ahead + (i - 1) * WordBytes, s + ahead + (i - 1) * WordBytes)]

(* A turn of the middle loop moves one word more.                           *)
LEMMA BodyTurn ==
  ASSUME NEW M, NEW m, NEW d, NEW s, NEW n, Within(M, m, d, s, n), Disjoint(d, n, s, n),
         NEW ahead \in 0 .. n, NEW words \in Nat, ahead + words * WordBytes <= n, NEW i \in 1 .. words
  PROVE  CopyWord(Moved(m, d, s, ahead + (i - 1) * WordBytes),
                  d + ahead + (i - 1) * WordBytes, s + ahead + (i - 1) * WordBytes)
           = Moved(m, d, s, ahead + i * WordBytes)
<1>1. M \in Nat /\ m \in Memories(M) /\ d \in Nat /\ s \in Nat /\ n \in Nat /\ d + n <= M /\ s + n <= M
  BY DEF Within
<1>2. PICK y \in Nat : y = (i - 1) * WordBytes
  BY Sizes
<1>3. i * WordBytes = y + WordBytes /\ y + WordBytes <= words * WordBytes
  <2>1. i * WordBytes = (i - 1) * WordBytes + WordBytes
    BY Sizes
  <2>2. i * WordBytes <= words * WordBytes
    BY Sizes
  <2> QED
    BY <1>2, <2>1, <2>2
<1>4. PICK x \in Nat : x = ahead + y
  BY <1>1
<1>5. words * WordBytes \in Nat
  BY Sizes
<1>6. x + WordBytes <= n
  BY <1>1, <1>3, <1>4, <1>5, Sizes
<1>7. /\ d + ahead + y = d + x /\ s + ahead + y = s + x
      /\ ahead + i * WordBytes = x + WordBytes
  BY <1>1, <1>3, <1>4, Sizes
<1>8. PICK w : w = Moved(m, d, s, x)
  OBVIOUS
<1>9. Within(M, m, d, s, x) /\ Within(M, m, d, s, x + WordBytes)
  BY <1>1, <1>6, Sizes DEF Within
<1>10. w \in Memories(M)
  BY <1>8, <1>9, MovedIn
<1>11. Within(M, w, d + x, s + x, WordBytes)
  BY <1>1, <1>6, <1>10, Sizes DEF Within
<1>12. CopyWord(w, d + x, s + x) = Moved(w, d + x, s + x, WordBytes)
  BY <1>11, WordMoves
<1>13. d <= s \/ s + x + WordBytes <= d
  BY <1>1, <1>6, Sizes DEF Disjoint
<1>14. Moved(w, d + x, s + x, WordBytes) = Moved(m, d, s, x + WordBytes)
  <2>1. PICK y2 \in Nat : y2 = WordBytes
    BY Sizes
  <2> QED
    BY <1>8, <1>9, <1>13, <2>1, MovedAfter
<1> QED
  BY <1>2, <1>4, <1>7, <1>8, <1>12, <1>14

(* memcpy moves the bytes, in whatever parts.                               *)
LEMMA MemcpyMoves ==
  ASSUME NEW M, NEW m, NEW d, NEW s, NEW n, Within(M, m, d, s, n), Disjoint(d, n, s, n)
  PROVE  memcpy(m, d, s, n) = Moved(m, d, s, n)
<1>1. M \in Nat /\ m \in Memories(M) /\ d \in Nat /\ s \in Nat /\ n \in Nat /\ d + n <= M /\ s + n <= M
  BY DEF Within
<1> DEFINE aligned == {k \in 0 .. n : (d + k) % WordBytes = 0 \/ k = n}
           ahead == Smallest(aligned)
           words == Words(d + ahead, s + ahead, n - ahead)
<1>2. ahead \in 0 .. n
  <2>1. aligned \in SUBSET Nat /\ aligned # {}
    <3>1. n \in aligned
      BY <1>1
    <3> QED
      BY <3>1
  <2>2. ahead \in aligned
    BY <2>1, SmallestIs
  <2> QED
    BY <2>2
<1>3. words \in Nat /\ ahead + words * WordBytes <= n
  <2> HIDE DEF ahead
  <2>1. n - ahead \in Nat
    BY <1>1, <1>2
  <2>2. words \in Nat /\ words * WordBytes <= n - ahead
    BY <2>1, WordsFit
  <2> HIDE DEF words
  <2>3. words * WordBytes \in Nat
    BY <2>2, Sizes
  <2> QED
    BY <1>1, <1>2, <2>2, <2>3
<1> DEFINE copied == ahead + words * WordBytes
           f == CHOOSE h : BodyIs(m, d, s, ahead, words, h)
<1>4. memcpy(m, d, s, n) = Upward(f[words], d + copied, s + copied, n - copied)
  BY DEF memcpy, BodyIs
<1> HIDE DEF ahead, words
<1> DEFINE Turn(x, i) == CopyWord(x, d + ahead + (i - 1) * WordBytes, s + ahead + (i - 1) * WordBytes)
           Last(i) == Moved(m, d, s, ahead + i * WordBytes)
<1>5. Upward(m, d, s, ahead) = Last(0)
  <2>1. Within(M, m, d, s, ahead) /\ (d <= s \/ s + ahead <= d)
    BY <1>1, <1>2 DEF Within, Disjoint
  <2>2. ahead + 0 * WordBytes = ahead
    BY <1>2, Sizes
  <2> QED
    BY <2>1, <2>2, UpwardMoves
<1>6. \A i \in 1 .. words : Turn(Last(i - 1), i) = Last(i)
  BY <1>2, <1>3, BodyTurn
<1> HIDE DEF Last
<1> DEFINE g == [i \in 0 .. words |-> Last(i)]
<1>7. BodyIs(m, d, s, ahead, words, g)
  <2>1. ASSUME NEW i \in 0 .. words
        PROVE  Last(i) = IF i = 0 THEN Upward(m, d, s, ahead) ELSE Turn(g[i - 1], i)
    <3>1. CASE i = 0
      BY <1>5, <3>1
    <3>2. CASE i # 0
      <4>1. i \in 1 .. words /\ i - 1 \in 0 .. words
        BY <1>3, <3>2
      <4>2. g[i - 1] = Last(i - 1)
        BY <4>1
      <4> HIDE DEF g, Turn
      <4> QED
        BY <1>6, <3>2, <4>1, <4>2
    <3> QED
      BY <3>1, <3>2
  <2>2. g = [i \in 0 .. words |-> IF i = 0 THEN Upward(m, d, s, ahead) ELSE Turn(g[i - 1], i)]
    BY <2>1
  <2> QED
    BY <2>2 DEF BodyIs
<1>8. BodyIs(m, d, s, ahead, words, f)
  BY <1>7
<1> HIDE DEF f
<1>9. f[0] = Upward(m, d, s, ahead) /\ \A i \in 1 .. words : f[i] = Turn(f[i - 1], i)
  <2>1. f = [i \in 0 .. words |-> IF i = 0 THEN Upward(m, d, s, ahead) ELSE Turn(f[i - 1], i)]
    BY <1>8 DEF BodyIs
  <2>2. 0 \in 0 .. words /\ \A i \in 1 .. words : i \in 0 .. words /\ i # 0
    BY <1>3
  <2> HIDE DEF Turn
  <2> QED
    BY <2>1, <2>2
<1> DEFINE T == {i \in 0 .. words : f[i] = Last(i)}
<1> HIDE DEF Turn
<1>10. 0 \in T
  BY <1>3, <1>5, <1>9
<1>11. \A i \in 1 .. words : i - 1 \in T => i \in T
  BY <1>6, <1>9
<1>12. \A i \in 0 .. words : i \in T
  <2> HIDE DEF T
  <2> QED
    BY <1>3, <1>10, <1>11, UpTo
<1>13. f[words] = Moved(m, d, s, copied)
  BY <1>3, <1>12 DEF Last
<1>14. copied \in Nat /\ copied <= n
  <2>1. words * WordBytes \in Nat
    BY <1>3, Sizes
  <2> QED
    BY <1>2, <1>3, <2>1
<1> HIDE DEF copied
<1>15. Within(M, m, d, s, copied)
  BY <1>1, <1>14 DEF Within
<1>16. PICK w : w = Moved(m, d, s, copied)
  OBVIOUS
<1>17. PICK x \in Nat, y \in Nat : x = copied /\ y = n - copied /\ n = x + y /\ w = Moved(m, d, s, x)
  BY <1>1, <1>14, <1>16
<1>18. w \in Memories(M) /\ (d <= s \/ s + x + y <= d)
  BY <1>1, <1>15, <1>17, MovedIn DEF Disjoint
<1>19. Within(M, w, d + x, s + x, y) /\ (d + x <= s + x \/ s + x + y <= d + x)
  BY <1>1, <1>17, <1>18 DEF Within
<1>20. Upward(w, d + x, s + x, y) = Moved(w, d + x, s + x, y)
  BY <1>19, UpwardMoves
<1>21. Moved(w, d + x, s + x, y) = Moved(m, d, s, x + y)
  BY <1>17, <1>18, MovedAfter
<1> QED
  BY <1>4, <1>13, <1>17, <1>20, <1>21

(* A string ends at its first 0.                                            *)
LEMMA StringEnds ==
  ASSUME NEW M \in Nat \ {0}, NEW m \in Memories(M), m[M - 1] = 0, NEW s \in 0 .. M - 1
  PROVE  /\ strlen(m, s) \in 0 .. M - 1 - s /\ m[s + strlen(m, s)] = 0
         /\ \A i \in 0 .. strlen(m, s) - 1 : m[s + i] # 0
<1> DEFINE ends == {i \in DOMAIN m : i >= s /\ m[i] = 0}
<1>1. DOMAIN m = 0 .. M - 1
  BY DEF Memories
<1>2. ends \in SUBSET Nat /\ M - 1 \in ends
  BY <1>1
<1>3. PICK e \in ends : e = Smallest(ends) /\ \A i \in ends : e <= i
  BY <1>2, SmallestIs
<1>4. strlen(m, s) = e - s
  BY <1>3 DEF strlen
<1>5. e \in s .. M - 1 /\ m[e] = 0
  BY <1>1, <1>3
<1>6. ASSUME NEW i \in 0 .. (e - s) - 1 PROVE m[s + i] # 0
  <2>1. s + i \in 0 .. M - 1 /\ s + i >= s /\ ~(e <= s + i)
    BY <1>5
  <2> QED
    BY <1>1, <1>3, <2>1
<1> QED
  BY <1>4, <1>5, <1>6

(* Memory that holds strings. *)
Text == before \in Memories(TextSize) /\ before[TextSize - 1] = 0

LengthAt(a) == strlen(before, a)

(* A string that begins in such memory ends in it.                          *)
LEMMA TextEnds ==
  ASSUME Text, NEW a \in 0 .. TextSize - 1
  PROVE  /\ LengthAt(a) \in Nat /\ a + LengthAt(a) \in 0 .. TextSize - 1 /\ before[a + LengthAt(a)] = 0
         /\ \A i \in 0 .. LengthAt(a) - 1 : before[a + i] # 0
<1>1. TextSize \in Nat \ {0} /\ before \in Memories(TextSize) /\ before[TextSize - 1] = 0
  BY Sizes DEF Text
<1>2. PICK M \in Nat \ {0} : M = TextSize
  BY <1>1
<1> QED
  BY <1>1, <1>2, StringEnds DEF LengthAt

(* A block has the bytes of memory.                                         *)
LEMMA BlockIs ==
  ASSUME NEW a, NEW n \in Nat
  PROVE  /\ DOMAIN Block(a, n) = 0 .. n - 1 /\ Length(Block(a, n)) = n
         /\ \A i \in 0 .. n - 1 : Block(a, n)[i] = before[a + i]
<1>1. Cardinality(0 .. n - 1) = n
  BY FS_Interval
<1> QED
  BY <1>1 DEF Block, Length

(* The string at an address, as the properties choose it, has the length     *)
(* that strlen counts.                                                      *)
LEMMA StrIs ==
  ASSUME Text, NEW a \in 0 .. TextSize - 1
  PROVE  Str(a) = Block(a, LengthAt(a))
<1> DEFINE L == LengthAt(a)
           IsStr(t) == /\ \A i \in DOMAIN t : t[i] # 0
                       /\ before[a + Cardinality(DOMAIN t)] = 0
           all == {Block(a, n) : n \in 0 .. TextSize - 1 - a}
<1>1. L \in 0 .. TextSize - 1 - a /\ L \in Nat /\ before[a + L] = 0 /\ \A i \in 0 .. L - 1 : before[a + i] # 0
  BY TextEnds, Sizes
<1> HIDE DEF L
<1>2. \A n \in 0 .. TextSize - 1 - a :
        IsStr(Block(a, n)) <=> (before[a + n] = 0 /\ \A i \in 0 .. n - 1 : before[a + i] # 0)
  <2>1. ASSUME NEW n \in 0 .. TextSize - 1 - a
        PROVE  IsStr(Block(a, n)) <=> (before[a + n] = 0 /\ \A i \in 0 .. n - 1 : before[a + i] # 0)
    <3>1. n \in Nat
      BY Sizes
    <3>2. PICK t : t = Block(a, n)
      OBVIOUS
    <3>3. DOMAIN t = 0 .. n - 1 /\ Cardinality(DOMAIN t) = n /\ \A i \in 0 .. n - 1 : t[i] = before[a + i]
      BY <3>1, <3>2, BlockIs DEF Length
    <3>4. IsStr(t) <=> (before[a + n] = 0 /\ \A i \in 0 .. n - 1 : before[a + i] # 0)
      BY <3>3
    <3> QED
      BY <3>2, <3>4
  <2> QED
    BY <2>1
<1>3. \A n \in 0 .. TextSize - 1 - a : IsStr(Block(a, n)) <=> n = L
  <2>1. ASSUME NEW n \in 0 .. TextSize - 1 - a, before[a + n] = 0, \A i \in 0 .. n - 1 : before[a + i] # 0
        PROVE  n = L
    <3>1. ~(n < L)
      BY <1>1, <2>1
    <3>2. ~(L < n)
      BY <1>1, <2>1
    <3> QED
      BY <1>1, <3>1, <3>2
  <2> QED
    BY <1>1, <1>2, <2>1
<1> HIDE DEF IsStr
<1>4. \A t \in all : IsStr(t) <=> t = Block(a, L)
  BY <1>1, <1>3
<1>5. Block(a, L) \in all
  BY <1>1
<1>6. Str(a) = CHOOSE t \in all : IsStr(t)
  BY DEF Str, IsStr
<1>7. Str(a) = Block(a, L)
  <2> HIDE DEF all
  <2> QED
    BY <1>4, <1>5, <1>6
<1> QED
  BY <1>7 DEF L

-----------------------------------------------------------------------------
(* Two texts of p and of q bytes agree up to i, where they first differ.    *)
Differ(t, p, u, q, i) ==
  /\ p \in Nat /\ q \in Nat /\ i \in 0 .. p /\ i \in 0 .. q
  /\ t \in [0 .. p - 1 -> Nat] /\ u \in [0 .. q - 1 -> Nat]
  /\ \A j \in 0 .. i - 1 : t[j] = u[j]
  /\ i < p /\ i < q => t[i] # u[i]

SameTo(t, u, j) == Beginning(t, j) = Beginning(u, j)

AgreeTo(t, u, j) == \A i \in 0 .. j - 1 : t[i] = u[i]
Lengths(t, p, u, q) == p \in Nat /\ q \in Nat /\ DOMAIN t = 0 .. p - 1 /\ DOMAIN u = 0 .. q - 1

(* Two texts begin alike up to a place in the second, if the first goes as   *)
(* far and has the same bytes.                                              *)
LEMMA Beginnings ==
  ASSUME NEW t, NEW p, NEW u, NEW q, Lengths(t, p, u, q), NEW j \in 0 .. q - 1
  PROVE  SameTo(t, u, j) <=> j <= p /\ AgreeTo(t, u, j)
<1> USE DEF Lengths, AgreeTo
<1>1. {i \in DOMAIN u : i < j} = 0 .. j - 1
  OBVIOUS
<1>2. Beginning(u, j) = [i \in 0 .. j - 1 |-> u[i]]
  BY <1>1 DEF Beginning
<1> DEFINE D == {i \in DOMAIN t : i < j}
<1>3. Beginning(t, j) = [i \in D |-> t[i]]
  BY DEF Beginning
<1>4. D = 0 .. j - 1 <=> j <= p
  <2>1. CASE j <= p
    BY <2>1
  <2>2. CASE ~(j <= p)
    <3>1. p \in 0 .. j - 1 /\ p \notin D
      BY <2>2
    <3> QED
      BY <2>2, <3>1
  <2> QED
    BY <2>1, <2>2
<1> HIDE DEF D
<1>5. CASE j <= p
  <2>1. Beginning(t, j) = [i \in 0 .. j - 1 |-> t[i]]
    BY <1>3, <1>4, <1>5
  <2>2. ASSUME [i \in 0 .. j - 1 |-> t[i]] = [i \in 0 .. j - 1 |-> u[i]], NEW i \in 0 .. j - 1
        PROVE  t[i] = u[i]
    <3>1. [k \in 0 .. j - 1 |-> t[k]][i] = t[i] /\ [k \in 0 .. j - 1 |-> u[k]][i] = u[i]
      OBVIOUS
    <3> QED
      BY <2>2, <3>1
  <2> QED
    BY <1>2, <1>5, <2>1, <2>2 DEF SameTo
<1>6. CASE ~(j <= p)
  <2>1. DOMAIN Beginning(t, j) = D /\ DOMAIN Beginning(u, j) = 0 .. j - 1
    BY <1>2, <1>3
  <2> QED
    BY <1>4, <1>6, <2>1 DEF SameTo
<1> QED
  BY <1>5, <1>6

(* The first text is over at j or has a smaller byte there.                  *)
Smaller(t, u, j) == j \notin DOMAIN t \/ t[j] < u[j]

(* The order of texts is decided where they first differ.                   *)
LEMMA FirstDifferenceDecides ==
  ASSUME NEW t, NEW p, NEW u, NEW q, NEW i, Differ(t, p, u, q, i)
  PROVE  Precedes(t, u) <=> i < q /\ (i < p => t[i] < u[i])
<1>1. /\ p \in Nat /\ q \in Nat /\ i \in Nat /\ i <= p /\ i <= q
      /\ t \in [0 .. p - 1 -> Nat] /\ u \in [0 .. q - 1 -> Nat]
      /\ DOMAIN t = 0 .. p - 1 /\ DOMAIN u = 0 .. q - 1
      /\ \A j \in 0 .. i - 1 : t[j] = u[j]
      /\ i < p /\ i < q => t[i] # u[i]
  BY DEF Differ
<1>2. Precedes(t, u) <=> \E j \in 0 .. q - 1 : /\ SameTo(t, u, j)
                                             /\ Smaller(t, u, j)
  <2>1. Precedes(t, u) <=> \E j \in DOMAIN u : /\ SameTo(t, u, j)
                                              /\ Smaller(t, u, j)
    BY DEF Precedes, SameTo, Smaller
  <2> QED
    BY <1>1, <2>1
<1>3. ASSUME NEW j \in 0 .. q - 1
      PROVE  SameTo(t, u, j) <=> j <= i
  <2>1. SameTo(t, u, j) <=> j <= p /\ \A k \in 0 .. j - 1 : t[k] = u[k]
    <3>1. Lengths(t, p, u, q)
      BY <1>1 DEF Lengths
    <3>2. SameTo(t, u, j) <=> j <= p /\ AgreeTo(t, u, j)
      BY <3>1, Beginnings
    <3> QED
      BY <3>2 DEF AgreeTo
  <2>2. CASE j <= i
    BY <1>1, <2>1, <2>2
  <2>3. CASE ~(j <= i)
    <3>1. i < q /\ i \in 0 .. j - 1 /\ (j <= p => i < p)
      BY <1>1, <2>3
    <3> QED
      BY <1>1, <2>1, <2>3, <3>1
  <2> QED
    BY <2>2, <2>3
<1>4. ASSUME NEW j \in 0 .. q - 1, SameTo(t, u, j), Smaller(t, u, j)
      PROVE  i < q /\ (i < p => t[i] < u[i])
  <2>1. j <= i
    BY <1>3, <1>4
  <2>2. CASE j = i
    <3>1. i \in 0 .. q - 1 /\ Smaller(t, u, i)
      BY <1>4, <2>2
    <3> QED
      BY <1>1, <3>1 DEF Smaller
  <2>3. CASE j # i
    <3>1. j \in 0 .. i - 1 /\ j \in 0 .. p - 1
      BY <1>1, <2>1, <2>3
    <3>2. t[j] = u[j] /\ t[j] < u[j] /\ u[j] \in Nat
      BY <1>1, <1>4, <3>1 DEF Smaller
    <3> QED
      BY <3>2
  <2> QED
    BY <2>2, <2>3
<1>5. ASSUME i < q, i < p => t[i] < u[i]
      PROVE  \E j \in 0 .. q - 1 : SameTo(t, u, j) /\ Smaller(t, u, j)
  <2>1. i \in 0 .. q - 1 /\ Smaller(t, u, i)
    BY <1>1, <1>5 DEF Smaller
  <2>2. SameTo(t, u, i)
    <3>1. i <= i
      BY <1>1
    <3> QED
      BY <1>3, <2>1, <3>1
  <2> QED
    BY <2>1, <2>2
<1> QED
  BY <1>2, <1>4, <1>5

(* after has k bytes of t at d, and is before elsewhere.                     *)
PutAt(M, d, k, t, f) ==
  /\ M \in Nat /\ before \in Memories(M) /\ d \in Nat /\ k \in Nat /\ DOMAIN t = 0 .. k - 1
  /\ after = [a \in 0 .. M - 1 |-> f[a]]
  /\ \A a \in 0 .. M - 1 : f[a] = IF a \in d .. d + k - 1 THEN t[a - d] ELSE before[a]

(* What has been put like that is placed.                                   *)
LEMMA PlacedCells ==
  ASSUME NEW M, NEW d, NEW k, NEW t, NEW f, PutAt(M, d, k, t, f)
  PROVE  Placed(d, t)
<1> USE DEF PutAt
<1>1. DOMAIN before = 0 .. M - 1
  BY DEF Memories
<1>2. \A a \in 0 .. M - 1 : a \in d .. d + k - 1 <=> a - d \in 0 .. k - 1
  OBVIOUS
<1>3. \A a \in 0 .. M - 1 : f[a] = IF a - d \in 0 .. k - 1 THEN t[a - d] ELSE before[a]
  BY <1>2
<1>4. after = [a \in 0 .. M - 1 |-> IF a - d \in 0 .. k - 1 THEN t[a - d] ELSE before[a]]
  BY <1>3
<1> QED
  BY <1>1, <1>4 DEF Placed

(* What a move leaves in each cell.                                         *)
MoveLeaves(M, m, d, s, k, w) ==
  \A a \in 0 .. M - 1 : w[a] = IF a \in d .. d + k - 1 THEN m[s + (a - d)] ELSE m[a]

(* Moved, cell by cell.                                                     *)
LEMMA MovedCells ==
  ASSUME NEW M, NEW m, NEW d, NEW s, NEW k, Within(M, m, d, s, k)
  PROVE  /\ DOMAIN Moved(m, d, s, k) = 0 .. M - 1
         /\ MoveLeaves(M, m, d, s, k, Moved(m, d, s, k))
BY DEF Within, Memories, Moved, MoveLeaves

(* Bytes that are moved are placed.                                         *)
LEMMA MovedArePlaced ==
  ASSUME NEW M, NEW d, NEW s, NEW k, Within(M, before, d, s, k), after = Moved(before, d, s, k)
  PROVE  Placed(d, Block(s, k))
<1>1. M \in Nat /\ before \in Memories(M) /\ d \in Nat /\ s \in Nat /\ k \in Nat
  BY DEF Within
<1> DEFINE f == Moved(before, d, s, k)
<1>2. f \in Memories(M) /\ f = [a \in 0 .. M - 1 |-> f[a]]
  <2>1. f \in Memories(M)
    BY MovedIn
  <2> HIDE DEF f
  <2> QED
    BY <2>1 DEF Memories
<1>3. ASSUME NEW a \in 0 .. M - 1 PROVE f[a] = IF a \in d .. d + k - 1 THEN Block(s, k)[a - d] ELSE before[a]
  <2>1. f[a] = IF a \in d .. d + k - 1 THEN before[s + (a - d)] ELSE before[a]
    BY MovedCells DEF MoveLeaves
  <2>2. a \in d .. d + k - 1 => Block(s, k)[a - d] = before[s + (a - d)]
    <3>1. a \in d .. d + k - 1 => a - d \in 0 .. k - 1
      BY <1>1
    <3> QED
      BY <1>1, <3>1, BlockIs
  <2> HIDE DEF f
  <2> QED
    BY <2>1, <2>2
<1>4. DOMAIN Block(s, k) = 0 .. k - 1
  BY <1>1, BlockIs
<1>5. after = f
  OBVIOUS
<1> HIDE DEF f
<1>6. after = [a \in 0 .. M - 1 |-> f[a]]
  BY <1>2, <1>5
<1> QED
  <2>1. PutAt(M, d, k, Block(s, k), f)
    BY <1>1, <1>3, <1>4, <1>6 DEF PutAt
  <2> QED
    BY <2>1, PlacedCells

(* memset, cell by cell.                                                    *)
LEMMA MemsetIs ==
  ASSUME NEW M, NEW m \in Memories(M), NEW d, NEW x, NEW n
  PROVE  memset(m, d, x, n) = [a \in 0 .. M - 1 |-> IF a \in d .. d + n - 1 THEN x ELSE m[a]]
BY DEF memset, Memories

(* memset places its bytes.                                                 *)
LEMMA MemsetPlaces ==
  ASSUME NEW M \in Nat, before \in Memories(M), NEW d \in Nat, NEW n \in Nat, after = memset(before, d, 0, n)
  PROVE  Placed(d, [i \in 0 .. n - 1 |-> 0])
<1> DEFINE t == [i \in 0 .. n - 1 |-> 0]
<1>1. PICK f : f = [a \in 0 .. M - 1 |-> IF a \in d .. d + n - 1 THEN 0 ELSE before[a]]
  OBVIOUS
<1>2. after = [a \in 0 .. M - 1 |-> f[a]]
  <2>1. after = f
    BY <1>1, MemsetIs
  <2> QED
    BY <1>1, <2>1
<1>3. ASSUME NEW a \in 0 .. M - 1 PROVE f[a] = IF a \in d .. d + n - 1 THEN t[a - d] ELSE before[a]
  <2>1. a \in d .. d + n - 1 => t[a - d] = 0
    OBVIOUS
  <2> HIDE DEF t
  <2> QED
    BY <1>1, <2>1
<1>4. DOMAIN t = 0 .. n - 1
  OBVIOUS
<1> HIDE DEF t
<1>5. Placed(d, t)
  <2>1. PutAt(M, d, n, t, f)
    BY <1>2, <1>3, <1>4 DEF PutAt
  <2> QED
    BY <2>1, PlacedCells
<1> QED
  BY <1>5 DEF t

-----------------------------------------------------------------------------
(* The string at s, and so many zeros that it has n bytes.                  *)
LEMMA FilledIs ==
  ASSUME Text, NEW s \in 0 .. TextSize - 1, NEW n \in Nat
  PROVE  /\ DOMAIN Filled(Str(s), n) = 0 .. n - 1
         /\ \A i \in 0 .. n - 1 : Filled(Str(s), n)[i] = IF i < LengthAt(s) THEN before[s + i] ELSE 0
<1>1. LengthAt(s) \in Nat /\ Str(s) = Block(s, LengthAt(s))
  BY TextEnds, StrIs
<1>2. PICK t : t = Str(s)
  OBVIOUS
<1>3. DOMAIN t = 0 .. LengthAt(s) - 1 /\ \A i \in 0 .. LengthAt(s) - 1 : t[i] = before[s + i]
  BY <1>1, <1>2, BlockIs
<1>4. \A i \in 0 .. n - 1 : (IF i \in DOMAIN t THEN t[i] ELSE 0) = IF i < LengthAt(s) THEN before[s + i] ELSE 0
  BY <1>1, <1>3
<1>5. Filled(t, n) = [i \in 0 .. n - 1 |-> IF i \in DOMAIN t THEN t[i] ELSE 0]
  BY DEF Filled
<1> QED
  BY <1>2, <1>4, <1>5

(* strcpy copies the terminator too. *)
LEMMA StrcpyPlaces ==
  ASSUME Text, NEW d \in 0 .. TextSize - 1, NEW s \in 0 .. TextSize - 1, d + LengthAt(s) < TextSize,
         Disjoint(d, LengthAt(s) + 1, s, LengthAt(s) + 1), after = strcpy(before, d, s)
  PROVE  Placed(d, Filled(Str(s), Length(Str(s)) + 1))
<1>1. /\ LengthAt(s) \in Nat /\ s + LengthAt(s) \in 0 .. TextSize - 1 /\ before[s + LengthAt(s)] = 0
      /\ TextSize \in Nat \ {0} /\ before \in Memories(TextSize) /\ d \in Nat /\ s \in Nat
  BY TextEnds, Sizes DEF Text
<1>2. PICK k \in Nat, M \in Nat : k = LengthAt(s) + 1 /\ M = TextSize
  BY <1>1
<1>3. Within(M, before, d, s, k) /\ (d <= s \/ s + k <= d)
  BY <1>1, <1>2 DEF Within, Disjoint
<1>4. PICK f : f = Moved(before, d, s, k)
  OBVIOUS
<1>5. after = f
  <2>1. after = Upward(before, d, s, k)
    BY <1>2 DEF strcpy, LengthAt
  <2> QED
    BY <1>3, <1>4, <2>1, UpwardMoves
<1>6. f \in Memories(M) /\ after = [a \in 0 .. M - 1 |-> f[a]]
  <2>1. f \in Memories(M)
    BY <1>3, <1>4, MovedIn
  <2> QED
    BY <1>5, <2>1 DEF Memories
<1>7. Length(Str(s)) = LengthAt(s)
  BY <1>1, StrIs, BlockIs
<1>8. PICK t : t = Filled(Str(s), k)
  OBVIOUS
<1>9. DOMAIN t = 0 .. k - 1 /\ \A i \in 0 .. k - 1 : t[i] = before[s + i]
  <2>1. DOMAIN t = 0 .. k - 1 /\ \A i \in 0 .. k - 1 : t[i] = IF i < LengthAt(s) THEN before[s + i] ELSE 0
    BY <1>2, <1>8, FilledIs
  <2>2. \A i \in 0 .. k - 1 : ~(i < LengthAt(s)) => i = LengthAt(s)
    BY <1>1, <1>2
  <2> QED
    BY <1>1, <2>1, <2>2
<1>10. ASSUME NEW a \in 0 .. M - 1 PROVE f[a] = IF a \in d .. d + k - 1 THEN t[a - d] ELSE before[a]
  <2>1. f[a] = IF a \in d .. d + k - 1 THEN before[s + (a - d)] ELSE before[a]
    <3>1. MoveLeaves(M, before, d, s, k, Moved(before, d, s, k))
      BY <1>3, MovedCells
    <3> QED
      BY <1>4, <3>1 DEF MoveLeaves
  <2>2. a \in d .. d + k - 1 => a - d \in 0 .. k - 1
    BY <1>1
  <2> QED
    BY <1>9, <2>1, <2>2
<1>11. before \in Memories(M) /\ d \in Nat
  BY <1>1, <1>2
<1>12. Placed(d, t)
  <2>1. PutAt(M, d, k, t, f)
    BY <1>6, <1>9, <1>10, <1>11 DEF PutAt
  <2> QED
    BY <2>1, PlacedCells
<1> QED
  BY <1>2, <1>7, <1>8, <1>12

(* strncpy fills the rest with zeros. *)
LEMMA StrncpyPlaces ==
  ASSUME Text, NEW d \in 0 .. TextSize - 1, NEW s \in 0 .. TextSize - 1, NEW n \in Nat, d + n <= TextSize,
         Disjoint(d, n, s, LengthAt(s) + 1), after = strncpy(before, d, s, n)
  PROVE  Placed(d, Filled(Str(s), n))
<1>1. /\ LengthAt(s) \in Nat /\ s + LengthAt(s) \in 0 .. TextSize - 1
      /\ TextSize \in Nat \ {0} /\ before \in Memories(TextSize) /\ d \in Nat /\ s \in Nat
  BY TextEnds, Sizes DEF Text
<1>2. PICK k \in Nat, M \in Nat : k = (IF LengthAt(s) < n THEN LengthAt(s) ELSE n) /\ M = TextSize
  BY <1>1
<1>3. k <= n /\ k <= LengthAt(s)
  BY <1>1, <1>2
<1>4. Within(M, before, d, s, k) /\ (d <= s \/ s + k <= d)
  BY <1>1, <1>2, <1>3 DEF Within, Disjoint
<1>5. PICK w : w = Moved(before, d, s, k)
  OBVIOUS
<1>6. w \in Memories(M)
  BY <1>4, <1>5, MovedIn
<1>7. after = memset(w, d + k, 0, n - k)
  <2>1. after = memset(Upward(before, d, s, k), d + k, 0, n - k)
    BY <1>2 DEF strncpy, LengthAt
  <2> QED
    BY <1>4, <1>5, <2>1, UpwardMoves
<1>8. PICK f : f = [a \in 0 .. M - 1 |-> IF a \in d + k .. d + k + (n - k) - 1 THEN 0 ELSE w[a]]
  OBVIOUS
<1>9. after = [a \in 0 .. M - 1 |-> f[a]]
  <2>1. after = f
    BY <1>6, <1>7, <1>8, MemsetIs
  <2> QED
    BY <1>8, <2>1
<1>10. PICK t : t = Filled(Str(s), n)
  OBVIOUS
<1>11. DOMAIN t = 0 .. n - 1 /\ \A i \in 0 .. n - 1 : t[i] = IF i < LengthAt(s) THEN before[s + i] ELSE 0
  BY <1>10, FilledIs
<1>12. ASSUME NEW a \in 0 .. M - 1 PROVE f[a] = IF a \in d .. d + n - 1 THEN t[a - d] ELSE before[a]
  <2>1. w[a] = IF a \in d .. d + k - 1 THEN before[s + (a - d)] ELSE before[a]
    <3>1. MoveLeaves(M, before, d, s, k, Moved(before, d, s, k))
      BY <1>4, MovedCells
    <3> QED
      BY <1>5, <3>1 DEF MoveLeaves
  <2>2. f[a] = IF a \in d + k .. d + k + (n - k) - 1 THEN 0 ELSE w[a]
    BY <1>8
  <2>3. CASE a \in d .. d + k - 1
    <3>1. /\ ~(a \in d + k .. d + k + (n - k) - 1) /\ a \in d .. d + n - 1
          /\ a - d \in 0 .. n - 1 /\ a - d < LengthAt(s)
      BY <1>1, <1>3, <2>3
    <3> QED
      BY <1>11, <2>1, <2>2, <2>3, <3>1
  <2>4. CASE a \in d + k .. d + n - 1
    <3>1. /\ a \in d + k .. d + k + (n - k) - 1 /\ a \in d .. d + n - 1
          /\ a - d \in 0 .. n - 1 /\ ~(a - d < LengthAt(s))
      BY <1>1, <1>2, <1>3, <2>4
    <3> QED
      BY <1>11, <2>2, <3>1
  <2>5. CASE ~(a \in d .. d + n - 1)
    <3>1. ~(a \in d + k .. d + k + (n - k) - 1) /\ ~(a \in d .. d + k - 1)
      BY <1>1, <1>3, <2>5
    <3> QED
      BY <2>1, <2>2, <2>5, <3>1
  <2> QED
    BY <1>1, <2>3, <2>4, <2>5
<1>13. before \in Memories(M) /\ d \in Nat
  BY <1>1, <1>2
<1>14. Placed(d, t)
  <2>1. PutAt(M, d, n, t, f)
    BY <1>9, <1>11, <1>12, <1>13 DEF PutAt
  <2> QED
    BY <2>1, PlacedCells
<1> QED
  BY <1>10, <1>14

LesserOf(x, y) == IF x <= y THEN x ELSE y

(* The beginning of a string is that of the memory there.                   *)
LEMMA BeginningIs ==
  ASSUME Text, NEW s \in 0 .. TextSize - 1, NEW n \in Int, n >= 0
  PROVE  Beginning(Str(s), n) = Block(s, LesserOf(LengthAt(s), n))
<1>1. LengthAt(s) \in Nat /\ Str(s) = Block(s, LengthAt(s))
  BY TextEnds, StrIs
<1>2. PICK t : t = Str(s)
  OBVIOUS
<1>3. DOMAIN t = 0 .. LengthAt(s) - 1 /\ \A i \in 0 .. LengthAt(s) - 1 : t[i] = before[s + i]
  BY <1>1, <1>2, BlockIs
<1>4. {j \in DOMAIN t : j < n} = 0 .. LesserOf(LengthAt(s), n) - 1
  BY <1>1, <1>3 DEF LesserOf
<1>5. \A i \in 0 .. LesserOf(LengthAt(s), n) - 1 : t[i] = before[s + i]
  BY <1>1, <1>3 DEF LesserOf
<1>6. Beginning(t, n) = [i \in 0 .. LesserOf(LengthAt(s), n) - 1 |-> t[i]]
  BY <1>4 DEF Beginning
<1>7. Beginning(t, n) = [i \in 0 .. LesserOf(LengthAt(s), n) - 1 |-> before[s + i]]
  BY <1>5, <1>6
<1> QED
  BY <1>2, <1>7 DEF Block

(* strlcpy ends what it copies within the size, and tells by its result     *)
(* whether that was all.                                                    *)
LEMMA StrlcpyPlaces ==
  ASSUME Text, NEW d \in 0 .. TextSize - 1, NEW s \in 0 .. TextSize - 1, NEW n \in Nat, d + n <= TextSize,
         Disjoint(d, n, s, LengthAt(s) + 1), after = strlcpy(before, d, s, n),
         NEW kept, kept = Beginning(Str(s), n - 1)
  PROVE  /\ Placed(d, IF n = 0 THEN Block(0, 0) ELSE Filled(kept, Length(kept) + 1))
         /\ LengthAt(s) < n <=> n > 0 /\ kept = Str(s)
<1>1. /\ LengthAt(s) \in Nat /\ s + LengthAt(s) \in 0 .. TextSize - 1
      /\ TextSize \in Nat \ {0} /\ before \in Memories(TextSize) /\ d \in Nat /\ s \in Nat
  BY TextEnds, Sizes DEF Text
<1>2. PICK M \in Nat : M = TextSize /\ before \in Memories(M)
  BY <1>1
<1>3. CASE n = 0
  <2>1. after = before
    BY <1>3 DEF strlcpy
  <2>2. before = [a \in 0 .. M - 1 |-> before[a]]
    BY <1>2 DEF Memories
  <2>3. PICK t : t = Block(0, 0) /\ DOMAIN t = 0 .. 0 - 1
    BY BlockIs
  <2>4. \A a \in 0 .. M - 1 : ~(a \in d .. d + 0 - 1)
    BY <1>1
  <2>5. PutAt(M, d, 0, t, before)
    BY <1>1, <1>2, <2>1, <2>2, <2>3, <2>4 DEF PutAt
  <2> QED
    BY <1>1, <1>3, <2>3, <2>5, PlacedCells
<1>4. CASE n # 0
  <2>1. PICK k \in Nat : k = LesserOf(LengthAt(s), n - 1) /\ k = CopyLen(LengthAt(s), n)
    BY <1>1, <1>4 DEF LesserOf, CopyLen
  <2>2. k <= n - 1 /\ k <= LengthAt(s)
    BY <1>1, <1>4, <2>1 DEF LesserOf
  <2>3. kept = Block(s, k)
    BY <1>4, <2>1, BeginningIs
  <2>4. DOMAIN kept = 0 .. k - 1 /\ Length(kept) = k /\ \A i \in 0 .. k - 1 : kept[i] = before[s + i]
    BY <2>3, BlockIs
  <2>5. PICK t : t = Filled(kept, k + 1)
    OBVIOUS
  <2>6. DOMAIN t = 0 .. (k + 1) - 1 /\ \A i \in 0 .. (k + 1) - 1 : t[i] = IF i < k THEN before[s + i] ELSE 0
    <3>1. t = [i \in 0 .. (k + 1) - 1 |-> IF i \in DOMAIN kept THEN kept[i] ELSE 0]
      BY <2>5 DEF Filled
    <3>2. \A i \in 0 .. (k + 1) - 1 : i \in DOMAIN kept <=> i < k
      BY <2>4
    <3> QED
      BY <2>4, <3>1, <3>2
  <2>7. Within(M, before, d, s, k) /\ (d <= s \/ s + k <= d)
    BY <1>1, <1>2, <2>2 DEF Within, Disjoint
  <2>8. PICK w : w = Moved(before, d, s, k)
    OBVIOUS
  <2>9. w \in Memories(M) /\ MoveLeaves(M, before, d, s, k, w)
    BY <2>7, <2>8, MovedIn, MovedCells
  <2>10. after = [w EXCEPT ![d + k] = 0]
    <3>1. after = [Upward(before, d, s, k) EXCEPT ![d + k] = 0]
      BY <1>4, <2>1 DEF strlcpy, LengthAt
    <3>2. Upward(before, d, s, k) = Moved(before, d, s, k)
      BY <2>7, UpwardMoves
    <3> QED
      BY <2>8, <3>1, <3>2
  <2>11. DOMAIN w = 0 .. M - 1 /\ d + k \in 0 .. M - 1
    BY <1>1, <1>2, <2>2, <2>9 DEF Memories
  <2>12. PICK f : f = [a \in 0 .. M - 1 |-> IF a = d + k THEN 0 ELSE w[a]]
    OBVIOUS
  <2>13. after = [a \in 0 .. M - 1 |-> f[a]]
    <3>1. after = [a \in 0 .. M - 1 |-> IF a = d + k THEN 0 ELSE w[a]]
      BY <2>9, <2>10, <2>11 DEF Memories
    <3> QED
      BY <2>12, <3>1
  <2>14. ASSUME NEW a \in 0 .. M - 1
         PROVE  f[a] = IF a \in d .. d + (k + 1) - 1 THEN t[a - d] ELSE before[a]
    <3>1. f[a] = IF a = d + k THEN 0 ELSE w[a]
      BY <2>12
    <3>2. w[a] = IF a \in d .. d + k - 1 THEN before[s + (a - d)] ELSE before[a]
      BY <2>9 DEF MoveLeaves
    <3>3. CASE a = d + k
      <4>1. a - d = k /\ k \in 0 .. (k + 1) - 1 /\ a \in d .. d + (k + 1) - 1
        BY <1>1, <3>3
      <4> QED
        BY <2>6, <3>1, <3>3, <4>1
    <3>4. CASE a \in d .. d + k - 1
      <4>1. a # d + k /\ a - d \in 0 .. (k + 1) - 1 /\ a - d < k /\ a \in d .. d + (k + 1) - 1
        BY <1>1, <3>4
      <4> QED
        BY <2>6, <3>1, <3>2, <3>4, <4>1
    <3>5. CASE a # d + k /\ ~(a \in d .. d + k - 1)
      <4>1. ~(a \in d .. d + (k + 1) - 1)
        BY <1>1, <3>5
      <4> QED
        BY <3>1, <3>2, <3>5, <4>1
    <3> QED
      BY <3>3, <3>4, <3>5
  <2>15. PutAt(M, d, k + 1, t, f)
    BY <1>1, <1>2, <2>6, <2>13, <2>14 DEF PutAt
  <2>16. Placed(d, t)
    BY <2>15, PlacedCells
  <2>17. LengthAt(s) < n <=> kept = Str(s)
    <3>1. Str(s) = Block(s, LengthAt(s)) /\ DOMAIN Str(s) = 0 .. LengthAt(s) - 1
      BY <1>1, StrIs, BlockIs
    <3>2. CASE LengthAt(s) < n
      <4>1. k = LengthAt(s)
        BY <1>1, <2>1, <3>2 DEF LesserOf
      <4> QED
        BY <2>3, <3>1, <3>2, <4>1
    <3>3. CASE ~(LengthAt(s) < n)
      <4>1. k \in 0 .. LengthAt(s) - 1 /\ k \notin 0 .. k - 1
        BY <1>1, <2>2, <3>3
      <4> QED
        BY <2>4, <3>1, <3>3, <4>1
    <3> QED
      BY <3>2, <3>3
  <2> QED
    BY <1>4, <2>4, <2>5, <2>16, <2>17
<1> QED
  BY <1>3, <1>4

-----------------------------------------------------------------------------
(* A result that has the sign of the first difference orders two texts.     *)
LEMMA SignOrders ==
  ASSUME NEW t, NEW p, NEW u, NEW q, NEW i, Differ(t, p, u, q, i), NEW r \in Int,
         r < 0 <=> i < q /\ (i < p => t[i] < u[i]),
         r > 0 <=> i < p /\ (i < q => u[i] < t[i])
  PROVE  Orders(r, t, u)
<1>1. Differ(u, q, t, p, i)
  BY DEF Differ
<1>2. Precedes(t, u) <=> i < q /\ (i < p => t[i] < u[i])
  BY FirstDifferenceDecides
<1>3. Precedes(u, t) <=> i < p /\ (i < q => u[i] < t[i])
  BY <1>1, FirstDifferenceDecides
<1> QED
  BY <1>2, <1>3 DEF Orders

(* Bytes of a block are naturals.                                           *)
LEMMA BlockType ==
  ASSUME NEW M \in Nat, before \in Memories(M), NEW a \in Nat, NEW n \in Nat, a + n <= M
  PROVE  Block(a, n) \in [0 .. n - 1 -> Nat]
<1>1. \A i \in 0 .. n - 1 : a + i \in 0 .. M - 1
  OBVIOUS
<1> QED
  BY <1>1 DEF Memories, Block

(* memcmp follows the order of the blocks.                                  *)
LEMMA MemcmpOrders ==
  ASSUME NEW M \in Nat, before \in Memories(M), NEW a \in Nat, NEW b \in Nat, NEW n \in Nat,
         a + n <= M, b + n <= M
  PROVE  Orders(memcmp(before, a, b, n), Block(a, n), Block(b, n))
<1> DEFINE differ == {i \in 0 .. n - 1 : before[a + i] # before[b + i]}
<1>1. PICK t, u : t = Block(a, n) /\ u = Block(b, n)
  OBVIOUS
<1>2. /\ t \in [0 .. n - 1 -> Nat] /\ u \in [0 .. n - 1 -> Nat]
      /\ \A i \in 0 .. n - 1 : t[i] = before[a + i] /\ u[i] = before[b + i]
  BY <1>1, BlockType, BlockIs
<1>3. CASE differ = {}
  <2>1. \A i \in 0 .. n - 1 : t[i] = u[i]
    BY <1>2, <1>3
  <2>2. Differ(t, n, u, n, n)
    BY <1>2, <2>1 DEF Differ
  <2>3. memcmp(before, a, b, n) = 0
    BY <1>3 DEF memcmp
  <2>4. Orders(0, t, u)
    BY <2>2, SignOrders
  <2> QED
    BY <1>1, <2>3, <2>4
<1>4. CASE differ # {}
  <2>1. PICK i \in differ : i = Smallest(differ) /\ \A j \in differ : i <= j
    <3>1. differ \in SUBSET Nat
      OBVIOUS
    <3> QED
      BY <1>4, <3>1, SmallestIs
  <2>2. i \in 0 .. n - 1 /\ t[i] # u[i]
    BY <1>2, <2>1
  <2>3. ASSUME NEW j \in 0 .. i - 1 PROVE t[j] = u[j]
    <3>1. j \in 0 .. n - 1 /\ ~(i <= j)
      BY <2>2, <2>3
    <3> QED
      BY <1>2, <2>1, <3>1
  <2>4. Differ(t, n, u, n, i)
    BY <1>2, <2>2, <2>3 DEF Differ
  <2>5. memcmp(before, a, b, n) = t[i] - u[i]
    <3>1. memcmp(before, a, b, n) = before[a + i] - before[b + i]
      BY <1>4, <2>1 DEF memcmp
    <3> QED
      BY <1>2, <2>2, <3>1
  <2>6. PICK r \in Int : r = t[i] - u[i]
    BY <1>2, <2>2
  <2>7. t[i] \in Nat /\ u[i] \in Nat
    BY <1>2, <2>2
  <2>8. (r < 0 <=> i < n /\ (i < n => t[i] < u[i])) /\ (r > 0 <=> i < n /\ (i < n => u[i] < t[i]))
    BY <2>2, <2>6, <2>7
  <2> QED
    BY <1>1, <2>4, <2>5, <2>6, <2>8, SignOrders
<1> QED
  BY <1>3, <1>4

(* Where the loops of strcmp and strncmp stop.                              *)
LEMMA StopIs ==
  ASSUME Text, NEW a \in 0 .. TextSize - 1, NEW b \in 0 .. TextSize - 1
  PROVE  \E e \in Nat :
           /\ e = Stop(before, a, b) /\ e <= LengthAt(a) /\ e <= LengthAt(b)
           /\ before[a + e] = 0 \/ before[a + e] # before[b + e]
           /\ \A j \in 0 .. e - 1 : before[a + j] # 0 /\ before[a + j] = before[b + j]
<1> DEFINE stops == {i \in DOMAIN before : /\ {a + i, b + i} \subseteq DOMAIN before
                                           /\ before[a + i] = 0 \/ before[a + i] # before[b + i]}
<1>1. /\ TextSize \in Nat \ {0} /\ DOMAIN before = 0 .. TextSize - 1
      /\ LengthAt(a) \in Nat /\ a + LengthAt(a) \in 0 .. TextSize - 1 /\ before[a + LengthAt(a)] = 0
      /\ LengthAt(b) \in Nat /\ b + LengthAt(b) \in 0 .. TextSize - 1 /\ before[b + LengthAt(b)] = 0
      /\ \A i \in 0 .. LengthAt(a) - 1 : before[a + i] # 0
      /\ \A i \in 0 .. LengthAt(b) - 1 : before[b + i] # 0
  BY TextEnds, Sizes DEF Text, Memories
<1>2. PICK i \in Nat : i = LesserOf(LengthAt(a), LengthAt(b)) /\ i <= LengthAt(a) /\ i <= LengthAt(b)
  BY <1>1 DEF LesserOf
<1>3. before[a + i] = 0 \/ before[a + i] # before[b + i]
  <2>1. CASE i = LengthAt(a)
    BY <1>1, <2>1
  <2>2. CASE i # LengthAt(a)
    <3>1. i = LengthAt(b) /\ i \in 0 .. LengthAt(a) - 1
      BY <1>1, <1>2, <2>2 DEF LesserOf
    <3> QED
      BY <1>1, <3>1
  <2> QED
    BY <2>1, <2>2
<1>4. i \in stops
  BY <1>1, <1>2, <1>3
<1>5. \A j : j \in stops <=> /\ j \in 0 .. TextSize - 1 /\ a + j \in 0 .. TextSize - 1 /\ b + j \in 0 .. TextSize - 1
                             /\ before[a + j] = 0 \/ before[a + j] # before[b + j]
  BY <1>1
<1>6. PICK e \in stops : e = Smallest(stops) /\ \A j \in stops : e <= j
  <2>1. stops \in SUBSET Nat
    BY <1>1
  <2> QED
    BY <1>4, <2>1, SmallestIs
<1>7. e = Stop(before, a, b)
  BY <1>6 DEF Stop
<1> HIDE DEF stops
<1>8. e \in Nat /\ e <= i /\ (before[a + e] = 0 \/ before[a + e] # before[b + e])
  BY <1>4, <1>6, <1>5
<1>9. ASSUME NEW j \in 0 .. e - 1 PROVE before[a + j] # 0 /\ before[a + j] = before[b + j]
  <2>1. j \notin stops
    BY <1>6, <1>8, <1>9
  <2>2. j \in 0 .. TextSize - 1 /\ a + j \in 0 .. TextSize - 1 /\ b + j \in 0 .. TextSize - 1
    BY <1>1, <1>2, <1>8, <1>9
  <2> QED
    BY <1>5, <2>1, <2>2
<1>10. e <= LengthAt(a) /\ e <= LengthAt(b)
  BY <1>1, <1>2, <1>8
<1> QED
  BY <1>8, <1>9, <1>7, <1>10

(* The first n bytes of two strings are in the order of the byte where the  *)
(* loops stop, if that is among them.                                       *)
LEMMA TextsOrdered ==
  ASSUME Text, NEW a \in 0 .. TextSize - 1, NEW b \in 0 .. TextSize - 1, NEW n \in Nat
  PROVE  Orders(strncmp(before, a, b, n), Block(a, LesserOf(LengthAt(a), n)), Block(b, LesserOf(LengthAt(b), n)))
<1>1. PICK e \in Nat :
           /\ e = Stop(before, a, b) /\ e <= LengthAt(a) /\ e <= LengthAt(b)
           /\ before[a + e] = 0 \/ before[a + e] # before[b + e]
           /\ \A j \in 0 .. e - 1 : before[a + j] # 0 /\ before[a + j] = before[b + j]
  BY StopIs
<1>2. /\ TextSize \in Nat /\ before \in Memories(TextSize)
      /\ LengthAt(a) \in Nat /\ a + LengthAt(a) \in 0 .. TextSize - 1 /\ before[a + LengthAt(a)] = 0
      /\ LengthAt(b) \in Nat /\ b + LengthAt(b) \in 0 .. TextSize - 1 /\ before[b + LengthAt(b)] = 0
      /\ \A i \in 0 .. LengthAt(a) - 1 : before[a + i] # 0
      /\ \A i \in 0 .. LengthAt(b) - 1 : before[b + i] # 0
  BY TextEnds, Sizes DEF Text
<1>3. PICK p \in Nat, q \in Nat, i \in Nat :
        p = LesserOf(LengthAt(a), n) /\ q = LesserOf(LengthAt(b), n) /\ i = LesserOf(e, n)
  BY <1>2 DEF LesserOf
<1>4. i <= p /\ i <= q /\ i <= e /\ p <= LengthAt(a) /\ q <= LengthAt(b)
  BY <1>1, <1>2, <1>3 DEF LesserOf
<1>5. PICK t, u : t = Block(a, p) /\ u = Block(b, q)
  OBVIOUS
<1>6. t \in [0 .. p - 1 -> Nat] /\ u \in [0 .. q - 1 -> Nat]
  <2>1. a + p <= TextSize /\ b + q <= TextSize /\ a \in Nat /\ b \in Nat
    BY <1>2, <1>4
  <2> QED
    BY <1>2, <1>5, <2>1, BlockType
<1>7. (\A j \in 0 .. p - 1 : t[j] = before[a + j]) /\ (\A j \in 0 .. q - 1 : u[j] = before[b + j])
  BY <1>5, BlockIs
<1>8. \A j \in 0 .. i - 1 : t[j] = u[j]
  BY <1>1, <1>4, <1>7
<1>9. CASE e >= n
  <2>1. p = n /\ q = n /\ i = n
    BY <1>1, <1>2, <1>3, <1>9 DEF LesserOf
  <2>2. Differ(t, p, u, q, i)
    BY <1>6, <1>8, <2>1 DEF Differ
  <2>3. strncmp(before, a, b, n) = 0
    BY <1>1, <1>9 DEF strncmp
  <2>4. Orders(0, t, u)
    BY <2>1, <2>2, SignOrders
  <2> QED
    BY <1>3, <1>5, <2>3, <2>4
<1>10. CASE ~(e >= n)
  <2>1. i = e /\ (e < p <=> e < LengthAt(a)) /\ (e < q <=> e < LengthAt(b))
    BY <1>1, <1>2, <1>3, <1>10 DEF LesserOf
  <2>2. before[a + e] \in Nat /\ before[b + e] \in Nat
    <3>1. a + e \in 0 .. TextSize - 1 /\ b + e \in 0 .. TextSize - 1
      BY <1>1, <1>2
    <3> QED
      BY <1>2, <3>1 DEF Memories
  <2>3. (e < p => before[a + e] # 0 /\ t[e] = before[a + e]) /\ (~(e < p) => before[a + e] = 0)
    <3>1. CASE e < p
      BY <1>2, <1>7, <2>1, <3>1
    <3>2. CASE ~(e < p)
      <4>1. e = LengthAt(a)
        BY <1>1, <1>2, <2>1, <3>2
      <4> QED
        BY <1>2, <3>2, <4>1
    <3> QED
      BY <3>1, <3>2
  <2>4. (e < q => before[b + e] # 0 /\ u[e] = before[b + e]) /\ (~(e < q) => before[b + e] = 0)
    <3>1. CASE e < q
      BY <1>2, <1>7, <2>1, <3>1
    <3>2. CASE ~(e < q)
      <4>1. e = LengthAt(b)
        BY <1>1, <1>2, <2>1, <3>2
      <4> QED
        BY <1>2, <3>2, <4>1
    <3> QED
      BY <3>1, <3>2
  <2>5. Differ(t, p, u, q, e)
    <3>1. e < p /\ e < q => t[e] # u[e]
      BY <1>1, <2>3, <2>4
    <3> QED
      BY <1>4, <1>6, <1>8, <2>1, <3>1 DEF Differ
  <2>6. strncmp(before, a, b, n) = before[a + e] - before[b + e]
    BY <1>1, <1>10 DEF strncmp, strcmp
  <2>7. PICK r \in Int : r = before[a + e] - before[b + e]
    BY <2>2
  <2>8. (r < 0 <=> e < q /\ (e < p => t[e] < u[e])) /\ (r > 0 <=> e < p /\ (e < q => u[e] < t[e]))
    BY <1>1, <2>2, <2>3, <2>4, <2>7
  <2>9. Orders(r, t, u)
    BY <2>5, <2>8, SignOrders
  <2> QED
    BY <1>3, <1>5, <2>6, <2>7, <2>9
<1> QED
  BY <1>9, <1>10

(* The places that strchr and strrchr look at are those of the string.      *)
LEMMA PlacesAre ==
  ASSUME Text, NEW a \in 0 .. TextSize - 1, NEW x
  PROVE  PlacesOf(before, a, x) = {a + i : i \in {j \in DOMAIN Str(a) : Str(a)[j] = x}}
<1>1. LengthAt(a) \in Nat /\ Str(a) = Block(a, LengthAt(a))
  BY TextEnds, StrIs
<1>2. PICK t : t = Str(a)
  OBVIOUS
<1>3. DOMAIN t = 0 .. LengthAt(a) - 1 /\ \A i \in 0 .. LengthAt(a) - 1 : t[i] = before[a + i]
  BY <1>1, <1>2, BlockIs
<1> DEFINE S == {j \in DOMAIN t : t[j] = x}
           P == {i \in a .. a + LengthAt(a) - 1 : before[i] = x}
<1>4. \A j : j \in S <=> j \in 0 .. LengthAt(a) - 1 /\ before[a + j] = x
  BY <1>3
<1>5. \A i : i \in P <=> i \in a .. a + LengthAt(a) - 1 /\ before[i] = x
  OBVIOUS
<1>6. PlacesOf(before, a, x) = P
  BY DEF PlacesOf, LengthAt
<1> HIDE DEF S, P
<1>7. ASSUME NEW i \in P PROVE i \in {a + j : j \in S}
  <2>1. i - a \in 0 .. LengthAt(a) - 1 /\ a + (i - a) = i
    BY <1>1, <1>5
  <2>2. i - a \in S
    BY <1>4, <1>5, <2>1
  <2> QED
    BY <2>1, <2>2
<1>8. ASSUME NEW j \in S PROVE a + j \in P
  <2>1. a + j \in a .. a + LengthAt(a) - 1
    BY <1>1, <1>4
  <2> QED
    BY <1>4, <1>5, <2>1
<1>9. P = {a + j : j \in S}
  BY <1>7, <1>8
<1> QED
  BY <1>2, <1>6, <1>9 DEF S

(* strchr finds the first of them, strrchr the last one.                    *)
LEMMA StrchrFinds ==
  ASSUME Text, NEW a \in 0 .. TextSize - 1, NEW x
  PROVE  /\ strchr(before, a, x) = FirstOf({a + i : i \in {j \in DOMAIN Str(a) : Str(a)[j] = x}})
         /\ strrchr(before, a, x) = LastOf({a + i : i \in {j \in DOMAIN Str(a) : Str(a)[j] = x}})
<1>1. PICK P : P = PlacesOf(before, a, x)
  OBVIOUS
<1>2. strchr(before, a, x) = FirstOf(P)
  BY <1>1 DEF strchr, FirstOf, Smallest
<1>3. strrchr(before, a, x) = LastOf(P)
  BY <1>1 DEF strrchr, LastOf
<1> QED
  BY <1>1, <1>2, <1>3, PlacesAre

(* A string occurs at a place if the loop of strstr stops there at its end.  *)
LEMMA StopsAtEnd ==
  ASSUME Text, NEW h \in 0 .. TextSize - 1, NEW nd \in 0 .. TextSize - 1, NEW j \in 0 .. LengthAt(h) - 1
  PROVE  Stop(before, nd, h + j) = LengthAt(nd) <=> Occurs(Str(nd), j, Str(h))
<1>1. /\ TextSize \in Nat
      /\ LengthAt(h) \in Nat /\ h + LengthAt(h) \in 0 .. TextSize - 1 /\ before[h + LengthAt(h)] = 0
      /\ LengthAt(nd) \in Nat /\ nd + LengthAt(nd) \in 0 .. TextSize - 1 /\ before[nd + LengthAt(nd)] = 0
      /\ \A i \in 0 .. LengthAt(h) - 1 : before[h + i] # 0
      /\ \A i \in 0 .. LengthAt(nd) - 1 : before[nd + i] # 0
  BY TextEnds, Sizes
<1>2. PICK b \in 0 .. TextSize - 1 : b = h + j
  BY <1>1
<1>3. /\ LengthAt(b) \in Nat /\ b + LengthAt(b) \in 0 .. TextSize - 1 /\ before[b + LengthAt(b)] = 0
      /\ \A i \in 0 .. LengthAt(b) - 1 : before[b + i] # 0
  BY TextEnds
<1>4. j + LengthAt(b) = LengthAt(h)
  <2>1. ~(j + LengthAt(b) < LengthAt(h))
    <3>1. SUFFICES ASSUME j + LengthAt(b) < LengthAt(h) PROVE FALSE
      OBVIOUS
    <3>2. j + LengthAt(b) \in 0 .. LengthAt(h) - 1 /\ h + (j + LengthAt(b)) = b + LengthAt(b)
      BY <1>1, <1>2, <1>3, <3>1
    <3> QED
      BY <1>1, <1>3, <3>2
  <2>2. ~(LengthAt(h) < j + LengthAt(b))
    <3>1. SUFFICES ASSUME LengthAt(h) < j + LengthAt(b) PROVE FALSE
      OBVIOUS
    <3>2. LengthAt(h) - j \in 0 .. LengthAt(b) - 1 /\ b + (LengthAt(h) - j) = h + LengthAt(h)
      BY <1>1, <1>2, <1>3, <3>1
    <3> QED
      BY <1>1, <1>3, <3>2
  <2> QED
    BY <1>1, <1>3, <2>1, <2>2
<1>5. PICK e \in Nat :
        /\ e = Stop(before, nd, b) /\ e <= LengthAt(nd) /\ e <= LengthAt(b)
        /\ before[nd + e] = 0 \/ before[nd + e] # before[b + e]
        /\ \A i \in 0 .. e - 1 : before[nd + i] # 0 /\ before[nd + i] = before[b + i]
  BY StopIs
<1>6. PICK t, u : t = Str(h) /\ u = Str(nd)
  OBVIOUS
<1>7. /\ DOMAIN t = 0 .. LengthAt(h) - 1 /\ \A i \in 0 .. LengthAt(h) - 1 : t[i] = before[h + i]
      /\ DOMAIN u = 0 .. LengthAt(nd) - 1 /\ \A i \in 0 .. LengthAt(nd) - 1 : u[i] = before[nd + i]
  <2>1. t = Block(h, LengthAt(h)) /\ u = Block(nd, LengthAt(nd))
    BY <1>6, StrIs
  <2> QED
    BY <1>1, <2>1, BlockIs
<1>8. Occurs(u, j, t) <=> \A i \in DOMAIN u : j + i \in DOMAIN t /\ t[j + i] = u[i]
  BY DEF Occurs
<1>9. ASSUME e = LengthAt(nd), NEW i \in DOMAIN u
      PROVE  j + i \in DOMAIN t /\ t[j + i] = u[i]
  <2>1. j + i \in 0 .. LengthAt(h) - 1 /\ h + (j + i) = b + i
    <3>1. i \in 0 .. LengthAt(nd) - 1 /\ LengthAt(nd) <= LengthAt(b)
      BY <1>5, <1>7, <1>9
    <3> QED
      BY <1>1, <1>2, <1>3, <1>4, <3>1
  <2>2. before[nd + i] = before[b + i]
    BY <1>5, <1>7, <1>9
  <2> QED
    BY <1>7, <2>1, <2>2
<1>10. ASSUME \A i \in DOMAIN u : j + i \in DOMAIN t /\ t[j + i] = u[i]
       PROVE  e = LengthAt(nd)
  <2>1. SUFFICES ASSUME e # LengthAt(nd) PROVE FALSE
    OBVIOUS
  <2>2. e \in 0 .. LengthAt(nd) - 1
    BY <1>1, <1>5, <2>1
  <2>3. j + e \in 0 .. LengthAt(h) - 1 /\ t[j + e] = u[e] /\ h + (j + e) = b + e
    BY <1>2, <1>7, <1>10, <2>2
  <2>4. before[b + e] = before[nd + e] /\ before[nd + e] # 0
    BY <1>1, <1>7, <2>2, <2>3
  <2> QED
    BY <1>5, <2>4
<1> QED
  BY <1>2, <1>5, <1>6, <1>8, <1>9, <1>10

(* strstr finds the first occurrence. *)
LEMMA StrstrFinds ==
  ASSUME Text, NEW h \in 0 .. TextSize - 1, NEW nd \in 0 .. TextSize - 1
  PROVE  strstr(before, h, nd)
           = FirstOf({h + i : i \in {j \in 0 .. Length(Str(h)) : Occurs(Str(nd), j, Str(h))}})
<1>1. LengthAt(h) \in Nat /\ LengthAt(nd) \in Nat /\ Length(Str(h)) = LengthAt(h)
  BY TextEnds, StrIs, BlockIs
<1>2. PICK t, u : t = Str(h) /\ u = Str(nd)
  OBVIOUS
<1>3. DOMAIN u = 0 .. LengthAt(nd) - 1 /\ DOMAIN t = 0 .. LengthAt(h) - 1
  BY <1>1, <1>2, StrIs, BlockIs
<1> DEFINE S == {j \in 0 .. LengthAt(h) : Occurs(u, j, t)}
           P == {h + i : i \in S}
<1>4. CASE LengthAt(nd) = 0
  <2>1. DOMAIN u = {}
    BY <1>3, <1>4
  <2>2. \A j \in 0 .. LengthAt(h) : j \in S
    BY <2>1 DEF Occurs
  <2>3. h \in P
    <3>1. 0 \in S /\ h + 0 = h
      BY <1>1, <2>2
    <3> QED
      BY <3>1
  <2>4. \A y \in P : y \in Nat /\ h <= y
    BY <1>1
  <2> HIDE DEF P
  <2>5. \A x \in P : (\A y \in P : x <= y) <=> x = h
    BY <2>3, <2>4
  <2>6. FirstOf(P) = h
    <3>1. FirstOf(P) = CHOOSE x \in P : \A y \in P : x <= y
      BY <2>3 DEF FirstOf
    <3>2. PICK x \in P : x = FirstOf(P) /\ \A y \in P : x <= y
      BY <2>3, <2>5, <3>1
    <3> QED
      BY <2>5, <3>2
  <2>7. strstr(before, h, nd) = h
    BY <1>4 DEF strstr, LengthAt
  <2> QED
    BY <1>1, <1>2, <2>6, <2>7 DEF P
<1>5. CASE LengthAt(nd) # 0
  <2> DEFINE found == {i \in Starts(before, h) : Stop(before, nd, i) = strlen(before, nd)}
  <2>1. \A i : i \in found <=> i \in h .. h + LengthAt(h) - 1 /\ Stop(before, nd, i) = LengthAt(nd)
    BY DEF Starts, LengthAt
  <2>2. \A j : j \in S <=> j \in 0 .. LengthAt(h) - 1 /\ Stop(before, nd, h + j) = LengthAt(nd)
    <3>1. ASSUME NEW j \in S PROVE j \in 0 .. LengthAt(h) - 1
      <4>1. 0 \in DOMAIN u
        BY <1>1, <1>3, <1>5
      <4>2. Occurs(u, j, t) /\ j \in Nat
        BY <1>1, <3>1
      <4>3. 0 + j \in DOMAIN t
        BY <4>1, <4>2 DEF Occurs
      <4> QED
        BY <1>1, <1>3, <4>2, <4>3
    <3>2. ASSUME NEW j \in 0 .. LengthAt(h) - 1
          PROVE  j \in S <=> Stop(before, nd, h + j) = LengthAt(nd)
      <4>1. j \in S <=> Occurs(u, j, t)
        BY <1>1
      <4> QED
        BY <1>2, <4>1, StopsAtEnd
    <3> QED
      BY <3>1, <3>2
  <2>3. strstr(before, h, nd) = FirstOf(found)
    <3>1. strstr(before, h, nd) = IF found = {} THEN Null ELSE Smallest(found)
      BY <1>5 DEF strstr, LengthAt
    <3> HIDE DEF found
    <3> QED
      BY <3>1 DEF FirstOf, Smallest
  <2> HIDE DEF found, S
  <2>4. ASSUME NEW i \in found PROVE i \in P
    <3>1. i - h \in 0 .. LengthAt(h) - 1 /\ h + (i - h) = i
      BY <1>1, <2>1
    <3>2. i - h \in S
      BY <2>1, <2>2, <3>1
    <3> QED
      BY <3>1, <3>2
  <2>5. ASSUME NEW j \in S PROVE h + j \in found
    <3>1. h + j \in h .. h + LengthAt(h) - 1
      BY <1>1, <2>2
    <3> QED
      BY <2>1, <2>2, <3>1
  <2>6. found = P
    BY <2>4, <2>5
  <2> QED
    BY <1>1, <1>2, <2>3, <2>6 DEF S
<1> QED
  BY <1>4, <1>5

(* A call of the program, and what it has returned.                         *)
LegalCall ==
  \/ strCall \in MemCalls /\ before \in Memories(MemSize)
  \/ /\ strCall \in TextCalls /\ Text
     /\ strCall.fn \in {"strcpy", "strncpy", "strlcpy"} => MayCopy(before, strCall)

StringInv ==
  /\ LegalCall
  /\ returned # <<>> =>
       after = MemoryAfter(before, strCall) /\ returned[1] = Answered(before, strCall)

(* The call is legal and has returned what the function does.               *)
LEMMA StringInductive ==
  /\ StringInit => StringInv
  /\ StringInv /\ [StringReturn]_stringVars => StringInv'
<1>1. ASSUME StringInit PROVE StringInv
  <2>1. strCall \in MemCalls /\ before \in Image => before \in Memories(MemSize)
    BY StringAssumption DEF Memories
  <2>2. before \in {m \in [0 .. TextSize - 1 -> Char] : m[TextSize - 1] = 0} => Text
    BY StringAssumption DEF Memories, Text
  <2>3. LegalCall
    BY <1>1, <2>1, <2>2 DEF StringInit, LegalCall
  <2> QED
    BY <1>1, <2>3 DEF StringInit, StringInv
<1>2. ASSUME StringInv, StringReturn PROVE StringInv'
  <2>1. strCall' = strCall /\ before' = before
    BY <1>2 DEF StringReturn
  <2>2. LegalCall'
    BY <1>2, <2>1 DEF StringInv, LegalCall, Text
  <2>3. after' = MemoryAfter(before, strCall) /\ returned'[1] = Answered(before, strCall)
    BY <1>2 DEF StringReturn
  <2> QED
    BY <2>1, <2>2, <2>3 DEF StringInv
<1>3. ASSUME StringInv, UNCHANGED stringVars PROVE StringInv'
  BY <1>3 DEF stringVars, StringInv, LegalCall, Text
<1> QED
  BY <1>1, <1>2, <1>3

(* memcpy, memmove, memset and memcmp. *)
LEMMA MemCallsKeep ==
  ASSUME StringInv, returned # <<>>, strCall \in MemCalls, before \in Memories(MemSize)
  PROVE  StringsKeepContracts
<1> DEFINE c == strCall
<1>1. /\ c.a \in Nat /\ c.b \in Nat /\ c.n \in Nat /\ MemSize \in Nat
      /\ c.a + c.n <= MemSize /\ c.b + c.n <= MemSize
      /\ c.fn \in {"memcpy", "memmove", "memset", "memcmp"}
      /\ c.fn = "memcpy" => Disjoint(c.a, c.n, c.b, c.n)
  BY Sizes DEF MemCalls
<1>2. after = MemoryAfter(before, c) /\ returned[1] = Answered(before, c)
  BY DEF StringInv
<1>3. PICK M : M = MemSize /\ Within(M, before, c.a, c.b, c.n)
  BY <1>1 DEF Within
<1>4. CASE c.fn = "memcpy"
  <2>1. after = Moved(before, c.a, c.b, c.n)
    BY <1>1, <1>2, <1>3, <1>4, MemcpyMoves DEF MemoryAfter
  <2> QED
    BY <1>3, <1>4, <2>1, MovedArePlaced DEF StringsKeepContracts
<1>5. CASE c.fn = "memmove"
  <2>1. after = memmove(before, c.a, c.b, c.n)
    BY <1>2, <1>5 DEF MemoryAfter
  <2>2. after = Moved(before, c.a, c.b, c.n)
    <3>1. CASE c.a <= c.b
      BY <1>3, <2>1, <3>1, UpwardMoves DEF memmove
    <3>2. CASE ~(c.a <= c.b)
      <4>1. c.b < c.a
        BY <1>1, <3>2
      <4> QED
        BY <1>3, <2>1, <3>2, <4>1, DownwardMoves DEF memmove
    <3> QED
      BY <3>1, <3>2
  <2> QED
    BY <1>3, <1>5, <2>2, MovedArePlaced DEF StringsKeepContracts
<1>6. CASE c.fn = "memset"
  <2>1. after = memset(before, c.a, 0, c.n)
    BY <1>2, <1>6 DEF MemoryAfter
  <2>2. Placed(c.a, [i \in 0 .. c.n - 1 |-> 0])
    BY <1>1, <2>1, MemsetPlaces
  <2> QED
    BY <1>6, <2>2 DEF StringsKeepContracts
<1>7. CASE c.fn = "memcmp"
  <2>1. returned[1] = memcmp(before, c.a, c.b, c.n)
    BY <1>2, <1>7 DEF Answered
  <2>2. Orders(returned[1], Block(c.a, c.n), Block(c.b, c.n))
    BY <1>1, <2>1, MemcmpOrders
  <2> QED
    BY <1>7, <2>2 DEF StringsKeepContracts
<1> QED
  BY <1>1, <1>4, <1>5, <1>6, <1>7

(* The functions on strings that write. *)
LEMMA TextCopiesKeep ==
  ASSUME StringInv, returned # <<>>, strCall \in TextCalls, Text, MayCopy(before, strCall),
         strCall.fn \in {"strcpy", "strncpy", "strlcpy"}
  PROVE  StringsKeepContracts
<1> DEFINE c == strCall
<1>1. c.a \in 0 .. TextSize - 1 /\ c.b \in 0 .. TextSize - 1 /\ c.n \in Nat
  BY Sizes DEF TextCalls
<1>2. after = MemoryAfter(before, c) /\ returned[1] = Answered(before, c)
  BY DEF StringInv
<1>3. /\ c.a + c.n <= TextSize /\ Disjoint(c.a, c.n, c.b, LengthAt(c.b) + 1)
      /\ c.fn = "strcpy" => /\ c.a + LengthAt(c.b) < TextSize
                            /\ Disjoint(c.a, LengthAt(c.b) + 1, c.b, LengthAt(c.b) + 1)
  BY DEF MayCopy, LengthAt
<1>4. CASE c.fn = "strcpy"
  <2>1. after = strcpy(before, c.a, c.b)
    BY <1>2, <1>4 DEF MemoryAfter
  <2>2. Placed(c.a, Filled(Str(c.b), Length(Str(c.b)) + 1))
    BY <1>1, <1>3, <1>4, <2>1, StrcpyPlaces
  <2> QED
    BY <1>4, <2>2 DEF StringsKeepContracts
<1>5. CASE c.fn = "strncpy"
  <2>1. after = strncpy(before, c.a, c.b, c.n)
    BY <1>2, <1>5 DEF MemoryAfter
  <2>2. Placed(c.a, Filled(Str(c.b), c.n))
    BY <1>1, <1>3, <2>1, StrncpyPlaces
  <2> QED
    BY <1>5, <2>2 DEF StringsKeepContracts
<1>6. CASE c.fn = "strlcpy"
  <2>1. after = strlcpy(before, c.a, c.b, c.n) /\ returned[1] = LengthAt(c.b)
    BY <1>2, <1>6 DEF MemoryAfter, Answered, LengthAt
  <2>2. PICK kept : kept = Beginning(Str(c.b), c.n - 1)
    OBVIOUS
  <2>3. /\ Placed(c.a, IF c.n = 0 THEN Block(0, 0) ELSE Filled(kept, Length(kept) + 1))
        /\ LengthAt(c.b) < c.n <=> c.n > 0 /\ kept = Str(c.b)
    BY <1>1, <1>3, <2>1, <2>2, StrlcpyPlaces
  <2> QED
    BY <1>6, <2>1, <2>2, <2>3 DEF StringsKeepContracts
<1> QED
  BY <1>4, <1>5, <1>6

(* The functions on strings that compare and search. *)
LEMMA TextSearchesKeep ==
  ASSUME StringInv, returned # <<>>, strCall \in TextCalls, Text,
         strCall.fn \notin {"strcpy", "strncpy", "strlcpy"}
  PROVE  StringsKeepContracts
<1> DEFINE c == strCall
<1>1. /\ c.a \in 0 .. TextSize - 1 /\ (c.fn \notin {"strchr", "strrchr"} => c.b \in 0 .. TextSize - 1)
      /\ c.fn = "strncmp" => c.n \in Nat
      /\ c.fn \in {"strcmp", "strncmp", "strchr", "strrchr", "strstr"}
  BY Sizes DEF TextCalls
<1>2. returned[1] = Answered(before, c)
  BY DEF StringInv
<1>3. CASE c.fn = "strcmp"
  <2>1. returned[1] = strcmp(before, c.a, c.b)
    BY <1>2, <1>3 DEF Answered
  <2>2. c.b \in 0 .. TextSize - 1
    BY <1>1, <1>3
  <2>3. /\ TextSize \in Nat /\ LengthAt(c.a) <= TextSize /\ LengthAt(c.b) <= TextSize
        /\ LengthAt(c.a) \in Nat /\ LengthAt(c.b) \in Nat /\ LengthAt(c.a) < TextSize
    <3>1. PICK x \in 0 .. TextSize - 1, y \in 0 .. TextSize - 1 : x = c.a /\ y = c.b
      BY <1>1, <2>2
    <3>2. LengthAt(x) \in Nat /\ x + LengthAt(x) \in 0 .. TextSize - 1
      BY TextEnds
    <3>3. LengthAt(y) \in Nat /\ y + LengthAt(y) \in 0 .. TextSize - 1
      BY TextEnds
    <3> QED
      BY <3>1, <3>2, <3>3, Sizes
  <2>4. Stop(before, c.a, c.b) \in Nat /\ Stop(before, c.a, c.b) <= LengthAt(c.a)
    BY <1>1, <2>2, StopIs
  <2>5. strcmp(before, c.a, c.b) = strncmp(before, c.a, c.b, TextSize)
    BY <2>3, <2>4 DEF strncmp
  <2>6. LesserOf(LengthAt(c.a), TextSize) = LengthAt(c.a) /\ LesserOf(LengthAt(c.b), TextSize) = LengthAt(c.b)
    BY <2>3 DEF LesserOf
  <2>7. Orders(strncmp(before, c.a, c.b, TextSize), Block(c.a, LengthAt(c.a)), Block(c.b, LengthAt(c.b)))
    <3>1. PICK n \in Nat : n = TextSize
      BY <2>3
    <3> QED
      BY <1>1, <2>2, <2>6, <3>1, TextsOrdered
  <2>8. Orders(returned[1], Str(c.a), Str(c.b))
    BY <1>1, <2>1, <2>2, <2>5, <2>7, StrIs
  <2> QED
    BY <1>3, <2>8 DEF StringsKeepContracts
<1>4. CASE c.fn = "strncmp"
  <2>1. returned[1] = strncmp(before, c.a, c.b, c.n)
    BY <1>2, <1>4 DEF Answered
  <2>2. c.b \in 0 .. TextSize - 1 /\ c.n \in Nat
    BY <1>1, <1>4
  <2>3. Orders(returned[1], Block(c.a, LesserOf(LengthAt(c.a), c.n)), Block(c.b, LesserOf(LengthAt(c.b), c.n)))
    BY <1>1, <2>1, <2>2, TextsOrdered
  <2>4. /\ Beginning(Str(c.a), c.n) = Block(c.a, LesserOf(LengthAt(c.a), c.n))
        /\ Beginning(Str(c.b), c.n) = Block(c.b, LesserOf(LengthAt(c.b), c.n))
    BY <1>1, <2>2, BeginningIs
  <2> QED
    BY <1>4, <2>3, <2>4 DEF StringsKeepContracts
<1>5. CASE c.fn = "strchr"
  <2>1. returned[1] = strchr(before, c.a, c.n)
    BY <1>2, <1>5 DEF Answered
  <2>2. strchr(before, c.a, c.n) = FirstOf({c.a + i : i \in {j \in DOMAIN Str(c.a) : Str(c.a)[j] = c.n}})
    BY <1>1, StrchrFinds
  <2> QED
    BY <1>5, <2>1, <2>2 DEF StringsKeepContracts
<1>6. CASE c.fn = "strrchr"
  <2>1. returned[1] = strrchr(before, c.a, c.n)
    BY <1>2, <1>6 DEF Answered
  <2>2. strrchr(before, c.a, c.n) = LastOf({c.a + i : i \in {j \in DOMAIN Str(c.a) : Str(c.a)[j] = c.n}})
    BY <1>1, StrchrFinds
  <2> QED
    BY <1>6, <2>1, <2>2 DEF StringsKeepContracts
<1>7. CASE c.fn = "strstr"
  <2>1. returned[1] = strstr(before, c.a, c.b)
    BY <1>2, <1>7 DEF Answered
  <2>2. strstr(before, c.a, c.b)
          = FirstOf({c.a + i : i \in {j \in 0 .. Length(Str(c.a)) : Occurs(Str(c.b), j, Str(c.a))}})
    BY <1>1, <1>7, StrstrFinds
  <2> QED
    BY <1>7, <2>1, <2>2 DEF StringsKeepContracts
<1> QED
  BY <1>1, <1>3, <1>4, <1>5, <1>6, <1>7

(* The result of every legal call is as promised.                           *)
LEMMA InvKeepsContracts == StringInv => StringsKeepContracts
<1> SUFFICES ASSUME StringInv PROVE StringsKeepContracts
  OBVIOUS
<1>1. CASE returned = <<>>
  BY <1>1 DEF StringsKeepContracts
<1>2. CASE returned # <<>>
  BY <1>2, MemCallsKeep, TextCopiesKeep, TextSearchesKeep DEF StringInv, LegalCall
<1> QED
  BY <1>1, <1>2

(* Copies leave what was read, also of overlapping blocks and by words      *)
(* (string/mem.c: memcpy, memmove); comparisons follow the order of texts    *)
(* and searches find the first, or last, place (string/str.c).               *)
THEOREM StringContractsHold == StringSpec => []StringsKeepContracts
BY InvKeepsContracts, StringInductive, PTL DEF StringSpec

-----------------------------------------------------------------------------
(* What is still to be put out, and where: the buffer is written at pos,    *)
(* which runs ahead of the size, and nothing is put out after the return.   *)
StdioTypes ==
  /\ printCall.to \in Target
  /\ items \in Seq(Item) /\ todo \in Seq(STRING) /\ said \in Seq(STRING)
  /\ pos \in Nat /\ count \in Nat
  /\ DOMAIN buf = BufAddr
  /\ printed # <<>> => items = <<>> /\ todo = <<>>

StdioInv == StdioTypes /\ BufferHoldsBeginning

(* The size of a buffer is a natural.                                       *)
LEMMA TargetSizes == ASSUME StdioInv PROVE printCall.to.size \in Nat
BY StdioAssumption DEF StdioInv, StdioTypes

(* A conversion is read: nothing is put out yet. *)
LEMMA NextItemStep == ASSUME StdioInv, NextItem PROVE StdioInv'
<1>1. /\ Head(items) \in Item /\ Tail(items) \in Seq(Item)
  BY HeadTailProperties DEF StdioInv, StdioTypes, NextItem
<1>2. todo' \in Seq(STRING)
  BY <1>1, OutputAssumption DEF NextItem
<1>3. printed' = <<>>
  BY DEF StdioInv, StdioTypes, NextItem
<1>4. StdioTypes'
  BY <1>1, <1>2, <1>3 DEF StdioInv, StdioTypes, NextItem
<1>5. BufferHoldsBeginning'
  BY DEF StdioInv, BufferHoldsBeginning, NextItem, Kept, Bounded
<1> QED
  BY <1>4, <1>5 DEF StdioInv

(* A character is put out, into the buffer if it is not full. *)
LEMMA OutcStep == ASSUME StdioInv, linx_outc PROVE StdioInv'
<1>1. /\ Head(todo) \in STRING /\ Tail(todo) \in Seq(STRING)
  BY HeadTailProperties DEF StdioInv, StdioTypes, linx_outc
<1>2. /\ said' \in Seq(STRING) /\ Len(said') = Len(said) + 1
      /\ said'[Len(said) + 1] = Head(todo)
      /\ \A i \in 1 .. Len(said) : said'[i] = said[i]
  BY <1>1, AppendProperties DEF StdioInv, StdioTypes, linx_outc
<1>3. printed = <<>> /\ printed' = <<>>
  BY DEF StdioInv, StdioTypes, linx_outc
<1>4. StdioTypes'
  BY <1>1, <1>2, <1>3 DEF StdioInv, StdioTypes, linx_outc
<1>5. Len(said) \in Nat /\ printCall.to.size \in Nat /\ printCall' = printCall
  BY TargetSizes, LenProperties DEF StdioInv, StdioTypes, linx_outc
<1>6. count' = Len(said') /\ (printCall'.to.kind # "uart" => pos' = Len(said'))
  BY <1>2, <1>5 DEF StdioInv, BufferHoldsBeginning, linx_outc
<1>7. ASSUME NEW a \in BufAddr
      PROVE  buf'[a] = IF a < Kept' THEN said'[a + 1] ELSE Untouched
  <2>1. a \in Nat
    BY StdioAssumption
  <2>2. buf[a] = IF a < Kept THEN said[a + 1] ELSE Untouched
    BY <1>3 DEF StdioInv, BufferHoldsBeginning
  <2>3. CASE ~Bounded
    BY <2>1, <2>2, <2>3, <1>5 DEF Bounded, Kept, BufferHasRoom, linx_outc
  <2>4. CASE Bounded
    <3>1. pos = Len(said) /\ pos' = pos + 1
      BY <2>4, <1>5 DEF StdioInv, BufferHoldsBeginning, Bounded, linx_outc
    <3>2. CASE BufferHasRoom
      <4>1. /\ buf' = [buf EXCEPT ![pos] = Head(todo)]
            /\ Kept = pos /\ Kept' = pos + 1
        BY <2>4, <3>1, <3>2, <1>5 DEF BufferHasRoom, Bounded, Kept, linx_outc
      <4>2. CASE a = pos
        BY <4>1, <4>2, <3>1, <1>2, <1>5 DEF StdioInv, StdioTypes
      <4>3. CASE a # pos
        BY <4>1, <4>3, <3>1, <1>2, <1>5, <2>1, <2>2
      <4> QED
        BY <4>2, <4>3
    <3>3. CASE ~BufferHasRoom
      <4>1. buf' = buf /\ Kept = printCall.to.size - 1 /\ Kept' = printCall.to.size - 1 /\ Kept <= pos
        BY <2>4, <3>1, <3>3, <1>5 DEF BufferHasRoom, Bounded, Kept, linx_outc
      <4> QED
        BY <4>1, <3>1, <1>2, <1>5, <2>1, <2>2
    <3> QED
      BY <3>2, <3>3
  <2> QED
    BY <2>3, <2>4
<1>8. BufferHoldsBeginning'
  BY <1>3, <1>6, <1>7 DEF BufferHoldsBeginning
<1> QED
  BY <1>4, <1>8 DEF StdioInv

(* The terminator follows what the buffer has taken. *)
LEMMA ReturnStep == ASSUME StdioInv, PrintReturn PROVE StdioInv'
<1>1. StdioTypes'
  BY DEF StdioInv, StdioTypes, PrintReturn
<1>2. /\ printCall' = printCall /\ pos' = pos /\ said' = said /\ count' = count
      /\ printed = <<>> /\ printed' # <<>> /\ Kept' = Kept /\ Bounded' = Bounded
  BY DEF PrintReturn, Kept, Bounded
<1>3. ASSUME NEW a \in BufAddr
      PROVE  buf'[a] = IF a < Kept THEN said[a + 1]
                       ELSE IF Bounded /\ a = Kept THEN Terminator ELSE Untouched
  <2>1. a \in Nat /\ a \in DOMAIN buf
    BY StdioAssumption DEF StdioInv, StdioTypes
  <2>2. buf[a] = IF a < Kept THEN said[a + 1] ELSE Untouched
    BY <1>2 DEF StdioInv, BufferHoldsBeginning
  <2>3. CASE Bounded
    <3>1. buf' = [buf EXCEPT ![Kept] = Terminator]
      BY <2>3 DEF Bounded, PrintReturn, Term, Kept
    <3>2. Kept \in Nat
      BY <2>3, TargetSizes DEF StdioInv, StdioTypes, Kept, Bounded
    <3> QED
      BY <2>1, <2>2, <2>3, <3>1, <3>2
  <2>4. CASE ~Bounded
    BY <2>1, <2>2, <2>4 DEF Bounded, PrintReturn
  <2> QED
    BY <2>3, <2>4
<1>4. BufferHoldsBeginning'
  BY <1>2, <1>3 DEF StdioInv, BufferHoldsBeginning
<1> QED
  BY <1>1, <1>4 DEF StdioInv

(* The call begins with an untouched buffer.                                *)
LEMMA StdioBegins == StdioInit => StdioInv
<1> SUFFICES ASSUME StdioInit PROVE StdioInv
  OBVIOUS
<1>1. printCall.to \in Target /\ printCall.format \in Seq(Item)
  BY StdioAssumption DEF StdioInit
<1>2. StdioTypes
  BY <1>1 DEF StdioInit, StdioTypes
<1>3. printCall.to.size \in Nat
  BY <1>1, StdioAssumption
<1>4. Kept = 0
  BY <1>3 DEF StdioInit, Kept, Bounded
<1>5. \A a \in BufAddr : a \in Nat /\ buf[a] = Untouched
  BY StdioAssumption DEF StdioInit
<1>6. BufferHoldsBeginning
  BY <1>4, <1>5 DEF StdioInit, BufferHoldsBeginning
<1> QED
  BY <1>2, <1>6 DEF StdioInv

(* Every step keeps the buffer as it should be.                             *)
LEMMA StdioKept == StdioInv /\ [StdioNext]_stdioVars => StdioInv'
<1>1. ASSUME StdioInv, UNCHANGED stdioVars PROVE StdioInv'
  BY <1>1 DEF stdioVars, StdioInv, StdioTypes, BufferHoldsBeginning, Kept, Bounded
<1> QED
  BY <1>1, NextItemStep, OutcStep, ReturnStep DEF StdioNext

(* However long the output, the buffer holds its beginning and a terminator *)
(* and no byte outside its size is written.                                 *)
THEOREM BuffersHold == StdioSpec => []BufferHoldsBeginning
<1>1. StdioInv => BufferHoldsBeginning
  BY DEF StdioInv
<1> QED
  BY <1>1, StdioBegins, StdioKept, PTL DEF StdioSpec
=============================================================================
