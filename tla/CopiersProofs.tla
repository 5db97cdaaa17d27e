---------------------------- MODULE CopiersProofs ----------------------------
(***************************************************************************)
(* Proofs about Copiers, for messages of any size, any number of threads   *)
(* and vectors of any size.                                                *)
(***************************************************************************)
EXTENDS Copiers, TLAPS

-----------------------------------------------------------------------------
(* Arithmetic                                                              *)

(* Quotient and remainder.                                                 *)
LEMMA DivMod ==
  ASSUME NEW n \in Nat, NEW d \in Nat \ {0}
  PROVE  /\ n \div d \in Nat /\ n % d \in 0 .. d - 1
         /\ n = (n \div d) * d + (n % d)
  BY Z3

(* The quotient is the only number with its property.                      *)
LEMMA DivUnique ==
  ASSUME NEW n \in Nat, NEW d \in Nat \ {0}, NEW q \in Nat, q * d <= n, n < (q + 1) * d
  PROVE  n \div d = q
  BY Z3

(* Products of numbers compare as the numbers do.                          *)
LEMMA Products ==
  /\ \A a, b, d \in Nat : a <= b => a * d <= b * d
  /\ \A a, b \in Nat, d \in Nat \ {0} : a * d < b * d => a < b
  BY Z3

(* Rounding up to whole units of a: the least number of them that is       *)
(* enough for n.                                                           *)
Up(n, a) == (n + a - 1) \div a

LEMMA RoundUp ==
  ASSUME NEW n \in Nat, NEW a \in Nat \ {0}
  PROVE  /\ Up(n, a) \in Nat /\ SHMALIGN(n, a) = Up(n, a) * a
         /\ n <= Up(n, a) * a /\ Up(n, a) * a < n + a
         /\ \A k \in Nat : n <= k * a => Up(n, a) <= k
<1>1. n + a - 1 \in Nat
  OBVIOUS
<1>. DEFINE u == Up(n, a)
            r == (n + a - 1) % a
<1>2. u \in Nat /\ r \in 0 .. a - 1 /\ n + a - 1 = u * a + r
  BY <1>1, DivMod DEF Up
<1>3. SHMALIGN(n, a) = u * a
  BY DEF SHMALIGN, Up
<1>. HIDE DEF u, r
<1>4. u * a \in Nat
  BY <1>2
<1>5. n <= u * a /\ u * a < n + a
  BY <1>2, <1>4
<1>6. ASSUME NEW k \in Nat, n <= k * a PROVE u <= k
  <2>1. k * a \in Nat /\ (k + 1) * a = k * a + a
    OBVIOUS
  <2>2. u * a < (k + 1) * a
    BY <1>5, <1>6, <2>1, <1>4
  <2>3. u < k + 1
    BY <2>2, <1>2, Products
  <2>. QED
    BY <2>3, <1>2
<1>. QED
  BY <1>2, <1>3, <1>5, <1>6 DEF u

(* What the base copiers look like.                                        *)
LEMMA BaseFacts ==
  ASSUME NEW base \in BaseCopiers
  PROVE  /\ base.vec \in Nat \ {0} /\ base.group \in {1, 2, 4}
         /\ base.tail \in BOOLEAN /\ base.stream \in BOOLEAN
         /\ base.group = 1 => base.tail = FALSE
<1>1. \E vec \in {1, VecBytes} :
        \/ base = Base(vec, 1, FALSE, FALSE) \/ base = Base(vec, 1, FALSE, TRUE)
        \/ base = Base(vec, 2, TRUE, TRUE) \/ base = Base(vec, 4, FALSE, FALSE)
        \/ base = Base(vec, 4, FALSE, TRUE) \/ base = Base(vec, 4, TRUE, TRUE)
  BY DEF BaseCopiers, DefaultCopier, RepMovsbCopier, AvxCopier, AvxAsyncCopier,
         AvxAsyncPFCopier, AvxUnrollCopier, AvxAsyncUnrollCopier, AvxAsyncPFUnrollCopier
<1>3. /\ base.vec \in {1, VecBytes} /\ base.group \in {1, 2, 4}
      /\ base.tail \in {TRUE, FALSE} /\ base.stream \in {TRUE, FALSE}
      /\ base.tail = FALSE \/ base.group = 2 \/ base.group = 4
  <2>1. PICK vec \in {1, VecBytes}, group \in {1, 2, 4},
             tail \in {TRUE, FALSE}, stream \in {TRUE, FALSE} :
          /\ base = Base(vec, group, tail, stream)
          /\ tail = FALSE \/ group = 2 \/ group = 4
    BY <1>1, Zenon
  <2>3. base = Base(vec, group, tail, stream)
    BY <2>1, Zenon
  <2>4. /\ Base(vec, group, tail, stream).vec = vec
        /\ Base(vec, group, tail, stream).group = group
        /\ Base(vec, group, tail, stream).tail = tail
        /\ Base(vec, group, tail, stream).stream = stream
    BY Zenon DEF Base
  <2>2. base.vec = vec /\ base.group = group /\ base.tail = tail /\ base.stream = stream
    BY <2>3, <2>4, Zenon
  <2>. QED
    BY <2>1, <2>2, Zenon
<1>4. base.vec \in Nat \ {0}
  BY <1>3, CopiersAssumption
<1>5. base.group = 1 => base.tail = FALSE
  BY <1>3
<1>. QED
  BY <1>3, <1>4, <1>5

(* As many vectors as the size needs, not more than it has bytes.          *)
LEMMA VectorsFacts ==
  ASSUME NEW base \in BaseCopiers, NEW size \in Nat
  PROVE  /\ Vectors(base, size) = Up(size, base.vec)
         /\ Vectors(base, size) \in Nat /\ Vectors(base, size) <= size
         /\ size > 0 => Vectors(base, size) > 0
<1>. DEFINE v == base.vec
            u == Up(size, v)
<1>1. v \in Nat \ {0}
  BY BaseFacts
<1>2. /\ u \in Nat /\ SHMALIGN(size, v) = u * v /\ size <= u * v
      /\ \A k \in Nat : size <= k * v => u <= k
  BY <1>1, RoundUp
<1>3. Vectors(base, size) = (u * v) \div v
  BY <1>2 DEF Vectors
<1>. HIDE DEF v, u
<1>4. (u * v) \div v = u
  <2>1. u * v \in Nat /\ u * v < (u + 1) * v
    BY <1>1, <1>2
  <2>. QED
    BY <1>1, <1>2, <2>1, DivUnique
<1>5. size <= size * v
  BY <1>1
<1>6. u <= size
  BY <1>2, <1>5
<1>7. size > 0 => u > 0
  BY <1>1, <1>2
<1>. QED
  BY <1>2, <1>3, <1>4, <1>6, <1>7 DEF u, v

(* A copier moves whole groups and no more than it has to.                 *)
LEMMA CountFacts ==
  ASSUME NEW base \in BaseCopiers, NEW n \in Nat
  PROVE  /\ Count(base, n) \in Nat /\ n <= Count(base, n) /\ Count(base, n) <= n + 3
         /\ base.group = 1 => Count(base, n) = n
         /\ \E k \in Nat : Count(base, n) = k * base.group
         /\ n > 0 <=> Count(base, n) > 0
<1>. DEFINE g == base.group
            u == Up(n, g)
<1>1. g \in {1, 2, 4} /\ g \in Nat \ {0}
  <2>1. g \in {1, 2, 4}
    BY BaseFacts
  <2>. QED
    BY <2>1
<1>. HIDE DEF g
<1>2. /\ u \in Nat /\ SHMALIGN(n, g) = u * g /\ n <= u * g /\ u * g < n + g
  BY <1>1, RoundUp
<1>6. Count(base, n) = u * g
  BY <1>2 DEF Count, g
<1>. HIDE DEF u
<1>3. CASE g = 1
  BY <1>2, <1>6, <1>3 DEF g
<1>4. CASE g = 2
  BY <1>2, <1>6, <1>4 DEF g
<1>5. CASE g = 4
  BY <1>2, <1>6, <1>5 DEF g
<1>. QED
  BY <1>1, <1>3, <1>4, <1>5

(* The buffer has room for what a copier moves on its own, or in single    *)
(* vectors.                                                                *)
LEMMA AllocatedFacts ==
  ASSUME NEW base \in BaseCopiers, NEW size \in Nat
  PROVE  /\ Allocated(base, size) \in Nat
         /\ Count(base, Vectors(base, size)) <= Allocated(base, size)
<1>. DEFINE v == base.vec
            g == base.group
            n == Vectors(base, size)
            u == Up(size, v * g)
<1>1. v \in Nat \ {0} /\ g \in {1, 2, 4} /\ g \in Nat \ {0}
  <2>1. v \in Nat \ {0} /\ g \in {1, 2, 4}
    BY BaseFacts
  <2>. QED
    BY <2>1
<1>2. v * g \in Nat \ {0}
  BY <1>1
<1>3. u \in Nat /\ SHMALIGN(size, v * g) = u * (v * g) /\ size <= u * (v * g)
  BY <1>2, RoundUp
<1>4. Allocated(base, size) = (u * (v * g)) \div v
  BY <1>3 DEF Allocated
<1>5. n \in Nat /\ \A k \in Nat : size <= k * v => n <= k
  <2>1. n = Up(size, v) /\ n \in Nat
    BY VectorsFacts
  <2>2. \A k \in Nat : size <= k * v => Up(size, v) <= k
    BY <1>1, RoundUp
  <2>. QED
    BY <2>1, <2>2
<1>. HIDE DEF n
<1>7. /\ Up(n, g) \in Nat /\ SHMALIGN(n, g) = Up(n, g) * g
      /\ \A k \in Nat : n <= k * g => Up(n, g) <= k
  BY <1>1, <1>5, RoundUp
<1>6. Count(base, n) = Up(n, g) * g /\ \A k \in Nat : n <= k * g => Up(n, g) <= k
  BY <1>7 DEF Count
<1>. HIDE DEF v, g, n, u
<1>8. u * g \in Nat /\ u * (v * g) = (u * g) * v
  BY <1>1, <1>3
<1>9. (u * (v * g)) \div v = u * g
  <2>1. (u * g) * v \in Nat /\ (u * g) * v < (u * g + 1) * v
    BY <1>1, <1>8
  <2>. QED
    BY <1>1, <1>8, <2>1, DivUnique
<1>10. Up(n, g) <= u
  BY <1>3, <1>5, <1>6, <1>8
<1>11. Up(n, g) * g <= u * g
  BY <1>1, <1>3, <1>7, <1>10
<1>. QED
  BY <1>4, <1>6, <1>8, <1>9, <1>11 DEF n

(* The parts of the threads follow each other from the first vector to the *)
(* last.                                                                   *)
LEMMA StartFacts ==
  ASSUME NEW n \in Nat, NEW threads \in Nat \ {0}
  PROVE  /\ \A w \in 0 .. threads : Start(n, threads, w) \in Nat
         /\ \A w, x \in 0 .. threads :
              w <= x => Start(n, threads, w) <= Start(n, threads, x)
         /\ Start(n, threads, 0) = 0 /\ Start(n, threads, threads) = n
<1>. DEFINE q == n \div threads
            r == n % threads
            more(w) == IF w <= r THEN w ELSE r
<1>1. q \in Nat /\ r \in 0 .. threads - 1 /\ n = q * threads + r
  BY DivMod
<1>2. \A w : Start(n, threads, w) = w * q + more(w)
  BY DEF Start
<1>. HIDE DEF q, r
<1>3. ASSUME NEW w \in 0 .. threads PROVE w * q + more(w) \in Nat
  BY <1>1
<1>4. ASSUME NEW w \in 0 .. threads, NEW x \in 0 .. threads, w <= x
      PROVE  w * q + more(w) <= x * q + more(x)
  <2>1. w * q <= x * q /\ w * q \in Nat /\ x * q \in Nat
    BY <1>1, <1>4
  <2>2. more(w) <= more(x) /\ more(w) \in Nat /\ more(x) \in Nat
    BY <1>1, <1>4
  <2>. HIDE DEF more
  <2>. QED
    BY <2>1, <2>2
<1>5. 0 * q + more(0) = 0 /\ threads * q + more(threads) = n
  BY <1>1
<1>. QED
  BY <1>2, <1>3, <1>4, <1>5

(* Each vector is in the part of some thread.                              *)
LEMMA PartsCover ==
  ASSUME NEW n \in Nat, NEW threads \in Nat \ {0}, NEW v \in 0 .. n - 1
  PROVE  \E w \in 0 .. threads - 1 :
           v \in Start(n, threads, w) .. Start(n, threads, w + 1) - 1
<1>. DEFINE q == n \div threads
            r == n % threads
            more(w) == IF w <= r THEN w ELSE r
<1>1. q \in Nat /\ r \in 0 .. threads - 1 /\ n = q * threads + r
  BY DivMod
<1>2. \A w : Start(n, threads, w) = w * q + more(w)
  BY DEF Start
<1>. HIDE DEF q, r
<1>3. CASE v < r * (q + 1)
  <2>. DEFINE w == v \div (q + 1)
              m == v % (q + 1)
  <2>0. v \in Nat /\ q + 1 \in Nat \ {0} /\ (q + 1) - 1 = q
    BY <1>1
  <2>1. w \in Nat /\ m \in 0 .. q /\ v = w * (q + 1) + m
    BY <2>0, DivMod
  <2>. HIDE DEF w, m
  <2>2. w * (q + 1) < r * (q + 1)
    BY <1>1, <1>3, <2>1
  <2>3. w < r
    BY <1>1, <2>1, <2>2, Products
  <2>4. more(w) = w /\ more(w + 1) = w + 1 /\ w \in 0 .. threads - 1
    BY <1>1, <2>1, <2>3
  <2>5. w * q + w <= v /\ v <= ((w + 1) * q + (w + 1)) - 1
    BY <1>1, <2>1
  <2>6. w * q + w \in Int /\ (w + 1) * q + (w + 1) \in Int
    BY <1>1, <2>1
  <2>7. Start(n, threads, w) = w * q + w
        /\ Start(n, threads, w + 1) = (w + 1) * q + (w + 1)
    BY <1>2, <2>4
  <2>9. /\ Start(n, threads, w) \in Int /\ Start(n, threads, w + 1) \in Int
        /\ Start(n, threads, w) <= v /\ v <= Start(n, threads, w + 1) - 1
    <3>. DEFINE a == w * q + w
                b == (w + 1) * q + (w + 1)
    <3>1. Start(n, threads, w) = a /\ Start(n, threads, w + 1) = b
      BY <2>7, Zenon
    <3>2. a \in Int /\ b \in Int
      BY <2>6, Zenon
    <3>3. a <= v /\ v <= b - 1
      BY <2>5, Zenon
    <3>. HIDE DEF a, b
    <3>. QED
      BY <3>1, <3>2, <3>3
  <2>8. v \in Start(n, threads, w) .. Start(n, threads, w + 1) - 1
    BY <2>9
  <2>. QED
    BY <2>4, <2>8
<1>4. CASE v >= r * (q + 1)
  <2>1. r * (q + 1) \in Nat /\ r * (q + 1) = r * q + r
    BY <1>1
  <2>2. q \in Nat \ {0}
    BY <1>1, <1>4
  <2>. DEFINE d == v - r * (q + 1)
              w == d \div q
              m == d % q
  <2>3. d \in Nat
    BY <1>4, <2>1
  <2>4. w \in Nat /\ m \in 0 .. q - 1 /\ d = w * q + m
    BY <2>2, <2>3, DivMod
  <2>5. v = r * q + r + d
    BY <2>1
  <2>. HIDE DEF d, w, m
  <2>6. d < (threads - r) * q /\ threads - r \in Nat
    BY <1>1, <2>3, <2>5
  <2>7. w * q < (threads - r) * q
    BY <2>2, <2>4, <2>6, <1>1
  <2>8. w < threads - r
    BY <2>2, <2>4, <2>6, <2>7, Products
  <2>9. more(r + w) = r /\ more(r + w + 1) = r /\ r + w \in 0 .. threads - 1
    BY <1>1, <2>4, <2>8
  <2>10. (r + w) * q + r <= v /\ v <= ((r + w + 1) * q + r) - 1
    BY <1>1, <2>4, <2>5
  <2>11. (r + w) * q + r \in Int /\ (r + w + 1) * q + r \in Int
    BY <1>1, <2>4
  <2>12. Start(n, threads, r + w) = (r + w) * q + r
         /\ Start(n, threads, r + w + 1) = (r + w + 1) * q + r
    BY <1>2, <2>9
  <2>14. /\ Start(n, threads, r + w) \in Int /\ Start(n, threads, r + w + 1) \in Int
         /\ Start(n, threads, r + w) <= v /\ v <= Start(n, threads, r + w + 1) - 1
    <3>. DEFINE a == (r + w) * q + r
                b == (r + w + 1) * q + r
    <3>1. Start(n, threads, r + w) = a /\ Start(n, threads, r + w + 1) = b
      BY <2>12, Zenon
    <3>2. a \in Int /\ b \in Int
      BY <2>11, Zenon
    <3>3. a <= v /\ v <= b - 1
      BY <2>10, Zenon
    <3>. HIDE DEF a, b
    <3>. QED
      BY <3>1, <3>2, <3>3
  <2>13. v \in Start(n, threads, r + w) .. Start(n, threads, r + w + 1) - 1
    BY <2>14
  <2>. QED
    BY <2>9, <2>13
<1>5. r * (q + 1) \in Int
  BY <1>1
<1>. QED
  BY <1>3, <1>4, <1>5

-----------------------------------------------------------------------------
(* The inductive invariant                                                 *)

(* In job j: the first vector of thread w, how many it is to copy, how     *)
(* many that is in whole groups, and the end of what it writes.            *)
Total(j) == Vectors(j.base, j.size)
First(j, w) == Start(Total(j), j.threads, w)
Part(j, w) == Share(Total(j), j.threads, w)
Load(j, w) == Count(j.base, Part(j, w))
Reach(j, w) ==
  First(j, w) + IF Load(j, w) = 0 /\ j.base.tail = TRUE THEN j.base.group ELSE Load(j, w)

WorkerState ==
  [pc : {"loop", "tail", "fence", "done"}, next : Nat, left : Nat,
   written : SUBSET Nat, pending : SUBSET Nat]

(* Thread w in state s has written all from its first vector to the next   *)
(* one, and the rest is left; in the end it has written its part.          *)
WorkerOK(j, w, s) ==
  /\ s \in WorkerState
  /\ s.pending \subseteq s.written
  /\ s.pc = "done" => s.pending = {}
  /\ s.pc \in {"loop", "tail"} =>
       /\ First(j, w) <= s.next /\ s.next + s.left = First(j, w) + Load(j, w)
       /\ s.written = First(j, w) .. s.next - 1
  /\ s.pc = "loop" =>
       /\ \E k \in 0 .. s.left : s.left = k * j.base.group
       /\ j.base.tail = TRUE /\ Load(j, w) > 0 => s.left > 0
  /\ s.pc = "tail" =>
       /\ j.base.tail = TRUE
       /\ s.left = IF Load(j, w) > 0 THEN j.base.group ELSE 0
  /\ s.pc \in {"fence", "done"} =>
       /\ First(j, w) .. First(j, w) + (Part(j, w) - 1) \subseteq s.written
       /\ s.written \subseteq First(j, w) .. Reach(j, w) - 1

CopyInv ==
  job # NoJob =>
    /\ job \in Job
    /\ worker \in [Workers -> WorkerState]
    /\ \A w \in Workers : WorkerOK(job, w, worker[w])

-----------------------------------------------------------------------------
(* The invariant is inductive                                              *)

(* What is known of the parts.                                             *)
LEMMA PartFacts ==
  ASSUME NEW j \in Job, NEW w \in 0 .. j.threads - 1
  PROVE  /\ Total(j) \in Nat /\ Total(j) <= j.size /\ j.size \in Nat
         /\ j.base \in BaseCopiers /\ j.threads \in Nat \ {0}
         /\ First(j, w) \in Nat /\ Part(j, w) \in Nat /\ Load(j, w) \in Nat
         /\ First(j, w) + Part(j, w) = Start(Total(j), j.threads, w + 1)
         /\ First(j, w) + Part(j, w) <= Total(j)
         /\ Part(j, w) <= Load(j, w) /\ Load(j, w) < CountRange
         /\ j.base.group = 1 => Load(j, w) = Part(j, w)
         /\ \E k \in 0 .. Load(j, w) : Load(j, w) = k * j.base.group
<1>1. /\ j.base \in BaseCopiers /\ j.size \in Sizes /\ j.threads \in ThreadCounts
  BY DEF Job
<1>2. j.size \in Nat /\ j.threads \in Nat \ {0} /\ j.size + 4 <= CountRange
      /\ CountRange \in Nat
  BY <1>1, CopiersAssumption
<1>3. Total(j) \in Nat /\ Total(j) <= j.size
  BY <1>1, <1>2, VectorsFacts DEF Total
<1>4. /\ w \in 0 .. j.threads /\ w + 1 \in 0 .. j.threads /\ w <= w + 1
      /\ w + 1 <= j.threads /\ j.threads \in 0 .. j.threads
  BY <1>2
<1>5. /\ Start(Total(j), j.threads, w) \in Nat /\ Start(Total(j), j.threads, w + 1) \in Nat
      /\ Start(Total(j), j.threads, w) <= Start(Total(j), j.threads, w + 1)
      /\ Start(Total(j), j.threads, w + 1) <= Total(j)
  <2>1. /\ \A x \in 0 .. j.threads : Start(Total(j), j.threads, x) \in Nat
        /\ \A x, y \in 0 .. j.threads :
             x <= y => Start(Total(j), j.threads, x) <= Start(Total(j), j.threads, y)
        /\ Start(Total(j), j.threads, j.threads) = Total(j)
    BY <1>2, <1>3, StartFacts
  <2>. QED
    BY <1>4, <2>1
<1>6. /\ First(j, w) \in Nat /\ Part(j, w) \in Nat
      /\ First(j, w) + Part(j, w) = Start(Total(j), j.threads, w + 1)
  BY <1>5 DEF First, Part, Share
<1>7. /\ Load(j, w) \in Nat /\ Part(j, w) <= Load(j, w) /\ Load(j, w) <= Part(j, w) + 3
      /\ j.base.group = 1 => Load(j, w) = Part(j, w)
      /\ \E k \in Nat : Load(j, w) = k * j.base.group
  BY <1>1, <1>6, CountFacts DEF Load
<1>8. \E k \in 0 .. Load(j, w) : Load(j, w) = k * j.base.group
  <2>1. PICK k \in Nat : Load(j, w) = k * j.base.group
    BY <1>7
  <2>2. j.base.group \in {1, 2, 4}
    BY <1>1, BaseFacts
  <2>3. k <= Load(j, w)
    BY <2>1, <2>2
  <2>. QED
    BY <1>7, <2>1, <2>3
<1>. QED
  BY <1>1, <1>2, <1>3, <1>5, <1>6, <1>7, <1>8

(* A copy begins.                                                          *)
LEMMA CopyStarts ==
  ASSUME NEW j \in Job, Copy(j)
  PROVE  CopyInv'
<1>. DEFINE s(w) == [pc |-> "loop", next |-> First(j, w), left |-> Load(j, w),
                     written |-> {}, pending |-> {}]
<1>1. job' = j /\ Workers' = 0 .. j.threads - 1
  BY DEF Copy, Workers
<1>2. worker' = [w \in Workers' |-> s(w)]
  BY <1>1 DEF Copy, First, Load, Part, Total
<1>3. ASSUME NEW w \in 0 .. j.threads - 1 PROVE WorkerOK(j, w, s(w))
  <2>1. /\ First(j, w) \in Nat /\ Load(j, w) \in Nat
        /\ \E k \in 0 .. Load(j, w) : Load(j, w) = k * j.base.group
    BY PartFacts
  <2>2. {} = First(j, w) .. First(j, w) - 1
    BY <2>1
  <2>. QED
    BY <2>1, <2>2 DEF WorkerOK, WorkerState
<1>4. \A w \in Workers' : s(w) \in WorkerState /\ WorkerOK(j, w, s(w))
  BY <1>1, <1>3 DEF WorkerOK
<1>. HIDE DEF s
<1>. QED
  BY <1>1, <1>2, <1>4 DEF CopyInv

(* One thread takes a step.                                                *)
LEMMA StepOf ==
  ASSUME CopyInv, job # NoJob, UNCHANGED job, NEW w \in Workers,
         NEW s, WorkerOK(job, w, s), worker' = [worker EXCEPT ![w] = s]
  PROVE  CopyInv'
<1>1. job \in Job /\ Workers' = Workers
  BY DEF CopyInv, Workers
<1>2. worker' \in [Workers -> WorkerState]
  BY DEF CopyInv, WorkerOK
<1>3. \A x \in Workers : WorkerOK(job, x, worker'[x])
  BY DEF CopyInv
<1>. QED
  BY <1>1, <1>2, <1>3 DEF CopyInv

(* What is known of a thread that takes a step.                            *)
LEMMA WorkerFacts ==
  ASSUME CopyInv, job # NoJob, NEW w \in Workers
  PROVE  /\ job \in Job /\ w \in 0 .. job.threads - 1 /\ worker[w] \in WorkerState
         /\ WorkerOK(job, w, worker[w])
         /\ job.base.group \in {1, 2, 4} /\ job.base.stream \in BOOLEAN
         /\ First(job, w) \in Nat /\ Part(job, w) \in Nat /\ Load(job, w) \in Nat
         /\ Part(job, w) <= Load(job, w) /\ Load(job, w) < CountRange
         /\ CountRange \in Nat \ {0}
<1>1. /\ job \in Job /\ w \in 0 .. job.threads - 1 /\ WorkerOK(job, w, worker[w])
      /\ worker[w] \in WorkerState
  BY DEF CopyInv, Workers, WorkerOK
<1>2. /\ job.base \in BaseCopiers
      /\ First(job, w) \in Nat /\ Part(job, w) \in Nat /\ Load(job, w) \in Nat
      /\ Part(job, w) <= Load(job, w) /\ Load(job, w) < CountRange
  BY <1>1, PartFacts
<1>3. job.base.group \in {1, 2, 4} /\ job.base.stream \in BOOLEAN
  BY <1>2, BaseFacts
<1>. QED
  BY <1>1, <1>2, <1>3, CopiersAssumption

(* The fence waits for all stores.                                         *)
LEMMA FenceInv ==
  ASSUME CopyInv, job # NoJob, NEW w \in Workers, Fence(w)
  PROVE  CopyInv'
<1>. DEFINE s == [worker[w] EXCEPT !.pc = "done"]
<1>1. worker' = [worker EXCEPT ![w] = s] /\ UNCHANGED job /\ worker[w].pc = "fence"
      /\ worker[w].pending = {}
  BY DEF Fence, At
<1>2. /\ s \in WorkerState /\ s.pc = "done" /\ s.written = worker[w].written
      /\ s.pending = {}
  BY <1>1, WorkerFacts DEF WorkerState
<1>3. WorkerOK(job, w, s)
  <2>. HIDE DEF s
  <2>. QED
    BY <1>1, <1>2, WorkerFacts DEF WorkerOK
<1>. QED
  BY <1>1, <1>3, StepOf

(* A store becomes visible.                                                *)
LEMMA DrainInv ==
  ASSUME CopyInv, job # NoJob, NEW w \in Workers, Drain(w)
  PROVE  CopyInv'
<1>1. PICK v \in worker[w].pending :
        worker' = [worker EXCEPT ![w].pending = @ \ {v}] /\ UNCHANGED job
  BY DEF Drain
<1>. DEFINE s == [worker[w] EXCEPT !.pending = @ \ {v}]
<1>2. worker' = [worker EXCEPT ![w] = s]
  BY <1>1
<1>3. /\ s \in WorkerState /\ s.pc = worker[w].pc /\ s.written = worker[w].written
      /\ s.next = worker[w].next /\ s.left = worker[w].left
      /\ s.pending = worker[w].pending \ {v}
  BY WorkerFacts DEF WorkerState
<1>4. WorkerOK(job, w, s)
  <2>. HIDE DEF s
  <2>1. WorkerOK(job, w, worker[w])
    BY WorkerFacts
  <2>2. s.pending \subseteq s.written /\ (s.pc = "done" => s.pending = {})
    BY <1>3, <2>1 DEF WorkerOK
  <2>3. s.pc = "loop" => \E k \in 0 .. s.left : s.left = k * job.base.group
    BY <1>3, <2>1 DEF WorkerOK
  <2>. QED
    BY <1>3, <2>1, <2>2, <2>3 DEF WorkerOK
<1>. QED
  BY <1>1, <1>2, <1>4, StepOf

(* A loop ends: nothing is left, or one group for the tail.                *)
LEMMA LeaveLoopInv ==
  ASSUME CopyInv, job # NoJob, NEW w \in Workers, LeaveLoop(w)
  PROVE  CopyInv'
<1>. DEFINE place == IF job.base.tail THEN "tail" ELSE "fence"
            s == [worker[w] EXCEPT !.pc = place]
<1>1. /\ worker' = [worker EXCEPT ![w] = s] /\ UNCHANGED job /\ worker[w].pc = "loop"
      /\ ~ GoesOn(w)
  BY DEF LeaveLoop, At
<1>2. /\ s \in WorkerState /\ s.pc = place /\ s.written = worker[w].written
      /\ s.next = worker[w].next /\ s.left = worker[w].left
      /\ s.pending = worker[w].pending
  BY WorkerFacts DEF WorkerState
<1>3. WorkerOK(job, w, s)
  <2>. HIDE DEF s
  <2>1. PICK k \in 0 .. worker[w].left : worker[w].left = k * job.base.group
    BY <1>1, WorkerFacts DEF WorkerOK
  <2>2. worker[w].left \in Nat /\ worker[w].next \in Nat
    BY WorkerFacts DEF WorkerState
  <2>3. /\ First(job, w) <= worker[w].next
        /\ worker[w].next + worker[w].left = First(job, w) + Load(job, w)
        /\ worker[w].written = First(job, w) .. worker[w].next - 1
        /\ worker[w].pending \subseteq worker[w].written
        /\ job.base.tail = TRUE /\ Load(job, w) > 0 => worker[w].left > 0
    BY <1>1, WorkerFacts DEF WorkerOK
  <2>4. CASE job.base.tail
    <3>1. place = "tail" /\ worker[w].left <= job.base.group /\ job.base.tail = TRUE
      BY <1>1, <2>2, <2>4, WorkerFacts DEF GoesOn
    <3>2. k = 0 \/ k = 1
      BY <2>1, <2>2, <3>1, WorkerFacts
    <3>3. worker[w].left = IF Load(job, w) > 0 THEN job.base.group ELSE 0
      BY <2>1, <2>2, <2>3, <3>1, <3>2, WorkerFacts, SMTT(30)
    <3>. HIDE DEF place
    <3>. QED
      BY <1>2, <2>3, <3>1, <3>3 DEF WorkerOK
  <2>5. CASE ~ job.base.tail
    <3>1. place = "fence" /\ worker[w].left = 0
      BY <1>1, <2>2, <2>5, WorkerFacts DEF GoesOn
    <3>2. worker[w].next = First(job, w) + Load(job, w)
      BY <2>2, <2>3, <3>1, WorkerFacts
    <3>3. Reach(job, w) = First(job, w) + Load(job, w)
      BY <2>5 DEF Reach
    <3>4. /\ First(job, w) .. First(job, w) + (Part(job, w) - 1) \subseteq worker[w].written
          /\ worker[w].written \subseteq First(job, w) .. Reach(job, w) - 1
      BY <2>3, <3>2, <3>3, WorkerFacts
    <3>. HIDE DEF place
    <3>. QED
      BY <1>2, <2>3, <3>1, <3>4 DEF WorkerOK
  <2>. QED
    BY <2>4, <2>5
<1>. QED
  BY <1>1, <1>3, StepOf

(* Two ranges of vectors, one behind the other.                            *)
LEMMA Intervals ==
  ASSUME NEW a \in Int, NEW b \in Int, NEW c \in Int, a <= b, b <= c
  PROVE  (a .. b - 1) \cup (b .. c - 1) = a .. c - 1
  OBVIOUS

(* What moving a group does.                                               *)
LEMMA MovedFacts ==
  ASSUME CopyInv, job # NoJob, NEW w \in Workers
  PROVE  /\ Moved(w) \in WorkerState
         /\ Moved(w).pc = worker[w].pc /\ Moved(w).next = worker[w].next
         /\ Moved(w).left = worker[w].left
         /\ Moved(w).written = worker[w].written \cup Group(w)
         /\ Moved(w).pending \subseteq worker[w].pending \cup Group(w)
<1>1. Group(w) \in SUBSET Nat
  BY WorkerFacts DEF Group, WorkerState
<1>. DEFINE rest == IF job.base.stream THEN worker[w].pending \cup Group(w)
                    ELSE worker[w].pending
<1>2. rest \in SUBSET Nat /\ rest \subseteq worker[w].pending \cup Group(w)
  BY <1>1, WorkerFacts DEF WorkerState
<1>3. Moved(w) = [worker[w] EXCEPT !.written = worker[w].written \cup Group(w),
                                   !.pending = rest]
  BY WorkerFacts DEF Moved, WorkerState
<1>. HIDE DEF rest
<1>4. worker[w] \in WorkerState /\ worker[w].written \cup Group(w) \in SUBSET Nat
  BY <1>1, WorkerFacts DEF WorkerState
<1>5. Moved(w) \in WorkerState
  BY <1>2, <1>3, <1>4 DEF WorkerState
<1>6. /\ Moved(w).pc = worker[w].pc /\ Moved(w).next = worker[w].next
      /\ Moved(w).left = worker[w].left
      /\ Moved(w).written = worker[w].written \cup Group(w)
      /\ Moved(w).pending = rest
  BY <1>3, <1>4 DEF WorkerState
<1>. QED
  BY <1>2, <1>5, <1>6

(* The tail moves the last group.                                          *)
LEMMA CopyTailInv ==
  ASSUME CopyInv, job # NoJob, NEW w \in Workers, CopyTail(w)
  PROVE  CopyInv'
<1>. DEFINE s == [Moved(w) EXCEPT !.pc = "fence"]
<1>1. worker' = [worker EXCEPT ![w] = s] /\ UNCHANGED job /\ worker[w].pc = "tail"
  BY DEF CopyTail, At
<1>2. /\ s \in WorkerState /\ s.pc = "fence"
      /\ s.written = worker[w].written \cup Group(w)
      /\ s.pending \subseteq worker[w].pending \cup Group(w)
  BY MovedFacts DEF WorkerState
<1>3. WorkerOK(job, w, s)
  <2>. HIDE DEF s
  <2>1. worker[w].left \in Nat /\ worker[w].next \in Nat
    BY WorkerFacts DEF WorkerState
  <2>2. /\ First(job, w) <= worker[w].next
        /\ worker[w].next + worker[w].left = First(job, w) + Load(job, w)
        /\ worker[w].written = First(job, w) .. worker[w].next - 1
        /\ worker[w].pending \subseteq worker[w].written
        /\ job.base.tail = TRUE
        /\ worker[w].left = IF Load(job, w) > 0 THEN job.base.group ELSE 0
    BY <1>1, WorkerFacts DEF WorkerOK
  <2>3. worker[w].next + job.base.group = Reach(job, w)
    BY <2>1, <2>2, WorkerFacts DEF Reach
  <2>4. s.written = First(job, w) .. Reach(job, w) - 1
    <3>1. /\ worker[w].next \in Int /\ Reach(job, w) \in Int /\ First(job, w) \in Int
          /\ worker[w].next <= Reach(job, w)
      BY <2>1, <2>3, WorkerFacts
    <3>2. Group(w) = worker[w].next .. Reach(job, w) - 1
      BY <2>1, <2>3, <3>1, WorkerFacts, SMTT(30) DEF Group
    <3>. QED
      BY <1>2, <2>2, <3>1, <3>2, Intervals
  <2>5. First(job, w) + Load(job, w) <= Reach(job, w) /\ Reach(job, w) \in Nat
    BY <2>1, <2>2, <2>3, WorkerFacts, SMTT(30) DEF Reach
  <2>6. First(job, w) .. First(job, w) + (Part(job, w) - 1) \subseteq s.written
    BY <2>4, <2>5, WorkerFacts
  <2>. QED
    BY <1>2, <2>2, <2>4, <2>6 DEF WorkerOK
<1>. QED
  BY <1>1, <1>3, StepOf

(* An iteration moves a group, and the count goes down without wrapping.   *)
LEMMA CopyGroupInv ==
  ASSUME CopyInv, job # NoJob, NEW w \in Workers, CopyGroup(w)
  PROVE  CopyInv'
<1>. DEFINE g == job.base.group
            s == [Moved(w) EXCEPT !.next = @ + g, !.left = (@ - g) % CountRange]
<1>1. worker' = [worker EXCEPT ![w] = s] /\ UNCHANGED job /\ worker[w].pc = "loop"
      /\ GoesOn(w)
  BY DEF CopyGroup, At
<1>2. worker[w].left \in Nat /\ worker[w].next \in Nat /\ g \in {1, 2, 4}
  BY WorkerFacts DEF WorkerState
<1>3. PICK k \in 0 .. worker[w].left : worker[w].left = k * g
  BY <1>1, WorkerFacts DEF WorkerOK
<1>4. /\ First(job, w) <= worker[w].next
      /\ worker[w].next + worker[w].left = First(job, w) + Load(job, w)
      /\ worker[w].written = First(job, w) .. worker[w].next - 1
      /\ worker[w].pending \subseteq worker[w].written
  BY <1>1, WorkerFacts DEF WorkerOK
<1>5. /\ worker[w].left > 0 /\ (job.base.tail = TRUE => worker[w].left > g)
  BY <1>1, <1>2 DEF GoesOn
<1>6. k >= 1 /\ worker[w].left - g = (k - 1) * g /\ worker[w].left - g \in Nat
  BY <1>2, <1>3, <1>5
<1>7. worker[w].left - g < CountRange /\ CountRange \in Nat \ {0}
  <2>1. /\ First(job, w) \in Nat /\ Load(job, w) \in Nat
        /\ Load(job, w) < CountRange /\ CountRange \in Nat \ {0}
    BY WorkerFacts
  <2>2. worker[w].left \in Nat /\ worker[w].next \in Nat /\ g \in Nat
    BY <1>2
  <2>. HIDE DEF g
  <2>3. worker[w].left <= Load(job, w)
    BY <1>4, <2>1, <2>2
  <2>. QED
    BY <2>1, <2>2, <2>3
<1>8. (worker[w].left - g) % CountRange = worker[w].left - g
  BY <1>6, <1>7
<1>9. /\ s \in WorkerState /\ s.pc = "loop" /\ s.next = worker[w].next + g
      /\ s.left = worker[w].left - g
      /\ s.written = worker[w].written \cup Group(w)
      /\ s.pending \subseteq worker[w].pending \cup Group(w)
  <2>1. /\ Moved(w).next + g \in Nat /\ (Moved(w).left - g) % CountRange \in Nat
        /\ Moved(w).next = worker[w].next /\ Moved(w).left = worker[w].left
    BY <1>2, <1>6, <1>8, MovedFacts
  <2>. QED
    BY <1>1, <1>8, <2>1, MovedFacts DEF WorkerState
<1>10. WorkerOK(job, w, s)
  <2>. HIDE DEF s
  <2>1. s.written = First(job, w) .. s.next - 1
    <3>1. First(job, w) \in Int /\ worker[w].next \in Int /\ s.next \in Int
          /\ worker[w].next <= s.next
      BY <1>2, <1>9, WorkerFacts
    <3>2. Group(w) = worker[w].next .. s.next - 1
      BY <1>2, <1>9 DEF Group
    <3>. QED
      BY <1>4, <1>9, <3>1, <3>2, Intervals
  <2>2. s.next + s.left = First(job, w) + Load(job, w) /\ First(job, w) <= s.next
    <3>1. First(job, w) \in Nat /\ Load(job, w) \in Nat
      BY WorkerFacts
    <3>2. s.next = worker[w].next + g /\ s.left = worker[w].left - g
      BY <1>9
    <3>3. g \in Nat /\ worker[w].left \in Nat /\ worker[w].next \in Nat
      BY <1>2
    <3>. HIDE DEF g
    <3>4. s.next + s.left = worker[w].next + worker[w].left
      BY <3>2, <3>3
    <3>5. First(job, w) <= s.next
      BY <1>4, <3>1, <3>2, <3>3
    <3>. QED
      BY <1>4, <3>4, <3>5
  <2>3. \E m \in 0 .. s.left : s.left = m * g
    <3>1. k - 1 \in 0 .. s.left /\ s.left = (k - 1) * g
      BY <1>2, <1>6, <1>9
    <3>. QED
      BY <3>1
  <2>4. job.base.tail = TRUE => s.left > 0
    BY <1>2, <1>5, <1>9
  <2>5. s.pending \subseteq s.written
    BY <1>4, <1>9
  <2>. QED
    BY <1>9, <2>1, <2>2, <2>3, <2>4, <2>5 DEF WorkerOK
<1>. QED
  BY <1>1, <1>10, StepOf

(* CopyInv holds throughout.                                               *)
THEOREM Invariance == Spec => []CopyInv
<1>1. Init => CopyInv
  BY DEF Init, CopyInv
<1>2. CopyInv /\ [Next]_vars => CopyInv'
  <2>. SUFFICES ASSUME CopyInv, [Next]_vars PROVE CopyInv'
    OBVIOUS
  <2>1. ASSUME NEW w \in Workers, Step(w) PROVE CopyInv'
    <3>1. job # NoJob
      BY DEF Workers, NoJob
    <3>. QED
      BY <2>1, <3>1, CopyGroupInv, LeaveLoopInv, CopyTailInv, DrainInv, FenceInv DEF Step
  <2>2. CASE Return
    BY <2>2 DEF Return, CopyInv
  <2>3. CASE UNCHANGED vars
    BY <2>3 DEF vars, CopyInv, Workers
  <2>. QED
    BY <2>1, <2>2, <2>3, CopyStarts DEF Next
<1>. QED
  BY <1>1, <1>2, PTL DEF Spec

-----------------------------------------------------------------------------
(* What a copy promises                                                    *)

(* CopyComplete holds throughout: a message of any size, divided among any *)
(* number of threads, is all there and visible when the copy returns.      *)
THEOREM CopiesAreComplete == Spec => []CopyComplete
<1>1. CopyInv => CopyComplete
  <2>. SUFFICES ASSUME CopyInv, job # NoJob, \A w \in Workers : worker[w].pc = "done",
                       NEW v \in 0 .. Vectors(job.base, job.size) - 1
                PROVE  \E w \in Workers : v \in worker[w].written \ worker[w].pending
    BY DEF CopyComplete, Joined, At
  <2>1. job \in Job
    BY DEF CopyInv
  <2>2. Total(job) \in Nat /\ job.threads \in Nat \ {0}
    BY <2>1, CopiersAssumption, VectorsFacts DEF Job, Total
  <2>3. PICK w \in 0 .. job.threads - 1 :
          v \in Start(Total(job), job.threads, w) .. Start(Total(job), job.threads, w + 1) - 1
    BY <2>2, PartsCover DEF Total
  <2>4. First(job, w) + Part(job, w) = Start(Total(job), job.threads, w + 1)
        /\ First(job, w) \in Nat /\ Part(job, w) \in Nat
    BY <2>1, PartFacts
  <2>5. v \in First(job, w) .. First(job, w) + (Part(job, w) - 1)
    BY <2>3, <2>4 DEF First
  <2>6. w \in Workers
    BY DEF Workers
  <2>7. v \in worker[w].written /\ worker[w].pending = {}
    BY <2>5, <2>6, WorkerFacts DEF WorkerOK
  <2>. QED
    BY <2>6, <2>7
<1>. QED
  BY Invariance, <1>1, PTL

(* Between its first vector and Reach is all a thread has written.         *)
LEMMA WrittenFrom ==
  ASSUME CopyInv, job # NoJob, NEW w \in Workers
  PROVE  /\ worker[w].written \subseteq First(job, w) .. Reach(job, w) - 1
         /\ First(job, w) \in Nat /\ Reach(job, w) \in Nat
<1>1. Reach(job, w) \in Nat /\ First(job, w) + Load(job, w) <= Reach(job, w)
  BY WorkerFacts DEF Reach
<1>2. CASE worker[w].pc \in {"loop", "tail"}
  <2>1. worker[w].next \in Nat /\ worker[w].left \in Nat
    BY WorkerFacts DEF WorkerState
  <2>2. worker[w].next <= First(job, w) + Load(job, w)
        /\ worker[w].written = First(job, w) .. worker[w].next - 1
    <3>1. /\ worker[w].next + worker[w].left = First(job, w) + Load(job, w)
          /\ worker[w].written = First(job, w) .. worker[w].next - 1
      BY <1>2, WorkerFacts DEF WorkerOK
    <3>2. First(job, w) + Load(job, w) \in Nat
      BY WorkerFacts
    <3>. QED
      BY <2>1, <3>1, <3>2
  <2>. QED
    BY <1>1, <2>1, <2>2, WorkerFacts
<1>3. CASE worker[w].pc \in {"fence", "done"}
  BY <1>1, <1>3, WorkerFacts DEF WorkerOK
<1>. QED
  BY <1>2, <1>3, WorkerFacts DEF WorkerState

(* PartsDisjoint holds throughout: threads that move single vectors never  *)
(* write to the same one.                                                  *)
THEOREM PartsAreDisjoint == Spec => []PartsDisjoint
<1>1. CopyInv => PartsDisjoint
  <2>1. ASSUME CopyInv, job # NoJob, job.base.group = 1,
               NEW w \in Workers, NEW x \in Workers, w < x
        PROVE  worker[w].written \cap worker[x].written = {}
    <3>1. job \in Job /\ w \in 0 .. job.threads - 1 /\ x \in 0 .. job.threads - 1
      BY <2>1, WorkerFacts
    <3>2. /\ Total(job) \in Nat /\ job.threads \in Nat \ {0} /\ job.base \in BaseCopiers
          /\ First(job, w) + Load(job, w) = Start(Total(job), job.threads, w + 1)
      BY <2>1, <3>1, PartFacts
    <3>3. job.base.tail = FALSE
      BY <2>1, <3>2, BaseFacts
    <3>4. Reach(job, w) = Start(Total(job), job.threads, w + 1)
      BY <3>2, <3>3 DEF Reach
    <3>5. w + 1 \in 0 .. job.threads /\ x \in 0 .. job.threads /\ w + 1 <= x
      BY <2>1, <3>1, <3>2
    <3>6. Reach(job, w) <= First(job, x)
      BY <3>2, <3>4, <3>5, StartFacts DEF First
    <3>. QED
      BY <2>1, <3>6, WrittenFrom
  <2>2. \A w, x \in Workers : w # x => w < x \/ x < w
    BY DEF Workers
  <2>3. job # NoJob /\ CopyInv => job.threads \in Nat
    BY CopiersAssumption DEF CopyInv, Job
  <2>. QED
    BY <2>1, <2>2, <2>3 DEF PartsDisjoint
<1>. QED
  BY Invariance, <1>1, PTL

(* WithinBuffer holds throughout: a copier alone, or threads that move     *)
(* single vectors, stay inside a buffer that the copier allocated.         *)
THEOREM CopiesStayInside == Spec => []WithinBuffer
<1>1. CopyInv => WithinBuffer
  <2>. SUFFICES ASSUME CopyInv, job # NoJob,
                       job.base.group = 1 \/ (job.threads = 1 /\ job.size > 0),
                       NEW w \in Workers, NEW v \in worker[w].written
                PROVE  v < Allocated(job.base, job.size)
    BY DEF WithinBuffer
  <2>1. job \in Job /\ w \in 0 .. job.threads - 1
    BY WorkerFacts
  <2>2. /\ Total(job) \in Nat /\ job.threads \in Nat \ {0} /\ job.base \in BaseCopiers
        /\ First(job, w) + Part(job, w) <= Total(job) /\ job.size \in Nat
        /\ Part(job, w) \in Nat /\ Load(job, w) \in Nat
    BY <2>1, PartFacts
  <2>3. /\ Allocated(job.base, job.size) \in Nat
        /\ Count(job.base, Total(job)) <= Allocated(job.base, job.size)
    BY <2>2, AllocatedFacts DEF Total
  <2>4. Count(job.base, Total(job)) \in Nat /\ Total(job) <= Count(job.base, Total(job))
    BY <2>2, CountFacts
  <2>6. Reach(job, w) <= Count(job.base, Total(job))
    <3>1. CASE job.base.group = 1
      <4>1. Load(job, w) = Part(job, w) /\ job.base.tail = FALSE
        BY <2>1, <2>2, <3>1, PartFacts, BaseFacts
      <4>2. Reach(job, w) = First(job, w) + Part(job, w)
        BY <4>1 DEF Reach
      <4>. QED
        BY <2>2, <2>4, <4>2, WrittenFrom
    <3>2. CASE job.threads = 1 /\ job.size > 0
      <4>1. w = 0 /\ w + 1 = job.threads
        BY <2>1, <3>2
      <4>2. First(job, w) = 0 /\ Part(job, w) = Total(job)
        BY <2>2, <4>1, StartFacts DEF First, Part, Share
      <4>3. Total(job) > 0
        BY <2>2, <3>2, VectorsFacts DEF Total
      <4>4. Load(job, w) > 0
        BY <2>2, <4>2, <4>3, CountFacts DEF Load
      <4>. QED
        BY <2>2, <4>2, <4>4 DEF Reach, Load
    <3>. QED
      BY <3>1, <3>2
  <2>. QED
    BY <2>3, <2>4, <2>6, WrittenFrom
<1>. QED
  BY Invariance, <1>1, PTL

=============================================================================
