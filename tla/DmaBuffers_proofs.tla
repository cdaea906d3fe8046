-------------------------- MODULE DmaBuffers_proofs --------------------------
(***************************************************************************)
(* The buffer allocator gives no line away twice and finds again what it   *)
(* gets back, for every heap size, word width and set of requests.         *)
(*                                                                         *)
(* BlocksApart is not inductive: it says nothing of the bits, on which     *)
(* alone the search goes.  IInv adds that the bits are those of the blocks *)
(* (MarksAreBlocks) and that every block has a marked line in front of its *)
(* unmarked last one.  A run of zeros can then reach into a block only by  *)
(* its first line, and that line is not handed out.                        *)
(*                                                                         *)
(* ListInv holds the list of blocks in use as a walk: a function from      *)
(* 0 .. number of blocks that runs along prev_blk from the head to null,   *)
(* meets every block once and is followed back by next_blk.                *)
(***************************************************************************)
EXTENDS DmaBuffers, FiniteSetTheorems, TLAPS

BlocksInv ==
  /\ \A b \in blocks : /\ b \in [start : Nat, lines : Nat]
                       /\ b.lines >= 2
                       /\ Extent(b) \subseteq 1..NumBits - 1
                       /\ Extent(b) \cap Reserved = {}
  /\ \A b, c \in blocks : b # c => Extent(b) \cap Extent(c) = {}

MarksInv ==
  up => \A l : l \in used <=> l \in Reserved \/ \E b \in blocks : l \in Marked(b)

IInv ==
  /\ up \in BOOLEAN /\ checks \in BOOLEAN
  /\ searchPos \in Nat /\ (up => searchPos * W <= NumBits)
  /\ ~up => blocks = {}
  /\ BlocksInv
  /\ MarksInv

-----------------------------------------------------------------------------
(* Division, as usedStatus is indexed.                                       *)
LEMMA WordOf ==
  ASSUME NEW w \in Nat \ {0}, NEW n \in Nat, NEW a \in Nat, a < n * w
  PROVE  /\ a \div w \in Nat
         /\ (a \div w) * w <= n * w
<1> DEFINE q == a \div w
           r == a % w
<1>1. /\ q \in Int /\ r \in Int /\ a = w * q + r /\ 0 <= r /\ r < w
  BY SMT
<1>2. q >= 0
  <2>1. SUFFICES ASSUME q < 0 PROVE FALSE
    BY <1>1
  <2>2. w * q <= 0 - w
    BY <1>1, <2>1, SMT
  <2>3. QED
    BY <1>1, <2>2, SMT
<1>3. w * q = q * w
  BY <1>1, SMT
<1>4. QED
  BY <1>1, <1>2, <1>3, SMT

LEMMA Quotient ==
  ASSUME NEW w \in Nat \ {0}, NEW q \in Int, NEW r \in Int, 0 <= r, r < w
  PROVE  (w * q + r) \div w = q
<1> DEFINE a == w * q + r
           p == a \div w
           s == a % w
<1>1. a \in Int
  BY SMT
<1>2. /\ p \in Int /\ s \in Int /\ a = w * p + s /\ 0 <= s /\ s < w
  BY <1>1, SMT
<1>3. w * (q - p) = s - r /\ w * (p - q) = r - s
  BY <1>2, SMT
<1>4. ~(q > p)
  <2>1. SUFFICES ASSUME q >= p + 1 PROVE FALSE
    BY <1>2
  <2>2. w * (q - p) >= w
    BY <2>1, <1>2, SMT
  <2>3. QED
    BY <2>2, <1>2, <1>3, SMT
<1>5. ~(p > q)
  <2>1. SUFFICES ASSUME p >= q + 1 PROVE FALSE
    BY <1>2
  <2>2. w * (p - q) >= w
    BY <2>1, <1>2, SMT
  <2>3. QED
    BY <2>2, <1>2, <1>3, SMT
<1>6. QED
  BY <1>2, <1>4, <1>5

(* The words that hold n bits, when r of them are in the last.               *)
LEMMA LastWord ==
  ASSUME NEW w \in Nat \ {0}, NEW n \in Nat, NEW q \in Int, NEW r \in Int,
         n = w * q + r, 0 <= r, r < w
  PROVE  /\ ((n + w - 1) \div w) * w \in Nat
         /\ r = 0 => ((n + w - 1) \div w) * w = n
         /\ r # 0 => /\ (((n + w - 1) \div w) - 1) * w \in Int
                     /\ (((n + w - 1) \div w) - 1) * w = n - r
<1>1. w * q \in Int /\ w * (q + 1) = w * q + w /\ w * q = q * w /\ (q + 1) * w = w * q + w
  BY SMT
<1>2. CASE r = 0
  <2>1. n + w - 1 = w * q + (w - 1)
    BY <1>1, <1>2
  <2>2. (n + w - 1) \div w = q
    BY <2>1, Quotient
  <2>3. QED
    BY <1>1, <1>2, <2>2
<1>3. CASE r # 0
  <2>1. n + w - 1 = w * (q + 1) + (r - 1)
    BY <1>1
  <2>2. (n + w - 1) \div w = q + 1
    BY <1>3, <2>1, Quotient
  <2>3. QED
    BY <1>1, <1>3, <2>2
<1>4. QED
  BY <1>2, <1>3

(* The bits beyond the heap are reserved, and nothing above a reserved bit   *)
(* is not.                                                                   *)
LEMMA HeapEnd ==
  /\ NumBits \in Nat
  /\ \A l \in NumLines..NumBits - 1 : l \in Reserved
  /\ \A l \in Reserved : l \in Int /\ \A k \in l..NumBits - 1 : k \in Reserved
<1>1. W \in Nat \ {0} /\ NumLines \in Nat
  BY HeapAssumption
<1>2. /\ NumLines \div W \in Int /\ NumLines % W \in Int
      /\ NumLines = W * (NumLines \div W) + (NumLines % W)
      /\ 0 <= NumLines % W /\ NumLines % W < W
  BY <1>1, SMT
<1>3. NumLines % W = 0 \/ 2 * (NumLines % W) >= W
  BY HeapAssumption
<1>4. /\ NumBits \in Nat
      /\ NumLines % W = 0 => NumBits = NumLines
      /\ NumLines % W # 0 => /\ (NumWords - 1) * W \in Int
                             /\ (NumWords - 1) * W = NumLines - (NumLines % W)
  <2> DEFINE q == NumLines \div W
             r == NumLines % W
  <2>1. NumLines = W * q + r
    BY <1>2
  <2>2. q \in Int
    BY <1>2
  <2>3. r \in Int
    BY <1>2
  <2>4. 0 <= r
    BY <1>2
  <2>5. r < W
    BY <1>2
  <2>6. NumLines \in Nat
    BY <1>1
  <2>7. W \in Nat \ {0}
    BY <1>1
  <2> HIDE DEF q, r
  <2>8. /\ ((NumLines + W - 1) \div W) * W \in Nat
        /\ r = 0 => ((NumLines + W - 1) \div W) * W = NumLines
        /\ r # 0 => /\ (((NumLines + W - 1) \div W) - 1) * W \in Int
                    /\ (((NumLines + W - 1) \div W) - 1) * W = NumLines - r
    BY <2>1, <2>2, <2>3, <2>4, <2>5, <2>6, <2>7, LastWord
  <2> QED
    BY <2>8, Zenon DEF NumBits, NumWords, r
<1>5. CASE NumLines % W = 0
  BY <1>1, <1>4, <1>5 DEF Reserved
<1>6. CASE NumLines % W # 0
  <2>1. Reserved = (NumLines - (NumLines % W)) + (W - (NumLines % W)) .. NumBits - 1
    BY <1>4, <1>6 DEF Reserved
  <2>2. QED
    BY <1>1, <1>2, <1>3, <1>4, <1>6, <2>1
<1>7. QED
  BY <1>5, <1>6

-----------------------------------------------------------------------------
(* What the search and the scan for a block's end return.                    *)
LEMMA FitsFree ==
  ASSUME IInv, up, NEW n \in Nat, NEW r \in Fits(n)
  PROVE  /\ r \in Nat /\ r + n < NumBits
         /\ \A l \in r..r + n : l \notin used
<1>1. NumBits \in Nat /\ searchPos * W \in Nat /\ searchPos * W <= NumBits
  <2>1. W \in Nat /\ searchPos \in Nat
    BY HeapAssumption DEF IInv
  <2>2. searchPos * W \in Nat
    BY <2>1, SMT
  <2>3. QED
    BY <2>2, HeapEnd DEF IInv
<1>2. r \in FreeRuns(n, searchPos * W, NumBits) \/ r \in FreeRuns(n, 0, searchPos * W)
  BY Zenon DEF Fits
<1>3. QED
  BY <1>1, <1>2 DEF FreeRuns

LEMMA LinesForBounds ==
  ASSUME NEW bytes \in Requests
  PROVE  LinesFor(bytes) \in Nat /\ LinesFor(bytes) >= 2
<1> DEFINE size == IF checks THEN ((bytes + 3) \div 4) * 4 + HeaderAndFooter ELSE bytes
<1>1. bytes \in Nat
  BY HeapAssumption
<1>2. (bytes + 3) \div 4 \in Nat
  BY <1>1, SMT
<1>3. size \in Nat
  BY <1>1, <1>2 DEF HeaderAndFooter
<1>4. LinesFor(bytes) = IF size <= 32 THEN 2 ELSE (size + 31) \div 32
  BY <1>3 DEF LinesFor, CacheLine
<1>5. ASSUME NEW n \in Nat, n > 32
      PROVE  (n + 31) \div 32 \in Nat /\ (n + 31) \div 32 >= 2
  BY <1>5, SMT
<1> HIDE DEF size
<1>6. QED
  BY <1>3, <1>4, <1>5

(* The ones a block's end is looked for among are exactly its marks.         *)
LEMMA OnesAreMarks ==
  ASSUME IInv, up, NEW b \in blocks
  PROVE  \A l : l \in OnesFrom(b.start) <=> l \in Marked(b)
<1> DEFINE end == b.start + b.lines - 1
<1>1. /\ b.start \in Nat /\ b.lines \in Nat /\ b.lines >= 2
      /\ NumBits \in Nat
      /\ Extent(b) \subseteq 1..NumBits - 1
  BY HeapEnd DEF IInv, BlocksInv
<1>2. ASSUME NEW l \in Marked(b)
      PROVE  l \in OnesFrom(b.start)
  <2>1. \A k \in b.start..l : k \in used
    BY <1>1, <1>2 DEF IInv, MarksInv, Marked
  <2>2. l \in b.start..NumBits - 1
    BY <1>1, <1>2 DEF Marked, Extent
  <2>3. QED
    BY <2>1, <2>2 DEF OnesFrom
<1>3. end \notin used
  <2>1. end \in Extent(b) /\ end \notin Marked(b)
    BY <1>1 DEF Extent, Marked
  <2>2. \A c \in blocks : end \in Marked(c) => end \in Extent(c)
    BY DEF IInv, BlocksInv, Extent, Marked
  <2>3. QED
    BY <2>1, <2>2 DEF IInv, BlocksInv, MarksInv
<1>4. ASSUME NEW l \in OnesFrom(b.start)
      PROVE  l \in Marked(b)
  <2>1. l \in b.start..NumBits - 1 /\ \A k \in b.start..l : k \in used
    BY DEF OnesFrom
  <2>2. ~(end <= l)
    BY <1>1, <1>3, <2>1
  <2>3. QED
    BY <1>1, <2>1, <2>2 DEF Marked
<1>5. QED
  BY <1>2, <1>4

-----------------------------------------------------------------------------
(* One lemma per operation that touches the bits.                            *)
LEMMA AllocKeeps ==
  ASSUME IInv, NEW bytes \in Requests, DmaBufferAlloc(bytes)
  PROVE  IInv'
<1> DEFINE n == LinesFor(bytes)
<1>1. n \in Nat /\ n >= 2 /\ up
  BY LinesForBounds DEF DmaBufferAlloc
<1>2. PICK r \in Fits(n) : Place(r, n)
  BY DEF DmaBufferAlloc
<1>3. /\ r \in Nat /\ r + n < NumBits /\ NumBits \in Nat
      /\ \A l \in r..r + n : l \notin used
  BY <1>1, FitsFree, HeapEnd
<1> HIDE DEF n
<1> DEFINE new == [start |-> r + 1, lines |-> n]
<1>4. /\ new \in [start : Nat, lines : Nat] /\ new.lines >= 2
      /\ Extent(new) = r + 1 .. r + n /\ Marked(new) = r + 1 .. r + n - 1
  BY <1>1, <1>3 DEF Extent, Marked
<1>5. blocks' = blocks \cup {new} /\ used' = used \cup Marked(new) /\ up' = up /\ checks' = checks
  BY <1>2, <1>4 DEF Place, DmaBufferAlloc
<1>6. ASSUME NEW b \in blocks
      PROVE  Extent(b) \cap Extent(new) = {}
  <2>1. SUFFICES ASSUME NEW l \in Extent(b), l \in Extent(new)
                 PROVE  FALSE
    OBVIOUS
  <2>2. l \in r..r + n /\ l - 1 \in r..r + n
    BY <1>1, <1>3, <1>4, <2>1
  <2>3. b.start \in Nat /\ b.lines \in Nat /\ b.lines >= 2
    BY DEF IInv, BlocksInv
  <2>4. l \in Marked(b) \/ l - 1 \in Marked(b)
    BY <2>1, <2>3 DEF Extent, Marked
  <2>5. QED
    BY <1>1, <1>3, <2>2, <2>4 DEF IInv, MarksInv
<1>7. Extent(new) \subseteq 1..NumBits - 1 /\ Extent(new) \cap Reserved = {}
  BY <1>1, <1>3, <1>4 DEF IInv, MarksInv
<1>8. BlocksInv'
  <2>1. \A b \in blocks' : /\ b \in [start : Nat, lines : Nat]
                           /\ b.lines >= 2
                           /\ Extent(b) \subseteq 1..NumBits - 1
                           /\ Extent(b) \cap Reserved = {}
    BY <1>4, <1>5, <1>7 DEF IInv, BlocksInv
  <2>2. \A b, c \in blocks' : b # c => Extent(b) \cap Extent(c) = {}
    BY <1>5, <1>6 DEF IInv, BlocksInv
  <2>3. QED
    BY <2>1, <2>2 DEF BlocksInv, Extent, Reserved, NumBits, NumWords
<1>9. MarksInv'
  <2>1. \A l : l \in used' <=> l \in Reserved \/ \E b \in blocks' : l \in Marked(b)
    BY <1>1, <1>5 DEF IInv, MarksInv
  <2>2. QED
    BY <2>1 DEF MarksInv, Marked, Reserved, NumBits, NumWords
<1>10. searchPos' \in Nat /\ searchPos' * W <= NumBits
  <2>1. searchPos' = (r + n) \div W
    BY <1>2 DEF Place
  <2>2. W \in Nat \ {0} /\ NumLines \in Nat
    BY HeapAssumption
  <2>3. NumWords \in Nat
    <3>1. NumWords \in Int
      BY <2>2, SMT DEF NumWords
    <3>2. NumWords >= 0
      BY <1>3, <2>2, <3>1, SMT DEF NumBits
    <3>3. QED
      BY <3>1, <3>2
  <2>4. QED
    BY <1>1, <1>3, <2>1, <2>2, <2>3, WordOf DEF NumBits
<1>11. QED
  BY <1>1, <1>5, <1>8, <1>9, <1>10 DEF IInv, NumBits, NumWords

LEMMA FreeKeeps ==
  ASSUME IInv, NEW b \in blocks, DmaBufferFree(b)
  PROVE  IInv'
<1>1. /\ up /\ up' /\ checks' = checks /\ searchPos' = 0 /\ blocks' = blocks \ {b}
      /\ \A l : l \in used' <=> l \in used /\ l \notin Marked(b)
  BY OnesAreMarks DEF DmaBufferFree, Release
<1>2. BlocksInv'
  <2>1. \A c \in blocks' : c \in blocks
    BY <1>1
  <2>2. QED
    BY <2>1 DEF IInv, BlocksInv, Extent, Reserved, NumBits, NumWords
<1>3. ASSUME NEW l
      PROVE  l \in used' <=> l \in Reserved \/ \E c \in blocks' : l \in Marked(c)
  <2>1. \A c \in blocks : l \in Marked(c) => l \in Extent(c)
    BY DEF IInv, BlocksInv, Marked, Extent
  <2>2. \A c \in blocks' : l \in Marked(c) => l \notin Marked(b)
    BY <1>1, <2>1 DEF IInv, BlocksInv
  <2>3. l \in Reserved => l \notin Marked(b)
    BY <2>1 DEF IInv, BlocksInv
  <2>4. l \in used <=> l \in Reserved \/ \E c \in blocks : l \in Marked(c)
    BY <1>1 DEF IInv, MarksInv
  <2>5. QED
    BY <1>1, <2>2, <2>3, <2>4
<1>4. MarksInv'
  BY <1>3 DEF MarksInv, Marked, Reserved, NumBits, NumWords
<1>5. searchPos' * W <= NumBits
  <2>1. W \in Nat
    BY HeapAssumption
  <2>2. QED
    BY <1>1, <2>1, HeapEnd
<1>6. QED
  BY <1>1, <1>2, <1>4, <1>5 DEF IInv, NumBits, NumWords

-----------------------------------------------------------------------------
(* The list of blocks in use, as the walk f along it: newest block first,    *)
(* null at its end, every block once, and the pointers both ways.            *)
IsWalk(f, n) ==
  /\ f \in [0..n -> Nat] /\ f[0] = head /\ f[n] = 0
  /\ \A i \in 0..n - 1 : /\ f[i] \in Starts
                        /\ prev[f[i]] = f[i + 1]
                        /\ next[f[i]] = IF i = 0 THEN 0 ELSE f[i - 1]
  /\ \A i, j \in 0..n - 1 : f[i] = f[j] => i = j
  /\ \A s \in Starts : \E i \in 0..n - 1 : f[i] = s

ListInv ==
  /\ IsFiniteSet(blocks)
  /\ IF checks THEN \E f \in [0..Cardinality(blocks) -> Starts \cup {0}] :
                      IsWalk(f, Cardinality(blocks))
               ELSE head = 0

(* Blocks have different starts, none of them null.                          *)
LEMMA StartsDiffer ==
  IInv => /\ 0 \notin Starts /\ Starts \subseteq Nat
          /\ \A b, c \in blocks : b.start = c.start => b = c
<1> SUFFICES ASSUME IInv
             PROVE  /\ 0 \notin Starts /\ Starts \subseteq Nat
                    /\ \A b, c \in blocks : b.start = c.start => b = c
  OBVIOUS
<1>1. ASSUME NEW b \in blocks
      PROVE  b.start \in Nat /\ b.start \in Extent(b) /\ b.start # 0
  <2>1. b.start \in Nat /\ b.lines \in Nat /\ b.lines >= 2
    BY DEF IInv, BlocksInv
  <2>2. b.start \in Extent(b)
    BY <2>1 DEF Extent
  <2>3. b.start \in 1..NumBits - 1
    BY <2>2 DEF IInv, BlocksInv
  <2> QED
    BY <2>1, <2>2, <2>3, HeapEnd
<1> QED
  BY <1>1 DEF Starts, IInv, BlocksInv

(* A new block is put in front of the list.                                  *)
LEMMA LinkKeeps ==
  ASSUME NEW n \in Nat, NEW f, IsWalk(f, n), NEW s \in Nat \ {0}, s \notin Starts,
         0 \notin Starts, Starts' = Starts \cup {s}, checks, Link(s)
  PROVE  \E g \in [0..n + 1 -> Starts' \cup {0}] : IsWalk(g, n + 1)'
<1> DEFINE g == [i \in 0..n + 1 |-> IF i = 0 THEN s ELSE f[i - 1]]
<1>1. /\ head' = s
      /\ \A t \in Starts \cup {s} : /\ prev'[t] = IF t = s THEN head ELSE prev[t]
                                    /\ t = s => next'[t] = 0
                                    /\ (t # s /\ t = head) => next'[t] = s
                                    /\ (t # s /\ t # head) => next'[t] = next[t]
  <2>1. /\ head' = s
        /\ prev' = [t \in Starts \cup {s} |-> IF t = s THEN head ELSE prev[t]]
        /\ next' = [t \in Starts \cup {s} |->
                      CASE t = s -> 0 [] t = head -> s [] OTHER -> next[t]]
    BY DEF Link
  <2>2. s # head
    BY DEF IsWalk, Starts
  <2> QED
    BY <2>1, <2>2
<1>2. /\ f \in [0..n -> Nat] /\ f[0] = head /\ f[n] = 0
      /\ \A i \in 0..n - 1 : f[i] \in Starts
  BY DEF IsWalk
<1>prev. \A i \in 0..n - 1 : prev[f[i]] = f[i + 1]
  BY DEF IsWalk
<1>next. \A i \in 0..n - 1 : next[f[i]] = IF i = 0 THEN 0 ELSE f[i - 1]
  BY DEF IsWalk
<1>all. \A t \in Starts : \E i \in 0..n - 1 : f[i] = t
  BY DEF IsWalk
<1>once. \A i, j \in 0..n - 1 : f[i] = f[j] => i = j
  BY DEF IsWalk
<1>3. /\ \A i \in 1..n + 1 : i - 1 \in 0..n /\ g[i] = f[i - 1]
      /\ g[0] = s
      /\ \A S : (\A i \in 0..n + 1 : g[i] \in S) => g \in [0..n + 1 -> S]
  OBVIOUS
<1> HIDE DEF g
<1>4. g[0] = s /\ g[n + 1] = 0 /\ g \in [0..n + 1 -> Nat]
  <2>1. \A i \in 0..n + 1 : i = 0 \/ i \in 1..n + 1
    OBVIOUS
  <2>2. \A i \in 0..n + 1 : g[i] \in Nat
    BY <1>2, <1>3, <2>1
  <2>3. g[n + 1] = 0
    BY <1>2, <1>3
  <2> QED
    BY <1>3, <2>2, <2>3
<1>5. \A i \in 1..n : i - 1 \in 0..n - 1 /\ g[i] \in Starts /\ g[i] # s
  BY <1>2, <1>3
<1>6. ASSUME NEW i \in 0..(n + 1) - 1
      PROVE  /\ g[i] \in Starts' /\ prev'[g[i]] = g[i + 1]
             /\ next'[g[i]] = IF i = 0 THEN 0 ELSE g[i - 1]
  <2>1. CASE i = 0
    BY <1>1, <1>2, <1>3, <1>4, <2>1
  <2>2. CASE i = 1
    <3>1. g[1] = f[0] /\ g[2] = f[1] /\ g[1] \in Starts /\ g[1] # s
      BY <1>3, <1>5, <2>2
    <3>2. prev[f[0]] = f[1] /\ f[0] = head
      BY <1>2, <1>prev, <2>2
    <3> QED
      BY <1>1, <1>3, <2>2, <3>1, <3>2
  <2>3. CASE i > 1
    <3>1. i \in 1..n /\ i - 1 \in 1..n /\ i + 1 \in 1..n + 1
      BY <2>3
    <3>2. g[i] = f[i - 1] /\ g[i - 1] = f[i - 2] /\ g[i + 1] = f[i]
      BY <1>3, <3>1
    <3>3. g[i] # head
      BY <1>2, <1>once, <2>3, <3>1, <3>2
    <3>4. prev[f[i - 1]] = f[i] /\ next[f[i - 1]] = f[i - 2]
      <4>1. i - 1 \in 0..n - 1 /\ (i - 1) + 1 = i /\ (i - 1) - 1 = i - 2 /\ i - 1 # 0
        BY <2>3, <3>1
      <4> QED
        BY <1>prev, <1>next, <4>1
    <3>5. g[i] \in Starts /\ g[i] # s
      BY <1>5, <3>1
    <3> QED
      BY <1>1, <2>3, <3>2, <3>3, <3>4, <3>5
  <2> QED
    BY <2>1, <2>2, <2>3
<1>7. \A i, j \in 0..(n + 1) - 1 : g[i] = g[j] => i = j
  <2> SUFFICES ASSUME NEW i \in 0..(n + 1) - 1, NEW j \in 0..(n + 1) - 1, g[i] = g[j]
               PROVE  i = j
    OBVIOUS
  <2>1. (i = 0 \/ i \in 1..n) /\ (j = 0 \/ j \in 1..n)
    OBVIOUS
  <2>2. i \in 1..n => g[i] # g[0]
    BY <1>3, <1>5
  <2>3. j \in 1..n => g[j] # g[0]
    BY <1>3, <1>5
  <2>4. CASE i \in 1..n /\ j \in 1..n
    <3>1. i - 1 \in 0..n - 1 /\ j - 1 \in 0..n - 1 /\ f[i - 1] = f[j - 1]
      BY <1>3, <2>4
    <3>2. i - 1 = j - 1
      BY <1>once, <3>1
    <3> QED
      BY <2>4, <3>2
  <2> QED
    BY <2>1, <2>2, <2>3, <2>4
<1>8. \A t \in Starts' : \E i \in 0..(n + 1) - 1 : g[i] = t
  <2> SUFFICES ASSUME NEW t \in Starts PROVE \E i \in 0..(n + 1) - 1 : g[i] = t
    BY <1>4
  <2>1. PICK i \in 0..n - 1 : f[i] = t
    BY <1>all
  <2>2. i + 1 \in 1..n + 1 /\ i + 1 \in 0..(n + 1) - 1 /\ (i + 1) - 1 = i
    BY <2>1
  <2>3. g[i + 1] = t
    BY <1>3, <2>1, <2>2
  <2> QED
    BY <2>2, <2>3
<1>9. g \in [0..n + 1 -> Starts' \cup {0}]
  <2>1. \A i \in 0..n + 1 : g[i] \in Starts' \cup {0}
    BY <1>4, <1>5
  <2> QED
    BY <1>3, <2>1
<1>10. IsWalk(g, n + 1)'
  BY <1>1, <1>4, <1>6, <1>7, <1>8 DEF IsWalk
<1> QED
  BY <1>9, <1>10

(* A block is taken out of the list wherever it is.                          *)
LEMMA UnlinkKeeps ==
  ASSUME NEW n \in Nat \ {0}, NEW f, IsWalk(f, n), NEW s \in Starts,
         0 \notin Starts, Starts' = Starts \ {s}, checks, Unlink(s)
  PROVE  \E g \in [0..n - 1 -> Starts' \cup {0}] : IsWalk(g, n - 1)'
<1>1. /\ head' = IF head = s THEN prev[s] ELSE head
      /\ \A t \in Starts \ {s} : /\ prev'[t] = IF t = next[s] THEN prev[s] ELSE prev[t]
                                 /\ next'[t] = IF t = prev[s] THEN next[s] ELSE next[t]
  BY DEF Unlink
<1>2. /\ f \in [0..n -> Nat] /\ f[0] = head /\ f[n] = 0
      /\ \A i \in 0..n - 1 : f[i] \in Starts
  BY DEF IsWalk
<1>prev. \A i \in 0..n - 1 : prev[f[i]] = f[i + 1]
  BY DEF IsWalk
<1>next. \A i \in 0..n - 1 : next[f[i]] = IF i = 0 THEN 0 ELSE f[i - 1]
  BY DEF IsWalk
<1>all. \A t \in Starts : \E i \in 0..n - 1 : f[i] = t
  BY DEF IsWalk
<1>once. \A i, j \in 0..n - 1 : f[i] = f[j] => i = j
  BY DEF IsWalk
<1>3. PICK k \in 0..n - 1 : f[k] = s
  BY <1>all
<1> DEFINE g == [i \in 0..n - 1 |-> IF i < k THEN f[i] ELSE f[i + 1]]
<1>4. /\ \A i \in 0..n - 1 : i < k => g[i] = f[i]
      /\ \A i \in 0..n - 1 : i >= k => g[i] = f[i + 1] /\ i + 1 \in 1..n
      /\ \A S : (\A i \in 0..n - 1 : g[i] \in S) => g \in [0..n - 1 -> S]
  OBVIOUS
<1> HIDE DEF g
<1>5. g \in [0..n - 1 -> Nat] /\ g[n - 1] = 0 /\ g[0] = head'
  <2>1. ASSUME NEW i \in 0..n - 1 PROVE g[i] \in Nat
    <3>1. i \in 0..n /\ i + 1 \in 0..n /\ (i < k \/ i >= k)
      BY <1>3
    <3>2. g[i] = f[i] \/ g[i] = f[i + 1]
      BY <1>4, <3>1
    <3> QED
      BY <1>2, <3>1, <3>2
  <2>2. g[n - 1] = 0
    <3>1. n - 1 \in 0..n - 1 /\ n - 1 >= k /\ (n - 1) + 1 = n
      BY <1>3
    <3> QED
      BY <1>2, <1>4, <3>1
  <2>3. g[0] = head'
    <3>1. 0 \in 0..n - 1 /\ 0 + 1 = 1 /\ (k = 0 \/ 0 < k)
      BY <1>3
    <3>2. CASE k = 0
      <4>1. g[0] = f[1] /\ head = s /\ prev[s] = f[1]
        BY <1>2, <1>prev, <1>3, <1>4, <3>1, <3>2
      <4> QED
        BY <1>1, <4>1
    <3>3. CASE 0 < k
      <4>1. g[0] = f[0] /\ head # s
        BY <1>2, <1>once, <1>3, <1>4, <3>1, <3>3
      <4> QED
        BY <1>1, <1>2, <4>1
    <3> QED
      BY <3>1, <3>2, <3>3
  <2> QED
    BY <1>4, <2>1, <2>2, <2>3
<1>6. ASSUME NEW i \in 0..(n - 1) - 1 PROVE g[i] \in Starts \ {s}
  <2>1. i \in 0..n - 1 /\ i + 1 \in 0..n - 1 /\ (i < k \/ i >= k)
    BY <1>3
  <2>2. (i < k /\ g[i] = f[i]) \/ (i >= k /\ g[i] = f[i + 1])
    BY <1>4, <2>1
  <2>3. CASE i < k
    BY <1>2, <1>3, <1>once, <2>1, <2>2, <2>3
  <2>4. CASE i >= k
    <3>1. f[i + 1] = f[k] => i + 1 = k
      BY <1>3, <1>once, <2>1
    <3> QED
      BY <1>2, <1>3, <2>1, <2>2, <2>4, <3>1
  <2> QED
    BY <2>1, <2>3, <2>4
<1>7. /\ prev[s] = f[k + 1] /\ next[s] = IF k = 0 THEN 0 ELSE f[k - 1]
      /\ \A i \in 0..n - 1 : f[i] = next[s] <=> i = k - 1
      /\ \A i \in 0..n - 1 : f[i] = prev[s] <=> i = k + 1
  <2>1. prev[s] = f[k + 1] /\ next[s] = IF k = 0 THEN 0 ELSE f[k - 1]
    BY <1>prev, <1>next, <1>3
  <2>2. ASSUME NEW i \in 0..n - 1 PROVE f[i] = next[s] <=> i = k - 1
    <3>1. CASE k = 0
      <4>1. next[s] = 0 /\ i # k - 1 /\ f[i] \in Starts
        BY <1>2, <2>1, <3>1
      <4> QED
        BY <4>1
    <3>2. CASE k > 0
      <4>1. next[s] = f[k - 1] /\ k - 1 \in 0..n - 1
        BY <1>3, <2>1, <3>2
      <4> QED
        BY <1>once, <4>1
    <3> QED
      BY <1>3, <3>1, <3>2
  <2>3. ASSUME NEW i \in 0..n - 1 PROVE f[i] = prev[s] <=> i = k + 1
    <3>1. CASE k + 1 = n
      <4>1. prev[s] = 0 /\ i # k + 1 /\ f[i] \in Starts
        BY <1>2, <2>1, <3>1
      <4> QED
        BY <4>1
    <3>2. CASE k + 1 < n
      <4>1. k + 1 \in 0..n - 1
        BY <1>3, <3>2
      <4> QED
        BY <1>once, <2>1, <4>1
    <3> QED
      BY <1>3, <3>1, <3>2
  <2> QED
    BY <2>1, <2>2, <2>3
<1>8. ASSUME NEW i \in 0..(n - 1) - 1
      PROVE  prev'[g[i]] = g[i + 1] /\ next'[g[i]] = IF i = 0 THEN 0 ELSE g[i - 1]
  <2>1. i \in 0..n - 1 /\ i + 1 \in 0..n - 1 /\ g[i] \in Starts \ {s}
    BY <1>6
  <2>2. CASE i < k
    <3>1. g[i] = f[i] /\ (i > 0 => g[i - 1] = f[i - 1])
      BY <2>2, <1>4
    <3>2. prev'[g[i]] = g[i + 1]
      <4>1. CASE i = k - 1
        <5>1. prev'[g[i]] = prev[s] /\ prev[s] = f[k + 1] /\ i + 1 = k
          BY <1>1, <1>3, <1>7, <2>1, <3>1, <4>1
        <5>2. g[k] = f[k + 1]
          BY <1>3, <1>4
        <5> QED
          BY <5>1, <5>2
      <4>2. CASE i < k - 1
        <5>1. prev'[g[i]] = prev[f[i]] /\ i + 1 < k
          BY <1>1, <1>3, <1>7, <2>1, <3>1, <4>2
        <5> QED
          BY <1>prev, <1>4, <2>1, <5>1
      <4> QED
        BY <1>3, <2>2, <4>1, <4>2
    <3>3. next'[g[i]] = next[f[i]]
      <4>1. g[i] # prev[s]
        BY <1>3, <1>7, <2>1, <2>2, <3>1
      <4> QED
        BY <1>1, <2>1, <3>1, <4>1
    <3> QED
      BY <1>next, <2>1, <3>1, <3>2, <3>3
  <2>3. CASE i >= k
    <3>1. g[i] = f[i + 1] /\ g[i + 1] = f[i + 2] /\ i + 2 \in 1..n
      BY <1>3, <1>4, <2>1, <2>3
    <3>2. prev'[g[i]] = g[i + 1]
      <4>1. prev'[g[i]] = prev[f[i + 1]] /\ i + 1 \in 0..n - 1 /\ (i + 1) + 1 = i + 2
        BY <1>1, <1>3, <1>7, <2>1, <2>3, <3>1
      <4>2. prev[f[i + 1]] = f[(i + 1) + 1]
        BY <1>prev, <4>1
      <4> QED
        BY <3>1, <4>1, <4>2
    <3>3. CASE i = k
      <4>1. next'[g[i]] = next[s]
        BY <1>1, <1>3, <1>7, <2>1, <3>1, <3>3
      <4>2. k > 0 => g[k - 1] = f[k - 1]
        BY <1>3, <1>4
      <4>3. next[s] = IF k = 0 THEN 0 ELSE f[k - 1]
        BY <1>7
      <4> QED
        BY <1>3, <3>2, <3>3, <4>1, <4>2, <4>3
    <3>4. CASE i > k
      <4>1. next'[g[i]] = next[f[i + 1]]
        BY <1>1, <1>3, <1>7, <2>1, <3>1, <3>4
      <4>2. g[i - 1] = f[i]
        BY <1>3, <1>4, <2>1, <3>4
      <4>3. next[f[i + 1]] = f[i] /\ i # 0
        <5>1. i + 1 \in 0..n - 1 /\ i + 1 # 0 /\ (i + 1) - 1 = i /\ i # 0
          BY <1>3, <2>1, <3>4
        <5>2. next[f[i + 1]] = f[(i + 1) - 1]
          BY <1>next, <5>1
        <5> QED
          BY <5>1, <5>2
      <4> QED
        BY <3>2, <4>1, <4>2, <4>3
    <3> QED
      BY <1>3, <2>1, <2>3, <3>3, <3>4
  <2> QED
    BY <1>3, <2>1, <2>2, <2>3
<1>9. \A i, j \in 0..(n - 1) - 1 : g[i] = g[j] => i = j
  <2> TAKE i \in 0..(n - 1) - 1, j \in 0..(n - 1) - 1
  <2>1. /\ i \in 0..n - 1 /\ i + 1 \in 0..n - 1 /\ (i < k \/ i >= k)
        /\ j \in 0..n - 1 /\ j + 1 \in 0..n - 1 /\ (j < k \/ j >= k)
    BY <1>3
  <2>2. /\ (i < k /\ g[i] = f[i]) \/ (i >= k /\ g[i] = f[i + 1])
        /\ (j < k /\ g[j] = f[j]) \/ (j >= k /\ g[j] = f[j + 1])
    BY <1>4, <2>1
  <2>3. /\ f[i] = f[j] => i = j
        /\ f[i + 1] = f[j + 1] => i + 1 = j + 1
        /\ f[i] = f[j + 1] => i = j + 1
        /\ f[i + 1] = f[j] => i + 1 = j
    BY <1>once, <2>1
  <2> QED
    BY <2>1, <2>2, <2>3
<1>10. \A t \in Starts \ {s} : \E i \in 0..(n - 1) - 1 : g[i] = t
  <2> TAKE t \in Starts \ {s}
  <2>1. PICK i \in 0..n - 1 : f[i] = t
    BY <1>all
  <2>2. CASE i < k
    BY <1>3, <1>4, <2>1, <2>2
  <2>3. CASE i > k
    <3>1. i - 1 \in 0..(n - 1) - 1 /\ g[i - 1] = t
      BY <1>3, <1>4, <2>1, <2>3
    <3> QED
      BY <3>1
  <2> QED
    BY <1>3, <2>1, <2>2, <2>3
<1>11. g \in [0..n - 1 -> Starts' \cup {0}]
  <2>1. \A i \in 0..n - 1 : g[i] \in Starts' \cup {0}
    BY <1>5, <1>6
  <2> QED
    BY <1>4, <2>1
<1>12. IsWalk(g, n - 1)'
  BY <1>5, <1>6, <1>8, <1>9, <1>10 DEF IsWalk
<1> QED
  BY <1>11, <1>12

-----------------------------------------------------------------------------
LEMMA InitIInv == Init => IInv
<1> SUFFICES ASSUME Init
             PROVE  IInv
  OBVIOUS
<1>1. ~up /\ up \in BOOLEAN /\ checks \in BOOLEAN /\ blocks = {}
  BY Zenon DEF Init
<1>2. searchPos \in Nat
  BY DEF Init
<1>3. BlocksInv /\ MarksInv
  BY <1>1 DEF BlocksInv, MarksInv
<1>4. QED
  BY <1>1, <1>2, <1>3 DEF IInv

LEMMA NextIInv == IInv /\ [Next]_vars => IInv'
<1> SUFFICES ASSUME IInv, [Next]_vars
             PROVE  IInv'
  OBVIOUS
<1>1. W \in Nat
  BY HeapAssumption
<1>2. CASE EnableChecks
  BY <1>2 DEF EnableChecks, IInv, BlocksInv, MarksInv, Extent, Marked, Reserved, NumBits, NumWords
<1>3. CASE DmaBufferInit
  <2>1. /\ up' = TRUE /\ used' = Reserved /\ searchPos' = 0 /\ blocks' = {}
        /\ checks' \in BOOLEAN
    BY <1>3 DEF DmaBufferInit, IInv
  <2>2. searchPos' * W <= NumBits
    BY <1>1, <2>1, HeapEnd
  <2>3. BlocksInv'
    BY <2>1 DEF BlocksInv
  <2>4. MarksInv'
    BY <2>1 DEF MarksInv, Reserved, NumBits, NumWords
  <2>5. QED
    BY <2>1, <2>2, <2>3, <2>4 DEF IInv, NumBits, NumWords
<1>4. CASE DmaBufferDeInit
  <2>1. up' = FALSE /\ blocks' = {} /\ checks' \in BOOLEAN /\ searchPos' \in Nat
    BY <1>4 DEF DmaBufferDeInit, IInv
  <2>2. QED
    BY <2>1 DEF IInv, BlocksInv, MarksInv
<1>5. CASE \E bytes \in Requests : DmaBufferAlloc(bytes)
  BY <1>5, AllocKeeps
<1>6. CASE \E b \in blocks : DmaBufferFree(b)
  BY <1>6, FreeKeeps
<1>7. CASE UNCHANGED vars
  BY <1>7 DEF vars, IInv, BlocksInv, MarksInv, Extent, Marked, Reserved, NumBits, NumWords
<1>8. QED
  BY <1>2, <1>3, <1>4, <1>5, <1>6, <1>7 DEF Next

(* The invariant, for every heap and all requests.                           *)
THEOREM Invariance == Spec => []IInv
  BY InitIInv, NextIInv, PTL DEF Spec

(* No cache line is held by two callers and no block leaves the heap         *)
(* (cyfxtx.c:853-977).                                                       *)
THEOREM Apart == Spec => []BlocksApart
<1>1. IInv => BlocksApart
  <2>1. SUFFICES ASSUME IInv, NEW b \in blocks
                 PROVE  Extent(b) \subseteq 1..NumLines - 1
    BY DEF IInv, BlocksInv, BlocksApart
  <2>2. /\ Extent(b) \subseteq 1..NumBits - 1
        /\ Extent(b) \cap Reserved = {}
    BY <2>1 DEF IInv, BlocksInv
  <2>3. NumLines \in Nat
    BY HeapAssumption
  <2>4. QED
    BY <2>2, <2>3, HeapEnd
<1>2. QED
  BY Invariance, <1>1, PTL

(* The bits say which lines are held, so that CyU3PDmaBufferFree finds the   *)
(* end of a block by itself (cyfxtx.c:1051-1068).                            *)
THEOREM Marks == Spec => []MarksAreBlocks
<1>1. IInv => MarksAreBlocks
  BY DEF IInv, MarksInv, MarksAreBlocks
<1>2. QED
  BY Invariance, <1>1, PTL

(* The room of a freed block is found by the next request of its size        *)
(* (cyfxtx.c:1070-1072).                                                     *)
THEOREM FreedFound == Spec => FreedIsFound
<1>1. ASSUME IInv, IInv', [Next]_vars, NEW b \in blocks, up', b \notin blocks'
      PROVE  Fits(b.lines)' # {}
  <2>1. DmaBufferFree(b)
    BY <1>1 DEF Next, vars, EnableChecks, DmaBufferInit, DmaBufferDeInit,
                DmaBufferAlloc, Place, DmaBufferFree
  <2>2. /\ up /\ searchPos' = 0
        /\ \A l : l \in used' <=> l \in used /\ l \notin Marked(b)
    BY <1>1, <2>1, OnesAreMarks DEF DmaBufferFree, Release
  <2>3. /\ b.start \in Nat /\ b.lines \in Nat /\ b.lines >= 2 /\ NumBits \in Nat
        /\ Extent(b) \subseteq 1..NumBits - 1
        /\ Extent(b) \cap Reserved = {}
    BY <1>1, HeapEnd DEF IInv, BlocksInv
  <2> DEFINE r == b.start - 1
  <2>4. r \in 0..NumBits - 1 - b.lines
    <3>1. b.start \in Extent(b) /\ b.start + b.lines - 1 \in Extent(b)
      BY <2>3 DEF Extent
    <3>2. QED
      BY <2>3, <3>1
  <2>5. r \notin used
    <3>1. r \notin Reserved
      BY <2>3, HeapEnd DEF Extent
    <3>2. \A c \in blocks : r \notin Marked(c)
      <4>1. SUFFICES ASSUME NEW c \in blocks, r \in Marked(c)
                     PROVE  FALSE
        OBVIOUS
      <4>2. c # b /\ b.start \in Extent(c) /\ b.start \in Extent(b)
        BY <1>1, <2>3, <4>1 DEF IInv, BlocksInv, Extent, Marked
      <4>3. QED
        BY <1>1, <4>2 DEF IInv, BlocksInv
    <3>3. QED
      BY <1>1, <2>2, <3>1, <3>2 DEF IInv, MarksInv
  <2>6. \A l \in Extent(b) : l \notin used'
    <3>1. SUFFICES ASSUME NEW l \in Extent(b), l \in used, l \notin Marked(b)
                   PROVE  FALSE
      BY <2>2
    <3>2. PICK c \in blocks : l \in Marked(c)
      BY <1>1, <2>2, <2>3, <3>1 DEF IInv, MarksInv
    <3>3. c # b /\ l \in Extent(c)
      BY <1>1, <3>1, <3>2 DEF IInv, BlocksInv, Extent, Marked
    <3>4. QED
      BY <1>1, <3>1, <3>3 DEF IInv, BlocksInv
  <2>7. \A l \in r..r + b.lines : l \notin used'
    BY <2>2, <2>3, <2>5, <2>6 DEF Extent
  <2>8. 0 * W = 0
    BY HeapAssumption
  <2>9. r \in FreeRuns(b.lines, searchPos * W, NumBits)'
    BY <2>2, <2>4, <2>7, <2>8 DEF FreeRuns, NumBits, NumWords
  <2>10. QED
    BY <2>9 DEF Fits
<1>2. IInv /\ IInv' /\ [Next]_vars
      => [\A b \in blocks : up' /\ b \notin blocks' => Fits(b.lines)' # {}]_vars
  BY <1>1
<1>3. QED
  BY Invariance, <1>2, PTL DEF Spec, FreedIsFound
-----------------------------------------------------------------------------
(* The list through the operations.                                          *)
LEMMA ListAlloc ==
  ASSUME IInv, IInv', ListInv, NEW bytes \in Requests, DmaBufferAlloc(bytes)
  PROVE  ListInv'
<1> DEFINE n == LinesFor(bytes)
<1>1. n \in Nat /\ n >= 2 /\ up
  BY LinesForBounds DEF DmaBufferAlloc
<1>2. PICK r \in Fits(n) : Place(r, n)
  BY DEF DmaBufferAlloc
<1>3. r \in Nat /\ \A l \in r..r + n : l \notin used
  BY <1>1, FitsFree
<1> HIDE DEF n
<1> DEFINE new == [start |-> r + 1, lines |-> n]
<1>4. blocks' = blocks \cup {new} /\ checks' = checks /\ Link(r + 1)
  BY <1>2 DEF Place, DmaBufferAlloc
<1>5. new \notin blocks
  <2>1. new.start = r + 1 /\ new.lines = n
    OBVIOUS
  <2>2. r + 1 \in Marked(new) /\ r + 1 \notin used
    BY <1>1, <1>3, <2>1 DEF Marked
  <2> QED
    BY <1>1, <2>2 DEF IInv, MarksInv
<1>6. Starts' = Starts \cup {r + 1}
  <2>1. new.start = r + 1
    OBVIOUS
  <2> HIDE DEF new
  <2> QED
    BY <1>4, <2>1 DEF Starts
<1>7. r + 1 \notin Starts /\ 0 \notin Starts
  <2>1. (/\ 0 \notin Starts /\ Starts \subseteq Nat
         /\ \A b, c \in blocks : b.start = c.start => b = c)'
    BY StartsDiffer, PTL
  <2>2. \A b, c \in blocks' : b.start = c.start => b = c
    BY <2>1
  <2>3. \A b \in blocks : b.start # r + 1
    BY <1>4, <1>5, <2>2
  <2> QED
    BY <2>3, StartsDiffer DEF Starts
<1>8. /\ IsFiniteSet(blocks') /\ Cardinality(blocks) \in Nat
      /\ Cardinality(blocks') = Cardinality(blocks) + 1
  BY <1>4, <1>5, FS_AddElement, FS_CardinalityType DEF ListInv
<1>9. CASE checks
  <2>1. PICK k \in Nat : k = Cardinality(blocks)
    BY <1>8
  <2>2. PICK f : IsWalk(f, k)
    BY <1>9, <2>1 DEF ListInv
  <2>3. \E g \in [0..k + 1 -> Starts' \cup {0}] : IsWalk(g, k + 1)'
    BY <1>3, <1>4, <1>6, <1>7, <1>9, <2>2, LinkKeeps
  <2>4. Cardinality(blocks') = k + 1
    BY <1>8, <2>1
  <2> QED
    BY <1>4, <1>8, <1>9, <2>3, <2>4 DEF ListInv
<1>10. CASE ~checks
  BY <1>4, <1>8, <1>10 DEF ListInv, Link, list
<1> QED
  BY <1>9, <1>10

LEMMA ListFree ==
  ASSUME IInv, ListInv, NEW b \in blocks, DmaBufferFree(b)
  PROVE  ListInv'
<1>1. blocks' = blocks \ {b} /\ checks' = checks /\ Unlink(b.start)
  BY DEF DmaBufferFree
<1>2. 0 \notin Starts /\ b.start \in Starts /\ \A c \in blocks : b.start = c.start => b = c
  BY StartsDiffer DEF Starts
<1>3. Starts' = Starts \ {b.start}
  BY <1>1, <1>2 DEF Starts
<1>4. /\ IsFiniteSet(blocks') /\ Cardinality(blocks) \in Nat \ {0}
      /\ Cardinality(blocks') = Cardinality(blocks) - 1
  BY <1>1, FS_RemoveElement, FS_CardinalityType, FS_EmptySet DEF ListInv
<1>5. CASE checks
  <2>1. PICK k \in Nat \ {0} : k = Cardinality(blocks)
    BY <1>4
  <2>2. PICK f : IsWalk(f, k)
    BY <1>5, <2>1 DEF ListInv
  <2>3. PICK s \in Starts : s = b.start
    BY <1>2
  <2>4. \E g \in [0..k - 1 -> Starts' \cup {0}] : IsWalk(g, k - 1)'
    BY <1>1, <1>2, <1>3, <1>5, <2>2, <2>3, UnlinkKeeps
  <2>5. Cardinality(blocks') = k - 1
    BY <1>4, <2>1
  <2> QED
    BY <1>1, <1>4, <1>5, <2>4, <2>5 DEF ListInv
<1>6. CASE ~checks
  BY <1>1, <1>4, <1>6 DEF ListInv, Unlink, list
<1> QED
  BY <1>5, <1>6

(* A list of no blocks.                                                      *)
LEMMA EmptyList == blocks = {} /\ head = 0 => ListInv
<1> SUFFICES ASSUME blocks = {}, head = 0 PROVE ListInv
  OBVIOUS
<1> DEFINE f == [i \in 0..0 |-> 0]
<1>1. Cardinality(blocks) = 0 /\ IsFiniteSet(blocks) /\ Starts = {}
  BY FS_EmptySet DEF Starts
<1>2. IsWalk(f, 0)
  BY <1>1 DEF IsWalk
<1>3. f \in [0..0 -> Starts \cup {0}]
  OBVIOUS
<1> QED
  BY <1>1, <1>2, <1>3 DEF ListInv

LEMMA ListStep == IInv /\ IInv' /\ ListInv /\ [Next]_vars => ListInv'
<1> SUFFICES ASSUME IInv, IInv', ListInv, [Next]_vars PROVE ListInv'
  OBVIOUS
<1>1. blocks = {} => head = 0
  <2> SUFFICES ASSUME blocks = {}, checks PROVE head = 0
    BY DEF ListInv
  <2>1. Cardinality(blocks) = 0
    BY FS_EmptySet
  <2> QED
    BY <2>1 DEF ListInv, IsWalk
<1>2. CASE EnableChecks \/ DmaBufferInit
  <2>1. blocks' = {} /\ head' = 0
    BY <1>1, <1>2 DEF EnableChecks, DmaBufferInit, IInv, list
  <2>2. (blocks = {} /\ head = 0)' => ListInv'
    BY EmptyList, PTL
  <2> QED
    BY <2>1, <2>2
<1>3. CASE DmaBufferDeInit
  <2>1. blocks' = {} /\ head' = 0
    BY <1>3 DEF DmaBufferDeInit
  <2>2. (blocks = {} /\ head = 0)' => ListInv'
    BY EmptyList, PTL
  <2> QED
    BY <2>1, <2>2
<1>4. CASE \E bytes \in Requests : DmaBufferAlloc(bytes)
  BY <1>4, ListAlloc
<1>5. CASE \E b \in blocks : DmaBufferFree(b)
  BY <1>5, ListFree
<1>6. CASE UNCHANGED vars
  <2>1. /\ blocks' = blocks /\ checks' = checks /\ head' = head /\ prev' = prev /\ next' = next
        /\ Starts' = Starts
    BY <1>6 DEF vars, Starts
  <2>2. \A f, n : IsWalk(f, n)' <=> IsWalk(f, n)
    BY <2>1 DEF IsWalk
  <2> QED
    BY <2>1, <2>2 DEF ListInv
<1> QED
  BY <1>2, <1>3, <1>4, <1>5, <1>6 DEF Next

(* Following prev_blk is the walk, and stays at its end.                     *)
LEMMA Followed ==
  ASSUME NEW n \in Nat, NEW f, IsWalk(f, n), 0 \notin Starts
  PROVE  LET at[m \in Nat] == IF m = 0 THEN head
                              ELSE IF at[m - 1] = 0 THEN 0 ELSE prev[at[m - 1]]
         IN  \A m \in 0..n : at[m] = f[m]
<1> DEFINE at[m \in Nat] == IF m = 0 THEN head
                            ELSE IF at[m - 1] = 0 THEN 0 ELSE prev[at[m - 1]]
           g == [m \in Nat |-> IF m <= n THEN f[m] ELSE 0]
<1>1. g = [m \in Nat |-> IF m = 0 THEN head
                         ELSE IF g[m - 1] = 0 THEN 0 ELSE prev[g[m - 1]]]
  <2> SUFFICES ASSUME NEW m \in Nat
               PROVE  g[m] = IF m = 0 THEN head
                             ELSE IF g[m - 1] = 0 THEN 0 ELSE prev[g[m - 1]]
    OBVIOUS
  <2>1. f[0] = head /\ f[n] = 0 /\ \A i \in 0..n - 1 : f[i] # 0
    BY DEF IsWalk
  <2>2. \A i \in 0..n - 1 : prev[f[i]] = f[i + 1]
    BY DEF IsWalk
  <2>3. CASE m = 0
    BY <2>1, <2>3
  <2>4. CASE m \in 1..n
    <3>1. m - 1 \in 0..n - 1 /\ m - 1 \in Nat /\ (m - 1) + 1 = m
      BY <2>4
    <3>2. g[m] = f[m] /\ g[m - 1] = f[m - 1]
      BY <2>4, <3>1
    <3> QED
      BY <2>1, <2>2, <2>4, <3>1, <3>2
  <2>5. CASE m > n
    <3>1. m # 0 => g[m - 1] = 0
      BY <2>1, <2>5
    <3> QED
      BY <2>5, <3>1
  <2> QED
    BY <2>3, <2>4, <2>5
<1>2. at = [m \in Nat |-> IF m = 0 THEN head
                          ELSE IF at[m - 1] = 0 THEN 0 ELSE prev[at[m - 1]]]
  <2> HIDE DEF g
  <2> QED
    BY <1>1, Zenon
<1>3. \A m \in Nat : at[m] = IF m = 0 THEN head
                             ELSE IF at[m - 1] = 0 THEN 0 ELSE prev[at[m - 1]]
  <2> HIDE DEF at
  <2> QED
    BY <1>2
<1>4. \A m \in Nat : g[m] = IF m = 0 THEN head
                            ELSE IF g[m - 1] = 0 THEN 0 ELSE prev[g[m - 1]]
  <2> HIDE DEF g
  <2> QED
    BY <1>1
<1>5. \A m \in 0..n : g[m] = f[m]
  OBVIOUS
<1> HIDE DEF at, g
<1>6. \A m \in Nat : at[m] = g[m]
  <2> DEFINE T == {m \in Nat : at[m] # g[m]}
             R == OpToRel(<, Nat)
  <2>1. SUFFICES ASSUME T # {} PROVE FALSE
    OBVIOUS
  <2>2. \E x \in T : \A y \in T : ~(<<y, x>> \in R)
    BY <2>1, NatLessThanWellFounded, WFMin
  <2>3. PICK x \in T : \A y \in T : ~(y < x)
    BY <2>2 DEF OpToRel
  <2>4. x # 0
    BY <1>3, <1>4
  <2>5. x - 1 \in Nat /\ at[x - 1] = g[x - 1]
    BY <2>3, <2>4
  <2> QED
    BY <1>3, <1>4, <2>4, <2>5
<1>7. \A m \in 0..n : at[m] = f[m]
  BY <1>5, <1>6
<1> QED
  BY <1>7 DEF at

(* The list of blocks in use holds every block and ends (cyfxtx.c:983-1046). *)
THEOREM ListComplete == Spec => []InUseListComplete
<1>1. IInv /\ ListInv => InUseListComplete
  <2> SUFFICES ASSUME IInv, ListInv, checks
               PROVE  /\ Visited[Cardinality(blocks)] = 0
                      /\ Starts \subseteq {Visited[m] : m \in DOMAIN Visited}
    BY DEF InUseListComplete
  <2> DEFINE n == Cardinality(blocks)
             at[m \in Nat] == IF m = 0 THEN head
                              ELSE IF at[m - 1] = 0 THEN 0 ELSE prev[at[m - 1]]
  <2>1. n \in Nat /\ 0 \notin Starts
    BY FS_CardinalityType, StartsDiffer DEF ListInv
  <2>2. PICK f : IsWalk(f, n)
    BY DEF ListInv
  <2>3. \A m \in 0..n : at[m] = f[m]
    BY <2>1, <2>2, Followed
  <2>4. Visited = [m \in 0..n |-> at[m]]
    BY DEF Visited
  <2> HIDE DEF at, n
  <2>5. DOMAIN Visited = 0..n /\ \A m \in 0..n : Visited[m] = f[m]
    BY <2>3, <2>4
  <2>6. Visited[n] = 0 /\ \A s \in Starts : \E m \in 0..n : Visited[m] = s
    BY <2>1, <2>2, <2>5 DEF IsWalk
  <2> QED
    BY <2>5, <2>6 DEF n
<1>2. Init => ListInv
  <2> SUFFICES ASSUME Init PROVE ListInv
    OBVIOUS
  <2>1. blocks = {} /\ head = 0
    BY DEF Init
  <2> QED
    BY <2>1, EmptyList
<1> QED
  BY <1>1, <1>2, Invariance, ListStep, PTL DEF Spec
=============================================================================
