------------------------------ MODULE DmaBuffers ------------------------------
(***************************************************************************)
(* The allocator of the DMA buffer heap (cyfxtx.c:697-1079).               *)
(*                                                                         *)
(* The heap is NumLines cache lines.  usedStatus holds one bit per line,   *)
(* in words of W bits (32 in the code).  A block's bits are ones except    *)
(* its last, which stays zero: it marks the end for CyU3PDmaBufferFree,    *)
(* which is not told the size.  So the search asks for one line more than  *)
(* the block, and leaves that line free in front of it.                    *)
(*                                                                         *)
(* Every operation is one critical section of the buffer manager's mutex   *)
(* and is one action.  A mutex that is not had in time, a search that      *)
(* finds nothing and an operation before CyU3PDmaBufferInit return without *)
(* a change of state: they are stuttering steps.  Callers free what they   *)
(* hold, once.                                                             *)
(***************************************************************************)
EXTENDS Integers, FiniteSets

CONSTANTS
  W,          \* lines per word of usedStatus
  NumLines,   \* cache lines in the heap
  Requests    \* the sizes asked for, in bytes (uint16_t)

(* Both memory maps of the file (256 KB and 512 KB) have whole words.  The   *)
(* second disjunct is what the masking of the last word (line 736) is good   *)
(* for: with a smaller remainder it leaves bits beyond the heap available.   *)
ASSUME HeapAssumption ==
  /\ W \in Nat \ {0} /\ NumLines \in Nat \ {0}
  /\ NumLines % W = 0 \/ 2 * (NumLines % W) >= W
  /\ \A bytes \in Requests : bytes \in Nat /\ bytes < 65536

NumWords == (NumLines + W - 1) \div W
NumBits == NumWords * W

VARIABLES
  up,         \* startAddr and regionSize are set
  used,       \* the lines whose bit in usedStatus is one
  searchPos,  \* the word in which the next search begins
  checks,     \* glBufMgrEnableChecks: header, footer and list of blocks in use
  blocks,     \* what callers hold: [start, lines]
  head,       \* glBufInUseList, the start of the newest block, 0 for null
  prev, next  \* prev_blk and next_blk in the headers, by the block's start

vars == <<up, checks, used, searchPos, blocks, head, prev, next>>
list == <<head, prev, next>>

Starts == {b.start : b \in blocks}
Extent(b) == b.start .. b.start + b.lines - 1
Marked(b) == b.start .. b.start + b.lines - 2

(* Bits of the last word that are set for good (lines 734-738).                   *)
Reserved ==
  IF NumLines % W = 0 THEN {}
  ELSE ((NumWords - 1) * W + (W - (NumLines % W))) .. (NumBits - 1)

CacheLine == 32
HeaderAndFooter == 24

(* The lines a request takes: at least two, one that is marked and the end.  *)
LinesFor(bytes) ==
  LET size == IF checks THEN ((bytes + 3) \div 4) * 4 + HeaderAndFooter ELSE bytes
  IN  IF size <= CacheLine THEN 2 ELSE (size + CacheLine - 1) \div CacheLine

(* One zero fewer: the line in front of the block is taken as it is.         *)
FreeRunsNoGap(lines, lo, hi) ==
  {r \in lo..hi - lines : \A l \in r + 1..r + lines - 1 : l \notin used}

(* Where in lo .. hi-1 a run of lines + 1 zeros begins.                      *)
FreeRuns(lines, lo, hi) ==
  {r \in lo..hi - 1 - lines : \A l \in r..r + lines : l \notin used}

(* The search goes from searchPos to the end and then, counting afresh, from *)
(* the top to searchPos.  A run across the start of searchPos is not seen.   *)
Fits(lines) ==
  LET below == FreeRuns(lines, searchPos * W, NumBits)
  IN  IF below # {} THEN below ELSE FreeRuns(lines, 0, searchPos * W)

(* The ones in the word of the position only.                                *)
OnesInWord(start) ==
  {l \in start..(start \div W + 1) * W - 1 : \A k \in start..l : k \in used}

(* The ones that follow a position without a gap.                            *)
OnesFrom(start) == {l \in start..NumBits - 1 : \A k \in start..l : k \in used}

Init ==
  /\ up = FALSE
  /\ checks = FALSE
  /\ used = {}
  /\ searchPos = 0
  /\ blocks = {}
  /\ head = 0
  /\ prev = [s \in {} |-> 0]
  /\ next = [s \in {} |-> 0]

(* The application may turn the checks on or off before the heap is set up.  *)
EnableChecks ==
  /\ ~up
  /\ checks' \in BOOLEAN
  /\ UNCHANGED <<up, used, searchPos, blocks, list>>

DmaBufferInit ==
  /\ ~up
  /\ up' = TRUE
  /\ used' = Reserved
  /\ searchPos' = 0
  /\ UNCHANGED <<checks, blocks, list>>

(* CyU3PFreeHeaps: whatever was held is gone with the heap.  searchPos stays.*)
DmaBufferDeInit ==
  /\ up
  /\ up' = FALSE
  /\ used' = {}
  /\ blocks' = {}
  /\ head' = 0
  /\ prev' = [s \in {} |-> 0]
  /\ next' = [s \in {} |-> 0]
  /\ UNCHANGED <<checks, searchPos>>

(* The new block becomes the head of the list of blocks in use.              *)
Link(s) ==
  IF checks
  THEN /\ prev' = [t \in Starts \cup {s} |-> IF t = s THEN head ELSE prev[t]]
       /\ next' = [t \in Starts \cup {s} |->
                     CASE t = s -> 0 [] t = head -> s [] OTHER -> next[t]]
       /\ head' = s
  ELSE UNCHANGED list

(* The block that follows keeps its pointer to the one that is gone.         *)
UnlinkOneWay(s) ==
  IF checks
  THEN /\ prev' = [t \in Starts \ {s} |-> prev[t]]
       /\ next' = [t \in Starts \ {s} |-> IF t = prev[s] THEN next[s] ELSE next[t]]
       /\ head' = IF head = s THEN prev[s] ELSE head
  ELSE UNCHANGED list

(* A block's neighbours in the list are joined.  Its own header is free      *)
(* memory from now on, and its place in the functions is dropped.            *)
Unlink(s) ==
  IF checks
  THEN /\ prev' = [t \in Starts \ {s} |-> IF t = next[s] THEN prev[s] ELSE prev[t]]
       /\ next' = [t \in Starts \ {s} |-> IF t = prev[s] THEN next[s] ELSE next[t]]
       /\ head' = IF head = s THEN prev[s] ELSE head
  ELSE UNCHANGED list

Place(r, lines) ==
  /\ used' = used \cup (r + 1 .. r + lines - 1)
  /\ searchPos' = (r + lines) \div W
  /\ blocks' = blocks \cup {[start |-> r + 1, lines |-> lines]}
  /\ Link(r + 1)

DmaBufferAlloc(bytes) ==
  /\ up
  /\ \E r \in Fits(LinesFor(bytes)) :
       /\ \A q \in Fits(LinesFor(bytes)) : r <= q
       /\ Place(r, LinesFor(bytes))
  /\ UNCHANGED <<up, checks>>

(* The search goes on where it was.                                          *)
ReleaseOnly(b) ==
  /\ used' = used \ OnesFrom(b.start)
  /\ UNCHANGED searchPos

Release(b) ==
  /\ used' = used \ OnesFrom(b.start)
  /\ searchPos' = 0

DmaBufferFree(b) ==
  /\ up
  /\ Release(b)
  /\ blocks' = blocks \ {b}
  /\ Unlink(b.start)
  /\ UNCHANGED <<up, checks>>

Next ==
  \/ EnableChecks
  \/ DmaBufferInit
  \/ DmaBufferDeInit
  \/ \E bytes \in Requests : DmaBufferAlloc(bytes)
  \/ \E b \in blocks : DmaBufferFree(b)

Spec == Init /\ [][Next]_vars

-----------------------------------------------------------------------------
(* No two callers hold the same cache line, and no block leaves the heap or  *)
(* takes its first line, which CyU3PDmaBufferFree would refuse (line 1049).  *)
(* The block's last line carries no mark: what keeps it from being given     *)
(* away is the line the search asks for in front of the next block.          *)
BlocksApart ==
  /\ \A b \in blocks : Extent(b) \subseteq 1..NumLines - 1
  /\ \A b, c \in blocks : b # c => Extent(b) \cap Extent(c) = {}

(* The bits are those of the blocks held and no other: CyU3PDmaBufferFree    *)
(* finds a block's end by itself, so it neither leaves a line behind nor     *)
(* frees one of the block that follows.                                      *)
MarksAreBlocks ==
  up => used = Reserved \cup UNION {Marked(b) : b \in blocks}

(* The room a block leaves is found by the next request of its size: the     *)
(* search that cannot see a run across searchPos is back at the top.         *)
FreedIsFound ==
  [][\A b \in blocks : up' /\ b \notin blocks' => Fits(b.lines)' # {}]_vars

(* Following prev_blk from the head visits every block in use and ends: the  *)
(* list cyfxtx.c:1129 hands out for finding leaks is complete.               *)
Visited ==
  LET at[n \in Nat] == IF n = 0 THEN head
                       ELSE IF at[n - 1] = 0 THEN 0 ELSE prev[at[n - 1]]
  IN  [n \in 0..Cardinality(blocks) |-> at[n]]

InUseListComplete ==
  checks => /\ Visited[Cardinality(blocks)] = 0
            /\ Starts \subseteq {Visited[n] : n \in DOMAIN Visited}
=============================================================================
