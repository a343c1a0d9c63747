------------------------ MODULE HeapAllocator_proofs ------------------------
(***************************************************************************)
(* The heap is an Allocator for every size of memory and every request:    *)
(* the chunks lie one behind the other, and headers and footers agree.     *)
(*                                                                         *)
(* The theorems are about ApartSpec: an interrupt handler frees blocks     *)
(* before, between and in the middle of calls, but not where Apart says    *)
(* that the interrupted call would not notice.  Nothing in the kernel sees *)
(* to that, and for Spec they do not hold.  And the first block, the       *)
(* StackAllocator (kernel.cpp:400), is never freed.                        *)
(***************************************************************************)
EXTENDS HeapAllocator, FiniteSetTheorems, TLAPS

\* In the memory m, the chunks that begin at the words of B follow on one
\* another from Base to E, the word behind the last one; all have footers but
\* the first; and from E on, nothing was ever written.
Row(B, E, m) ==
  /\ m \in [Words -> Chunk]
  /\ E \in Base + 2 .. Limit
  /\ B \subseteq Base .. E /\ Base \in B /\ E \in B
  /\ \A a \in B \ {E} :
       /\ m[a].size >= 2 /\ a + m[a].size \in B
       /\ \A c \in B : c <= a \/ c >= a + m[a].size
  /\ \A a \in B \ {Base} : \E p \in B \ {E} : p + m[p].size = a
  /\ m[Base].used /\ m[Base].size = 2
  /\ \A a \in B \ {Base, E} : m[a + m[a].size - 1] = m[a]
  /\ \A w \in E .. Limit : ~m[w].used /\ m[w].size = 0

\* Each block of L lies in a used chunk of its own that is large enough.
Owners(L, B, E, m) ==
  /\ \A b \in L : /\ b.at - 1 \in B \ {Base, E}
                  /\ m[b.at - 1].used /\ m[b.at - 1].size >= b.words + 2
  /\ \A b, c \in L : b.at = c.at => b = c

\* Each used chunk, but that at Base, has a block of L in it.
Owned(L, B, E, m) == \A a \in B \ {Base, E} : m[a].used => \E b \in L : b.at - 1 = a

\* No block of L lies in the chunk at c.
Unowned(L, c) == \A b \in L : b.at - 1 # c

\* The row, its blocks L, and the blocks M to which its used chunks belong.
Whole(B, E, m, L, M) ==
  /\ B \in SUBSET Words /\ L \subseteq [at : Words, words : Requests]
  /\ Row(B, E, m) /\ Owners(L, B, E, m) /\ Owned(M, B, E, m)

\* f is a chunk between the first two and the end.
Inner(B, E, f) == f \in B \ {Base, Base + 2, E}

\* The chunk at f is released, with its size: k is the memory then.
Marks(B, m, f, k) ==
  /\ ~k[f].used /\ k[f].size = m[f].size /\ k[f - 1] = m[f - 1]
  /\ \A a \in B \ {f} : k[a] = m[a]

\* What is left of the row B when the chunk at f is joined with the one before
\* it, if that is free: the chunks C, and the memory k.
Leaves(B, m, f, C, k) ==
  /\ \A a \in B \ {f} : a \in C /\ (m[a].used \/ a + m[a].size # f => k[a] = m[a])
  /\ m[f - 1].used => f \in C

\* The block b of L, which may be freed, lies in the chunk at f.
LiesIn(b, f, L) == b \in L /\ b.at \notin Permanent /\ f = b.at - 1

\* The memory once the footer of the chunk at c, of n words, is there.
Footed(m, c, n) == [m EXCEPT ![c + n - 1] = m[c]]

Types ==
  /\ mem \in [Words -> Chunk]
  /\ lastAddr \in Words
  /\ live \subseteq [at : Words, words : Requests]
  /\ pc \in Control
  /\ cur \in Words /\ need \in Words
  /\ freed \in BOOLEAN

Idle == pc = "idle" =>
  \E B \in SUBSET Words :
    Row(B, End, mem) /\ Owners(live, B, End, mem) /\ Owned(live, B, End, mem)

\* The search has passed the chunks before cur, and none of them fits unless
\* a handler has freed it since.
Searching == pc = "search" =>
  /\ words \in Requests /\ need = words + 2 /\ lastAddr + need <= Limit
  /\ \E B \in SUBSET Words :
       /\ Row(B, End, mem) /\ Owners(live, B, End, mem) /\ Owned(live, B, End, mem)
       /\ cur \in B
       /\ ~freed => \A a \in B : a < cur => ~MemoryFits(mem[a], need)

\* A chunk of the row is taken, or the row is about to get a new chunk.
Taking == pc = "header" =>
  /\ words \in Requests /\ need >= words + 2 /\ lastAddr <= Limit
  /\ Unowned(live, cur)
  /\ \E B \in SUBSET Words :
       \/ /\ Row(B, End, mem) /\ Owners(live, B, End, mem) /\ Owned(live, B, End, mem)
          /\ cur \in B \ {Base, End} /\ need = mem[cur].size
       \/ /\ Row(B, cur, mem) /\ Owners(live, B, cur, mem) /\ Owned(live, B, cur, mem)
          /\ End = cur + need

Footing == pc = "footer" =>
  /\ words \in Requests /\ need >= words + 2
  /\ Unowned(live, cur)
  /\ \E B \in SUBSET Words :
       /\ Row(B, End, Footed(mem, cur, need))
       /\ Owners(live, B, End, Footed(mem, cur, need))
       /\ Owned(live \cup {[at |-> cur + 1, words |-> words]}, B, End,
                Footed(mem, cur, need))
       /\ cur \in B \ {Base, End}
       /\ Footed(mem, cur, need)[cur].used
       /\ Footed(mem, cur, need)[cur].size = need

Merging == pc = "merge" =>
  /\ Unowned(live, cur)
  /\ \E B \in SUBSET Words :
       /\ Row(B, End, mem) /\ Owners(live, B, End, mem) /\ Owned(live, B, End, mem)
       /\ cur \in B \ {Base, Base + 2, End}
       /\ ~mem[cur].used /\ need = mem[cur].size

IndInv == Types /\ Idle /\ Searching /\ Taking /\ Footing /\ Merging
-----------------------------------------------------------------------------
\* What a new header and footer at x and y mean for each word.
Marked(m, x, y, v) == [m EXCEPT ![x] = v, ![y] = v]

\* The two words have the new value, and no other word changes.
LEMMA MarkedFacts ==
  ASSUME NEW m \in [Words -> Chunk], NEW x \in Words, NEW y \in Words, NEW v \in Chunk
  PROVE  /\ Marked(m, x, y, v) \in [Words -> Chunk]
         /\ Marked(m, x, y, v)[x] = v /\ Marked(m, x, y, v)[y] = v
         /\ \A w \in Words : w # x /\ w # y => Marked(m, x, y, v)[w] = m[w]
BY DEF Marked

\* Two chunks of a row have no word in common.
LEMMA ChunksApart ==
  ASSUME NEW B, NEW E, NEW m, Row(B, E, m),
         NEW a \in B \ {E}, NEW c \in B \ {E}, a # c
  PROVE  a + m[a].size <= c \/ c + m[c].size <= a
<1>1. a \in Int /\ c \in Int /\ m[a].size \in Int /\ m[c].size \in Int
  BY HeapAssumption DEF Row, Chunk, Words
<1> QED BY <1>1 DEF Row

\* A chunk of a row lies in the memory.
LEMMA ChunkInside ==
  ASSUME NEW B, NEW E, NEW m, Row(B, E, m), NEW a \in B \ {E}
  PROVE  /\ E \in Int /\ a \in Words /\ a \in Int /\ m[a] \in Chunk /\ m[a].size \in Int
         /\ Base <= a /\ m[a].size >= 2 /\ a + m[a].size <= E
         /\ a + m[a].size - 1 \in Words
         /\ a # Base => a >= Base + 2
<1>1. a \in Words /\ m[a] \in Chunk /\ E \in Int /\ E <= Limit /\ a \in Base .. E
  BY HeapAssumption DEF Row, Words
<1>2. m[a].size \in Int
  BY <1>1 DEF Chunk
<1>3. Base # E /\ m[Base].size = 2 /\ Base \in Int /\ Limit \in Int /\ Base >= 0
  BY HeapAssumption DEF Row
<1>4. a \in Int
  BY <1>1, HeapAssumption DEF Words
<1> QED BY <1>1, <1>2, <1>3, <1>4, SMTT(40) DEF Row, Words

\* A chunk of the row gets another header and footer of the same size: it
\* becomes used, or free.
LEMMA Remarked ==
  ASSUME NEW B, NEW E, NEW m, Row(B, E, m),
         NEW c \in B \ {Base, E}, NEW v \in Chunk, v.size = m[c].size
  PROVE  /\ Row(B, E, Marked(m, c, c + m[c].size - 1, v))
         /\ Marked(m, c, c + m[c].size - 1, v)[c] = v
         /\ \A a \in B \ {c} : Marked(m, c, c + m[c].size - 1, v)[a] = m[a]
<1> DEFINE y == c + m[c].size - 1
           n == Marked(m, c, y, v)
<1>0. c \in B \ {E} /\ m \in [Words -> Chunk] /\ Base \in Int
  BY HeapAssumption DEF Row
<1>1. /\ c \in Words /\ y \in Words /\ c \in Int /\ E \in Int
      /\ m[c].size \in Int /\ m[c].size >= 2 /\ y < E /\ c < y /\ c > Base
  BY <1>0, ChunkInside, HeapAssumption DEF Words
<1>2. /\ n \in [Words -> Chunk] /\ n[c] = v /\ n[y] = v
      /\ \A w \in Words : w # c /\ w # y => n[w] = m[w]
  <2> HIDE DEF y
  <2> QED BY <1>0, <1>1, MarkedFacts
<1>3. \A a \in B : a # y /\ a \in Words
  BY <1>1, HeapAssumption DEF Row, Words
<1>4. \A a \in B \ {c} : n[a] = m[a]
  BY <1>2, <1>3
<1>5. \A a \in B : n[a].size = m[a].size
  BY <1>2, <1>4
<1>6. \A a \in B \ {Base, E} : n[a + n[a].size - 1] = n[a]
  <2> SUFFICES ASSUME NEW a \in B \ {Base, E} PROVE n[a + n[a].size - 1] = n[a]
    OBVIOUS
  <2>1. CASE a = c
    BY <2>1, <1>2, <1>5
  <2>2. CASE a # c
    <3>0. a + m[a].size <= c \/ c + m[c].size <= a
      BY <2>2, ChunksApart
    <3>1. a + m[a].size - 1 # c /\ a + m[a].size - 1 # y /\ a + m[a].size - 1 \in Words
      <4>1. a \in Words /\ m[a].size \in Int /\ m[a].size >= 2 /\ a + m[a].size - 1 \in Words
        BY ChunkInside
      <4> QED BY <3>0, <4>1, <1>1 DEF Words
    <3>2. n[a + m[a].size - 1] = m[a]
      BY <3>1, <1>2 DEF Row
    <3> QED BY <3>2, <2>2, <1>4, <1>5
  <2> QED BY <2>1, <2>2
<1>7. \A w \in E .. Limit : n[w] = m[w]
  BY <1>1, <1>2, HeapAssumption DEF Words
<1>8. Base # c /\ Base \in B
  BY DEF Row
<1> HIDE DEF n, y
<1>9. Row(B, E, n)
  BY <1>2, <1>4, <1>5, <1>6, <1>7, <1>8 DEF Row
<1> QED BY <1>9, <1>2, <1>4 DEF n, y

\* A new chunk behind the last one: the row ends n words later.
LEMMA Extended ==
  ASSUME NEW B, NEW E, NEW m, Row(B, E, m), NEW n \in Nat, n >= 2, E + n <= Limit,
         NEW v \in Chunk, v.size = n,
         NEW D, D = E + n, NEW k, k = Marked(m, E, E + n - 1, v)
  PROVE  Row(B \cup {D}, D, k) /\ k[E] = v /\ \A a \in B \ {E} : k[a] = m[a]
<1> DEFINE y == E + n - 1
           C == B \cup {E + n}
<1>0. /\ m \in [Words -> Chunk] /\ Base \in Int /\ Limit \in Int /\ E \in Int
      /\ E >= Base + 2 /\ Base >= 0
  BY HeapAssumption DEF Row
<1>1. E \in Words /\ y \in Words /\ y > E - 1
  BY <1>0 DEF Words
<1>2. /\ k \in [Words -> Chunk] /\ k[E] = v /\ k[y] = v
      /\ \A w \in Words : w # E /\ w # y => k[w] = m[w]
  <2>1. k = Marked(m, E, y, v)
    OBVIOUS
  <2> HIDE DEF y
  <2> QED BY <2>1, <1>0, <1>1, MarkedFacts
<1>3. \A a \in B \ {E} : a \in Words /\ a < E /\ a \in Int
  BY <1>0 DEF Row, Words
<1>4. \A a \in B \ {E} : k[a] = m[a]
  BY <1>0, <1>1, <1>2, <1>3
<1>5. \A a \in B \ {E} : k[a + m[a].size - 1] = m[a + m[a].size - 1]
  <2> SUFFICES ASSUME NEW a \in B \ {E}
               PROVE  k[a + m[a].size - 1] = m[a + m[a].size - 1]
    OBVIOUS
  <2>1. a + m[a].size - 1 \in Words /\ a + m[a].size - 1 < E
    BY ChunkInside
  <2> QED BY <2>1, <1>0, <1>2
<1>6. ASSUME NEW a \in C \ {E + n}
      PROVE  /\ k[a].size >= 2 /\ a + k[a].size \in C
             /\ \A c \in C : c <= a \/ c >= a + k[a].size
  <2>1. CASE a = E
    <3>1. \A c \in C : c <= E \/ c >= E + n
      BY <1>0, <1>3
    <3>2. k[a].size = n
      BY <2>1, <1>2
    <3> QED BY <2>1, <3>1, <3>2
  <2>2. CASE a # E
    <3>1. a \in B \ {E} /\ k[a] = m[a]
      BY <2>2, <1>4
    <3>2. a + m[a].size <= E + n
      BY <3>1, <1>0, ChunkInside
    <3> QED BY <3>1, <3>2 DEF Row
  <2> QED BY <2>1, <2>2
<1>7. ASSUME NEW a \in C \ {Base}
      PROVE  \E p \in C \ {E + n} : p + k[p].size = a
  <2>1. CASE a = E + n
    BY <2>1, <1>0, <1>2 DEF Row
  <2>2. CASE a # E + n
    <3>1. PICK p \in B \ {E} : p + m[p].size = a
      BY <2>2 DEF Row
    <3> QED BY <3>1, <1>0, <1>3, <1>4
  <2> QED BY <2>1, <2>2
<1>8. ASSUME NEW a \in C \ {Base, E + n} PROVE k[a + k[a].size - 1] = k[a]
  <2>1. CASE a = E
    BY <2>1, <1>2
  <2>2. CASE a # E
    BY <2>2, <1>4, <1>5 DEF Row
  <2> QED BY <2>1, <2>2
<1>9. \A w \in E + n .. Limit : w \in Words /\ k[w] = m[w] /\ w \in E .. Limit
  BY <1>0, <1>2 DEF Words
<1>10. /\ E + n \in Base + 2 .. Limit
       /\ C \subseteq Base .. E + n /\ Base \in C /\ E + n \in C
  BY <1>0, <1>3 DEF Row
<1>11. k[Base] = m[Base]
  BY <1>0, <1>4 DEF Row
<1>12. Row(C, E + n, k)
  <2>1. \A w \in E + n .. Limit : ~k[w].used /\ k[w].size = 0
    BY <1>9 DEF Row
  <2>2. k[Base].used /\ k[Base].size = 2
    BY <1>11 DEF Row
  <2> HIDE DEF C
  <2> QED BY <2>1, <2>2, <1>2, <1>6, <1>7, <1>8, <1>10 DEF Row
<1> QED BY <1>12, <1>2, <1>4

\* A free chunk at f, not the first behind the chunk at Base, is joined with
\* the chunk before it, if that is free; no chunk but that one changes, and f
\* stays a chunk when that one is used.
LEMMA JoinedFacts ==
  ASSUME NEW B, NEW E, NEW m, Row(B, E, m), NEW f \in B \ {Base, Base + 2, E}
  PROVE  \E C \in SUBSET B :
           /\ Row(C, E, Joined(m, f, f + m[f].size - 1))
           /\ \A a \in B \ {f} :
                /\ a \in C
                /\ m[a].used \/ a + m[a].size # f
                     => Joined(m, f, f + m[f].size - 1)[a] = m[a]
           /\ m[f - 1].used => f \in C
           /\ \A a \in C : Joined(m, f, f + m[f].size - 1)[a].used => m[a].used
<1> DEFINE y == f + m[f].size - 1
           k == Joined(m, f, y)
<1>0. /\ m \in [Words -> Chunk] /\ Base \in Int /\ Limit \in Int /\ E \in Int
      /\ E >= Base + 2 /\ Base >= 0 /\ f \in B \ {E}
  BY HeapAssumption DEF Row
<1>1. PICK p \in B \ {E} : p + m[p].size = f
  BY DEF Row
<1>2. p # Base /\ m[f - 1] = m[p]
  <2>1. p # Base
    BY <1>0, <1>1 DEF Row
  <2>2. m[p + m[p].size - 1] = m[p]
    BY <2>1 DEF Row
  <2>3. p + m[p].size - 1 = f - 1
    <3>1. p \in Int /\ m[p].size \in Int /\ f \in Int
      BY <1>0, ChunkInside
    <3> QED BY <3>1, <1>1
  <2> QED BY <2>1, <2>2, <2>3
<1>3. CASE m[f - 1].used
  BY <1>3 DEF Joined
<1>4. CASE ~m[f - 1].used
  <2> DEFINE both == [used |-> FALSE, size |-> m[p].size + m[f].size]
             C == B \ {f}
  <2>1. /\ p \in Words /\ m[p].size \in Int /\ m[p].size >= 2 /\ p \in Int
        /\ f \in Words /\ m[f].size \in Int /\ m[f].size >= 2 /\ f \in Int
        /\ y \in Words /\ f - 1 \in Words /\ y < E /\ p >= Base + 2
    <3>1. /\ p \in Words /\ m[p].size \in Int /\ m[p].size >= 2 /\ p \in Int
          /\ p >= Base + 2
      BY <1>1, <1>2, ChunkInside
    <3>2. /\ f \in Words /\ m[f].size \in Int /\ m[f].size >= 2 /\ f \in Int
          /\ y \in Words /\ f + m[f].size <= E
      BY <1>0, ChunkInside
    <3> QED BY <3>1, <3>2, <1>0, <1>1, SMTT(40) DEF Words
  <2>2. /\ k \in [Words -> Chunk] /\ k[p] = both /\ k[y] = both
        /\ \A w \in Words : w # f - 1 /\ w # p /\ w # y => k[w] = m[w]
    <3>1. f - m[f - 1].size = p
      BY <1>1, <1>2, <2>1
    <3>2. k = [m EXCEPT ![f - 1] = both, ![p] = both, ![y] = both]
      BY <1>4, <1>2, <3>1 DEF Joined
    <3>3. both \in Chunk
      BY <2>1 DEF Chunk
    <3> HIDE DEF k, both, y
    <3> QED BY <3>2, <3>3, <1>0, <2>1
  <2>3. both.size = m[p].size + m[f].size
    OBVIOUS
  <2>4. \A a \in B : a # f - 1 /\ a # y /\ a \in Words /\ a \in Int
    <3> SUFFICES ASSUME NEW a \in B PROVE a # f - 1 /\ a # y /\ a \in Words /\ a \in Int
      OBVIOUS
    <3>1. a \in Int /\ a \in Words
      BY <1>0 DEF Row, Words
    <3>2. a <= p \/ a >= f
      BY <1>1 DEF Row
    <3>3. a <= f \/ a >= f + m[f].size
      BY <1>0 DEF Row
    <3> QED BY <3>1, <3>2, <3>3, <2>1, <1>1
  <2>5. \A a \in C \ {p} : k[a] = m[a]
    BY <2>2, <2>4
  <2> HIDE DEF k, both
  <2>6. ASSUME NEW a \in C \ {p, E} PROVE a + m[a].size # f /\ a + m[a].size - 1 \notin {f - 1, p, y}
    <3>1. /\ a \in B \ {E} /\ a # p /\ a # f /\ a \in Int
          /\ m[a].size \in Int /\ m[a].size >= 2
      BY <2>4, ChunkInside
    <3>2. a + m[a].size <= p \/ p + m[p].size <= a
      BY <3>1, ChunksApart
    <3>3. a + m[a].size <= f \/ f + m[f].size <= a
      BY <3>1, <1>0, ChunksApart
    <3> QED BY <3>1, <3>2, <3>3, <2>1, <1>1
  <2>7. ASSUME NEW a \in C \ {E}
        PROVE  /\ k[a].size >= 2 /\ a + k[a].size \in C
               /\ \A c \in C : c <= a \/ c >= a + k[a].size
    <3>1. CASE a = p
      <4>1. p + k[p].size = f + m[f].size
        BY <1>1, <2>1, <2>2, <2>3
      <4>2. \A c \in C : c <= p \/ c >= f + m[f].size
        <5> SUFFICES ASSUME NEW c \in C PROVE c <= p \/ c >= f + m[f].size
          OBVIOUS
        <5>1. c <= p \/ c >= f
          BY <1>1 DEF Row
        <5>2. c <= f \/ c >= f + m[f].size
          BY <1>0 DEF Row
        <5> QED BY <5>1, <5>2, <2>1, <2>4
      <4>3. f + m[f].size \in C
        BY <1>0, <2>1 DEF Row
      <4> QED BY <3>1, <4>1, <4>2, <4>3, <2>1, <2>2, <2>3
    <3>2. CASE a # p
      BY <3>2, <2>5, <2>6 DEF Row
    <3> QED BY <3>1, <3>2
  <2>8. ASSUME NEW a \in C \ {Base} PROVE \E q \in C \ {E} : q + k[q].size = a
    <3>1. PICK q \in B \ {E} : q + m[q].size = a
      BY DEF Row
    <3>2. CASE q = f
      <4>1. p + k[p].size = a
        BY <3>1, <3>2, <1>1, <2>1, <2>2, <2>3
      <4> QED BY <4>1, <1>1, <2>1
    <3>3. CASE q # f
      <4>1. q # p
        BY <3>1, <1>1
      <4> QED BY <3>1, <3>3, <4>1, <2>5
    <3> QED BY <3>2, <3>3
  <2>9. ASSUME NEW a \in C \ {Base, E} PROVE k[a + k[a].size - 1] = k[a]
    <3>1. CASE a = p
      <4>1. p + k[p].size - 1 = y
        BY <1>1, <2>1, <2>2, <2>3
      <4> QED BY <3>1, <4>1, <2>2
    <3>2. CASE a # p
      <4>1. a + m[a].size - 1 \in Words
        BY ChunkInside
      <4>2. k[a + m[a].size - 1] = m[a + m[a].size - 1]
        BY <4>1, <3>2, <2>2, <2>6
      <4> QED BY <4>2, <3>2, <2>5 DEF Row
    <3> QED BY <3>1, <3>2
  <2>10. \A w \in E .. Limit : ~k[w].used /\ k[w].size = 0
    <3>1. \A w \in E .. Limit : w \in Words /\ w # f - 1 /\ w # p /\ w # y
      <4>1. p < E /\ f < E
        BY <1>0, <1>1, <2>1, ChunkInside
      <4> HIDE DEF y
      <4> QED BY <4>1, <1>0, <2>1 DEF Words
    <3> QED BY <3>1, <2>2 DEF Row
  <2>11. k[Base].used /\ k[Base].size = 2 /\ Base \in C /\ E \in C
    BY <1>0, <1>2, <2>5 DEF Row
  <2>12. Row(C, E, k)
    <3>1. E \in Base + 2 .. Limit /\ C \subseteq Base .. E
      BY DEF Row
    <3> HIDE DEF C
    <3> QED BY <3>1, <2>2, <2>7, <2>8, <2>9, <2>10, <2>11 DEF Row
  <2>13. \A a \in B \ {f} :
           a \in C /\ (m[a].used \/ a + m[a].size # f => k[a] = m[a])
    BY <1>1, <1>2, <1>4, <2>5
  <2>14. \A a \in C : k[a].used => m[a].used
    BY <2>2, <2>5 DEF both
  <2> QED BY <1>4, <2>12, <2>13, <2>14 DEF k
<1> QED BY <1>3, <1>4

\* What a caller writes into a block is no header and no footer.
LEMMA Written ==
  ASSUME NEW B, NEW E, NEW m, Row(B, E, m), NEW b \in [at : Words, words : Requests],
         b.at - 1 \in B \ {Base, E}, m[b.at - 1].size >= b.words + 2, NEW k,
         k = [a \in Words |-> IF a \in b.at .. b.at + b.words - 1 THEN Garbage ELSE m[a]]
  PROVE  Row(B, E, k) /\ \A a \in B : k[a] = m[a]
<1> DEFINE f == b.at - 1
<1>0. /\ m \in [Words -> Chunk] /\ Base \in Int /\ Limit \in Int /\ E \in Int /\ Base >= 0
      /\ b.at \in Int /\ b.words \in Nat /\ f \in B \ {E} /\ f \in Int
  <2>1. b.at \in Words /\ b.words \in Requests
    OBVIOUS
  <2>2. b.at \in Int
    BY <2>1 DEF Words
  <2>3. b.words \in Nat
    BY <2>1, HeapAssumption
  <2> QED BY <2>2, <2>3, HeapAssumption DEF Row
<1>1. /\ m[f].size \in Int /\ f + m[f].size <= E /\ b.at + b.words <= f + m[f].size - 1
  BY <1>0, ChunkInside
<1>2. /\ k \in [Words -> Chunk]
      /\ \A w \in Words : (w < b.at \/ w >= b.at + b.words) => k[w] = m[w]
  <2>1. k \in [Words -> Chunk]
    BY <1>0, HeapAssumption
  <2>2. \A w \in Words : (w < b.at \/ w >= b.at + b.words) => k[w] = m[w]
    BY <1>0 DEF Words
  <2> QED BY <2>1, <2>2
<1>3. \A a \in B : a \in Words /\ a \in Int /\ (a <= f \/ a >= f + m[f].size)
  BY <1>0 DEF Row, Words
<1>4. \A a \in B : k[a] = m[a]
  BY <1>0, <1>1, <1>2, <1>3
<1>5. ASSUME NEW a \in B \ {Base, E} PROVE k[a + k[a].size - 1] = k[a]
  <2>1. /\ a \in Int /\ m[a].size \in Int /\ m[a].size >= 2 /\ a + m[a].size - 1 \in Words
    BY ChunkInside
  <2>2. a = f \/ a + m[a].size <= f \/ f + m[f].size <= a
    BY <1>0, ChunksApart
  <2>3. a + m[a].size - 1 < b.at \/ a + m[a].size - 1 >= b.at + b.words
    BY <2>1, <2>2, <1>0, <1>1
  <2>4. k[a + m[a].size - 1] = m[a + m[a].size - 1]
    BY <2>1, <2>3, <1>2
  <2> QED BY <2>4, <1>4 DEF Row
<1>6. \A w \in E .. Limit : ~k[w].used /\ k[w].size = 0
  <2>1. \A w \in E .. Limit : w \in Words /\ w >= b.at + b.words
    BY <1>0, <1>1, HeapAssumption, SMTT(40) DEF Words, Row
  <2> QED BY <2>1, <1>2 DEF Row
<1> QED BY <1>2, <1>4, <1>5, <1>6, SMTT(40) DEF Row
-----------------------------------------------------------------------------
(* The steps, one after the other. *)

\* The heap before its first block: the chunk of Initialize.
LEMMA Initially == Init => IndInv
<1> SUFFICES ASSUME Init PROVE IndInv
  OBVIOUS
<1> DEFINE B == {Base, Base + 2}
<1>1. End = Base + 2
  BY HeapAssumption DEF Init, End
<1>2. /\ mem \in [Words -> Chunk]
      /\ mem[Base].used /\ mem[Base].size = 2
      /\ \A w \in Words : w # Base => ~mem[w].used /\ mem[w].size = 0
  BY HeapAssumption DEF Init, Words, Chunk
<1>3. Row(B, End, mem)
  BY <1>1, <1>2, HeapAssumption DEF Row, Words
<1>4. Owners(live, B, End, mem)
  BY DEF Init, Owners
<1>0. Owned(live, B, End, mem)
  BY <1>1 DEF Owned
<1>5. B \in SUBSET Words
  BY HeapAssumption DEF Words
<1>6. Types
  <2>1. pc \in Control /\ live \subseteq [at : Words, words : Requests]
    BY DEF Init, Control
  <2>2. lastAddr \in Words /\ cur \in Words /\ need \in Words
    BY HeapAssumption DEF Init, Words
  <2>3. freed \in BOOLEAN
    BY DEF Init
  <2> QED BY <1>2, <2>1, <2>2, <2>3 DEF Types
<1>7. Idle
  BY <1>0, <1>3, <1>4, <1>5 DEF Idle
<1>8. Searching /\ Taking /\ Footing /\ Merging
  BY DEF Init, Searching, Taking, Footing, Merging
<1> QED BY <1>6, <1>7, <1>8 DEF IndInv

\* The search begins at the first chunk.
LEMMA AllocateStep ==
  ASSUME IndInv, NEW n \in Requests, Allocate(n)
  PROVE  IndInv'
<1>1. PICK B \in SUBSET Words :
        Row(B, End, mem) /\ Owners(live, B, End, mem) /\ Owned(live, B, End, mem)
  BY DEF IndInv, Idle, Allocate
<1>2. /\ pc' = "search" /\ cur' = Base /\ need' = n + 2 /\ words' = n
      /\ UNCHANGED <<mem, lastAddr, live, freed>> /\ lastAddr + n + 2 <= Limit
  BY DEF Allocate
<1>3. n \in Nat /\ lastAddr \in Int /\ Limit \in Int /\ Base \in Words /\ lastAddr >= 0
  BY HeapAssumption DEF IndInv, Types, Words
<1>4. Types'
  <2>1. need' \in Words /\ pc' \in Control
    BY <1>2, <1>3 DEF Words, Control
  <2> QED BY <1>2, <1>3, <2>1 DEF IndInv, Types
<1>5. Base \in B /\ \A a \in B : ~(a < Base)
  BY <1>1, HeapAssumption DEF Row
<1>6. Searching'
  <2>1. words' \in Requests /\ need' = words' + 2 /\ lastAddr' + need' <= Limit
    BY <1>2, <1>3
  <2> QED BY <1>1, <1>2, <1>5, <2>1 DEF Searching, End
<1>7. (Idle /\ Taking /\ Footing /\ Merging)'
  BY <1>2 DEF Idle, Taking, Footing, Merging
<1> QED BY <1>4, <1>6, <1>7 DEF IndInv

\* The search goes from chunk to chunk.
LEMMA SkipStep ==
  ASSUME IndInv, Skip
  PROVE  IndInv'
<1>1. /\ pc = "search" /\ pc' = "search" /\ cur' = cur + mem[cur].size
      /\ UNCHANGED <<mem, lastAddr, live, need, words, freed>>
      /\ ~MemoryFits(mem[cur], need)
  BY DEF Skip
<1>2. PICK B \in SUBSET Words :
        /\ Row(B, End, mem) /\ Owners(live, B, End, mem) /\ Owned(live, B, End, mem)
        /\ cur \in B
        /\ ~freed => \A a \in B : a < cur => ~MemoryFits(mem[a], need)
  BY <1>1 DEF IndInv, Searching
<1>3. cur # End
  <2>1. ASSUME cur = End PROVE ~mem[cur].used /\ mem[cur].size = 0
    BY <1>2, <2>1, HeapAssumption DEF Row
  <2> QED BY <1>1, <2>1 DEF MemoryFits
<1>4. cur' \in B
  BY <1>1, <1>2, <1>3 DEF Row
<1>8. ASSUME ~freed, NEW a \in B, a < cur' PROVE ~MemoryFits(mem[a], need)
  <2> SUFFICES a <= cur
    <3>1. a \in Int /\ cur \in Int
      BY <1>2, HeapAssumption DEF Row
    <3> QED BY <3>1, <1>1, <1>2, <1>8
  <2> QED BY <1>1, <1>2, <1>3, <1>8, HeapAssumption DEF Row
<1>5. Types'
  BY <1>1, <1>4 DEF IndInv, Types
<1>6. Searching'
  <2>1. words \in Requests /\ need = words + 2 /\ lastAddr + need <= Limit
    BY <1>1 DEF IndInv, Searching
  <2> QED BY <2>1, <1>1, <1>2, <1>4, <1>8 DEF Searching, End
<1>7. (Idle /\ Taking /\ Footing /\ Merging)'
  BY <1>1 DEF Idle, Taking, Footing, Merging
<1> QED BY <1>5, <1>6, <1>7 DEF IndInv

\* A free chunk of the row is found, or its end.
LEMMA TakeStep ==
  ASSUME IndInv, Take
  PROVE  IndInv'
<1>1. /\ pc = "search" /\ pc' = "header"
      /\ UNCHANGED <<mem, live, words>> /\ freed' = FALSE /\ MemoryFits(mem[cur], need)
  BY DEF Take
<1>2. PICK B \in SUBSET Words :
        /\ Row(B, End, mem) /\ Owners(live, B, End, mem) /\ Owned(live, B, End, mem)
        /\ cur \in B
  BY <1>1 DEF IndInv, Searching
<1>3. /\ words \in Requests /\ need = words + 2 /\ lastAddr + need <= Limit
      /\ words \in Nat /\ need \in Int /\ need >= 2 /\ lastAddr \in Int /\ lastAddr >= 0
      /\ Limit \in Int /\ cur \in Words /\ need \in Words
  <2>1. /\ words \in Requests /\ need = words + 2 /\ lastAddr + need <= Limit
        /\ lastAddr \in Words /\ cur \in Words /\ need \in Words
    BY <1>1 DEF IndInv, Searching, Types
  <2>2. words \in Nat /\ Limit \in Int
    BY <2>1, HeapAssumption
  <2> QED BY <2>1, <2>2 DEF Words
<1>4. End = lastAddr - 2 /\ End \in Int
  BY <1>3 DEF End
<1>5. ~mem[cur].used /\ (mem[cur].size = 0 \/ mem[cur].size >= need)
  BY <1>1 DEF MemoryFits
<1>6. Unowned(live, cur)
  BY <1>2, <1>5 DEF Owners, Unowned
<1>7. cur # Base
  BY <1>2, <1>5 DEF Row
<1>8. (Idle /\ Searching /\ Footing /\ Merging)'
  BY <1>1 DEF Idle, Searching, Footing, Merging
<1>9. CASE cur = End
  <2>1. mem[cur].size = 0 /\ cur + need >= lastAddr
    BY <1>2, <1>3, <1>4, <1>9 DEF Row
  <2>2. lastAddr' = lastAddr + need /\ cur' = cur /\ need' = need
    BY <2>1, <1>3, <1>4, <1>9 DEF Take
  <2>3. End' = cur' + need' /\ lastAddr' <= Limit
    BY <2>2, <1>3, <1>4, <1>9 DEF End
  <2>4. Types'
    <3>1. lastAddr' \in Words /\ pc' \in Control
      BY <1>1, <2>2, <1>3 DEF Words, Control
    <3> QED BY <3>1, <1>1, <2>2 DEF IndInv, Types
  <2>5. Taking'
    BY <1>1, <1>2, <1>3, <1>6, <1>9, <2>2, <2>3 DEF Taking
  <2> QED BY <1>8, <2>4, <2>5 DEF IndInv
<1>10. CASE cur # End
  <2>1. /\ mem[cur].size \in Int /\ mem[cur].size >= 2 /\ cur + mem[cur].size <= End
        /\ cur \in Int
    BY <1>2, <1>10, ChunkInside
  <2>2. mem[cur].size >= need /\ cur + need < lastAddr
    BY <2>1, <1>3, <1>4, <1>5
  <2>3. UNCHANGED <<lastAddr, cur>> /\ need' = mem[cur].size
    BY <2>1, <2>2, <1>3, <1>4 DEF Take
  <2>4. need' >= words' + 2 /\ lastAddr' <= Limit
    BY <1>1, <1>3, <2>2, <2>3
  <2>5. Types'
    <3>1. need' \in Words /\ pc' \in Control
      BY <1>1, <1>3, <1>4, <2>1, <2>3 DEF Words, Control
    <3> QED BY <3>1, <1>1, <2>3 DEF IndInv, Types
  <2>6. Taking'
    BY <1>1, <1>2, <1>3, <1>6, <1>7, <1>10, <2>3, <2>4 DEF Taking, End
  <2> QED BY <1>8, <2>5, <2>6 DEF IndInv
<1> QED BY <1>9, <1>10

\* A header, and a footer copied from it.
LEMMA FootedIsMarked ==
  ASSUME NEW m \in [Words -> Chunk], NEW c \in Words, NEW n, NEW v \in Chunk
  PROVE  Footed([m EXCEPT ![c] = v], c, n) = Marked(m, c, c + n - 1, v)
BY DEF Footed, Marked

\* Blocks keep their chunks when those do not change.
LEMMA OwnersKept ==
  ASSUME NEW L, NEW B, NEW E, NEW m, Owners(L, B, E, m),
         NEW M \in SUBSET L, NEW C, NEW D, NEW k,
         \A b \in M : b.at - 1 \in C \ {Base, D} /\ k[b.at - 1] = m[b.at - 1]
  PROVE  Owners(M, C, D, k)
BY DEF Owners

\* The header is written: the row will be right with the footer.
LEMMA WriteHeaderStep ==
  ASSUME IndInv, WriteHeader
  PROVE  IndInv'
<1> DEFINE v == [used |-> TRUE, size |-> need]
           k == Marked(mem, cur, cur + need - 1, v)
<1>1. /\ pc = "header" /\ pc' = "footer"
      /\ mem' = [mem EXCEPT ![cur] = v]
      /\ UNCHANGED <<lastAddr, live, cur, need, words, freed>>
  BY DEF WriteHeader
<1>2. /\ words \in Requests /\ need >= words + 2 /\ lastAddr <= Limit
      /\ Unowned(live, cur)
  BY <1>1 DEF IndInv, Taking
<1>3. PICK B \in SUBSET Words :
        \/ /\ Row(B, End, mem) /\ Owners(live, B, End, mem) /\ Owned(live, B, End, mem)
           /\ cur \in B \ {Base, End} /\ need = mem[cur].size
        \/ /\ Row(B, cur, mem) /\ Owners(live, B, cur, mem) /\ Owned(live, B, cur, mem)
           /\ End = cur + need
  BY <1>1 DEF IndInv, Taking
<1>4. /\ mem \in [Words -> Chunk] /\ cur \in Words /\ need \in Words /\ lastAddr \in Words
  BY DEF IndInv, Types
<1>5. /\ cur \in Int /\ need \in Nat /\ need >= 2 /\ Limit \in Int /\ lastAddr \in Int
      /\ End = lastAddr - 2
  BY <1>2, <1>4, HeapAssumption DEF Words, End
<1>6. v \in Chunk /\ v.used /\ v.size = need
  BY <1>5 DEF Chunk
<1> DEFINE with == live \cup {[at |-> cur + 1, words |-> words]}
<1>12. (\E b \in with : b.at - 1 = cur) /\ live \subseteq with
  <2>1. [at |-> cur + 1, words |-> words].at - 1 = cur
    BY <1>5
  <2> QED BY <2>1
<1> HIDE DEF v, with
<1>7. Footed(mem', cur', need') = k
  <2>1. Footed([mem EXCEPT ![cur] = v], cur, need) = k
    BY <1>4, <1>5, <1>6, FootedIsMarked
  <2> HIDE DEF k
  <2> QED BY <2>1, <1>1
<1>8. Types'
  <2>1. mem' \in [Words -> Chunk] /\ pc' \in Control
    BY <1>1, <1>4, <1>6 DEF Control
  <2> QED BY <2>1, <1>1 DEF IndInv, Types
<1>9. \E C \in SUBSET Words :
        /\ Row(C, End, k) /\ Owners(live, C, End, k) /\ Owned(with, C, End, k)
        /\ cur \in C \ {Base, End} /\ k[cur].used /\ k[cur].size = need
  <2>1. CASE /\ Row(B, End, mem) /\ Owners(live, B, End, mem) /\ Owned(live, B, End, mem)
             /\ cur \in B \ {Base, End} /\ need = mem[cur].size
    <3>1. /\ Row(B, End, k) /\ k[cur] = v
          /\ \A a \in B \ {cur} : k[a] = mem[a]
      <4> DEFINE j == Marked(mem, cur, cur + mem[cur].size - 1, v)
      <4>1. /\ Row(B, End, j) /\ j[cur] = v
            /\ \A a \in B \ {cur} : j[a] = mem[a]
        BY <2>1, <1>6, Remarked
      <4> QED BY <2>1, <4>1
    <3> HIDE DEF k
    <3>2. \A b \in live : b.at - 1 \in B \ {Base, End} /\ k[b.at - 1] = mem[b.at - 1]
      BY <2>1, <3>1, <1>2 DEF Owners, Unowned
    <3>3. Owners(live, B, End, k)
      BY <2>1, <3>2, OwnersKept
    <3>4. Owned(with, B, End, k)
      BY <2>1, <3>1, <1>12 DEF Owned
    <3> QED BY <2>1, <3>1, <3>3, <3>4, <1>6
  <2>2. CASE /\ Row(B, cur, mem) /\ Owners(live, B, cur, mem) /\ Owned(live, B, cur, mem)
             /\ End = cur + need
    <3>1. cur + need <= Limit /\ cur + need \in Words /\ cur # cur + need /\ cur + need >= 0
      BY <2>2, <1>2, <1>4, <1>5 DEF Words
    <3>2. /\ Row(B \cup {cur + need}, cur + need, k) /\ k[cur] = v
          /\ \A a \in B \ {cur} : k[a] = mem[a]
      <4> DEFINE D == cur + need
      <4>1. Row(B, cur, mem) /\ need \in Nat /\ need >= 2
        BY <2>2, <1>5
      <4>2. cur + need <= Limit /\ v \in Chunk /\ v.size = need
        BY <3>1, <1>6
      <4>3. D = cur + need /\ k = Marked(mem, cur, cur + need - 1, v)
        OBVIOUS
      <4> HIDE DEF D, k
      <4>4. /\ Row(B \cup {D}, D, k) /\ k[cur] = v
            /\ \A a \in B \ {cur} : k[a] = mem[a]
        BY <4>1, <4>2, <4>3, Extended
      <4> QED BY <4>4 DEF D
    <3> HIDE DEF k
    <3>3. \A a \in B : a # cur + need
      BY <2>2, <3>1, <1>5, HeapAssumption DEF Row
    <3>4. \A b \in live : /\ b.at - 1 \in (B \cup {cur + need}) \ {Base, cur + need}
                          /\ k[b.at - 1] = mem[b.at - 1]
      BY <2>2, <3>2, <3>3 DEF Owners
    <3>5. Owners(live, B \cup {cur + need}, cur + need, k)
      BY <2>2, <3>4, OwnersKept
    <3>6. cur \in B /\ cur # Base
      BY <2>2, HeapAssumption, <1>5 DEF Row
    <3>7. B \cup {cur + need} \in SUBSET Words
      BY <3>1
    <3>8. Owned(with, B \cup {cur + need}, cur + need, k)
      BY <2>2, <3>2, <1>12 DEF Owned
    <3> QED BY <2>2, <3>1, <3>2, <3>5, <3>6, <3>7, <3>8, <1>6
  <2> QED BY <1>3, <2>1, <2>2
<1> HIDE DEF k
<1>10. Footing'
  <2>1. End' = End
    BY <1>1 DEF End
  <2> QED BY <2>1, <1>1, <1>2, <1>7, <1>9 DEF Footing, with
<1>11. (Idle /\ Searching /\ Taking /\ Merging)'
  BY <1>1 DEF Idle, Searching, Taking, Merging
<1> QED BY <1>8, <1>10, <1>11 DEF IndInv

\* The footer is written, and the caller gets the block.
LEMMA WriteFooterStep ==
  ASSUME IndInv, WriteFooter
  PROVE  IndInv'
<1> DEFINE new == [at |-> cur + 1, words |-> words]
<1>1. /\ pc = "footer" /\ pc' = "idle"
      /\ mem' = Footed(mem, cur, need) /\ live' = live \cup {new}
      /\ UNCHANGED <<lastAddr, cur, need, words, freed>>
  BY DEF WriteFooter, Footed
<1>2. words \in Requests /\ need >= words + 2 /\ Unowned(live, cur)
  BY <1>1 DEF IndInv, Footing
<1>3. PICK B \in SUBSET Words :
        /\ Row(B, End, mem') /\ Owners(live, B, End, mem') /\ Owned(live', B, End, mem')
        /\ cur \in B \ {Base, End}
        /\ mem'[cur].used /\ mem'[cur].size = need
  BY <1>1 DEF IndInv, Footing
<1>4. cur \in Int /\ cur + 1 \in Words /\ lastAddr \in Words
  <2>1. cur \in Words /\ lastAddr \in Words
    BY DEF IndInv, Types
  <2>2. cur \in Int /\ cur >= 0 /\ cur < End /\ End <= Limit /\ End \in Int
    BY <2>1, <1>3, HeapAssumption DEF Row, Words
  <2> QED BY <2>1, <2>2, HeapAssumption DEF Words
<1>5. new \in [at : Words, words : Requests] /\ new.at - 1 = cur /\ new.words = words
  BY <1>2, <1>4
<1> HIDE DEF new
<1>6. Owners(live', B, End, mem')
  <2>1. \A b \in live' : /\ b.at - 1 \in B \ {Base, End}
                         /\ mem'[b.at - 1].used /\ mem'[b.at - 1].size >= b.words + 2
    BY <1>1, <1>2, <1>3, <1>5 DEF Owners
  <2>2. ASSUME NEW b \in live', NEW c \in live', b.at = c.at PROVE b = c
    BY <1>1, <1>2, <1>3, <1>5, <2>2 DEF Owners, Unowned
  <2> QED BY <2>1, <2>2 DEF Owners
<1>7. Types'
  <2>1. mem' \in [Words -> Chunk]
    BY <1>3 DEF Row
  <2>2. live' \subseteq [at : Words, words : Requests]
    BY <1>1, <1>5 DEF IndInv, Types
  <2>3. pc' \in Control
    BY <1>1 DEF Control
  <2> QED BY <2>1, <2>2, <2>3, <1>1 DEF IndInv, Types
<1>8. Idle'
  BY <1>1, <1>3, <1>6 DEF Idle, End
<1>9. (Searching /\ Taking /\ Footing /\ Merging)'
  BY <1>1 DEF Searching, Taking, Footing, Merging
<1> QED BY <1>7, <1>8, <1>9 DEF IndInv

\* The chunk of a block becomes free; it is not the first after the chunk of
\* Initialize, whose block is kept.
LEMMA ReleasedFacts ==
  ASSUME Base + 3 \in Permanent,
         NEW B, NEW E, NEW m, NEW L, NEW M, Whole(B, E, m, L, M),
         NEW b, NEW f, LiesIn(b, f, L)
  PROVE  LET k == Released(m, f)
         IN  /\ Whole(B, E, k, L \ {b}, M \ {b})
             /\ Inner(B, E, f) /\ Unowned(L \ {b}, f) /\ Marks(B, m, f, k)
<1> DEFINE y == f + m[f].size - 1
           v == [used |-> FALSE, size |-> m[f].size]
           k == Marked(m, f, y, v)
<1>0. /\ m \in [Words -> Chunk] /\ Base \in Nat
      /\ B \in SUBSET Words /\ L \subseteq [at : Words, words : Requests]
      /\ Row(B, E, m) /\ Owners(L, B, E, m) /\ Owned(M, B, E, m)
      /\ b \in L /\ b.at \notin Permanent /\ f = b.at - 1
  BY HeapAssumption DEF Row, Whole, LiesIn
<1>1. f \in B \ {Base, E} /\ f \in Words /\ m[f].size \in Int
  <2>1. f \in B \ {Base, E}
    BY <1>0 DEF Owners
  <2> QED BY <1>0, <2>1, ChunkInside
<1>2. f # Base + 2
  <2>1. b.at \in Int
    BY <1>0 DEF Words
  <2> QED BY <2>1, <1>0
<1>3. Released(m, f) = k
  BY DEF Released, Marked
<1>4. v \in Chunk /\ v.used = FALSE /\ v.size = m[f].size /\ FALSE \in BOOLEAN
  <2>1. m[f] \in Chunk
    BY <1>0, <1>1
  <2> QED BY <2>1 DEF Chunk
<1>9. k[f - 1] = m[f - 1]
  <2>1. /\ f \in Int /\ f >= Base + 2 /\ m[f].size \in Int /\ m[f].size >= 2
        /\ f \in Words /\ y \in Words
    BY <1>0, <1>1, ChunkInside
  <2>2. f - 1 \in Words /\ f - 1 # f /\ f - 1 # y
    BY <2>1, HeapAssumption DEF Words
  <2>3. \A w \in Words : w # f /\ w # y => k[w] = m[w]
    <3>1. /\ m \in [Words -> Chunk] /\ f \in Words /\ y \in Words /\ v \in Chunk
      BY <2>1, <1>0, <1>1, <1>4
    <3> HIDE DEF y, v
    <3> QED BY <3>1, MarkedFacts
  <2> HIDE DEF y, k
  <2> QED BY <2>2, <2>3
<1> HIDE DEF v
<1>5. /\ Row(B, E, k) /\ k[f] = v
      /\ \A a \in B \ {f} : k[a] = m[a]
  BY <1>0, <1>1, <1>4, Remarked
<1>6. Unowned(L \ {b}, f)
  <2> SUFFICES ASSUME NEW c \in L \ {b} PROVE c.at - 1 # f
    BY DEF Unowned
  <2>1. c.at # b.at
    BY <1>0 DEF Owners
  <2>2. c.at \in Words /\ b.at \in Words
    BY <1>0
  <2> QED BY <2>1, <2>2, <1>0, HeapAssumption DEF Words
<1> HIDE DEF k, y
<1>7. Owners(L \ {b}, B, E, k)
  <2>1. \A c \in L \ {b} : c.at - 1 \in B \ {Base, E} /\ k[c.at - 1] = m[c.at - 1]
    BY <1>0, <1>5, <1>6 DEF Owners, Unowned
  <2> QED BY <1>0, <2>1, OwnersKept
<1>8. Owned(M \ {b}, B, E, k)
  <2>1. ~k[f].used
    BY <1>4, <1>5
  <2>2. \A a \in B \ {Base, E} : k[a].used => a # f /\ m[a].used
    BY <1>5, <2>1
  <2> QED BY <1>0, <2>2 DEF Owned
<1>10. Whole(B, E, k, L \ {b}, M \ {b})
  BY <1>0, <1>5, <1>7, <1>8 DEF Whole
<1>11. Inner(B, E, f) /\ Marks(B, m, f, k)
  BY <1>1, <1>2, <1>4, <1>5, <1>9 DEF Inner, Marks
<1> QED BY <1>3, <1>6, <1>10, <1>11

\* The freed chunk waits to be joined with the one before it.
LEMMA DeallocateStep ==
  ASSUME IndInv, Base + 3 \in Permanent, NEW b \in live, Deallocate(b)
  PROVE  IndInv'
<1> DEFINE f == b.at - 1
<1>1. /\ pc = "idle" /\ b.at \notin Permanent /\ pc' = "merge"
      /\ mem' = Released(mem, f) /\ live' = live \ {b}
      /\ cur' = f /\ need' = mem[f].size /\ UNCHANGED <<lastAddr, freed>>
  BY DEF Deallocate
<1>2. PICK B \in SUBSET Words :
        Row(B, End, mem) /\ Owners(live, B, End, mem) /\ Owned(live, B, End, mem)
  BY <1>1 DEF IndInv, Idle
<1>3. /\ Row(B, End, mem') /\ Owners(live', B, End, mem') /\ Owned(live', B, End, mem')
      /\ f \in B \ {Base, Base + 2, End} /\ Unowned(live', f)
      /\ ~mem'[f].used /\ mem'[f].size = mem[f].size
  <2>1. LiesIn(b, f, live) /\ Whole(B, End, mem, live, live)
    BY <1>1, <1>2 DEF IndInv, Types, LiesIn, Whole
  <2> HIDE DEF f
  <2>2. LET k == Released(mem, f)
        IN  /\ Whole(B, End, k, live \ {b}, live \ {b})
            /\ Inner(B, End, f) /\ Unowned(live \ {b}, f) /\ Marks(B, mem, f, k)
    BY <2>1, ReleasedFacts
  <2> QED BY <2>2, <1>1 DEF Whole, Inner, Marks
<1>4. Types'
  <2>1. f \in Words /\ mem[f].size \in Words
    <3>1. /\ f \in Int /\ mem[f].size \in Int /\ f + mem[f].size <= End /\ f \in Words
          /\ mem[f].size >= 2
      BY <1>2, <1>3, ChunkInside
    <3>2. End <= Limit /\ End \in Int
      BY <1>2, HeapAssumption DEF Row
    <3> QED BY <3>1, <3>2, HeapAssumption DEF Words
  <2>2. mem' \in [Words -> Chunk]
    BY <1>3 DEF Row
  <2>3. pc' \in Control
    BY <1>1 DEF Control
  <2> HIDE DEF f
  <2> QED BY <1>1, <2>1, <2>2, <2>3 DEF IndInv, Types
<1> HIDE DEF f
<1>5. Merging'
  BY <1>1, <1>3 DEF Merging, End
<1>6. (Idle /\ Searching /\ Taking /\ Footing)'
  BY <1>1 DEF Idle, Searching, Taking, Footing
<1> QED BY <1>4, <1>5, <1>6 DEF IndInv

\* A freed chunk is joined with the one before it, and the row is whole.
LEMMA JoinedRow ==
  ASSUME NEW B, NEW E, NEW m, NEW L, NEW M, Whole(B, E, m, L, M),
         NEW f, Inner(B, E, f), Unowned(L, f)
  PROVE  LET k == Joined(m, f, f + m[f].size - 1)
         IN  \E C : Whole(C, E, k, L, M) /\ Leaves(B, m, f, C, k)
<1> DEFINE k == Joined(m, f, f + m[f].size - 1)
<1>0. /\ B \in SUBSET Words /\ L \subseteq [at : Words, words : Requests]
      /\ Row(B, E, m) /\ Owners(L, B, E, m) /\ Owned(M, B, E, m)
      /\ f \in B \ {Base, Base + 2, E}
  BY DEF Whole, Inner
<1>1. PICK C \in SUBSET B :
        /\ Row(C, E, k)
        /\ \A a \in B \ {f} :
             a \in C /\ (m[a].used \/ a + m[a].size # f => k[a] = m[a])
        /\ m[f - 1].used => f \in C
        /\ \A a \in C : k[a].used => m[a].used
  BY <1>0, JoinedFacts
<1> HIDE DEF k
<1>2. \A b \in L : b.at - 1 \in C \ {Base, E} /\ k[b.at - 1] = m[b.at - 1]
  BY <1>0, <1>1 DEF Owners, Unowned
<1>3. Owners(L, C, E, k)
  BY <1>0, <1>2, OwnersKept
<1>4. Owned(M, C, E, k)
  BY <1>0, <1>1 DEF Owned
<1>5. Whole(C, E, k, L, M)
  BY <1>0, <1>1, <1>3, <1>4 DEF Whole
<1>6. Leaves(B, m, f, C, k)
  BY <1>1 DEF Leaves
<1> QED BY <1>5, <1>6 DEF k

\* The chunk before a freed one is merged with it when it is free too.
LEMMA MergeStep ==
  ASSUME IndInv, Merge
  PROVE  IndInv'
<1>1. /\ pc = "merge" /\ pc' = "idle" /\ mem' = Joined(mem, cur, cur + need - 1)
      /\ UNCHANGED <<lastAddr, live, cur, need, freed>>
  BY DEF Merge
<1>2. PICK B \in SUBSET Words :
        /\ Row(B, End, mem) /\ Owners(live, B, End, mem) /\ Owned(live, B, End, mem)
        /\ cur \in B \ {Base, Base + 2, End} /\ need = mem[cur].size
  BY <1>1 DEF IndInv, Merging
<1>3. Unowned(live, cur)
  BY <1>1 DEF IndInv, Merging
<1>4. PICK C \in SUBSET Words :
        Row(C, End, mem') /\ Owners(live, C, End, mem') /\ Owned(live, C, End, mem')
  <2> DEFINE k == Joined(mem, cur, cur + mem[cur].size - 1)
  <2>0. Whole(B, End, mem, live, live)
    BY <1>2 DEF IndInv, Types, Whole
  <2>1. \E C : Whole(C, End, k, live, live)
    BY <2>0, <1>2, <1>3, JoinedRow DEF Inner
  <2>2. mem' = k /\ live' = live
    BY <1>1, <1>2
  <2> HIDE DEF k
  <2> QED BY <2>1, <2>2 DEF Whole
<1>5. Types'
  <2>1. mem' \in [Words -> Chunk]
    BY <1>4 DEF Row
  <2>2. pc' \in Control
    BY <1>1 DEF Control
  <2> QED BY <1>1, <2>1, <2>2 DEF IndInv, Types
<1>6. Idle'
  BY <1>1, <1>4 DEF Idle, End
<1>7. (Searching /\ Taking /\ Footing /\ Merging)'
  BY <1>1 DEF Searching, Taking, Footing, Merging
<1> QED BY <1>5, <1>6, <1>7 DEF IndInv

\* All of _deallocate at once: the row is whole.  What it does to the chunks
\* at which an interrupted call may be.
LEMMA FreedRow ==
  ASSUME Base + 3 \in Permanent,
         NEW B, NEW E, NEW m, NEW L, NEW M, Whole(B, E, m, L, M),
         NEW b, NEW f, LiesIn(b, f, L)
  PROVE  LET k == Freed(m, f)
         IN  /\ Inner(B, E, f)
             /\ \E C : Whole(C, E, k, L \ {b}, M \ {b}) /\ Leaves(B, m, f, C, k)
<1> DEFINE j == Released(m, f)
           k == Joined(j, f, f + j[f].size - 1)
<1>1. /\ Whole(B, E, j, L \ {b}, M \ {b})
      /\ Inner(B, E, f) /\ Unowned(L \ {b}, f) /\ Marks(B, m, f, j)
  BY ReleasedFacts
<1>2. Freed(m, f) = k
  BY <1>1 DEF Freed, Marks
<1> HIDE DEF j
<1>3. \E C : Whole(C, E, k, L \ {b}, M \ {b}) /\ Leaves(B, j, f, C, k)
  BY <1>1, JoinedRow
<1> HIDE DEF k
<1>4. ASSUME NEW C, Leaves(B, j, f, C, k) PROVE Leaves(B, m, f, C, k)
  BY <1>1, <1>4 DEF Leaves, Marks
<1> QED BY <1>1, <1>2, <1>3, <1>4

\* _deallocate neither reads nor writes the word y for the chunk at f.
Away(m, f, y) ==
  /\ f \in Words /\ f - 1 \in Words /\ f - 1 # f + m[f].size - 1
  /\ y \in Words /\ y \notin {f, f - 1, f + m[f].size - 1}
  /\ ~m[f - 1].used => y # f - m[f - 1].size

\* The word y gets the value v.
Put(m, y, v) == [m EXCEPT ![y] = v]

\* Such a word may as well be written before it as after it.
LEMMA FreedElsewhere ==
  ASSUME NEW m \in [Words -> Chunk], NEW f, NEW y, Away(m, f, y), NEW v \in Chunk
  PROVE  /\ Freed(m, f)[y] = m[y]
         /\ Freed(Put(m, y, v), f) = Put(Freed(m, f), y, v)
         /\ Freed(m, f) \in [Words -> Chunk]
<1> DEFINE z == f + m[f].size - 1
<1>0. /\ f \in Words /\ f - 1 \in Words /\ f - 1 # f /\ f - 1 # z
      /\ y \in Words /\ y # f /\ y # f - 1 /\ y # z
      /\ ~m[f - 1].used => y # f - m[f - 1].size
  BY HeapAssumption DEF Away, Words
<1> DEFINE k == [m EXCEPT ![y] = v]
           free == [used |-> FALSE, size |-> m[f].size]
           both == [used |-> FALSE, size |-> m[f - 1].size + m[f].size]
           old == f - m[f - 1].size
           j == [m EXCEPT ![f] = free, ![z] = free]
<1>1. k[f] = m[f] /\ k[f - 1] = m[f - 1]
  BY <1>0
<1>2. /\ Released(m, f) = j
      /\ Released(k, f) = [k EXCEPT ![f] = free, ![z] = free]
  BY <1>1 DEF Released
<1>3. free \in Chunk /\ both \in Chunk /\ free.size = m[f].size
  <2>1. m[f] \in Chunk /\ m[f - 1] \in Chunk
    BY <1>0
  <2> QED BY <2>1 DEF Chunk
<1>10. z = f + m[f].size - 1
  OBVIOUS
<1> HIDE DEF z, free, both, old
<1>4. [k EXCEPT ![f] = free, ![z] = free] = [j EXCEPT ![y] = v]
  BY <1>0
<1>5. /\ j \in [Words -> Chunk] /\ j[f].size = m[f].size /\ j[f - 1] = m[f - 1]
      /\ j[y] = m[y]
  BY <1>0, <1>3
<1> DEFINE h == [j EXCEPT ![y] = v]
<1>6. h \in [Words -> Chunk] /\ h[f].size = m[f].size /\ h[f - 1] = m[f - 1]
  BY <1>0, <1>5
<1>7. Freed(m, f) = Joined(j, f, z) /\ Freed(k, f) = Joined(h, f, z)
  BY <1>1, <1>2, <1>4, <1>10 DEF Freed
<1> HIDE DEF j, h
<1>8. CASE m[f - 1].used
  <2>1. Joined(j, f, z) = j /\ Joined(h, f, z) = h
    BY <1>5, <1>6, <1>8 DEF Joined
  <2> QED BY <2>1, <1>5, <1>7 DEF h, Put
<1>9. CASE ~m[f - 1].used
  <2>1. Joined(j, f, z) = [j EXCEPT ![f - 1] = both, ![old] = both, ![z] = both]
    BY <1>5, <1>9 DEF Joined, both, old
  <2>2. Joined(h, f, z) = [h EXCEPT ![f - 1] = both, ![old] = both, ![z] = both]
    BY <1>6, <1>9 DEF Joined, both, old
  <2>3. y # f - 1 /\ y # old /\ y # z
    BY <1>0, <1>9 DEF old
  <2>4. [h EXCEPT ![f - 1] = both, ![old] = both, ![z] = both]
          = [[j EXCEPT ![f - 1] = both, ![old] = both, ![z] = both] EXCEPT ![y] = v]
    BY <2>3, <1>5 DEF h
  <2>5. /\ [j EXCEPT ![f - 1] = both, ![old] = both, ![z] = both] \in [Words -> Chunk]
        /\ [j EXCEPT ![f - 1] = both, ![old] = both, ![z] = both][y] = m[y]
    BY <1>0, <2>3, <1>3, <1>5
  <2> QED BY <2>1, <2>2, <2>4, <2>5, <1>7 DEF Put
<1> QED BY <1>8, <1>9

\* The same for the footer of the chunk at c, if the freed chunk is not the one
\* behind it.
LEMMA FootedFreed ==
  ASSUME NEW m \in [Words -> Chunk], NEW c, NEW n, NEW B, NEW E,
         Row(B, E, Footed(m, c, n)), c \in B \ {Base, E}, Footed(m, c, n)[c].size = n,
         NEW f, Inner(B, E, f), f # c, f # c + n
  PROVE  /\ Freed(Footed(m, c, n), f) = Footed(Freed(m, f), c, n)
         /\ Freed(m, f) \in [Words -> Chunk]
         /\ c + n - 1 \in Words /\ Freed(m, f)[c + n - 1] = m[c + n - 1]
<1> DEFINE k == Footed(m, c, n)
           y == c + n - 1
           z == f + m[f].size - 1
<1>0. f \in B \ {Base, Base + 2, E}
  BY DEF Inner
<1>1. PICK p \in B \ {E} : p + k[p].size = f
  BY <1>0 DEF Row
<1>2. p # Base /\ p # c
  BY <1>0, <1>1 DEF Row
<1>3. /\ c \in Int /\ n \in Int /\ n >= 2 /\ c \in Words /\ y \in Words /\ c >= Base + 2
      /\ f \in Int /\ f \in Words /\ f >= Base + 2 /\ k[f].size \in Int /\ k[f].size >= 2
      /\ p \in Int /\ p >= Base + 2 /\ k[p].size \in Int /\ k[p].size >= 2
      /\ Base \in Int /\ Base >= 0
  <2>1. /\ c \in Int /\ n \in Int /\ n >= 2 /\ c \in Words /\ y \in Words /\ c >= Base + 2
    BY <1>0, ChunkInside
  <2>2. /\ f \in Int /\ f \in Words /\ f >= Base + 2 /\ k[f].size \in Int /\ k[f].size >= 2
    BY <1>0, ChunkInside
  <2>3. p \in Int /\ p >= Base + 2 /\ k[p].size \in Int /\ k[p].size >= 2
    BY <1>2, ChunkInside
  <2> QED BY <2>1, <2>2, <2>3, HeapAssumption
<1>4. /\ c + n <= f \/ f + k[f].size <= c
      /\ c + n <= p \/ f <= c
      /\ k[p + k[p].size - 1] = k[p]
  <2>1. c + k[c].size <= f \/ f + k[f].size <= c
    BY <1>0, ChunksApart
  <2>2. c + k[c].size <= p \/ p + k[p].size <= c
    BY <1>2, ChunksApart
  <2>3. k[p + k[p].size - 1] = k[p]
    BY <1>2 DEF Row
  <2>4. k[c].size = n
    OBVIOUS
  <2> HIDE DEF k
  <2> QED BY <2>1, <2>2, <2>3, <2>4, <1>1
<1>5. k = [m EXCEPT ![y] = m[c]]
  BY DEF Footed
<1>15. k = Put(m, y, m[c])
  BY DEF Footed, Put
<1>6. f - 1 \in Words /\ f - 1 # f /\ p + k[p].size - 1 = f - 1
  <2> HIDE DEF k, y
  <2>1. f - 1 \in Words /\ f - 1 # f
    BY <1>3, HeapAssumption DEF Words
  <2>2. p + k[p].size - 1 = f - 1
    BY <1>1, <1>3
  <2> QED BY <2>1, <2>2
<1>7. y # f /\ y # f - 1 /\ y # c
  BY <1>3, <1>4
<1> HIDE DEF k, y
<1>8. k[f] = m[f] /\ k[f - 1] = m[f - 1] /\ k[f - 1].size = k[p].size
  BY <1>3, <1>4, <1>5, <1>6, <1>7
<1>9. /\ y # z /\ f - 1 # z /\ y # f - m[f - 1].size
      /\ c # f - 1 /\ c # z /\ c # f - m[f - 1].size
  BY <1>1, <1>2, <1>3, <1>4, <1>6, <1>8 DEF y
<1>10. m[c] \in Chunk
  BY <1>3
<1>14. Away(m, f, y) /\ Away(m, f, c)
  BY <1>3, <1>6, <1>7, <1>9 DEF Away
<1> HIDE DEF z
<1>11. /\ Freed(m, f)[y] = m[y]
       /\ Freed(k, f) = Put(Freed(m, f), y, m[c])
       /\ Freed(m, f) \in [Words -> Chunk]
  BY <1>10, <1>14, <1>15, FreedElsewhere
<1>12. Freed(m, f)[c] = m[c]
  BY <1>10, <1>14, FreedElsewhere
<1>13. Footed(Freed(m, f), c, n) = Put(Freed(m, f), y, m[c])
  BY <1>12 DEF Footed, Put, y
<1> QED BY <1>3, <1>11, <1>13 DEF k, y

\* A handler frees between two calls.
LEMMA HandlerIdle ==
  ASSUME IndInv, Base + 3 \in Permanent, pc = "idle",
         NEW b \in live, HandlerDeallocate(b)
  PROVE  mem' \in [Words -> Chunk] /\ Idle'
<1> DEFINE f == b.at - 1
<1>1. PICK B : Whole(B, End, mem, live, live)
  BY DEF IndInv, Types, Idle, Whole
<1>2. /\ LiesIn(b, f, live) /\ mem' = Freed(mem, f) /\ live' = live \ {b}
      /\ lastAddr' = lastAddr
  BY DEF LiesIn, HandlerDeallocate
<1> HIDE DEF f
<1>3. \E C : Whole(C, End, mem', live', live')
  BY <1>1, <1>2, FreedRow
<1> QED BY <1>2, <1>3 DEF Idle, End, Row, Whole

\* A handler frees during the search: the chunk that is looked at remains one.
LEMMA HandlerSearch ==
  ASSUME IndInv, Base + 3 \in Permanent, pc = "search",
         NEW b \in live, HandlerDeallocate(b), Apart(b)
  PROVE  mem' \in [Words -> Chunk] /\ Searching'
<1> DEFINE f == b.at - 1
<1>1. /\ words \in Requests /\ need = words + 2 /\ lastAddr + need <= Limit
  BY DEF IndInv, Searching
<1>2. PICK B : Whole(B, End, mem, live, live) /\ cur \in B
  BY DEF IndInv, Types, Searching, Whole
<1>3. /\ LiesIn(b, f, live) /\ mem' = Freed(mem, f) /\ live' = live \ {b}
      /\ UNCHANGED <<lastAddr, cur, need, words>> /\ freed'
      /\ f = cur => mem[cur - 1].used
  BY DEF LiesIn, HandlerDeallocate, local, Apart
<1> HIDE DEF f
<1>4. \E C :
        /\ Whole(C, End, mem', live', live')
        /\ Leaves(B, mem, f, C, mem')
  BY <1>2, <1>3, FreedRow
<1>5. \E C : Whole(C, End, mem', live', live') /\ cur' \in C
  BY <1>2, <1>3, <1>4 DEF Leaves
<1> QED BY <1>1, <1>3, <1>5 DEF Searching, End, Row, Whole

\* A handler frees while a chunk is being taken: that chunk does not change.
LEMMA HandlerHeader ==
  ASSUME IndInv, Base + 3 \in Permanent, pc = "header",
         NEW b \in live, HandlerDeallocate(b), Apart(b)
  PROVE  mem' \in [Words -> Chunk] /\ Taking'
<1> DEFINE f == b.at - 1
<1>1. /\ words \in Requests /\ need >= words + 2 /\ lastAddr <= Limit
      /\ Unowned(live, cur)
  BY DEF IndInv, Taking
<1>2. /\ LiesIn(b, f, live) /\ mem' = Freed(mem, f) /\ live' = live \ {b}
      /\ UNCHANGED <<lastAddr, cur, need, words>>
      /\ f # cur + need /\ f # cur
  BY <1>1 DEF IndInv, Types, LiesIn, HandlerDeallocate, local, Apart, Unowned
<1> HIDE DEF f
<1>3. Unowned(live', cur')
  BY <1>1, <1>2 DEF Unowned
<1>4. PICK B :
        \/ /\ Whole(B, End, mem, live, live)
           /\ cur \in B \ {Base, End} /\ need = mem[cur].size
        \/ Whole(B, cur, mem, live, live) /\ End = cur + need
  BY DEF IndInv, Types, Taking, Whole
<1>5. CASE /\ Whole(B, End, mem, live, live)
           /\ cur \in B \ {Base, End} /\ need = mem[cur].size
  <2>1. \E C :
          /\ Whole(C, End, mem', live', live')
          /\ Leaves(B, mem, f, C, mem')
    BY <1>2, <1>5, FreedRow
  <2>2. \E C :
          /\ Whole(C, End, mem', live', live')
          /\ cur \in C \ {Base, End} /\ need = mem'[cur].size
    BY <1>2, <1>5, <2>1 DEF Leaves
  <2> QED BY <1>1, <1>2, <1>3, <2>2 DEF Taking, End, Row, Whole
<1>6. CASE Whole(B, cur, mem, live, live) /\ End = cur + need
  <2>1. \E C : Whole(C, cur, mem', live', live')
    BY <1>2, <1>6, FreedRow
  <2> QED BY <1>1, <1>2, <1>3, <1>6, <2>1 DEF Taking, End, Row, Whole
<1> QED BY <1>4, <1>5, <1>6

\* A handler frees before the footer of a chunk is written: it neither reads
\* nor writes that chunk.
LEMMA HandlerFooter ==
  ASSUME IndInv, Base + 3 \in Permanent, pc = "footer",
         NEW b \in live, HandlerDeallocate(b), Apart(b)
  PROVE  /\ mem' \in [Words -> Chunk] /\ Footing'
         /\ Footed(mem', cur, need) = Freed(Footed(mem, cur, need), b.at - 1)
         /\ cur + need - 1 \in Words /\ mem'[cur + need - 1] = mem[cur + need - 1]
<1> DEFINE f == b.at - 1
           k == Footed(mem, cur, need)
           new == [at |-> cur + 1, words |-> words]
<1>1. words \in Requests /\ need >= words + 2 /\ Unowned(live, cur)
  BY DEF IndInv, Footing
<1>2. /\ LiesIn(b, f, live) /\ mem' = Freed(mem, f) /\ live' = live \ {b}
      /\ UNCHANGED <<lastAddr, cur, need, words>>
      /\ f # cur + need /\ f # cur /\ mem \in [Words -> Chunk] /\ cur \in Words
  BY <1>1 DEF IndInv, Types, LiesIn, HandlerDeallocate, local, Apart, Unowned
<1> HIDE DEF f
<1>3. Unowned(live', cur')
  BY <1>1, <1>2 DEF Unowned
<1>4. PICK B :
        /\ Whole(B, End, k, live, live \cup {new})
        /\ cur \in B \ {Base, End} /\ k[cur].used /\ k[cur].size = need
  BY DEF IndInv, Types, Footing, Whole
<1> HIDE DEF k, new
<1>5. /\ Inner(B, End, f)
      /\ \E C : /\ Whole(C, End, Freed(k, f), live \ {b}, (live \cup {new}) \ {b})
                /\ Leaves(B, k, f, C, Freed(k, f))
  BY <1>2, <1>4, FreedRow
<1>6. /\ Freed(k, f) = Footed(mem', cur, need)
      /\ mem' \in [Words -> Chunk]
      /\ cur + need - 1 \in Words /\ mem'[cur + need - 1] = mem[cur + need - 1]
  BY <1>2, <1>4, <1>5, FootedFreed DEF k, Whole
<1>7. (live \cup {new}) \ {b} = live' \cup {new}
  <2>1. new # b
    <3>1. new.at - 1 = cur
      BY <1>2, HeapAssumption DEF new, Words
    <3> QED BY <3>1, <1>1, <1>2 DEF Unowned, LiesIn
  <2> QED BY <2>1, <1>2
<1> DEFINE j == Footed(mem', cur, need)
<1>8. \E C :
        /\ Whole(C, End, j, live', live' \cup {new})
        /\ cur \in C \ {Base, End} /\ j[cur].used /\ j[cur].size = need
  <2> HIDE DEF j
  <2>1. j = Freed(k, f)
    BY <1>6 DEF j
  <2> QED BY <2>1, <1>2, <1>4, <1>5, <1>7 DEF Leaves
<1>9. Footing'
  <2>1. /\ Footed(mem', cur', need') = j /\ End' = End
        /\ [at |-> cur' + 1, words |-> words'] = new
    BY <1>2 DEF End, new
  <2> HIDE DEF j
  <2> QED BY <2>1, <1>1, <1>2, <1>3, <1>8 DEF Footing, Whole
<1> QED BY <1>6, <1>9 DEF k, f

\* A handler frees between the two halves of _deallocate: the chunk that waits
\* to be joined does not change.
LEMMA HandlerMerge ==
  ASSUME IndInv, Base + 3 \in Permanent, pc = "merge",
         NEW b \in live, HandlerDeallocate(b), Apart(b)
  PROVE  mem' \in [Words -> Chunk] /\ Merging'
<1> DEFINE f == b.at - 1
<1>1. Unowned(live, cur)
  BY DEF IndInv, Merging
<1>2. /\ LiesIn(b, f, live) /\ mem' = Freed(mem, f) /\ live' = live \ {b}
      /\ UNCHANGED <<lastAddr, cur, need>>
      /\ f # cur + need /\ f # cur
  BY <1>1 DEF IndInv, Types, LiesIn, HandlerDeallocate, local, Apart, Unowned
<1> HIDE DEF f
<1>3. Unowned(live', cur')
  BY <1>1, <1>2 DEF Unowned
<1>4. PICK B :
        /\ Whole(B, End, mem, live, live)
        /\ cur \in B \ {Base, Base + 2, End}
        /\ ~mem[cur].used /\ need = mem[cur].size
  BY DEF IndInv, Types, Merging, Whole
<1>5. \E C :
        /\ Whole(C, End, mem', live', live')
        /\ Leaves(B, mem, f, C, mem')
  BY <1>2, <1>4, FreedRow
<1>6. \E C :
        /\ Whole(C, End, mem', live', live')
        /\ cur \in C \ {Base, Base + 2, End}
        /\ ~mem'[cur].used /\ need = mem'[cur].size
  BY <1>2, <1>4, <1>5 DEF Leaves
<1> QED BY <1>2, <1>3, <1>6 DEF Merging, End, Row, Whole

\* A handler that keeps apart from the call it interrupts frees a block.
LEMMA HandlerStep ==
  ASSUME IndInv, Base + 3 \in Permanent,
         NEW b \in live, HandlerDeallocate(b), Apart(b)
  PROVE  IndInv'
<1>1. /\ live' = live \ {b} /\ UNCHANGED <<lastAddr, pc, cur, need>>
      /\ freed' \in BOOLEAN /\ pc \in Control
  BY DEF IndInv, Types, HandlerDeallocate, local
<1>2. mem' \in [Words -> Chunk] => Types'
  BY <1>1 DEF IndInv, Types
<1>3. CASE pc = "idle"
  <2>1. (Searching /\ Taking /\ Footing /\ Merging)'
    BY <1>1, <1>3 DEF Searching, Taking, Footing, Merging
  <2> QED BY <1>2, <1>3, <2>1, HandlerIdle DEF IndInv
<1>4. CASE pc = "search"
  <2>1. (Idle /\ Taking /\ Footing /\ Merging)'
    BY <1>1, <1>4 DEF Idle, Taking, Footing, Merging
  <2> QED BY <1>2, <1>4, <2>1, HandlerSearch DEF IndInv
<1>5. CASE pc = "header"
  <2>1. (Idle /\ Searching /\ Footing /\ Merging)'
    BY <1>1, <1>5 DEF Idle, Searching, Footing, Merging
  <2> QED BY <1>2, <1>5, <2>1, HandlerHeader DEF IndInv
<1>6. CASE pc = "footer"
  <2>1. (Idle /\ Searching /\ Taking /\ Merging)'
    BY <1>1, <1>6 DEF Idle, Searching, Taking, Merging
  <2> QED BY <1>2, <1>6, <2>1, HandlerFooter DEF IndInv
<1>7. CASE pc = "merge"
  <2>1. (Idle /\ Searching /\ Taking /\ Footing)'
    BY <1>1, <1>7 DEF Idle, Searching, Taking, Footing
  <2> QED BY <1>2, <1>7, <2>1, HandlerMerge DEF IndInv
<1> QED BY <1>1, <1>3, <1>4, <1>5, <1>6, <1>7 DEF Control

\* A caller writes into its block.
LEMMA WriteStep ==
  ASSUME IndInv, NEW b \in live, Write(b)
  PROVE  IndInv'
<1>1. /\ pc = "idle" /\ pc' = "idle"
      /\ mem' = [a \in Words |-> IF a \in b.at .. b.at + b.words - 1 THEN Garbage ELSE mem[a]]
      /\ UNCHANGED <<lastAddr, live, cur, need, freed>>
  BY DEF Write, local
<1>2. PICK B \in SUBSET Words :
        Row(B, End, mem) /\ Owners(live, B, End, mem) /\ Owned(live, B, End, mem)
  BY <1>1 DEF IndInv, Idle
<1>3. /\ b \in [at : Words, words : Requests] /\ b.at - 1 \in B \ {Base, End}
      /\ mem[b.at - 1].size >= b.words + 2
  BY <1>2 DEF IndInv, Types, Owners
<1>4. Row(B, End, mem') /\ \A a \in B : mem'[a] = mem[a]
  BY <1>1, <1>2, <1>3, Written
<1>5. Owners(live, B, End, mem')
  BY <1>2, <1>4 DEF Owners
<1>9. Owned(live, B, End, mem')
  BY <1>2, <1>4 DEF Owned
<1>6. Types'
  <2>1. mem' \in [Words -> Chunk]
    BY <1>4 DEF Row
  <2> QED BY <1>1, <2>1 DEF IndInv, Types
<1>7. Idle'
  BY <1>1, <1>2, <1>4, <1>5, <1>9 DEF Idle, End
<1>8. (Searching /\ Taking /\ Footing /\ Merging)'
  BY <1>1 DEF Searching, Taking, Footing, Merging
<1> QED BY <1>6, <1>7, <1>8 DEF IndInv
-----------------------------------------------------------------------------
\* The inductive invariant, for every size of the heap and of the requests,
\* when handlers keep apart from the calls they interrupt and the first block
\* is never freed (vmem_heap_allocator.cpp:24-87).
THEOREM Inductive ==
  ASSUME Base + 3 \in Permanent
  PROVE  ApartSpec => []IndInv
<1>1. ASSUME IndInv, [ApartNext]_vars PROVE IndInv'
  <2>1. CASE \E n \in Requests : Allocate(n)
    BY <1>1, <2>1, AllocateStep
  <2>2. CASE Execute
    BY <1>1, <2>2, SkipStep, TakeStep, WriteHeaderStep, WriteFooterStep, MergeStep DEF Execute
  <2>3. CASE \E b \in live : Deallocate(b) \/ Write(b)
    BY <1>1, <2>3, DeallocateStep, WriteStep
  <2>5. CASE \E b \in live : Apart(b) /\ HandlerDeallocate(b)
    BY <1>1, <2>5, HandlerStep
  <2>4. CASE UNCHANGED vars
    BY <1>1, <2>4 DEF IndInv, Types, Idle, Searching, Taking, Footing, Merging,
      vars, local, End
  <2> QED BY <1>1, <2>1, <2>2, <2>3, <2>4, <2>5 DEF ApartNext, Process
<1> QED BY <1>1, Initially, PTL DEF ApartSpec

\* A block that _allocate returns lies behind the chunk of Initialize and
\* shares no word with a block that another caller owns; only delete takes a
\* block away (vmem_heap_allocator.cpp:29-63).
THEOREM Implements ==
  ASSUME Base + 3 \in Permanent
  PROVE  ApartSpec => AllocatorSpec
<1>1. Init => Abstract!Init
  BY DEF Init, Abstract!Init
<1>2. ASSUME IndInv, [ApartNext]_vars
      PROVE  [Abstract!Allocate \/ Abstract!Deallocate]_<<live, held>>
  <2>1. CASE WriteFooter
    <3> DEFINE new == [at |-> cur + 1, words |-> words]
    <3>1. live' = live \cup {new} /\ held' = held + 1 /\ pc = "footer"
      BY <2>1 DEF WriteFooter
    <3>2. /\ words \in Requests /\ need >= words + 2 /\ Unowned(live, cur)
          /\ live \subseteq [at : Words, words : Requests]
          /\ cur \in Words /\ need \in Words
      BY <1>2, <3>1 DEF IndInv, Footing, Types
    <3> DEFINE m == Footed(mem, cur, need)
    <3>3. PICK B \in SUBSET Words :
            /\ Row(B, End, m) /\ Owners(live, B, End, m)
            /\ cur \in B \ {Base, End} /\ m[cur].size = need
      BY <1>2, <3>1 DEF IndInv, Footing
    <3> HIDE DEF m
    <3>4. /\ words \in Nat /\ words > 0 /\ cur \in Int /\ need \in Int /\ End \in Int
          /\ Base \in Int /\ Limit \in Int /\ End <= Limit
      <4>1. words \in Nat /\ words > 0 /\ Base \in Int /\ Limit \in Int
        BY <3>2, HeapAssumption
      <4> QED BY <4>1, <3>2, <3>3, HeapAssumption DEF Words, Row
    <3>5. cur >= Base + 2 /\ cur + need <= End
      BY <3>3, ChunkInside
    <3>6. Abstract!Extent(new) \subseteq Base + 3 .. Limit
      BY <3>2, <3>4, <3>5 DEF Abstract!Extent
    <3>7. ASSUME NEW c \in live PROVE Abstract!Disjoint(new, c)
      <4>1. /\ c.at - 1 \in B \ {End} /\ c.at - 1 # cur
            /\ m[c.at - 1].size >= c.words + 2
        BY <3>2, <3>3 DEF Owners, Unowned
      <4>2. c.at \in Int /\ c.words \in Nat
        <5>1. c.at \in Words /\ c.words \in Requests
          BY <3>2
        <5>2. c.at \in Int
          BY <5>1 DEF Words
        <5>3. c.words \in Nat
          BY <5>1, HeapAssumption
        <5> QED BY <5>2, <5>3
      <4>3. m[c.at - 1].size \in Int
        BY <3>3, <4>1, ChunkInside
      <4>4. cur + need <= c.at - 1 \/ c.at - 1 + m[c.at - 1].size <= cur
        BY <3>3, <4>1, ChunksApart
      <4> QED BY <3>2, <3>4, <4>1, <4>2, <4>3, <4>4 DEF Abstract!Disjoint, Abstract!Extent
    <3>8. new \notin live
      BY <3>2, <3>4 DEF Unowned
    <3> HIDE DEF new
    <3>9. Abstract!Allocate
      BY <3>1, <3>6, <3>7, <3>8 DEF Abstract!Allocate
    <3> QED BY <3>9
  <2>2. CASE \E b \in live : Deallocate(b) \/ (Apart(b) /\ HandlerDeallocate(b))
    BY <2>2 DEF Deallocate, HandlerDeallocate, Abstract!Deallocate
  <2>3. CASE \/ \E n \in Requests : Allocate(n)
             \/ Skip \/ Take \/ WriteHeader \/ Merge
             \/ \E b \in live : Write(b)
    BY <2>3 DEF Allocate, Skip, Take, WriteHeader, Merge, Write
  <2>4. CASE UNCHANGED vars
    BY <2>4 DEF vars
  <2> QED BY <1>2, <2>1, <2>2, <2>3, <2>4 DEF ApartNext, Process, Execute
<1>3. ApartSpec => []IndInv
  BY Inductive
<1> QED BY <1>1, <1>2, <1>3, PTL DEF ApartSpec, AllocatorSpec, Abstract!Spec

\* What held counts are the blocks, and no word holds more than a size.
Counted ==
  /\ IsFiniteSet(live) /\ held = Cardinality(live)
  /\ words \in Requests \cup {0}
  /\ \A w \in Words : mem[w].size \in 0 .. Limit

\* Two chunks that are joined are no larger than the heap.
LEMMA JoinedSizes ==
  ASSUME NEW B, NEW E, NEW m, Row(B, E, m), NEW f \in B \ {Base, Base + 2, E},
         \A w \in Words : m[w].size \in 0 .. Limit
  PROVE  \A w \in Words : Joined(m, f, f + m[f].size - 1)[w].size \in 0 .. Limit
<1> DEFINE both == [used |-> FALSE, size |-> m[f - 1].size + m[f].size]
<1>1. PICK p \in B \ {E} : p + m[p].size = f
  BY DEF Row
<1>2. /\ p \in Int /\ m[p].size \in Int /\ f \in Int /\ m[f].size \in Int
      /\ f + m[f].size <= E /\ Base <= p
  BY <1>1, ChunkInside
<1>3. m[f - 1] = m[p]
  <2>1. p # Base
    BY <1>1 DEF Row
  <2>2. m[p + m[p].size - 1] = m[p]
    BY <2>1 DEF Row
  <2>3. p + m[p].size - 1 = f - 1
    BY <1>1, <1>2
  <2> QED BY <2>2, <2>3
<1>4. both.size \in 0 .. Limit
  <2>1. E <= Limit /\ E \in Int /\ Base >= 0 /\ Base \in Int /\ Limit \in Int
    BY HeapAssumption DEF Row
  <2>2. m[p].size >= 2 /\ m[f].size >= 2
    BY <1>1, ChunkInside
  <2> QED BY <1>1, <1>2, <1>3, <2>1, <2>2
<1> HIDE DEF both
<1>5. \/ Joined(m, f, f + m[f].size - 1) = m
      \/ Joined(m, f, f + m[f].size - 1)
           = [m EXCEPT ![f - 1] = both, ![f - m[f - 1].size] = both,
                       ![f + m[f].size - 1] = both]
  BY DEF Joined, both
<1>6. m \in [Words -> Chunk]
  BY DEF Row
<1> QED BY <1>4, <1>5, <1>6

\* Nor does a freed chunk become larger than the heap.
LEMMA FreedSizes ==
  ASSUME Base + 3 \in Permanent,
         NEW B, NEW E, NEW m, NEW L, NEW M, Whole(B, E, m, L, M),
         NEW b, NEW f, LiesIn(b, f, L), \A w \in Words : m[w].size \in 0 .. Limit
  PROVE  \A w \in Words : Freed(m, f)[w].size \in 0 .. Limit
<1> DEFINE j == Released(m, f)
<1>2. m \in [Words -> Chunk] /\ B \in SUBSET Words
  BY DEF Row, Whole
<1>3. /\ Row(B, E, j) /\ f \in B \ {Base, Base + 2, E} /\ j[f].size = m[f].size
  <2>1. Whole(B, E, j, L \ {b}, M \ {b}) /\ Inner(B, E, f) /\ Marks(B, m, f, j)
    BY ReleasedFacts
  <2> QED BY <2>1 DEF Whole, Inner, Marks
<1>4. \A w \in Words : j[w].size \in 0 .. Limit
  BY <1>2, <1>3 DEF Released
<1>5. Freed(m, f) = Joined(j, f, f + j[f].size - 1)
  BY <1>3 DEF Freed
<1> HIDE DEF j
<1> QED BY <1>3, <1>4, <1>5, JoinedSizes

\* Every variable keeps its type, for every size of the heap: no step reads or
\* writes a word behind the heap, and headers, footers and what is left of old
\* ones never hold more than the size of the memory.
THEOREM TypeCorrect ==
  ASSUME Base + 3 \in Permanent, Garbage.size \in 0 .. Limit
  PROVE  ApartSpec => []TypeOK
<1>1. Init => Counted
  <2> SUFFICES ASSUME Init PROVE Counted
    OBVIOUS
  <2>1. \A w \in Words : mem[w].size \in 0 .. Limit
    BY HeapAssumption DEF Init
  <2>2. IsFiniteSet(live) /\ held = Cardinality(live) /\ words \in Requests \cup {0}
    BY FS_EmptySet DEF Init
  <2> QED BY <2>1, <2>2 DEF Counted
<1>2. ASSUME IndInv, IndInv', Counted, [ApartNext]_vars PROVE Counted'
  <2>0. /\ mem \in [Words -> Chunk] /\ cur \in Words /\ need \in Words
        /\ need \in 0 .. Limit /\ Limit \in Int
        /\ \A w \in Words : mem[w].size \in 0 .. Limit
        /\ IsFiniteSet(live) /\ held = Cardinality(live) /\ words \in Requests \cup {0}
    BY <1>2, HeapAssumption DEF IndInv, Types, Counted, Words
  <2>1. CASE UNCHANGED <<mem, live, held>> /\ words' \in Requests \cup {0}
    BY <2>1, <1>2 DEF Counted
  <2>2. CASE \E n \in Requests : Allocate(n)
    BY <2>1, <2>2 DEF Allocate
  <2>3. CASE Skip \/ Take \/ UNCHANGED vars
    BY <2>0, <2>1, <2>3 DEF Skip, Take, vars, local
  <2>4. CASE WriteHeader
    <3>1. \A w \in Words : mem'[w].size \in 0 .. Limit
      BY <2>0, <2>4 DEF WriteHeader
    <3> QED BY <3>1, <2>0, <2>4 DEF WriteHeader, Counted
  <2>5. CASE WriteFooter
    <3>1. \A w \in Words : mem'[w].size \in 0 .. Limit
      BY <2>0, <2>5 DEF WriteFooter
    <3>2. /\ [at |-> cur + 1, words |-> words] \notin live
          /\ live' = live \cup {[at |-> cur + 1, words |-> words]}
          /\ held' = held + 1 /\ UNCHANGED words
      <4>1. Unowned(live, cur) /\ cur \in Int
        BY <1>2, <2>0, <2>5 DEF IndInv, Footing, WriteFooter, Words
      <4> QED BY <4>1, <2>5 DEF WriteFooter, Unowned
    <3>3. IsFiniteSet(live') /\ held' = Cardinality(live')
      BY <2>0, <3>2, FS_AddElement
    <3> QED BY <3>1, <3>2, <3>3, <2>0 DEF Counted
  <2>6. CASE \E b \in live : Write(b)
    <3>1. \A w \in Words : mem'[w].size \in 0 .. Limit
      BY <2>0, <2>6 DEF Write
    <3> QED BY <3>1, <2>0, <2>6 DEF Write, local, Counted
  <2>7. CASE Merge
    <3>1. /\ pc = "merge" /\ mem' = Joined(mem, cur, cur + need - 1)
          /\ UNCHANGED <<live, held, words>>
      BY <2>7 DEF Merge
    <3>2. PICK B \in SUBSET Words :
            /\ Row(B, End, mem) /\ cur \in B \ {Base, Base + 2, End}
            /\ need = mem[cur].size
      BY <1>2, <3>1 DEF IndInv, Merging
    <3>3. \A w \in Words : mem'[w].size \in 0 .. Limit
      BY <2>0, <3>1, <3>2, JoinedSizes
    <3> QED BY <3>1, <3>3, <2>0 DEF Counted
  <2>8. ASSUME NEW b \in live, live' = live \ {b}, held' = held - 1, UNCHANGED words,
               \A w \in Words : mem'[w].size \in 0 .. Limit
        PROVE  Counted'
    <3>1. IsFiniteSet(live') /\ held' = Cardinality(live')
      BY <2>0, <2>8, FS_RemoveElement
    <3> QED BY <3>1, <2>0, <2>8 DEF Counted
  <2>9. ASSUME NEW b \in live, Deallocate(b) PROVE Counted'
    <3> DEFINE f == b.at - 1
    <3>1. mem' = Released(mem, f) /\ mem[f].size \in 0 .. Limit
      <4>1. PICK B \in SUBSET Words : Owners(live, B, End, mem)
        BY <1>2, <2>9 DEF IndInv, Idle, Deallocate
      <4>2. f \in Words
        BY <4>1 DEF Owners
      <4> QED BY <4>2, <2>0, <2>9 DEF Deallocate
    <3> HIDE DEF f
    <3>2. \A w \in Words : mem'[w].size \in 0 .. Limit
      BY <3>1, <2>0 DEF Released
    <3> QED BY <3>2, <2>8, <2>9 DEF Deallocate
  <2>10. ASSUME NEW b \in live, Apart(b), HandlerDeallocate(b) PROVE Counted'
    <3> DEFINE f == b.at - 1
    <3>1. /\ b.at \notin Permanent /\ mem' = Freed(mem, f) /\ live' = live \ {b}
          /\ held' = held - 1 /\ UNCHANGED words /\ LiesIn(b, f, live)
      BY <2>10 DEF HandlerDeallocate, local, LiesIn
    <3>2. \A w \in Words : mem'[w].size \in 0 .. Limit
      <4>1. CASE pc = "footer"
        <5> DEFINE y == cur + need - 1
                   m == Footed(mem, cur, need)
        <5>1. PICK B, M : Whole(B, End, m, live, M)
          BY <1>2, <4>1 DEF IndInv, Types, Footing, Whole
        <5>2. \A w \in Words : m[w].size \in 0 .. Limit
          BY <2>0 DEF Footed
        <5>3. /\ mem' \in [Words -> Chunk] /\ mem'[y] = mem[y] /\ y \in Words
              /\ Footed(mem', cur, need) = Freed(m, f)
          BY <1>2, <2>10, <4>1, HandlerFooter
        <5> HIDE DEF m, y, f
        <5>4. \A w \in Words : Freed(m, f)[w].size \in 0 .. Limit
          BY <1>2, <2>10, <3>1, <5>1, <5>2, FreedSizes
        <5>5. \A w \in Words \ {y} : mem'[w] = Freed(m, f)[w]
          BY <5>3 DEF Footed, y
        <5> QED BY <2>0, <5>3, <5>4, <5>5
      <4>2. CASE pc # "footer"
        <5>1. PICK B, E : Whole(B, E, mem, live, live)
          BY <1>2, <4>2
          DEF IndInv, Types, Control, Idle, Searching, Taking, Merging, Whole
        <5> HIDE DEF f
        <5> QED BY <2>0, <3>1, <5>1, FreedSizes
      <4> QED BY <4>1, <4>2
    <3> QED BY <3>1, <3>2, <2>8
  <2> HIDE DEF Counted
  <2> QED BY <1>2, <2>2, <2>3, <2>4, <2>5, <2>6, <2>7, <2>9, <2>10
         DEF ApartNext, Process, Execute
<1>3. ASSUME IndInv, Counted PROVE TypeOK
  <2>1. mem \in [Words -> [used : BOOLEAN, size : 0 .. Limit]]
    <3>1. mem \in [Words -> Chunk] /\ \A w \in Words : mem[w].size \in 0 .. Limit
      BY <1>3 DEF IndInv, Types, Counted
    <3>2. ASSUME NEW w \in Words PROVE mem[w] \in [used : BOOLEAN, size : 0 .. Limit]
      BY <3>1 DEF Chunk
    <3> QED BY <3>1, <3>2
  <2>2. held \in Nat
    BY <1>3, FS_CardinalityType DEF Counted
  <2> QED BY <1>3, <2>1, <2>2 DEF TypeOK, IndInv, Types, Counted
<1>4. ApartSpec => []IndInv
  BY Inductive
<1> QED BY <1>1, <1>2, <1>3, <1>4, PTL DEF ApartSpec
-----------------------------------------------------------------------------
(* What the search loop passes: Chunks is defined by recursion.  That there *)
(* is a function as its definition asks for needs no induction: the words   *)
(* that can be reached from a word are those in each set that has the word, *)
(* and with a chunk the one behind it.  For a row there is only one answer. *)

\* The search does not go on from a.
Stops(a) == a >= End \/ mem[a].size = 0 \/ a + mem[a].size > Limit

\* The chunks from a on, if g has them for the chunk behind it.
PassedFrom(g, a) == {a} \cup IF Stops(a) THEN {} ELSE g[a + mem[a].size]

\* With a word of C that the search goes on from, C has the next one.
Closed(C) == \A a \in C : ~Stops(a) => a + mem[a].size \in C

\* The recursive definition of Chunks has a solution.
LEMMA PassedExists ==
  ASSUME mem \in [Words -> Chunk]
  PROVE  \E g : g = [a \in Words |-> PassedFrom(g, a)]
<1> DEFINE Reached(a) == {w \in Words : \A C \in SUBSET Words : a \in C /\ Closed(C) => w \in C}
           g == [a \in Words |-> Reached(a)]
<1>1. ASSUME NEW a \in Words, ~Stops(a) PROVE a + mem[a].size \in Words
  <2>1. /\ a \in Nat /\ mem[a].size \in Nat /\ Limit \in Nat
        /\ ~(a + mem[a].size > Limit)
    BY <1>1, HeapAssumption DEF Stops, Words, Chunk
  <2> QED BY <2>1 DEF Words
<1>2. ASSUME NEW a \in Words PROVE a \in Reached(a)
  OBVIOUS
<1>3. ASSUME NEW a \in Words PROVE Closed(Reached(a))
  BY <1>1 DEF Closed
<1>4. ASSUME NEW a \in Words, NEW C \in SUBSET Words, a \in C, Closed(C)
      PROVE  Reached(a) \subseteq C
  BY <1>4
<1> HIDE DEF Reached
<1>5. \A a \in Words : Reached(a) \in SUBSET Words
  BY DEF Reached
<1>6. ASSUME NEW a \in Words PROVE Reached(a) = PassedFrom(g, a)
  <2>1. CASE Stops(a)
    <3>1. Closed({a})
      BY <2>1 DEF Closed
    <3>2. Reached(a) \subseteq {a}
      BY <1>4, <3>1
    <3> QED BY <2>1, <3>2, <1>2 DEF PassedFrom
  <2>2. CASE ~Stops(a)
    <3> DEFINE n == a + mem[a].size
               C == {a} \cup Reached(n)
    <3>1. n \in Words /\ g[n] = Reached(n)
      BY <2>2, <1>1
    <3>2. PassedFrom(g, a) = C
      BY <2>2, <3>1 DEF PassedFrom
    <3>3. n \in Reached(n) /\ Closed(Reached(n)) /\ Reached(n) \in SUBSET Words
      BY <3>1, <1>2, <1>3, <1>5
    <3>4. Closed(C)
      BY <3>3 DEF Closed
    <3>5. Reached(a) \subseteq C
      BY <3>3, <3>4, <1>4
    <3>6. n \in Reached(a)
      BY <2>2, <1>2, <1>3 DEF Closed
    <3>7. Reached(n) \subseteq Reached(a)
      BY <3>1, <3>6, <1>3, <1>4, <1>5
    <3> QED BY <3>2, <3>5, <3>7, <1>2
  <2> QED BY <2>1, <2>2
<1>7. g = [a \in Words |-> PassedFrom(g, a)]
  <2> HIDE DEF g
  <2>1. g = [a \in Words |-> Reached(a)]
    BY DEF g
  <2> QED BY <2>1, <1>6
<1> QED BY <1>7

\* A set of naturals that has a member has a smallest one.
LEMMA Smallest ==
  ASSUME NEW T \in SUBSET Nat, T # {}
  PROVE  \E n \in T : \A k \in T : n <= k
<1> DEFINE R == OpToRel(<, Nat)
<1>1. IsWellFoundedOn(R, Nat)
  BY NatLessThanWellFounded
<1>2. \A j, k \in Nat : j < k => <<j, k>> \in R
  BY DEF OpToRel
<1> HIDE DEF R
<1>3. PICK n \in T : \A k \in T : ~(<<k, n>> \in R)
  BY <1>1, WFMin
<1>4. ASSUME NEW k \in T PROVE n <= k
  <2>1. k \in Nat /\ n \in Nat /\ ~(<<k, n>> \in R)
    BY <1>3
  <2>2. ~(k < n)
    BY <2>1, <1>2
  <2> QED BY <2>1, <2>2
<1> QED BY <1>4

\* From each chunk of a row on, every solution has the chunks behind it.
LEMMA PassedRow ==
  ASSUME NEW B, Row(B, End, mem), NEW g, g = [a \in Words |-> PassedFrom(g, a)]
  PROVE  g[Base] = B
<1> DEFINE From(a) == {c \in B : c >= a}
           T == {n \in Nat : \E a \in B : n = End - a /\ g[a] # From(a)}
<1>0. /\ End \in Int /\ Base \in Int /\ Base \in B /\ End \in B /\ Limit \in Int
      /\ End <= Limit
      /\ \A a \in B : a \in Words /\ a \in Int /\ Base <= a /\ a <= End
  BY HeapAssumption DEF Row, Words
<1>1. \A a \in B : g[a] = PassedFrom(g, a)
  BY <1>0
<1>2. ASSUME T # {} PROVE FALSE
  <2>1. PICK n \in T : \A k \in T : n <= k
    BY <1>2, Smallest
  <2>2. PICK a \in B : n = End - a /\ g[a] # From(a)
    OBVIOUS
  <2>3. CASE a = End
    <3>1. g[a] = {a}
      BY <1>0, <1>1, <2>3 DEF PassedFrom, Stops
    <3>2. \A c \in B : c >= a <=> c = a
      BY <1>0, <2>3
    <3>3. From(a) = {a}
      BY <3>2, <2>2
    <3> QED BY <3>1, <3>3, <2>2
  <2>4. CASE a # End
    <3> DEFINE b == a + mem[a].size
    <3>0. /\ a \in Int /\ mem[a].size \in Int /\ mem[a].size >= 2
          /\ a + mem[a].size <= End
      BY <2>2, <2>4, ChunkInside
    <3>9. b \in B
      BY <2>2, <2>4 DEF Row
    <3>1. /\ b \in B /\ mem[a].size >= 2 /\ mem[a].size \in Int
          /\ b <= End /\ a < b /\ a < End /\ a \in Int /\ b \in Int
      BY <3>0, <3>9, <1>0
    <3>2. ~Stops(a)
      BY <3>1, <1>0 DEF Stops
    <3>3. End - b \in Nat /\ End - b < n
      BY <3>1, <2>2, <1>0
    <3>4. g[b] = From(b)
      BY <3>1, <3>3, <2>1
    <3>5. g[a] = {a} \cup From(b)
      BY <3>2, <3>4, <1>1 DEF PassedFrom
    <3>6. \A c \in B : c <= a \/ c >= b
      BY <2>4 DEF Row
    <3>8. \A c \in B : c >= a <=> c = a \/ c >= b
      <4> HIDE DEF b
      <4> QED BY <3>1, <3>6, <1>0
    <3>7. From(a) = {a} \cup From(b)
      <4> HIDE DEF b
      <4> QED BY <3>8, <2>2
    <3> QED BY <3>5, <3>7, <2>2
  <2> QED BY <2>3, <2>4
<1>3. \A a \in B : End - a \in Nat
  BY <1>0
<1>4. g[Base] = From(Base)
  BY <1>0, <1>2, <1>3
<1> QED BY <1>4, <1>0

\* Chunks is the set of chunks of the row.
LEMMA ChunksAreTheRow ==
  ASSUME NEW B, Row(B, End, mem)
  PROVE  Chunks = B
<1> DEFINE g == CHOOSE g : g = [a \in Words |-> PassedFrom(g, a)]
<1>1. Chunks = g[Base]
  BY DEF Chunks, PassedFrom, Stops
<1>2. \E h : h = [a \in Words |-> PassedFrom(h, a)]
  BY PassedExists DEF Row
<1>3. g = [a \in Words |-> PassedFrom(g, a)]
  BY <1>2
<1> HIDE DEF g
<1> QED BY <1>1, <1>3, PassedRow

\* Between two calls the row of chunks is whole, and it holds what callers
\* own: the heap never loses a chunk, and never frees one that is owned
\* (vmem_heap_allocator.cpp:24-87).
THEOREM RowIsWhole ==
  ASSUME Base + 3 \in Permanent
  PROVE  ApartSpec => []ChunksFillTheHeap
<1>1. IndInv => ChunksFillTheHeap
  <2> SUFFICES ASSUME IndInv, pc = "idle"
               PROVE  /\ End \in Chunks /\ mem[End] = [used |-> FALSE, size |-> 0]
                      /\ {a \in Chunks : mem[a].used} = {Base} \cup {b.at - 1 : b \in live}
                      /\ \A b \in live : mem[b.at - 1].size >= b.words + 2
    BY DEF ChunksFillTheHeap
  <2>1. PICK B \in SUBSET Words :
          Row(B, End, mem) /\ Owners(live, B, End, mem) /\ Owned(live, B, End, mem)
    BY DEF IndInv, Idle
  <2>2. Chunks = B
    BY <2>1, ChunksAreTheRow
  <2>3. End \in B /\ ~mem[End].used /\ mem[End].size = 0 /\ mem[End] \in Chunk
    BY <2>1, HeapAssumption DEF Row, Words
  <2>4. mem[End] = [used |-> FALSE, size |-> 0]
    BY <2>3 DEF Chunk
  <2>5. \A b \in live : /\ b.at - 1 \in B /\ mem[b.at - 1].used
                         /\ mem[b.at - 1].size >= b.words + 2
    BY <2>1 DEF Owners
  <2>6. Base \in B /\ mem[Base].used
    BY <2>1 DEF Row
  <2>7. ASSUME NEW a \in B, mem[a].used PROVE a = Base \/ \E b \in live : b.at - 1 = a
    BY <2>1, <2>3, <2>7 DEF Owned
  <2>8. {a \in B : mem[a].used} = {Base} \cup {b.at - 1 : b \in live}
    BY <2>5, <2>6, <2>7
  <2> QED BY <2>2, <2>3, <2>4, <2>5, <2>8
<1>2. ApartSpec => []IndInv
  BY Inductive
<1> QED BY <1>1, <1>2, PTL

\* Headers and footers agree between two calls, which _deallocate relies on
\* when it looks for the previous chunk (vmem_heap_allocator.cpp:75-84).
THEOREM FootersAgree ==
  ASSUME Base + 3 \in Permanent
  PROVE  ApartSpec => []HeadersMatchFooters
<1>1. IndInv => HeadersMatchFooters
  <2> SUFFICES ASSUME IndInv, pc = "idle"
               PROVE  \A a \in Chunks \ {Base, End} : mem[a + mem[a].size - 1] = mem[a]
    BY DEF HeadersMatchFooters
  <2>1. PICK B \in SUBSET Words : Row(B, End, mem)
    BY DEF IndInv, Idle
  <2>2. Chunks = B
    BY <2>1, ChunksAreTheRow
  <2> QED BY <2>1, <2>2 DEF Row
<1>2. ApartSpec => []IndInv
  BY Inductive
<1> QED BY <1>1, <1>2, PTL

\* The heap grows only when no free chunk is large enough, unless a handler
\* freed one during the search: it has passed them all (vmem_heap_allocator.cpp:29-45).
THEOREM GrowsWhenFull ==
  ASSUME Base + 3 \in Permanent
  PROVE  ApartSpec => GrowsOnlyWhenFull
<1>1. ASSUME IndInv, [ApartNext]_vars, lastAddr' # lastAddr, ~freed
      PROVE  \A a \in Chunks \ {End} : mem[a].used \/ mem[a].size < need
  <2>1. /\ pc = "search" /\ MemoryFits(mem[cur], need)
        /\ cur + need >= lastAddr
    BY <1>1 DEF ApartNext, Process, Execute, Allocate, Skip, Take, WriteHeader, WriteFooter, Merge,
                Deallocate, HandlerDeallocate, Write, vars
  <2>2. PICK B \in SUBSET Words :
          /\ Row(B, End, mem) /\ cur \in B
          /\ \A a \in B : a < cur => ~MemoryFits(mem[a], need)
    BY <1>1, <2>1 DEF IndInv, Searching
  <2>3. Chunks = B
    BY <2>2, ChunksAreTheRow
  <2>4. need \in Int /\ lastAddr \in Int /\ End = lastAddr - 2
    BY <1>1, HeapAssumption DEF IndInv, Types, Words, End
  <2>5. cur = End
    <3> SUFFICES ASSUME cur # End PROVE FALSE
      OBVIOUS
    <3>1. /\ mem[cur].size \in Int /\ mem[cur].size >= 2 /\ cur \in Int
          /\ cur + mem[cur].size <= End
      BY <2>2, ChunkInside
    <3>2. mem[cur].size >= need
      BY <2>1, <3>1 DEF MemoryFits
    <3> QED BY <2>1, <2>4, <3>1, <3>2
  <2>6. ASSUME NEW a \in B \ {End} PROVE mem[a].used \/ mem[a].size < need
    <3>1. mem[a].size \in Int /\ mem[a].size >= 2 /\ a < cur
      BY <2>2, <2>5, ChunkInside
    <3> QED BY <2>2, <2>4, <3>1 DEF MemoryFits
  <2> QED BY <2>3, <2>6
<1>2. ApartSpec => []IndInv
  BY Inductive
<1> QED BY <1>1, <1>2, PTL DEF ApartSpec, GrowsOnlyWhenFull
=============================================================================
