---------------------------- MODULE Input_proofs ----------------------------
(***************************************************************************)
(* From the keyboard to the command.  The queue between the keyboard       *)
(* interrupt and the reader keeps every code, in order, for a queue of any *)
(* length; and a single reader never takes a code that is not there,       *)
(* though it does not look again when it wakes up.  What the terminal does *)
(* with the codes: for any codes, lines and screens, its input is the      *)
(* overlay of all lines, and the line stands on the screen.                *)
(***************************************************************************)
EXTENDS KeyboardInput, Terminal,
        SequenceTheorems, FiniteSetTheorems, WellFoundedInduction, TLAPS

\* A place of the array, for an index that went past its end once at most.
Wrap(i) == IF i < Count THEN i ELSE i - Count

\* The codes that wait lie one behind the other from _head on, up to _tail.
QueueHolds ==
  /\ sent - popped \in 0 .. Slack
  /\ tail = Wrap(head + (sent - popped))
  /\ \A k \in 0 .. sent - popped - 1 : objs[Wrap(head + k)] = popped + 1 + k

\* A reader that has blocked itself is awake only because a code came since,
\* and nobody but this reader takes codes.
AwakeForCode ==
  \A p \in Readers :
    /\ pc[p] \in {"inserting", "walking", "yielding", "yielded"} /\ ~isBlocked[p]
         => popped < sent
    /\ pc[p] = "yielded" /\ cpu = p => ~isBlocked[p]
    /\ pc[p] = "popping" => popped < sent

\* A reader in the search loop is at a node.
WalksAlong == \A p \in Readers : pc[p] = "walking" => walk[p] \in Nodes

IndInv == TypeOK /\ WalksAlong /\ QueueHolds /\ AwakeForCode
-----------------------------------------------------------------------------
\* _head++ or _tail++ goes to the next place.
LEMMA NextSlotFacts ==
  ASSUME NEW i \in 0 .. Count - 1
  PROVE  NextSlot(i) \in 0 .. Count - 1 /\ NextSlot(i) = Wrap(i + 1)
BY QueueAssumption DEF NextSlot, Wrap

\* Places of the array are different for indices less than Count apart.
LEMMA WrapFacts ==
  ASSUME NEW i \in 0 .. Count - 1, NEW k \in 0 .. Count - 1
  PROVE  /\ Wrap(i + k) \in 0 .. Count - 1
         /\ k + 1 < Count => NextSlot(Wrap(i + k)) = Wrap(i + (k + 1))
         /\ \A j \in 0 .. k - 1 : Wrap(i + j) # Wrap(i + k)
         /\ Wrap(i + 0) = i
         /\ Wrap(i + k) = i => k = 0
BY QueueAssumption DEF NextSlot, Wrap

\* Once the first of them is taken, the others are one place nearer.
LEMMA PassedFacts ==
  ASSUME NEW i \in 0 .. Count - 1, NEW k \in Nat, k + 1 < Count
  PROVE  Wrap(NextSlot(i) + k) = Wrap(i + (k + 1))
BY QueueAssumption DEF NextSlot, Wrap

\* Nothing is there at first.
LEMMA Initially == Init => IndInv
<1> SUFFICES ASSUME Init PROVE IndInv
  OBVIOUS
<1> USE QueueAssumption, NamesAssumption
<1>1. TypeOK
  BY DEF Init, TypeOK, Control
<1>2. WalksAlong /\ AwakeForCode
  BY DEF Init, WalksAlong, AwakeForCode
<1>3. QueueHolds
  BY DEF Init, QueueHolds, Wrap
<1> QED BY <1>1, <1>2, <1>3 DEF IndInv

\* The handler returns at the end of the list.
LEMMA LLRemoveEnds ==
  ASSUME LLRemove
  PROVE  \/ irq' = Null
         \/ irq' = [prev |-> irq.cur, cur |-> link'[irq.cur]] /\ link'[irq.cur] # Null
<1>1. CASE link'[irq.cur] = Null
  BY <1>1 DEF LLRemove
<1>2. CASE link'[irq.cur] # Null
  BY <1>2 DEF LLRemove
<1> QED BY <1>1, <1>2

\* Types, for any number of readers.
LEMMA Typed ==
  ASSUME TypeOK, WalksAlong, [Next]_vars
  PROVE  TypeOK' /\ WalksAlong'
<1> USE QueueAssumption, NamesAssumption DEF TypeOK, WalksAlong
<1>1. CASE UNCHANGED vars
  BY <1>1 DEF vars
<1>2. CASE Interrupt
  <2>1. /\ sent' \in 0 .. MaxCodes /\ sent + 1 \in 0 .. MaxCodes
        /\ objs' = [objs EXCEPT ![tail] = sent + 1] /\ tail' = NextSlot(tail)
        /\ UNCHANGED <<head, popped, first, link, data, allocated, node, walk, cpu, pc>>
    BY <1>2 DEF Interrupt, Push, list
  <2>2. objs' \in [0 .. Count - 1 -> 0 .. MaxCodes] /\ tail' \in 0 .. Count - 1
    BY <2>1, NextSlotFacts
  <2>3. /\ isBlocked' \in [Readers -> BOOLEAN]
        /\ irq' \in [prev : Nodes \cup {Null}, cur : Nodes] \cup {Null}
    <3>1. CASE first = Null
      BY <1>2, <3>1 DEF Interrupt, UnblockFirst
    <3>2. CASE first # Null
      <4>1. /\ isBlocked' = [isBlocked EXCEPT ![data[first]] = FALSE]
            /\ irq' = [prev |-> Null, cur |-> first]
        BY <1>2, <3>2 DEF Interrupt, UnblockFirst
      <4>2. isBlocked' \in [Readers -> BOOLEAN]
        BY <4>1
      <4> QED BY <3>2, <4>1, <4>2
    <3> QED BY <3>1, <3>2
  <2> QED BY <2>1, <2>2, <2>3
<1>3. CASE LLRemove
  <2>1. irq \in [prev : Nodes \cup {Null}, cur : Nodes]
    BY <1>3 DEF LLRemove
  <2>2. link' \in [Nodes -> Nodes \cup {Null}] /\ allocated' \subseteq Nodes
    BY <1>3, <2>1 DEF LLRemove
  <2>3. \/ irq' = Null
        \/ irq' = [prev |-> irq.cur, cur |-> link'[irq.cur]] /\ link'[irq.cur] # Null
    BY <1>3, LLRemoveEnds
  <2>4. irq' \in [prev : Nodes \cup {Null}, cur : Nodes] \cup {Null}
    BY <2>1, <2>2, <2>3
  <2>5. UNCHANGED <<objs, head, tail, sent, popped, isBlocked, first, data, node, walk, cpu, pc>>
    BY <1>3 DEF LLRemove, queue
  <2> QED BY <2>2, <2>4, <2>5
<1>4. ASSUME NEW p \in Readers, Execute(p) \/ Resume(p)
      PROVE  TypeOK' /\ WalksAlong'
  <2>1. CASE \/ Call(p) \/ Test(p) \/ SetBlocked(p) \/ Return(p)
             \/ YieldIdle(p) \/ Yield(p) \/ Resume(p)
    BY <2>1 DEF Call, Test, SetBlocked, Return, YieldIdle, Yield, Resume, Step, Control,
       queue, list
  <2>2. CASE NewNode(p)
    BY <2>2 DEF NewNode, Step, Control, queue
  <2>3. CASE Walk(p)
    BY <2>3 DEF Walk, Step, Control, queue
  <2>4. CASE AppendNode(p)
    BY <2>4 DEF AppendNode, Step, Control, queue
  <2>5. CASE Pop(p)
    BY <2>5, NextSlotFacts DEF Pop, Step, Control, list
  <2> QED BY <1>4, <2>1, <2>2, <2>3, <2>4, <2>5 DEF Execute
<1> QED BY <1>1, <1>2, <1>3, <1>4 DEF Next

\* A code is stored behind those that wait, as long as fewer wait than the
\* queue has places for.
LEMMA QueueTakesCode ==
  ASSUME TypeOK, QueueHolds, Slack < Count, Interrupt
  PROVE  QueueHolds'
<1> USE QueueAssumption, NamesAssumption
<1> DEFINE n == sent - popped
<1>0. sent \in Nat /\ popped \in Nat
  BY DEF TypeOK
<1>1. /\ n \in 0 .. Slack - 1 /\ n \in 0 .. Count - 1
      /\ head \in 0 .. Count - 1 /\ tail \in 0 .. Count - 1
  BY DEF Interrupt, QueueHolds, TypeOK
<1>2. /\ objs' = [objs EXCEPT ![tail] = sent + 1] /\ tail' = NextSlot(tail)
      /\ sent' = sent + 1 /\ popped' = popped /\ head' = head
  BY DEF Interrupt, Push
<1>3. tail = Wrap(head + n) /\ \A k \in 0 .. n - 1 : objs[Wrap(head + k)] = popped + 1 + k
  BY DEF QueueHolds
<1>4. /\ sent' - popped' = n + 1 /\ sent' - popped' \in 0 .. Slack
      /\ n + 1 < Count /\ sent + 1 = popped + 1 + n
  BY <1>0, <1>1, <1>2
<1>5. tail' = Wrap(head' + (sent' - popped'))
  BY <1>1, <1>2, <1>3, <1>4, WrapFacts
<1>6. objs'[Wrap(head + n)] = popped + 1 + n
  BY <1>1, <1>2, <1>3, <1>4 DEF TypeOK
<1>7. ASSUME NEW k \in 0 .. n - 1
      PROVE  objs'[Wrap(head + k)] = popped + 1 + k
  <2>1. Wrap(head + k) # tail /\ Wrap(head + k) \in 0 .. Count - 1
    BY <1>1, <1>3, WrapFacts
  <2> QED BY <1>2, <1>3, <2>1 DEF TypeOK
<1>8. \A k \in 0 .. n : objs'[Wrap(head + k)] = popped + 1 + k
  BY <1>1, <1>6, <1>7
<1> QED BY <1>2, <1>4, <1>5, <1>8 DEF QueueHolds

\* The oldest code is taken.
LEMMA QueueGivesCode ==
  ASSUME TypeOK, QueueHolds, Slack < Count, NEW p \in Readers, Pop(p), popped < sent
  PROVE  QueueHolds'
<1> USE QueueAssumption, NamesAssumption
<1> DEFINE n == sent - popped
<1>1. n \in 1 .. Slack /\ n \in 1 .. Count - 1 /\ head \in 0 .. Count - 1
  BY DEF QueueHolds, TypeOK
<1>2. /\ head' = NextSlot(head) /\ popped' = popped + 1
      /\ UNCHANGED <<objs, tail, sent>>
  BY DEF Pop
<1>3. sent' - popped' = n - 1 /\ sent' - popped' \in 0 .. Slack
  BY <1>1, <1>2 DEF TypeOK
<1>4. tail' = Wrap(head' + (sent' - popped'))
  BY <1>1, <1>2, <1>3, PassedFacts DEF QueueHolds
<1>5. ASSUME NEW k \in 0 .. n - 1 - 1
      PROVE  objs'[Wrap(head' + k)] = popped' + 1 + k
  <2>1. k + 1 \in 0 .. n - 1 /\ k + 1 \in 0 .. Count - 1 /\ k + 1 > 0 /\ k + 1 - 1 = k
    BY <1>1
  <2>2. Wrap(head' + k) = Wrap(head + (k + 1))
    BY <1>1, <1>2, <2>1, PassedFacts
  <2>3. objs[Wrap(head + (k + 1))] = popped + 1 + (k + 1)
    BY <2>1 DEF QueueHolds
  <2> QED BY <1>2, <2>2, <2>3 DEF TypeOK
<1> QED BY <1>2, <1>3, <1>4, <1>5 DEF QueueHolds

\* The queue, whatever happens.
LEMMA QueueStep ==
  ASSUME TypeOK, QueueHolds, AwakeForCode, Slack < Count, [Next]_vars
  PROVE  QueueHolds'
<1>1. CASE UNCHANGED queue
  BY <1>1 DEF queue, QueueHolds, Wrap
<1>2. CASE Interrupt
  BY <1>2, QueueTakesCode
<1>3. ASSUME NEW p \in Readers, Pop(p)
      PROVE  QueueHolds'
  <2>1. popped < sent
    BY <1>3 DEF Pop, Step, AwakeForCode
  <2> QED BY <1>3, <2>1, QueueGivesCode
<1>4. ASSUME NEW p \in Readers, Execute(p) \/ Resume(p)
      PROVE  Pop(p) \/ UNCHANGED queue
  BY <1>4 DEF Execute, Resume, Call, Test, SetBlocked, NewNode, Walk, AppendNode, Yield, Return,
     YieldIdle, queue
<1>5. LLRemove \/ UNCHANGED vars => UNCHANGED queue
  BY DEF LLRemove, vars, queue
<1> QED BY <1>1, <1>2, <1>3, <1>4, <1>5 DEF Next

\* IsEmpty says whether a code waits.
LEMMA QueueEmpty ==
  ASSUME TypeOK, QueueHolds, Slack < Count
  PROVE  IsEmpty \/ popped < sent
<1> SUFFICES ASSUME sent - popped = 0 PROVE IsEmpty
  BY QueueAssumption DEF TypeOK, QueueHolds
<1> QED BY QueueAssumption DEF IsEmpty, TypeOK, QueueHolds, Wrap

\* A reader that is awake behind its test has a code: its own steps do not
\* take one, and an interrupt that wakes it brings one.  With a second reader
\* this is not so.
LEMMA AwakeStep ==
  ASSUME TypeOK, QueueHolds, AwakeForCode, [Next]_vars, Slack < Count,
         NEW reader, Readers = {reader}
  PROVE  AwakeForCode'
<1> USE QueueAssumption, NamesAssumption DEF AwakeForCode
<1>1. CASE UNCHANGED vars
  BY <1>1 DEF vars
<1>2. CASE Interrupt
  <2>1. sent' = sent + 1 /\ popped' = popped /\ UNCHANGED <<cpu, pc>>
    BY <1>2 DEF Interrupt
  <2>2. popped' < sent'
    BY <2>1 DEF TypeOK, QueueHolds
  <2>3. \A p \in Readers : isBlocked'[p] => isBlocked[p]
    BY <1>2 DEF Interrupt, UnblockFirst, TypeOK
  <2> QED BY <2>1, <2>2, <2>3
<1>3. CASE LLRemove
  BY <1>3 DEF LLRemove, queue
<1>4. ASSUME NEW p \in Readers, Execute(p) \/ Resume(p)
      PROVE  AwakeForCode'
  <2>1. p = reader
    OBVIOUS
  <2>2. CASE Call(p) \/ Return(p) \/ YieldIdle(p)
    BY <2>2, <2>1 DEF Call, Return, YieldIdle, Step, TypeOK, queue
  <2>3. CASE Test(p)
    <3>1. IsEmpty \/ popped < sent
      BY QueueEmpty
    <3> QED BY <2>3, <2>1, <3>1 DEF Test, Step, TypeOK, queue
  <2>4. CASE SetBlocked(p)
    BY <2>4, <2>1 DEF SetBlocked, Step, TypeOK, queue
  <2>5. CASE NewNode(p) \/ Walk(p) \/ AppendNode(p)
    BY <2>5, <2>1 DEF NewNode, Walk, AppendNode, Step, TypeOK, queue
  <2>6. CASE Yield(p)
    BY <2>6, <2>1 DEF Yield, Step, TypeOK, queue
  <2>7. CASE Pop(p)
    BY <2>7, <2>1 DEF Pop, Step, TypeOK, list
  <2>8. CASE Resume(p)
    BY <2>8, <2>1 DEF Resume, TypeOK, queue
  <2> QED BY <1>4, <2>2, <2>3, <2>4, <2>5, <2>6, <2>7, <2>8 DEF Execute
<1> QED BY <1>1, <1>2, <1>3, <1>4 DEF Next
-----------------------------------------------------------------------------
\* Every variable keeps its type, for any number of readers: the indices stay
\* in the array and the searches of the list stay at nodes.
THEOREM TypeCorrect == Spec => []TypeOK
<1>1. Init => TypeOK /\ WalksAlong
  BY Initially DEF IndInv
<1>2. TypeOK /\ WalksAlong /\ [Next]_vars => (TypeOK /\ WalksAlong)'
  BY Typed
<1> QED BY <1>1, <1>2, PTL DEF Spec

\* The inductive invariant, for one reader that lets fewer codes wait than the
\* queue has places for.
THEOREM Inductive ==
  ASSUME Slack < Count, NEW reader, Readers = {reader}
  PROVE  Spec => []IndInv
<1>1. ASSUME IndInv, [Next]_vars PROVE IndInv'
  <2>1. TypeOK' /\ WalksAlong'
    BY <1>1, Typed DEF IndInv
  <2>2. AwakeForCode'
    BY <1>1, AwakeStep DEF IndInv
  <2>3. QueueHolds'
    BY <1>1, QueueStep DEF IndInv
  <2> QED BY <2>1, <2>2, <2>3 DEF IndInv
<1> QED BY <1>1, Initially, PTL DEF Spec

\* What Pop returns is the code after the last one returned, and never what
\* lies in an empty queue (drvr_ps2kybd.cpp:151-157), for a queue of any
\* length and whatever the list of blocked processes looks like.
THEOREM CodesInOrder ==
  ASSUME Slack < Count, NEW reader, Readers = {reader}
  PROVE  Spec => []PopsInOrder
<1>1. ASSUME IndInv PROVE PopsInOrder
  <2> SUFFICES ASSUME NEW p \in Readers, pc[p] = "popping"
               PROVE  popped < sent /\ objs[head] = popped + 1
    BY DEF PopsInOrder
  <2>1. popped < sent
    BY <1>1 DEF IndInv, AwakeForCode
  <2>2. head \in 0 .. Count - 1 /\ 0 \in 0 .. sent - popped - 1 /\ popped \in Nat
    BY <1>1, <2>1 DEF IndInv, TypeOK
  <2>3. objs[Wrap(head + 0)] = popped + 1 + 0
    BY <1>1, <2>2 DEF IndInv, QueueHolds
  <2>4. Wrap(head + 0) = head
    BY <2>2, WrapFacts, QueueAssumption
  <2> QED BY <2>1, <2>2, <2>3, <2>4
<1> QED BY <1>1, Inductive, PTL
-----------------------------------------------------------------------------
\* Rows and columns.
LEMMA Products ==
  ASSUME NEW a \in Nat, NEW b \in Nat, NEW w \in Nat, a < b
  PROVE  a * w + w <= b * w /\ a * w \in Nat
OBVIOUS

\* The cursor is on an element that is shown.
LEMMA OnScreen ==
  ASSUME NEW r \in 0 .. Height - 1, NEW c \in 0 .. Width - 1
  PROVE  /\ Width * Height \in Nat \ {0}
         /\ r * Width \in Nat
         /\ r * Width + c \in 0 .. Width * Height - 1
         /\ r + 1 < Height => (r + 1) * Width = r * Width + Width
         /\ r + 1 = Height => r * Width + Width = Width * Height
<1>1. Width \in Nat \ {0} /\ Height \in Nat \ {0}
  BY ScreenAssumption
<1>2. Width * Height \in Nat \ {0}
  BY <1>1
<1>3. r * Width + Width <= Height * Width /\ r * Width \in Nat
  BY <1>1, Products
<1>4. (r + 1) * Width = r * Width + Width /\ Height * Width = Width * Height
  BY <1>1
<1>5. r * Width + c \in 0 .. Width * Height - 1
  <2> DEFINE p == r * Width
             q == Width * Height
  <2>1. p \in Nat /\ q \in Nat /\ p + Width <= q
    BY <1>2, <1>3, <1>4
  <2> HIDE DEF p, q
  <2>2. p + c \in 0 .. q - 1
    BY <2>1, <1>1
  <2> QED BY <2>2 DEF p, q
<1> QED BY <1>1, <1>2, <1>3, <1>4, <1>5

\* The remainder of what is at most n.
LEMMA Remainders ==
  ASSUME NEW n \in Nat \ {0}
  PROVE  (\A x \in 0 .. n - 1 : x % n = x) /\ n % n = 0
OBVIOUS

\* The element of the text buffer behind element p, on a screen that begins
\* again at the top.
After(p) == IF p + 1 = Width * Height THEN 0 ELSE p + 1

\* A screen with another cursor, or with another character, is a screen.
LEMMA ScreenFacts ==
  ASSUME NEW chars, NEW scr \in Screens(chars)
  PROVE  /\ scr.row \in 0 .. Height - 1 /\ scr.col \in 0 .. Width - 1
         /\ scr.cells \in [Elements -> chars]
         /\ Cursor(scr) \in Visible /\ Visible \subseteq Elements
         /\ \A r \in 0 .. Height - 1 : [scr EXCEPT !.row = r, !.col = 0] \in Screens(chars)
         /\ \A c \in 0 .. Width - 1 : [scr EXCEPT !.col = c] \in Screens(chars)
<1>1. /\ scr.row \in 0 .. Height - 1 /\ scr.col \in 0 .. Width - 1
      /\ scr.cells \in [Elements -> chars]
  BY DEF Screens
<1>2. Cursor(scr) \in Visible
  BY <1>1, OnScreen DEF Cursor, Visible
<1>3. Visible \subseteq Elements
  <2> DEFINE n == Width * Height
  <2>1. n \in Nat
    BY <1>1, OnScreen
  <2>2. Visible = 0 .. n - 1 /\ Elements = 0 .. n * 2 - 1
    BY DEF Visible, Elements, GetBufferSize
  <2> HIDE DEF n
  <2> QED BY <2>1, <2>2
<1>4. 0 \in 0 .. Width - 1
  BY ScreenAssumption
<1>5. \A r \in 0 .. Height - 1 : [scr EXCEPT !.row = r, !.col = 0] \in Screens(chars)
  BY <1>4 DEF Screens
<1>6. \A c \in 0 .. Width - 1 : [scr EXCEPT !.col = c] \in Screens(chars)
  BY DEF Screens
<1> QED BY <1>1, <1>2, <1>3, <1>5, <1>6

\* The first column of the next row.
LEMMA NewLineFacts ==
  ASSUME NEW chars, NEW scr \in Screens(chars)
  PROVE  /\ NewLine(scr) \in Screens(chars) /\ NewLine(scr).cells = scr.cells
         /\ scr.col + 1 = Width => Cursor(NewLine(scr)) = After(Cursor(scr))
<1> DEFINE r == scr.row
           next == (r + 1) % Height
<1>1. /\ r \in 0 .. Height - 1 /\ scr.col \in 0 .. Width - 1
      /\ Width \in Nat \ {0} /\ Height \in Nat \ {0}
  BY ScreenFacts, ScreenAssumption
<1>2. next = IF r + 1 = Height THEN 0 ELSE r + 1
  BY <1>1, Remainders
<1>3. next \in 0 .. Height - 1
  BY <1>1, <1>2
<1>4. NewLine(scr) = [scr EXCEPT !.row = next, !.col = 0]
  BY DEF NewLine
<1>5. NewLine(scr).row = next /\ NewLine(scr).col = 0 /\ NewLine(scr).cells = scr.cells
  BY <1>4 DEF Screens
<1>6. ASSUME scr.col + 1 = Width PROVE Cursor(NewLine(scr)) = After(Cursor(scr))
  <2> DEFINE n == Width * Height
             p == r * Width
  <2>1. /\ n \in Nat \ {0} /\ p \in Nat /\ 0 * Width = 0
        /\ r + 1 < Height => (r + 1) * Width = p + Width /\ (r + 1) * Width + 0 \in 0 .. n - 1
        /\ r + 1 = Height => p + Width = n
    BY <1>1, OnScreen
  <2>2. Cursor(scr) + 1 = p + Width /\ Cursor(NewLine(scr)) = next * Width
    BY <1>1, <1>3, <1>5, <1>6, <2>1 DEF Cursor
  <2>3. After(Cursor(scr)) = IF Cursor(scr) + 1 = n THEN 0 ELSE Cursor(scr) + 1
    BY DEF After
  <2> HIDE DEF n, p, next
  <2>4. CASE r + 1 = Height
    BY <1>2, <2>1, <2>2, <2>3, <2>4
  <2>5. CASE r + 1 # Height
    <3>1. r + 1 < Height
      BY <1>1, <2>5
    <3>2. next * Width = p + Width /\ p + Width # n
      BY <3>1, <1>1, <1>2, <2>1
    <3> QED BY <3>2, <2>2, <2>3
  <2> QED BY <2>4, <2>5
<1> HIDE DEF next
<1>7. NewLine(scr) \in Screens(chars)
  <2>1. \A k \in 0 .. Height - 1 : [scr EXCEPT !.row = k, !.col = 0] \in Screens(chars)
    BY ScreenFacts
  <2> QED BY <1>3, <1>4, <2>1, Zenon
<1> QED BY <1>5, <1>6, <1>7

\* The cursor goes to the element behind, and nothing is written.
LEMMA AdvanceFacts ==
  ASSUME NEW chars, NEW scr \in Screens(chars)
  PROVE  /\ Advance(scr) \in Screens(chars) /\ Advance(scr).cells = scr.cells
         /\ Cursor(Advance(scr)) = After(Cursor(scr))
<1>1. CASE scr.col + 1 = Width
  BY <1>1, NewLineFacts DEF Advance
<1>2. CASE scr.col + 1 # Width
  <2>1. /\ scr.row \in 0 .. Height - 1 /\ scr.col \in 0 .. Width - 1
        /\ Width \in Nat \ {0}
    BY ScreenFacts, ScreenAssumption
  <2>2. scr.col + 1 \in 0 .. Width - 1
    BY <1>2, <2>1
  <2>3. (scr.col + 1) % Width = scr.col + 1
    BY <2>1, <2>2, Remainders
  <2>4. Advance(scr) = [scr EXCEPT !.col = scr.col + 1]
    BY <1>2, <2>3 DEF Advance
  <2>5. /\ Advance(scr) \in Screens(chars)
        /\ Advance(scr).cells = scr.cells /\ Advance(scr).row = scr.row
        /\ Advance(scr).col = scr.col + 1
    BY <2>2, <2>4, ScreenFacts DEF Screens
  <2>6. Cursor(Advance(scr)) \in Visible
    BY <2>5, ScreenFacts
  <2>7. scr.row * Width \in Nat /\ Width * Height \in Nat
    BY <2>1, OnScreen
  <2>8. Cursor(Advance(scr)) = Cursor(scr) + 1
    BY <2>1, <2>5, <2>7 DEF Cursor
  <2>9. Cursor(scr) + 1 # Width * Height
    BY <2>6, <2>7, <2>8 DEF Visible
  <2> QED BY <2>5, <2>8, <2>9 DEF After
<1> QED BY <1>1, <1>2

\* A character that is written is on the element the cursor was on.
LEMMA WriteCharacterFacts ==
  ASSUME NEW chars, NEW scr \in Screens(chars), NEW char \in chars
  PROVE  /\ WriteCharacter(scr, char) \in Screens(chars)
         /\ char \notin {"\n", "\t"} =>
              /\ WriteCharacter(scr, char).cells = [scr.cells EXCEPT ![Cursor(scr)] = char]
              /\ Cursor(WriteCharacter(scr, char)) = After(Cursor(scr))
<1>1. CASE char = "\n"
  BY <1>1, NewLineFacts DEF WriteCharacter
<1>2. CASE char = "\t"
  <2>1. Width \in Nat \ {0} /\ scr.col \in 0 .. Width - 1
    BY ScreenFacts, ScreenAssumption
  <2>2. (scr.col + VGA_TAB_STOPS) % Width \in 0 .. Width - 1
    BY <2>1 DEF VGA_TAB_STOPS
  <2>3. WriteCharacter(scr, char) = [scr EXCEPT !.col = (scr.col + VGA_TAB_STOPS) % Width]
    BY <1>2 DEF WriteCharacter
  <2>4. \A c \in 0 .. Width - 1 : [scr EXCEPT !.col = c] \in Screens(chars)
    BY ScreenFacts
  <2>5. WriteCharacter(scr, char) \in Screens(chars)
    BY <2>2, <2>3, <2>4, Zenon
  <2> QED BY <1>2, <2>5
<1>3. CASE char \notin {"\n", "\t"}
  <2> DEFINE put == PutCharacter(scr, scr.row, scr.col, char)
  <2>1. WriteCharacter(scr, char) = Advance(put)
    BY <1>3 DEF WriteCharacter
  <2>2. put = [scr EXCEPT !.cells[Cursor(scr)] = char]
    BY DEF PutCharacter, Cursor
  <2>3. Cursor(scr) \in Elements
    BY ScreenFacts
  <2>4. /\ put \in Screens(chars) /\ put.cells = [scr.cells EXCEPT ![Cursor(scr)] = char]
        /\ put.row = scr.row /\ put.col = scr.col
    BY <2>2, <2>3 DEF Screens
  <2>5. Cursor(put) = Cursor(scr)
    BY <2>4 DEF Cursor
  <2> HIDE DEF put
  <2> QED BY <2>1, <2>4, <2>5, AdvanceFacts
<1> QED BY <1>1, <1>2, <1>3

\* The screen is empty, and the cursor in its first element.
LEMMA ClearFacts ==
  ASSUME NEW chars, NEW scr, scr.cells \in [Elements -> chars], Blank \in chars
  PROVE  Clear(scr) \in Screens(chars)
<1>1. ClearCells(scr.cells) \in [Elements -> chars]
  BY DEF ClearCells
<1>2. 0 \in 0 .. Height - 1 /\ 0 \in 0 .. Width - 1
  BY ScreenAssumption
<1> QED BY <1>1, <1>2 DEF Clear, Screens
-----------------------------------------------------------------------------
\* A set of naturals that has a member has a smallest one.
LEMMA Smallest ==
  ASSUME NEW T \in SUBSET Nat, T # {}
  PROVE  \E n \in T : \A k \in T : n <= k
<1> DEFINE R == OpToRel(<, Nat)
<1>1. IsWellFoundedOn(R, Nat)
  BY NatLessThanWellFounded
<1>2. \A j, k \in Nat : j < k => <<j, k>> \in R
  BY DEF OpToRel
<1> HIDE DEF R
<1>3. PICK n \in T : \A k \in T : ~(<<k, n>> \in R)
  BY <1>1, WFMin
<1>4. ASSUME NEW k \in T PROVE n <= k
  <2>1. k \in Nat /\ n \in Nat /\ ~(<<k, n>> \in R)
    BY <1>3
  <2>2. ~(k < n)
    BY <2>1, <1>2
  <2> QED BY <2>1, <2>2
<1> QED BY <1>4

\* The screen after k characters, when g says what it was after k - 1.
WrittenFrom(g, scr, text, k) == IF k = 0 THEN scr ELSE WriteCharacter(g[k - 1], text[k])

\* It does so for all k up to n.
Written(g, scr, text, n) == g = [k \in 0 .. n |-> WrittenFrom(g, scr, text, k)]

\* The recursion of WriteString has a solution.
LEMMA WrittenExists ==
  ASSUME NEW scr, NEW text, NEW n \in Nat
  PROVE  \E g : Written(g, scr, text, n)
<1> USE DEF Written
<1> DEFINE Solved(m) == \E g : Written(g, scr, text, m)
           T == {m \in Nat : ~Solved(m)}
<1>1. SUFFICES ASSUME T # {} PROVE FALSE
  OBVIOUS
<1>2. PICK m \in T : \A k \in T : m <= k
  BY <1>1, Smallest
<1>3. m \in Nat /\ ~Solved(m)
  OBVIOUS
<1>4. CASE m = 0
  <2> DEFINE g == [k \in 0 .. 0 |-> scr]
  <2>1. g = [k \in 0 .. 0 |-> WrittenFrom(g, scr, text, k)]
    BY DEF WrittenFrom
  <2> HIDE DEF g
  <2> QED BY <1>3, <1>4, <2>1
<1>5. CASE m # 0
  <2>1. m - 1 \in Nat /\ m - 1 \notin T
    BY <1>2, <1>3, <1>5
  <2>2. PICK h : h = [k \in 0 .. m - 1 |-> WrittenFrom(h, scr, text, k)]
    BY <2>1
  <2> DEFINE g == [k \in 0 .. m |-> IF k < m THEN h[k] ELSE WriteCharacter(h[m - 1], text[m])]
  <2>3. ASSUME NEW k \in 0 .. m PROVE g[k] = WrittenFrom(g, scr, text, k)
    <3>1. CASE k < m
      <4>1. k \in 0 .. m - 1 /\ g[k] = h[k]
        BY <1>3, <3>1
      <4>2. h[k] = WrittenFrom(h, scr, text, k)
        BY <2>2, <4>1
      <4>3. k # 0 => k - 1 \in 0 .. m /\ g[k - 1] = h[k - 1]
        BY <1>3, <3>1
      <4> QED BY <4>1, <4>2, <4>3 DEF WrittenFrom
    <3>2. CASE k = m
      <4>1. g[k] = WriteCharacter(h[k - 1], text[k])
        BY <3>2
      <4>2. g[k - 1] = h[k - 1]
        BY <1>3, <1>5, <3>2
      <4> QED BY <1>5, <3>2, <4>1, <4>2 DEF WrittenFrom
    <3> QED BY <1>3, <3>1, <3>2
  <2>4. g = [k \in 0 .. m |-> g[k]]
    OBVIOUS
  <2> HIDE DEF g
  <2>5. g = [k \in 0 .. m |-> WrittenFrom(g, scr, text, k)]
    BY <2>3, <2>4
  <2> QED BY <1>3, <2>5
<1> QED BY <1>4, <1>5

\* A text of characters leaves a screen of characters.
LEMMA WriteStringFacts ==
  ASSUME NEW chars, NEW scr \in Screens(chars), NEW text \in Seq(chars)
  PROVE  WriteString(scr, text) \in Screens(chars)
<1> DEFINE n == Len(text)
           g == CHOOSE g : Written(g, scr, text, n)
<1>1. n \in Nat /\ \A k \in 1 .. n : text[k] \in chars
  BY LenProperties, ElementOfSeq
<1>2. WriteString(scr, text) = g[n]
  BY DEF WriteString, Written, WrittenFrom
<1> HIDE DEF g, n
<1>3. \E h : Written(h, scr, text, n)
  BY <1>1, WrittenExists
<1>4. g = [k \in 0 .. n |-> WrittenFrom(g, scr, text, k)]
  BY <1>3 DEF g, Written
<1> DEFINE T == {k \in 0 .. n : g[k] \notin Screens(chars)}
<1>5. ASSUME T # {} PROVE FALSE
  <2>1. T \in SUBSET Nat
    BY <1>1
  <2>2. PICK m \in T : \A k \in T : m <= k
    BY <1>5, <2>1, Smallest
  <2>3. m \in 0 .. n /\ g[m] \notin Screens(chars) /\ g[m] = WrittenFrom(g, scr, text, m)
    BY <1>4, <2>2
  <2>4. m # 0
    BY <2>3 DEF WrittenFrom
  <2>5. m - 1 \in 0 .. n /\ m \in 1 .. n /\ ~(m <= m - 1)
    BY <1>1, <2>3, <2>4
  <2>6. g[m - 1] \in Screens(chars)
    BY <2>2, <2>5
  <2>7. g[m] = WriteCharacter(g[m - 1], text[m])
    BY <2>3, <2>4 DEF WrittenFrom
  <2>8. text[m] \in chars
    BY <1>1, <2>5
  <2>9. WriteCharacter(g[m - 1], text[m]) \in Screens(chars)
    BY <2>6, <2>8, WriteCharacterFacts
  <2> QED BY <2>3, <2>7, <2>9
<1>6. n \in 0 .. n
  BY <1>1
<1> QED BY <1>2, <1>5, <1>6
-----------------------------------------------------------------------------
\* The table has fewer than 128 entries.
LEMMA TableLength == DOMAIN SET_1 = 1 .. 84 /\ Len(SET_1) = 84
BY DEF SET_1

\* Which codes have a character, and which are Return.
LEMMA KeyFacts ==
  ASSUME NEW code \in 0 .. 255
  PROVE  /\ Printable(code) <=> IsPress(code) /\ Character(code) # "\n"
         /\ code # MORE_CODES /\ VirtualKey(code) = KEY_RETURN
              <=> IsPress(code) /\ Character(code) = "\n"
         /\ Printable(code) => VirtualKeyToCharacter(VirtualKey(code)) = Character(code)
         /\ IsPress(code) => code + 1 \in DOMAIN SET_1
<1> USE TableLength
<1> DEFINE key(c) == KEYBOARD_MAP_SET_1[c]
<1>1. ASSUME NEW c \in 0 .. 255
      PROVE  /\ IsPress(c) => key(c) = MakeVirtualKey(TRUE, TRUE, Character(c))
             /\ ~IsPress(c) => key(c) \in {KEY_OTHER, KEY_MODIFIER}
  <2>1. CASE c < 84 /\ SET_1[c + 1] \notin {"none", "modifier"}
    BY <2>1 DEF KEYBOARD_MAP_SET_1, IsPress, Character
  <2>2. CASE ~(c < 84 /\ SET_1[c + 1] \notin {"none", "modifier"})
    BY <2>2, ZenonT(60) DEF KEYBOARD_MAP_SET_1, IsPress
  <2> QED BY <2>1, <2>2
<1> HIDE DEF key
<1>2. CASE 128 < code /\ code < MORE_CODES
  <2>1. code - 128 \in 0 .. 255
    BY <1>2 DEF MORE_CODES
  <2>2. VirtualKey(code) = ReleaseVirtualKey(key(code - 128))
    BY <1>2 DEF VirtualKey, key
  <2>3. VirtualKey(code).pressed = FALSE
    BY <1>1, <2>1, <2>2 DEF ReleaseVirtualKey, MakeVirtualKey, KEY_OTHER, KEY_MODIFIER
  <2>4. ~IsPress(code) /\ VirtualKey(code) # KEY_RETURN
    BY <1>2, <2>3 DEF IsPress, KEY_RETURN, MakeVirtualKey
  <2> QED BY <2>3, <2>4 DEF Printable, VirtualKeyIsPressed
<1>3. CASE ~(128 < code /\ code < MORE_CODES)
  <2>1. VirtualKey(code) = key(code)
    BY <1>3 DEF VirtualKey, key
  <2>2. IsPress(code) => code # MORE_CODES /\ code + 1 \in DOMAIN SET_1
    BY DEF IsPress, MORE_CODES
  <2>3. CASE IsPress(code)
    <3>1. VirtualKey(code) = MakeVirtualKey(TRUE, TRUE, Character(code))
      BY <1>1, <2>1, <2>3
    <3>2. /\ VirtualKeyIsPressed(VirtualKey(code)) /\ VirtualKeyIsPrintable(VirtualKey(code))
          /\ VirtualKeyToCharacter(VirtualKey(code)) = Character(code)
          /\ VirtualKey(code).code = Character(code) /\ KEY_RETURN.code = "\n"
      BY <3>1 DEF VirtualKeyIsPressed, VirtualKeyIsPrintable, VirtualKeyToCharacter, KEY_RETURN,
         MakeVirtualKey
    <3>3. Character(code) = "\n" => VirtualKey(code) = KEY_RETURN
      BY <3>1 DEF KEY_RETURN
    <3> QED BY <2>2, <2>3, <3>2, <3>3 DEF Printable
  <2>4. CASE ~IsPress(code)
    <3>1. VirtualKey(code) \in {KEY_OTHER, KEY_MODIFIER}
      BY <1>1, <2>1, <2>4
    <3>2. ~VirtualKeyIsPrintable(VirtualKey(code)) /\ VirtualKey(code) # KEY_RETURN
      BY <3>1 DEF VirtualKeyIsPrintable, KEY_RETURN, KEY_OTHER, KEY_MODIFIER, MakeVirtualKey
    <3> QED BY <2>4, <3>2 DEF Printable
  <2> QED BY <2>3, <2>4
<1> QED BY <1>2, <1>3
-----------------------------------------------------------------------------
\* The line is a finite set of places.
LEMMA LineFinite ==
  ASSUME NEW S, NEW s \in Seq(S), NEW j
  PROVE  IsFiniteSet(LineTo(s, j)) /\ Column(s, j) \in Nat /\ LineTo(s, j) \subseteq 1 .. Len(s)
<1>1. Len(s) \in Nat /\ DOMAIN s = 1 .. Len(s)
  BY LenProperties
<1>2. LineTo(s, j) \subseteq 1 .. Len(s)
  BY <1>1 DEF LineTo, Presses
<1>3. IsFiniteSet(1 .. Len(s))
  BY <1>1, FS_Interval
<1>4. IsFiniteSet(LineTo(s, j))
  BY <1>2, <1>3, FS_Subset
<1> QED BY <1>2, <1>4, FS_CardinalityType DEF Column

\* Before the first code nothing is typed.
LEMMA NothingTyped ==
  Presses(<<>>) = {} /\ \A j : Column(<<>>, j) = 0
<1>1. DOMAIN <<>> = {}
  OBVIOUS
<1>2. Presses(<<>>) = {}
  BY <1>1 DEF Presses
<1>3. \A j : LineTo(<<>>, j) = {}
  BY <1>2 DEF LineTo
<1> QED BY <1>2, <1>3, FS_EmptySet DEF Column

\* One more code: which presses there are.
LEMMA PressesAppend ==
  ASSUME NEW S, NEW s \in Seq(S), NEW c \in S
  PROVE  /\ Presses(s) \subseteq 1 .. Len(s)
         /\ \A j \in 1 .. Len(s) : Append(s, c)[j] = s[j]
         /\ Append(s, c)[Len(s) + 1] = c /\ Len(Append(s, c)) = Len(s) + 1
         /\ Append(s, c) \in Seq(S) /\ Len(s) \in Nat
         /\ IsPress(c) => Presses(Append(s, c)) = Presses(s) \cup {Len(s) + 1}
         /\ ~IsPress(c) => Presses(Append(s, c)) = Presses(s)
<1> DEFINE t == Append(s, c)
           n == Len(s)
<1>1. /\ n \in Nat /\ DOMAIN s = 1 .. n /\ t \in Seq(S) /\ Len(t) = n + 1
      /\ \A j \in 1 .. n : t[j] = s[j]
      /\ t[n + 1] = c
  BY LenProperties, AppendProperties
<1>2. DOMAIN t = 1 .. n + 1
  BY <1>1, LenProperties
<1> HIDE DEF t, n
<1>3. DOMAIN t = 1 .. n \cup {n + 1} /\ n + 1 \notin 1 .. n
  BY <1>1, <1>2
<1>4. IsPress(c) => Presses(t) = Presses(s) \cup {n + 1}
  BY <1>1, <1>3 DEF Presses
<1>5. ~IsPress(c) => Presses(t) = Presses(s)
  BY <1>1, <1>3 DEF Presses
<1>6. Presses(s) \subseteq 1 .. n
  BY <1>1 DEF Presses
<1> QED BY <1>1, <1>4, <1>5, <1>6 DEF t, n

\* One more code leaves the columns of those before it.
LEMMA ColumnBefore ==
  ASSUME NEW S, NEW s \in Seq(S), NEW c \in S, NEW j \in 1 .. Len(s)
  PROVE  Column(Append(s, c), j) = Column(s, j)
<1> DEFINE t == Append(s, c)
           n == Len(s)
<1>1. /\ n \in Nat /\ Presses(s) \subseteq 1 .. n
      /\ \A k \in 1 .. n : t[k] = s[k]
      /\ Presses(t) = Presses(s) \/ Presses(t) = Presses(s) \cup {n + 1}
  BY PressesAppend
<1>2. j \in Nat /\ j <= n
  BY <1>1
<1> HIDE DEF t, n
<1>3. \A k : k \in Presses(t) /\ k <= j <=> k \in Presses(s) /\ k <= j
  BY <1>1, <1>2
<1>4. LineTo(t, j) = LineTo(s, j)
  <2>1. ASSUME NEW k \in Presses(s), k <= j
        PROVE  (\A m \in Presses(t) : m \in k .. j => Character(t[m]) # "\n")
                 <=> (\A m \in Presses(s) : m \in k .. j => Character(s[m]) # "\n")
    <3>1. \A m \in k .. j : /\ m \in Presses(t) <=> m \in Presses(s)
                            /\ t[m] = s[m]
      BY <1>1, <1>2, <1>3, <2>1
    <3> QED BY <3>1
  <2> QED BY <1>3, <2>1 DEF LineTo
<1> QED BY <1>4 DEF Column, t

\* The column behind one more code.
LEMMA ColumnAppend ==
  ASSUME NEW S, NEW s \in Seq(S), NEW c \in S
  PROVE  LET t == Append(s, c)
             n == Len(s)
         IN  /\ ~IsPress(c) => Column(t, n + 1) = Column(s, n)
             /\ IsPress(c) /\ Character(c) = "\n" => Column(t, n + 1) = 0
             /\ IsPress(c) /\ Character(c) # "\n" => Column(t, n + 1) = Column(s, n) + 1
<1> DEFINE t == Append(s, c)
           n == Len(s)
<1>1. /\ n \in Nat /\ Presses(s) \subseteq 1 .. n
      /\ \A k \in 1 .. n : t[k] = s[k]
      /\ t[n + 1] = c
      /\ IsPress(c) => Presses(t) = Presses(s) \cup {n + 1}
      /\ ~IsPress(c) => Presses(t) = Presses(s)
  BY PressesAppend
<1>2. IsFiniteSet(LineTo(s, n)) /\ n + 1 \notin LineTo(s, n)
  <2>1. n + 1 \notin 1 .. n
    BY <1>1
  <2> QED BY <2>1, LineFinite
<1> HIDE DEF t, n
<1>3. CASE ~IsPress(c)
  <2>1. Presses(t) = Presses(s)
    BY <1>1, <1>3
  <2>2. ASSUME NEW k \in Presses(s)
        PROVE  /\ k <= n + 1 /\ k <= n
               /\ \A m \in Presses(s) : (m \in k .. n + 1 <=> m \in k .. n) /\ t[m] = s[m]
    BY <1>1
  <2>3. LineTo(t, n + 1) = LineTo(s, n)
    BY <2>1, <2>2 DEF LineTo
  <2> QED BY <1>3, <2>3 DEF Column, t, n
<1>4. CASE IsPress(c) /\ Character(c) = "\n"
  <2>1. n + 1 \in Presses(t)
    BY <1>1, <1>4
  <2>2. \A k \in Presses(t) : n + 1 \in k .. n + 1
    BY <1>1, <1>4
  <2>3. LineTo(t, n + 1) = {}
    BY <1>1, <1>4, <2>1, <2>2 DEF LineTo
  <2> QED BY <1>4, <2>3, FS_EmptySet DEF Column, t, n
<1>5. CASE IsPress(c) /\ Character(c) # "\n"
  <2>1. Presses(t) = Presses(s) \cup {n + 1}
    BY <1>1, <1>5
  <2>2. ASSUME NEW k \in Presses(s)
        PROVE  /\ k <= n + 1 /\ k <= n
               /\ \A m \in Presses(s) : (m \in k .. n + 1 <=> m \in k .. n) /\ t[m] = s[m]
    BY <1>1
  <2>3. n + 1 \in LineTo(t, n + 1)
    <3>1. \A m \in Presses(s) : m \notin n + 1 .. n + 1
      BY <1>1
    <3> QED BY <1>1, <1>5, <2>1, <3>1 DEF LineTo
  <2>4. ASSUME NEW k \in Presses(s)
        PROVE  k \in LineTo(t, n + 1) <=> k \in LineTo(s, n)
    <3>1. (\A m \in Presses(t) : m \in k .. n + 1 => Character(t[m]) # "\n")
            <=> (\A m \in Presses(s) : m \in k .. n => Character(s[m]) # "\n")
      BY <1>1, <1>5, <2>1, <2>2
    <3> QED BY <2>1, <2>2, <3>1 DEF LineTo
  <2>5. LineTo(t, n + 1) = LineTo(s, n) \cup {n + 1}
    <3>1. LineTo(t, n + 1) \subseteq Presses(t) /\ LineTo(s, n) \subseteq Presses(s)
      BY DEF LineTo
    <3> QED BY <3>1, <2>1, <2>3, <2>4
  <2>6. Cardinality(LineTo(t, n + 1)) = Cardinality(LineTo(s, n)) + 1
    BY <1>2, <2>5, FS_AddElement
  <2> QED BY <1>5, <2>6 DEF Column, t, n
<1> QED BY <1>3, <1>4, <1>5 DEF t, n
-----------------------------------------------------------------------------
\* What is less than twice n, on a ring of n places.
Around(x, n) == IF x < n THEN x ELSE x - n

\* It is the remainder.
LEMMA OneTurn ==
  ASSUME NEW n \in Nat \ {0}
  PROVE  \A x \in Nat : x < n + n => x % n = Around(x, n)
<1> USE DEF Around
<1> TAKE x \in Nat
<1> HAVE x < n + n
<1>1. CASE x < n
  BY <1>1, Remainders
<1>2. CASE ~(x < n)
  <2> DEFINE y == x - n
  <2>1. y \in 0 .. n - 1 /\ x = n + y
    BY <1>2
  <2> HIDE DEF y
  <2>2. (n + y) % n = y
    BY <2>1
  <2> QED BY <1>2, <2>1, <2>2
<1> QED BY <1>1, <1>2

\* Where the elements of a line are that begins in the element l.
LEMMA Places ==
  ASSUME NEW l \in Visible, NEW k \in Nat, k < Width * Height
  PROVE  /\ (l + k) % (Width * Height) \in Visible
         /\ (l + (k + 1)) % (Width * Height) = After((l + k) % (Width * Height))
         /\ \A i \in Nat : i < k => (l + i) % (Width * Height) # (l + k) % (Width * Height)
<1> DEFINE n == Width * Height
<1>1. n \in Nat \ {0}
  BY ScreenAssumption
<1>2. l \in 0 .. n - 1 /\ k < n /\ Visible = 0 .. n - 1
  BY DEF Visible
<1>3. \A p : After(p) = IF p + 1 = n THEN 0 ELSE p + 1
  BY DEF After
<1> HIDE DEF n
<1>4. \A x \in Nat : x < n + n => x % n = Around(x, n)
  BY <1>1, OneTurn, Zenon
<1>5. ASSUME NEW i \in Nat, i <= n PROVE (l + i) % n = Around(l + i, n)
  <2>1. l + i \in Nat /\ l + i < n + n
    BY <1>1, <1>2, <1>5
  <2> QED BY <1>4, <2>1, Zenon
<1>6. (l + k) % n = Around(l + k, n)
  BY <1>1, <1>2, <1>5
<1>7. (l + (k + 1)) % n = Around(l + (k + 1), n)
  <2>1. k + 1 \in Nat /\ k + 1 <= n
    BY <1>1, <1>2
  <2> QED BY <1>5, <2>1, Zenon
<1>8. (l + k) % n \in 0 .. n - 1
  BY <1>1, <1>2, <1>6 DEF Around
<1>9. (l + (k + 1)) % n = After((l + k) % n)
  BY <1>1, <1>2, <1>3, <1>6, <1>7 DEF Around
<1>10. ASSUME NEW i \in Nat, i < k PROVE (l + i) % n # (l + k) % n
  <2>1. i <= n
    BY <1>1, <1>2, <1>10
  <2>2. (l + i) % n = Around(l + i, n)
    BY <1>5, <2>1, Zenon
  <2> QED BY <1>1, <1>2, <1>6, <1>10, <2>2 DEF Around
<1> QED BY <1>2, <1>8, <1>9, <1>10 DEF n

\* The first of them.
LEMMA FirstPlace ==
  ASSUME NEW l \in Visible
  PROVE  (l + 0) % (Width * Height) = l
<1> DEFINE n == Width * Height
<1>1. n \in Nat \ {0} /\ l \in 0 .. n - 1
  BY ScreenAssumption DEF Visible
<1> HIDE DEF n
<1>2. l % n = l /\ l + 0 = l
  BY <1>1, Remainders
<1> QED BY <1>2 DEF n

\* The largest member of a set of places.
LEMMA Largest ==
  ASSUME NEW n \in Nat, NEW T \in SUBSET (1 .. n)
  PROVE  /\ T # {} => Max(T) \in T
         /\ \A x \in T : (\A y \in T : y <= x) => Max(T) = x
<1>1. ASSUME T # {} PROVE Max(T) \in T
  <2> DEFINE U == {k \in Nat : \E x \in T : k = n - x}
  <2>1. U \in SUBSET Nat
    OBVIOUS
  <2>2. U # {}
    <3>1. PICK x \in T : TRUE
      BY <1>1
    <3>2. x \in 1 .. n
      OBVIOUS
    <3>3. n - x \in U
      BY <3>1, <3>2
    <3> QED BY <3>3
  <2>3. PICK m \in U : \A k \in U : m <= k
    BY <2>1, <2>2, Smallest
  <2>4. PICK x \in T : m = n - x
    BY <2>3
  <2>5. ASSUME NEW y \in T PROVE x >= y
    <3>1. n - y \in U /\ x \in 1 .. n /\ y \in 1 .. n
      OBVIOUS
    <3>2. m <= n - y
      BY <2>3, <3>1
    <3> QED BY <2>4, <3>1, <3>2
  <2> QED BY <2>5 DEF Max
<1>2. ASSUME NEW x \in T, \A y \in T : y <= x PROVE Max(T) = x
  <2>1. Max(T) \in T /\ \A y \in T : Max(T) >= y
    BY <1>2 DEF Max
  <2>2. x \in 1 .. n /\ Max(T) \in 1 .. n
    BY <2>1
  <2> QED BY <1>2, <2>1, <2>2
<1> QED BY <1>1, <1>2

\* The smaller one of two numbers.
LEMMA Smaller ==
  ASSUME NEW a \in Nat, NEW b \in Nat
  PROVE  Min({a, b}) = IF a <= b THEN a ELSE b
<1>1. Min({a, b}) \in {a, b} /\ \A y \in {a, b} : Min({a, b}) <= y
  BY DEF Min
<1> QED BY <1>1
-----------------------------------------------------------------------------
\* The presses in one column, of all lines.
TypedAt(codes, i) == {j \in Presses(codes) : Column(codes, j) = i}

\* Place i of the input has the last one of them.
Overlaid(line, memory, codes, i) ==
  line[i] = IF TypedAt(codes, i) = {} THEN memory[i]
            ELSE Character(codes[Max(TypedAt(codes, i))])

\* Another press in a column.
LEMMA TypedAtAppend ==
  ASSUME NEW S, NEW s \in Seq(S), NEW c \in S, NEW i
  PROVE  LET t == Append(s, c)
             n == Len(s)
         IN  /\ TypedAt(s, i) \subseteq 1 .. n
             /\ IsPress(c) /\ Column(t, n + 1) = i => TypedAt(t, i) = TypedAt(s, i) \cup {n + 1}
             /\ ~(IsPress(c) /\ Column(t, n + 1) = i) => TypedAt(t, i) = TypedAt(s, i)
<1> DEFINE t == Append(s, c)
           n == Len(s)
<1>1. /\ n \in Nat /\ Presses(s) \subseteq 1 .. n
      /\ IsPress(c) => Presses(t) = Presses(s) \cup {n + 1}
      /\ ~IsPress(c) => Presses(t) = Presses(s)
  BY PressesAppend
<1>2. \A j \in Presses(s) : Column(t, j) = Column(s, j)
  BY <1>1, ColumnBefore
<1> HIDE DEF t, n
<1>3. TypedAt(s, i) \subseteq 1 .. n
  BY <1>1 DEF TypedAt
<1>4. ASSUME IsPress(c), Column(t, n + 1) = i PROVE TypedAt(t, i) = TypedAt(s, i) \cup {n + 1}
  BY <1>1, <1>2, <1>4 DEF TypedAt
<1>5. ASSUME ~(IsPress(c) /\ Column(t, n + 1) = i) PROVE TypedAt(t, i) = TypedAt(s, i)
  BY <1>1, <1>2, <1>5 DEF TypedAt
<1> QED BY <1>3, <1>4, <1>5 DEF t, n

\* What one more code asks of a place of the input.
LEMMA OverlaidAppend ==
  ASSUME NEW S, NEW s \in Seq(S), NEW c \in S, NEW line, NEW memory, NEW i
  PROVE  LET t == Append(s, c)
             here == IsPress(c) /\ Column(t, Len(s) + 1) = i
         IN  /\ here => (Overlaid(line, memory, t, i) <=> line[i] = Character(c))
             /\ ~here => (Overlaid(line, memory, t, i) <=> Overlaid(line, memory, s, i))
<1> DEFINE t == Append(s, c)
           n == Len(s)
           here == IsPress(c) /\ Column(t, n + 1) = i
<1>1. /\ n \in Nat /\ \A k \in 1 .. n : t[k] = s[k]
      /\ t[n + 1] = c
  BY PressesAppend
<1>2. /\ TypedAt(s, i) \subseteq 1 .. n
      /\ here => TypedAt(t, i) = TypedAt(s, i) \cup {n + 1}
      /\ ~here => TypedAt(t, i) = TypedAt(s, i)
  BY TypedAtAppend
<1> HIDE DEF t, n, here
<1>3. CASE here
  <2> DEFINE T == TypedAt(t, i)
  <2>1. /\ T \subseteq 1 .. n + 1 /\ n + 1 \in T /\ n + 1 \in Nat
        /\ \A y \in T : y <= n + 1
    BY <1>1, <1>2, <1>3
  <2> HIDE DEF T
  <2>2. Max(T) = n + 1
    BY <1>1, <2>1, Largest
  <2>3. T # {} /\ t[Max(T)] = c
    BY <1>1, <2>1, <2>2
  <2>4. Overlaid(line, memory, t, i) <=> line[i] = Character(c)
    BY <2>3 DEF Overlaid, T
  <2> QED BY <1>3, <2>4 DEF t, n, here
<1>4. CASE ~here
  <2> DEFINE T == TypedAt(s, i)
  <2>1. T \subseteq 1 .. n /\ TypedAt(t, i) = T
    BY <1>2, <1>4
  <2> HIDE DEF T
  <2>2. T # {} => t[Max(T)] = s[Max(T)]
    BY <1>1, <2>1, Largest
  <2>3. Overlaid(line, memory, t, i) <=> Overlaid(line, memory, s, i)
    BY <2>1, <2>2 DEF Overlaid, T
  <2> QED BY <1>4, <2>3 DEF t, n, here
<1> QED BY <1>3, <1>4
-----------------------------------------------------------------------------
\* Whenever the terminal is at the test, the last code was Return.
LineInv ==
  /\ TerminalTypeOK /\ InputIsOverlay /\ EchoIsLine
  /\ loop = "test" => Column(keyed, Len(keyed)) = 0

\* Where the input goes on behind a column.
LEMMA Offsets ==
  ASSUME NEW codes \in Seq(Codes)
  PROVE  /\ Column(codes, Len(codes)) \in Nat /\ MAX_STR_INPUT \in Nat
         /\ Min({MAX_STR_INPUT, Column(codes, Len(codes))})
              = IF Column(codes, Len(codes)) < MAX_STR_INPUT
                THEN Column(codes, Len(codes)) ELSE MAX_STR_INPUT
<1> DEFINE col == Column(codes, Len(codes))
<1>1. col \in Nat /\ MAX_STR_INPUT \in Nat
  BY LineFinite, TextAssumption
<1> HIDE DEF col
<1>2. Min({MAX_STR_INPUT, col}) = IF MAX_STR_INPUT <= col THEN MAX_STR_INPUT ELSE col
  BY <1>1, Smaller
<1>3. Min({MAX_STR_INPUT, col}) = IF col < MAX_STR_INPUT THEN col ELSE MAX_STR_INPUT
  BY <1>1, <1>2
<1> QED BY <1>1, <1>3 DEF col

\* The characters and texts that are written are characters.
LEMMA CharFacts ==
  /\ Blank \in Chars /\ "!" \in Chars
  /\ \A i \in DOMAIN SET_1 : SET_1[i] \in Chars
  /\ \A text \in {PROMPT, UNKNOWN_COMMAND, BUFFER_FULL, TURN_OFF} : text \in Seq(Chars)
<1>1. Blank \in Chars /\ "!" \in Chars
  BY DEF Chars
<1>2. \A i \in DOMAIN SET_1 : SET_1[i] \in Chars
  BY DEF Chars
<1>3. \A text \in {PROMPT, UNKNOWN_COMMAND, BUFFER_FULL, TURN_OFF} : text \in Seq(Chars)
  BY TextAssumption
<1> QED BY <1>1, <1>2, <1>3

\* The prompt on an empty screen.
LEMMA PromptFacts ==
  ASSUME NEW scr \in Screens(Chars)
  PROVE  Clear(scr) \in Screens(Chars) /\ ClearConsole(scr) \in Screens(Chars)
<1>1. scr.cells \in [Elements -> Chars]
  BY ScreenFacts
<1>2. Clear(scr) \in Screens(Chars)
  BY <1>1, CharFacts, ClearFacts
<1>3. PROMPT \in Seq(Chars)
  BY CharFacts
<1> QED BY <1>2, <1>3, WriteStringFacts DEF ClearConsole

\* The first screen, and no code.
LEMMA LineInitially == TerminalInit => LineInv
<1> SUFFICES ASSUME TerminalInit PROVE LineInv
  OBVIOUS
<1> USE DEF TerminalInit
<1> DEFINE blank == [row |-> 0, col |-> 0, cells |-> [e \in Elements |-> "!"]]
<1>1. screen \in Screens(Chars)
  <2>1. blank.cells \in [Elements -> Chars]
    BY CharFacts
  <2>2. screen = Clear(blank)
    OBVIOUS
  <2> HIDE DEF blank
  <2> QED BY <2>1, <2>2, CharFacts, ClearFacts
<1>2. 0 \in Visible
  <2>1. Width * Height \in Nat \ {0}
    BY ScreenAssumption
  <2> DEFINE n == Width * Height
  <2> HIDE DEF n
  <2>2. n \in Nat \ {0} => 0 \in 0 .. n - 1
    OBVIOUS
  <2> QED BY <2>1, <2>2 DEF Visible, n
<1>3. keyed \in Seq(Codes) /\ Len(keyed) = 0
  BY EmptySeq
<1>4. MAX_STR_INPUT \in Nat /\ MaxKeyed \in Nat /\ Contents \subseteq [1 .. MAX_STR_INPUT -> Chars]
  BY TextAssumption
<1>5. TerminalTypeOK
  BY <1>1, <1>2, <1>3, <1>4 DEF TerminalTypeOK
<1>6. Presses(keyed) = {} /\ Column(keyed, Len(keyed)) = 0
  BY NothingTyped
<1>7. \A i \in 1 .. MAX_STR_INPUT : Overlaid(input, found, keyed, i)
  BY <1>6 DEF Overlaid, TypedAt
<1>8. InputIsOverlay
  BY <1>7 DEF InputIsOverlay, Overlaid, TypedAt
<1> QED BY <1>5, <1>6, <1>8 DEF LineInv, EchoIsLine

\* The next line, behind the prompt or at the top of an empty screen.
LEMMA LineObey == LineInv /\ Obey => LineInv'
<1> SUFFICES ASSUME LineInv, Obey PROVE LineInv'
  OBVIOUS
<1>1. TerminalTypeOK /\ InputIsOverlay /\ Column(keyed, Len(keyed)) = 0
  BY DEF LineInv, Obey
<1>2. screen' \in Screens(Chars)
  <2>1. ClearConsole(screen) \in Screens(Chars) /\ Clear(ClearConsole(screen)) \in Screens(Chars)
    BY <1>1, PromptFacts DEF TerminalTypeOK
  <2>2. PROMPT \in Seq(Chars) /\ UNKNOWN_COMMAND \in Seq(Chars)
    BY CharFacts
  <2>3. WriteString(WriteString(ClearConsole(screen), UNKNOWN_COMMAND), PROMPT) \in Screens(Chars)
    BY <2>1, <2>2, WriteStringFacts
  <2> QED BY <2>1, <2>3 DEF Obey
<1>3. /\ lineStart' = Cursor(screen') /\ charOffset' = 0 /\ loop' = "reading"
      /\ input' = input /\ found' = found /\ keyed' = keyed
  BY DEF Obey
<1>4. lineStart' \in Visible
  BY <1>2, <1>3, ScreenFacts
<1>5. MAX_STR_INPUT \in Nat
  BY TextAssumption
<1>6. TerminalTypeOK'
  BY <1>1, <1>2, <1>3, <1>4, <1>5 DEF TerminalTypeOK
<1>7. InputIsOverlay'
  <2>1. charOffset' = Min({MAX_STR_INPUT, Column(keyed, Len(keyed))})
    <3>1. keyed \in Seq(Codes)
      BY <1>1 DEF TerminalTypeOK
    <3>2. Min({MAX_STR_INPUT, Column(keyed, Len(keyed))})
            = IF Column(keyed, Len(keyed)) < MAX_STR_INPUT
              THEN Column(keyed, Len(keyed)) ELSE MAX_STR_INPUT
      BY <3>1, Offsets
    <3> QED BY <1>1, <1>3, <1>5, <3>2
  <2> QED BY <1>1, <1>3, <2>1 DEF InputIsOverlay
<1>8. EchoIsLine'
  <2>1. \A i : i \notin 1 .. 0
    OBVIOUS
  <2>2. (lineStart' + 0) % (Width * Height) = lineStart'
    BY <1>4, FirstPlace
  <2> QED BY <1>3, <2>1, <2>2 DEF EchoIsLine
<1> QED BY <1>3, <1>6, <1>7, <1>8 DEF LineInv

\* The computer is off: the last screen.
LEMMA LineTurnOff == LineInv /\ TurnOff => LineInv'
<1> SUFFICES ASSUME LineInv, TurnOff PROVE LineInv'
  OBVIOUS
<1>1. TerminalTypeOK /\ InputIsOverlay
  BY DEF LineInv
<1>2. screen' \in Screens(Chars)
  BY <1>1, CharFacts, WriteStringFacts DEF TurnOff, TerminalTypeOK
<1>3. /\ loop' = "off" /\ UNCHANGED <<input, charOffset, found, keyed, lineStart>>
  BY DEF TurnOff
<1>4. TerminalTypeOK'
  BY <1>1, <1>2, <1>3 DEF TerminalTypeOK
<1>5. InputIsOverlay'
  BY <1>1, <1>3 DEF InputIsOverlay
<1> QED BY <1>3, <1>4, <1>5 DEF LineInv, EchoIsLine

\* One more code.
LEMMA ReceiveFacts ==
  ASSUME TerminalTypeOK, NEW code \in Codes, Receive(code)
  PROVE  /\ keyed \in Seq(Codes) /\ keyed' \in Seq(Codes) /\ Len(keyed') <= MaxKeyed
         /\ code \in 0 .. 255 /\ loop = "reading" /\ found' = found /\ lineStart' = lineStart
         /\ ~IsPress(code) => Column(keyed', Len(keyed')) = Column(keyed, Len(keyed))
         /\ IsPress(code) /\ Character(code) = "\n" => Column(keyed', Len(keyed')) = 0
         /\ IsPress(code) /\ Character(code) # "\n" =>
              Column(keyed', Len(keyed')) = Column(keyed, Len(keyed)) + 1
         /\ \A line, i :
              IsPress(code) /\ Column(keyed', Len(keyed')) = i =>
                (Overlaid(line, found, keyed', i) <=> line[i] = Character(code))
         /\ \A line, i :
              ~(IsPress(code) /\ Column(keyed', Len(keyed')) = i) =>
                (Overlaid(line, found, keyed', i) <=> Overlaid(line, found, keyed, i))
<1>1. keyed \in Seq(Codes) /\ Len(keyed) \in Nat /\ MaxKeyed \in Nat /\ code \in 0 .. 255
  BY TextAssumption, LenProperties DEF TerminalTypeOK
<1>2. /\ keyed' = Append(keyed, code) /\ Len(keyed) < MaxKeyed
      /\ loop = "reading" /\ found' = found /\ lineStart' = lineStart
  BY DEF Receive
<1>3. keyed' \in Seq(Codes) /\ Len(keyed') = Len(keyed) + 1
  BY <1>1, <1>2, AppendProperties
<1>4. Len(keyed') <= MaxKeyed
  BY <1>1, <1>2, <1>3
<1>5. /\ ~IsPress(code) => Column(keyed', Len(keyed')) = Column(keyed, Len(keyed))
      /\ IsPress(code) /\ Character(code) = "\n" => Column(keyed', Len(keyed')) = 0
      /\ IsPress(code) /\ Character(code) # "\n" =>
           Column(keyed', Len(keyed')) = Column(keyed, Len(keyed)) + 1
  BY <1>1, <1>2, <1>3, ColumnAppend
<1>6. ASSUME NEW line, NEW i
      PROVE  /\ IsPress(code) /\ Column(keyed', Len(keyed')) = i =>
                  (Overlaid(line, found, keyed', i) <=> line[i] = Character(code))
             /\ ~(IsPress(code) /\ Column(keyed', Len(keyed')) = i) =>
                  (Overlaid(line, found, keyed', i) <=> Overlaid(line, found, keyed, i))
  BY <1>1, <1>2, <1>3, OverlaidAppend
<1> QED BY <1>1, <1>2, <1>3, <1>4, <1>5, <1>6

\* A code that leaves the input: nothing is typed, or behind the end of it.
LEMMA LineUntyped ==
  ASSUME LineInv, NEW code \in Codes, Receive(code), UNCHANGED <<input, charOffset, loop>>,
         \/ ~IsPress(code)
         \/ IsPress(code) /\ Character(code) # "\n" /\ charOffset = MAX_STR_INPUT,
         screen' \in Screens(Chars),
         ~IsPress(code) => screen' = screen
  PROVE  LineInv'
<1> DEFINE col == Column(keyed, Len(keyed))
           col2 == Column(keyed', Len(keyed'))
<1>1. TerminalTypeOK /\ InputIsOverlay /\ EchoIsLine
  BY DEF LineInv
<1>2. /\ keyed \in Seq(Codes) /\ keyed' \in Seq(Codes) /\ Len(keyed') <= MaxKeyed
      /\ loop = "reading" /\ found' = found /\ lineStart' = lineStart
      /\ ~IsPress(code) => col2 = col
      /\ IsPress(code) /\ Character(code) # "\n" => col2 = col + 1
      /\ \A line, i : ~(IsPress(code) /\ col2 = i) =>
           (Overlaid(line, found, keyed', i) <=> Overlaid(line, found, keyed, i))
  BY <1>1, ReceiveFacts
<1>3. /\ col \in Nat /\ col2 \in Nat /\ MAX_STR_INPUT \in Nat
      /\ Min({MAX_STR_INPUT, col}) = IF col < MAX_STR_INPUT THEN col ELSE MAX_STR_INPUT
      /\ Min({MAX_STR_INPUT, col2}) = IF col2 < MAX_STR_INPUT THEN col2 ELSE MAX_STR_INPUT
  BY <1>2, Offsets
<1>4. TerminalTypeOK'
  BY <1>1, <1>2 DEF TerminalTypeOK
<1>5. charOffset = Min({MAX_STR_INPUT, col})
  BY <1>1, <1>2 DEF InputIsOverlay
<1>6. \A i \in 1 .. MAX_STR_INPUT : Overlaid(input, found, keyed, i)
  BY <1>1 DEF InputIsOverlay, Overlaid, TypedAt
<1>7. charOffset' = Min({MAX_STR_INPUT, col2}) /\ (IsPress(code) => MAX_STR_INPUT < col2)
  <2> HIDE DEF col, col2
  <2> QED BY <1>2, <1>3, <1>5
<1>8. ASSUME NEW i \in 1 .. MAX_STR_INPUT PROVE Overlaid(input', found', keyed', i)
  <2>1. ~(IsPress(code) /\ col2 = i)
    <3> HIDE DEF col2
    <3> QED BY <1>3, <1>7
  <2>2. Overlaid(input, found, keyed', i)
    BY <1>2, <1>6, <2>1
  <2> QED BY <1>2, <2>2
<1>9. InputIsOverlay'
  BY <1>7, <1>8 DEF InputIsOverlay, Overlaid, TypedAt
<1>10. EchoIsLine'
  <2>1. CASE ~IsPress(code)
    BY <1>1, <1>2, <2>1 DEF EchoIsLine
  <2>2. CASE IsPress(code)
    <3>1. ~(col2 <= MAX_STR_INPUT)
      <4> HIDE DEF col2
      <4> QED BY <1>3, <1>7, <2>2
    <3> QED BY <3>1 DEF EchoIsLine
  <2> QED BY <2>1, <2>2
<1> QED BY <1>2, <1>4, <1>9, <1>10 DEF LineInv

\* A key without a character.
LEMMA LineIgnore == \A code \in Codes : LineInv /\ Ignore(code) => LineInv'
<1> SUFFICES ASSUME NEW code \in Codes, LineInv, Ignore(code) PROVE LineInv'
  OBVIOUS
<1>1. TerminalTypeOK /\ Receive(code) /\ UNCHANGED <<input, charOffset, screen, loop>>
  BY DEF LineInv, Ignore
<1>2. ~IsPress(code)
  <2>1. code \in 0 .. 255
    BY TextAssumption
  <2> QED BY <2>1, KeyFacts DEF Ignore
<1>3. screen' \in Screens(Chars)
  BY <1>1 DEF TerminalTypeOK
<1> QED BY <1>1, <1>2, <1>3, LineUntyped

\* A character for which there is no place.
LEMMA LineBufferFull == \A code \in Codes : LineInv /\ BufferFull(code) => LineInv'
<1> SUFFICES ASSUME NEW code \in Codes, LineInv, BufferFull(code) PROVE LineInv'
  OBVIOUS
<1>1. /\ TerminalTypeOK /\ Receive(code) /\ UNCHANGED <<input, charOffset, loop>>
      /\ charOffset = MAX_STR_INPUT
  BY DEF LineInv, BufferFull
<1>2. IsPress(code) /\ Character(code) # "\n"
  <2>1. code \in 0 .. 255
    BY TextAssumption
  <2> QED BY <2>1, KeyFacts DEF BufferFull
<1>3. screen' \in Screens(Chars)
  BY <1>1, CharFacts, WriteStringFacts DEF TerminalTypeOK, BufferFull
<1> QED BY <1>1, <1>2, <1>3, LineUntyped

\* Return: the line is at its end.
LEMMA LineEnter == \A code \in Codes : LineInv /\ Enter(code) => LineInv'
<1> SUFFICES ASSUME NEW code \in Codes, LineInv, Enter(code) PROVE LineInv'
  OBVIOUS
<1> DEFINE col2 == Column(keyed', Len(keyed'))
<1>1. /\ TerminalTypeOK /\ InputIsOverlay /\ Receive(code)
      /\ UNCHANGED <<input, charOffset>> /\ loop' = "test"
  BY DEF LineInv, Enter
<1>2. IsPress(code) /\ Character(code) = "\n"
  <2>1. code \in 0 .. 255
    BY TextAssumption
  <2> QED BY <2>1, KeyFacts DEF Enter
<1>3. /\ keyed' \in Seq(Codes) /\ Len(keyed') <= MaxKeyed
      /\ found' = found /\ lineStart' = lineStart /\ col2 = 0
      /\ \A line, i : ~(IsPress(code) /\ col2 = i) =>
           (Overlaid(line, found, keyed', i) <=> Overlaid(line, found, keyed, i))
  BY <1>1, <1>2, ReceiveFacts
<1>4. screen' \in Screens(Chars)
  <2>1. code + 1 \in DOMAIN SET_1
    BY <1>2, TextAssumption, KeyFacts
  <2>2. "\n" \in Chars
    BY <1>2, <2>1, CharFacts DEF Character
  <2> QED BY <1>1, <2>2, WriteCharacterFacts DEF TerminalTypeOK, Enter
<1>5. TerminalTypeOK'
  BY <1>1, <1>3, <1>4 DEF TerminalTypeOK
<1>6. ASSUME NEW i \in 1 .. MAX_STR_INPUT PROVE Overlaid(input', found', keyed', i)
  <2>1. Overlaid(input, found, keyed, i)
    BY <1>1 DEF InputIsOverlay, Overlaid, TypedAt
  <2>2. i # 0
    BY TextAssumption
  <2> QED BY <1>1, <1>3, <2>1, <2>2
<1>7. InputIsOverlay'
  BY <1>1, <1>6 DEF InputIsOverlay, Overlaid, TypedAt
<1> QED BY <1>1, <1>3, <1>5, <1>7 DEF LineInv, EchoIsLine

\* The first k characters of a line stand on the screen, from l on.
Echoed(scr, l, k, line) ==
  /\ \A i \in 1 .. k : scr.cells[(l + i - 1) % (Width * Height)] = line[i]
  /\ Cursor(scr) = (l + k) % (Width * Height)

\* One more character is shown.
LEMMA EchoStep ==
  ASSUME NEW scr \in Screens(Chars), NEW l \in Visible, NEW k \in Nat, k < Width * Height,
         NEW line, line[k + 1] \in Chars \ {"\n", "\t"}, Echoed(scr, l, k, line)
  PROVE  Echoed(WriteCharacter(scr, line[k + 1]), l, k + 1, line)
<1> DEFINE n == Width * Height
           char == line[k + 1]
           scr2 == WriteCharacter(scr, char)
<1>1. /\ scr2.cells = [scr.cells EXCEPT ![Cursor(scr)] = char]
      /\ Cursor(scr2) = After(Cursor(scr))
  BY WriteCharacterFacts
<1>2. /\ scr.cells \in [Elements -> Chars] /\ Visible \subseteq Elements
      /\ Cursor(scr) \in Visible
  BY ScreenFacts
<1>3. /\ (l + (k + 1)) % n = After((l + k) % n)
      /\ \A i \in Nat : i < k => (l + i) % n # (l + k) % n
  BY Places
<1>4. l \in Nat
  <2>1. n \in Nat
    BY ScreenAssumption
  <2> QED BY <2>1 DEF Visible
<1>5. \A i \in Nat : i < k => (l + i) % n \in Visible
  <2>1. n \in Nat
    BY ScreenAssumption
  <2>2. \A i \in Nat : i < k => i < n
    BY <2>1
  <2> QED BY <2>2, Places
<1> HIDE DEF n, scr2, char
<1>6. ASSUME NEW i \in 1 .. k + 1 PROVE scr2.cells[(l + i - 1) % n] = line[i]
  <2> DEFINE j == i - 1
  <2>1. j \in Nat /\ l + i - 1 = l + j /\ i = j + 1 /\ j <= k
    BY <1>4
  <2> HIDE DEF j
  <2>2. CASE j = k
    <3>1. (l + i - 1) % n = Cursor(scr)
      BY <2>1, <2>2 DEF n, Echoed
    <3>2. line[i] = char
      BY <2>1, <2>2 DEF char
    <3>3. scr2.cells[Cursor(scr)] = char
      BY <1>1, <1>2
    <3> QED BY <3>1, <3>2, <3>3
  <2>3. CASE j # k
    <3>1. j < k /\ i \in 1 .. k
      BY <2>1, <2>3
    <3>2. (l + j) % n # Cursor(scr) /\ (l + j) % n \in Elements
      BY <1>2, <1>3, <1>5, <2>1, <3>1 DEF n, Echoed
    <3>3. scr2.cells[(l + j) % n] = scr.cells[(l + j) % n]
      BY <1>1, <1>2, <3>2
    <3>4. scr.cells[(l + i - 1) % n] = line[i]
      BY <3>1 DEF n, Echoed
    <3> QED BY <2>1, <3>3, <3>4
  <2> QED BY <2>2, <2>3
<1>7. Cursor(scr2) = (l + (k + 1)) % n
  BY <1>1, <1>3 DEF n, Echoed
<1> QED BY <1>6, <1>7 DEF n, scr2, char, Echoed

\* A character is shown and appended to the input.
LEMMA LineType == \A code \in Codes : LineInv /\ Type(code) => LineInv'
<1> SUFFICES ASSUME NEW code \in Codes, LineInv, Type(code) PROVE LineInv'
  OBVIOUS
<1> DEFINE col == Column(keyed, Len(keyed))
           col2 == Column(keyed', Len(keyed'))
           char == Character(code)
<1>1. /\ TerminalTypeOK /\ InputIsOverlay /\ EchoIsLine /\ Receive(code)
      /\ charOffset < MAX_STR_INPUT /\ charOffset' = charOffset + 1 /\ loop' = loop
  BY DEF LineInv, Type
<1>2. code \in 0 .. 255 /\ Printable(code)
  BY TextAssumption DEF Type
<1>3. /\ IsPress(code) /\ char # "\n" /\ VirtualKeyToCharacter(VirtualKey(code)) = char
      /\ char \in Chars
  BY <1>2, KeyFacts, CharFacts DEF Character
<1>4. screen' = WriteCharacter(screen, char) /\ input' = [input EXCEPT ![charOffset + 1] = char]
  BY <1>3 DEF Type
<1>5. /\ keyed \in Seq(Codes) /\ keyed' \in Seq(Codes) /\ Len(keyed') <= MaxKeyed
      /\ loop = "reading" /\ found' = found /\ lineStart' = lineStart /\ col2 = col + 1
  BY <1>1, <1>3, ReceiveFacts
<1>6. /\ \A line, i : col2 = i =>
           (Overlaid(line, found, keyed', i) <=> line[i] = char)
      /\ \A line, i : col2 # i =>
           (Overlaid(line, found, keyed', i) <=> Overlaid(line, found, keyed, i))
  BY <1>1, <1>3, ReceiveFacts
<1>7. /\ col \in Nat /\ MAX_STR_INPUT \in Nat
      /\ Min({MAX_STR_INPUT, col}) = IF col < MAX_STR_INPUT THEN col ELSE MAX_STR_INPUT
      /\ Min({MAX_STR_INPUT, col2}) = IF col2 < MAX_STR_INPUT THEN col2 ELSE MAX_STR_INPUT
  BY <1>5, Offsets
<1>8. charOffset = Min({MAX_STR_INPUT, col}) /\ charOffset \in Nat
  BY <1>1, <1>5 DEF InputIsOverlay, TerminalTypeOK
<1> HIDE DEF col, col2, char
<1>9. charOffset = col /\ col2 = charOffset + 1
  BY <1>1, <1>5, <1>7, <1>8
<1>10. /\ charOffset + 1 \in 1 .. MAX_STR_INPUT
       /\ charOffset' = Min({MAX_STR_INPUT, col2})
  BY <1>1, <1>7, <1>8, <1>9
<1>11. /\ input \in [1 .. MAX_STR_INPUT -> Chars]
       /\ input'[charOffset + 1] = char
       /\ \A i \in 1 .. MAX_STR_INPUT : i # charOffset + 1 => input'[i] = input[i]
       /\ input' \in [1 .. MAX_STR_INPUT -> Chars]
  BY <1>1, <1>3, <1>4, <1>10 DEF TerminalTypeOK
<1>12. screen \in Screens(Chars) /\ screen' \in Screens(Chars)
  BY <1>1, <1>3, <1>4, WriteCharacterFacts DEF TerminalTypeOK
<1>13. TerminalTypeOK'
  <2>1. charOffset' \in 0 .. MAX_STR_INPUT
    BY <1>1, <1>10
  <2> QED BY <1>1, <1>5, <1>11, <1>12, <2>1 DEF TerminalTypeOK
<1>14. ASSUME NEW i \in 1 .. MAX_STR_INPUT PROVE Overlaid(input', found', keyed', i)
  <2>1. CASE col2 = i
    BY <1>5, <1>6, <1>9, <1>11, <2>1
  <2>2. CASE col2 # i
    <3>1. Overlaid(input, found, keyed, i)
      BY <1>1 DEF InputIsOverlay, Overlaid, TypedAt
    <3>2. Overlaid(input', found, keyed, i)
      BY <1>9, <1>11, <2>2, <3>1 DEF Overlaid
    <3> QED BY <1>5, <1>6, <2>2, <3>2
  <2> QED BY <2>1, <2>2
<1>15. InputIsOverlay'
  BY <1>10, <1>14 DEF InputIsOverlay, Overlaid, TypedAt, col2
<1>16. EchoIsLine'
  <2> SUFFICES ASSUME \A i \in 1 .. charOffset' : input'[i] # "\t"
               PROVE  /\ \A i \in 1 .. charOffset' :
                           screen'.cells[(lineStart' + i - 1) % (Width * Height)] = input'[i]
                      /\ Cursor(screen') = (lineStart' + charOffset') % (Width * Height)
    BY DEF EchoIsLine
  <2>1. char # "\t" /\ \A i \in 1 .. charOffset : input'[i] = input[i] /\ input[i] # "\t"
    <3>1. charOffset + 1 \in 1 .. charOffset'
      BY <1>1, <1>8
    <3>2. \A i \in 1 .. charOffset : /\ i \in 1 .. charOffset' /\ i # charOffset + 1
                                     /\ i \in 1 .. MAX_STR_INPUT
      BY <1>1, <1>7, <1>8
    <3> QED BY <1>11, <3>1, <3>2
  <2>2. charOffset < Width * Height /\ lineStart \in Visible
    <3>1. Width * Height \in Nat
      BY ScreenAssumption
    <3> DEFINE n == Width * Height
    <3>2. n \in Nat /\ MAX_STR_INPUT <= n
      BY <3>1, LineAssumption
    <3> HIDE DEF n
    <3>3. charOffset < n
      BY <1>1, <1>7, <1>8, <3>2
    <3> QED BY <1>1, <3>3 DEF n, TerminalTypeOK
  <2>3. col <= MAX_STR_INPUT
    BY <1>1, <1>7, <1>8, <1>9
  <2>4. Echoed(screen, lineStart, charOffset, input)
    BY <1>1, <1>5, <2>1, <2>3 DEF EchoIsLine, Echoed, col
  <2>5. Echoed(screen, lineStart, charOffset, input')
    BY <2>1, <2>4 DEF Echoed
  <2>6. input'[charOffset + 1] \in Chars \ {"\n", "\t"}
    BY <1>3, <1>11, <2>1
  <2>7. Echoed(WriteCharacter(screen, input'[charOffset + 1]), lineStart, charOffset + 1, input')
    BY <1>8, <1>12, <2>2, <2>5, <2>6, EchoStep
  <2>8. Echoed(screen', lineStart', charOffset', input')
    BY <1>1, <1>4, <1>5, <1>11, <2>7
  <2> QED BY <2>8 DEF Echoed
<1> QED BY <1>1, <1>5, <1>13, <1>15, <1>16 DEF LineInv

-----------------------------------------------------------------------------
\* Each step of the terminal keeps the invariant.
LEMMA LineInductive == LineInv /\ [TerminalNext]_terminalVars => LineInv'
<1> SUFFICES ASSUME LineInv, [TerminalNext]_terminalVars PROVE LineInv'
  OBVIOUS
<1>1. CASE Obey
  BY <1>1, LineObey
<1>2. CASE TurnOff
  BY <1>2, LineTurnOff
<1>3. ASSUME NEW code \in Codes, Ignore(code) PROVE LineInv'
  BY <1>3, LineIgnore
<1>4. ASSUME NEW code \in Codes, BufferFull(code) PROVE LineInv'
  BY <1>4, LineBufferFull
<1>5. ASSUME NEW code \in Codes, Type(code) PROVE LineInv'
  BY <1>5, LineType
<1>6. ASSUME NEW code \in Codes, Enter(code) PROVE LineInv'
  BY <1>6, LineEnter
<1>7. CASE UNCHANGED terminalVars
  BY <1>7 DEF LineInv, TerminalTypeOK, InputIsOverlay, EchoIsLine, terminalVars
<1> QED BY <1>1, <1>2, <1>3, <1>4, <1>5, <1>6, <1>7 DEF TerminalNext

\* The terminal never writes beside its input or the screen: the offset stays
\* within new char[MAX_STR_INPUT], the cursor on the screen, and each cell has
\* a character (proc_terminal.cpp:77, drvr_vga.cpp:46).
THEOREM TerminalTypeCorrect == TerminalSpec => []TerminalTypeOK
<1>1. LineInv => TerminalTypeOK
  BY DEF LineInv
<1> QED BY <1>1, LineInitially, LineInductive, PTL DEF TerminalSpec

\* Whatever was typed before, each place of the input has the character that
\* was typed there last, in any line, and the offset is the column of the
\* line: so a line is taken for "exit" or "snakes" exactly by what was left in
\* those places (proc_terminal.cpp:28, 33, 77).
THEOREM InputIsWhatWasTyped == TerminalSpec => []InputIsOverlay
<1>1. LineInv => InputIsOverlay
  BY DEF LineInv
<1> QED BY <1>1, LineInitially, LineInductive, PTL DEF TerminalSpec

\* A line without a tab stands on the screen as it is in the input, from where
\* the prompt ended, over the ends of rows and of the screen
\* (proc_terminal.cpp:75, drvr_vga.cpp:35).
THEOREM EchoIsWhatWasTyped == TerminalSpec => []EchoIsLine
<1>1. LineInv => EchoIsLine
  BY DEF LineInv
<1> QED BY <1>1, LineInitially, LineInductive, PTL DEF TerminalSpec
-----------------------------------------------------------------------------
\* The characters of the line that ended with the last code begin with those
\* of the command.
LineBeginsWith(command) ==
  \A i \in DOMAIN command :
    \E j \in LineTo(keyed, Len(keyed) - 1) :
      Column(keyed, j) = i /\ Character(keyed[j]) = command[i]

\* Within a line the columns grow.
LEMMA ColumnsGrow ==
  ASSUME NEW S, NEW s \in Seq(S), NEW j, NEW k \in Nat, NEW m \in Nat,
         k \in LineTo(s, m), j \in LineTo(s, m), j < k
  PROVE  Column(s, j) < Column(s, k)
<1>1. /\ j \in Presses(s) /\ k \in Presses(s) /\ j \in Nat /\ k <= m
      /\ \A p \in Presses(s) : p \in j .. m => Character(s[p]) # "\n"
  <2>1. LineTo(s, m) \subseteq 1 .. Len(s) /\ Len(s) \in Nat
    BY LineFinite, LenProperties
  <2> QED BY <2>1 DEF LineTo
<1>2. /\ IsFiniteSet(LineTo(s, k)) /\ Column(s, k) \in Nat
      /\ Column(s, j) \in Nat
  BY LineFinite
<1>3. k \in LineTo(s, k) /\ k \notin LineTo(s, j)
  <2>1. \A p \in k .. k : p \in j .. m
    BY <1>1
  <2> QED BY <1>1, <2>1 DEF LineTo
<1>4. ASSUME NEW i \in LineTo(s, j) PROVE i \in LineTo(s, k)
  <2>1. /\ i \in Presses(s) /\ i <= j
        /\ \A p \in Presses(s) : p \in i .. j => Character(s[p]) # "\n"
    BY DEF LineTo
  <2>2. i \in Nat
    <3>1. LineTo(s, j) \subseteq 1 .. Len(s) /\ Len(s) \in Nat
      BY LineFinite, LenProperties
    <3> QED BY <3>1
  <2>3. i <= k /\ \A p \in i .. k : p \in i .. j \/ p \in j .. m
    BY <1>1, <2>1, <2>2
  <2> QED BY <1>1, <2>1, <2>3 DEF LineTo
<1>5. LineTo(s, j) \in SUBSET LineTo(s, k) /\ LineTo(s, j) # LineTo(s, k)
  BY <1>3, <1>4
<1>6. /\ Cardinality(LineTo(s, j)) <= Cardinality(LineTo(s, k))
      /\ Cardinality(LineTo(s, k)) # Cardinality(LineTo(s, j))
  BY <1>2, <1>5, FS_Subset
<1> QED BY <1>2, <1>6 DEF Column

\* At the test, a character of the last line is in its place: nothing that was
\* typed later is there.
LEMMA LastLineIsInInput ==
  ASSUME LineInv, loop = "test", NEW j \in LineTo(keyed, Len(keyed) - 1),
         Column(keyed, j) \in 1 .. MAX_STR_INPUT
  PROVE  input[Column(keyed, j)] = Character(keyed[j])
<1> DEFINE n == Len(keyed)
           i == Column(keyed, j)
           T == TypedAt(keyed, i)
<1>1. /\ keyed \in Seq(Codes) /\ n \in Nat /\ DOMAIN keyed = 1 .. n
      /\ Column(keyed, n) = 0 /\ InputIsOverlay
  BY LenProperties DEF LineInv, TerminalTypeOK
<1>2. /\ j \in Presses(keyed) /\ j <= n - 1
      /\ \A p \in Presses(keyed) : p \in j .. n - 1 => Character(keyed[p]) # "\n"
  BY DEF LineTo
<1>3. j \in 1 .. n /\ j \in T /\ T \in SUBSET (1 .. n) /\ n - 1 \in Nat
  <2>1. j \in 1 .. n /\ T \in SUBSET (1 .. n)
    BY <1>1, <1>2 DEF TypedAt, Presses
  <2> QED BY <1>1, <1>2, <2>1 DEF TypedAt
<1>4. ASSUME NEW k \in T PROVE k <= j
  <2> SUFFICES ASSUME ~(k <= j) PROVE FALSE
    OBVIOUS
  <2>1. k \in Presses(keyed) /\ Column(keyed, k) = i /\ k \in 1 .. n
    <3>1. k \in TypedAt(keyed, i)
      OBVIOUS
    <3> HIDE DEF T, i, n
    <3> QED BY <1>1, <3>1 DEF TypedAt, Presses
  <2>2. k # n
    <3>1. i # 0
      OBVIOUS
    <3> HIDE DEF T, i, n
    <3> QED BY <1>1, <2>1, <3>1, Zenon
  <2>3. k <= n - 1 /\ j < k /\ k \in Nat
    <3>1. ~(k <= j)
      OBVIOUS
    <3> HIDE DEF T, i, n
    <3> QED BY <1>1, <1>3, <2>1, <2>2, <3>1
  <2>4. \A p \in k .. n - 1 : p \in j .. n - 1
    BY <1>1, <1>3, <2>3
  <2>5. k \in LineTo(keyed, n - 1)
    BY <1>2, <2>1, <2>3, <2>4 DEF LineTo
  <2>6. Column(keyed, j) < Column(keyed, k)
    BY <1>1, <1>3, <2>3, <2>5, ColumnsGrow
  <2> QED BY <2>1, <2>6
<1>5. Max(T) = j /\ T # {}
  BY <1>1, <1>3, <1>4, Largest
<1>6. Overlaid(input, found, keyed, i)
  BY <1>1 DEF InputIsOverlay, Overlaid, TypedAt
<1> QED BY <1>5, <1>6 DEF Overlaid

\* Whatever is left in the input of other lines, a command that begins the line
\* is found (proc_terminal.cpp:28, 33).  The converse does not hold: a line
\* that is shorter may complete what is left.
THEOREM CommandsAreFound ==
  TerminalSpec =>
    [](loop = "test" => \A command \in {EXIT_COMMAND, SNAKES_COMMAND} :
                          LineBeginsWith(command) => Matches(command))
<1> DEFINE Found == loop = "test" => \A command \in {EXIT_COMMAND, SNAKES_COMMAND} :
                                       LineBeginsWith(command) => Matches(command)
<1>1. LineInv => Found
  <2> SUFFICES ASSUME LineInv, loop = "test",
                      NEW command \in {EXIT_COMMAND, SNAKES_COMMAND}, LineBeginsWith(command)
               PROVE  Matches(command)
    OBVIOUS
  <2>1. DOMAIN command \subseteq 1 .. MAX_STR_INPUT
    BY TextAssumption, LenProperties
  <2>2. ASSUME NEW i \in DOMAIN command PROVE input[i] = command[i]
    <3>1. PICK j \in LineTo(keyed, Len(keyed) - 1) :
                 Column(keyed, j) = i /\ Character(keyed[j]) = command[i]
      BY DEF LineBeginsWith
    <3>2. input[Column(keyed, j)] = Character(keyed[j])
      BY <2>1, <3>1, LastLineIsInInput
    <3> QED BY <3>1, <3>2
  <2> QED BY <2>2 DEF Matches
<1> HIDE DEF Found
<1>2. TerminalSpec => []Found
  BY <1>1, LineInitially, LineInductive, PTL DEF TerminalSpec
<1> QED BY <1>2 DEF Found
=============================================================================
