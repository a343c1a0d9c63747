---------------------------- MODULE Snakes_proofs ----------------------------
(***************************************************************************)
(* The snakes of one command stay apart and in one piece, food is where    *)
(* nobody is, and the screen shows nothing else, for every size of the     *)
(* screen, and for every number and form of snakes that start apart.       *)
(***************************************************************************)
EXTENDS Snakes, SequenceTheorems, WellFoundedInduction, TLAPS

\* What SetupSnakes is given.
LEMMA StartFacts ==
  ASSUME NEW k \in Slots
  PROVE  /\ Starts[k] \in [y : Int, x : Int, len : Nat \ {0}, dx : -1 .. 1, dy : -1 .. 1,
                           color : 1 .. MaxVisibleSnake]
         /\ Slots = 1 .. Len(Starts) /\ Len(Starts) \in Nat
<1> DEFINE S == [y : Int, x : Int, len : Nat \ {0}, dx : -1 .. 1, dy : -1 .. 1,
                 color : 1 .. MaxVisibleSnake]
<1>1. Starts \in Seq(S)
  BY StartsAssumption
<1> HIDE DEF S
<1>2. Slots = 1 .. Len(Starts) /\ Len(Starts) \in Nat /\ Starts[k] \in S
  BY <1>1 DEF Slots
<1> QED BY <1>2 DEF S

\* The food that is nowhere is not on the screen.
LEMMA NowhereFacts == NoFood \notin Cell
BY SizesAssumption DEF NoFood, Cell

\* A coordinate is brought to the screen.
LEMMA LimitFacts ==
  ASSUME NEW v \in Int, NEW n \in Nat \ {0}
  PROVE  Limit(v, 0, n - 1) \in 0 .. n - 1
BY DEF Limit

\* The next part of a new snake is at most one cell on, or on the same one.
LEMMA LimitNext ==
  ASSUME NEW v \in Int, NEW n \in Nat \ {0}, NEW d \in -1 .. 1, NEW k \in Nat \ {0}
  PROVE  /\ v - k * d \in Int /\ v - (k - 1) * d \in Int
         /\ Limit(v - (k - 1) * d, 0, n - 1) - Limit(v - k * d, 0, n - 1) \in -1 .. 1
<1> DEFINE m == v - (k - 1) * d
<1>1. m \in Int /\ v - k * d = m - d
  <2>1. CASE d = 0
    BY <2>1
  <2>2. CASE d = 1
    BY <2>2
  <2>3. CASE d = -1
    BY <2>3
  <2> QED BY <2>1, <2>2, <2>3
<1> HIDE DEF m
<1>2. Limit(m, 0, n - 1) - Limit(m - d, 0, n - 1) \in -1 .. 1
  BY <1>1 DEF Limit
<1> QED BY <1>1, <1>2 DEF m

\* Two cells that are at most one apart are neighbors, or the same one.
LEMMA AroundFacts ==
  ASSUME NEW a \in Int, NEW b \in Int, NEW c \in Int, NEW d \in Int,
         a - c \in -1 .. 1, b - d \in -1 .. 1, <<a, b>> # <<c, d>>
  PROVE  <<a, b>> \in Around(<<c, d>>)
<1> DEFINE e == <<a - c, b - d>>
<1>1. e \in (-1 .. 1) \X (-1 .. 1)
  OBVIOUS
<1>2. e # <<0, 0>>
  OBVIOUS
<1>3. <<a, b>> = <<<<c, d>>[1] + e[1], <<c, d>>[2] + e[2]>>
  OBVIOUS
<1> HIDE DEF e
<1> QED BY <1>1, <1>2, <1>3 DEF Around

\* A new snake is on the screen, in one piece.
LEMMA NewBodyFacts ==
  ASSUME NEW k \in Slots
  PROVE  /\ NewBody(Starts[k]) \in [1 .. Starts[k].len -> Cell]
         /\ \A j \in 2 .. Starts[k].len :
              NewBody(Starts[k])[j] \in
                Around(NewBody(Starts[k])[j - 1]) \cup {NewBody(Starts[k])[j - 1]}
<1> DEFINE st == Starts[k]
           body == NewBody(st)
           X == Limit(st.x, 0, Cols - 1)
           Y == Limit(st.y, 0, Rows - 1)
           x(j) == Limit(X - (j - 1) * st.dx, 0, Cols - 1)
           y(j) == Limit(Y - (j - 1) * st.dy, 0, Rows - 1)
<1>1. /\ st.x \in Int /\ st.y \in Int /\ st.len \in Nat \ {0}
      /\ st.dx \in -1 .. 1 /\ st.dy \in -1 .. 1
  BY StartFacts
<1>2. X \in Int /\ Y \in Int
  BY <1>1, LimitFacts, SizesAssumption
<1>3. body = [j \in 1 .. st.len |-> <<x(j), y(j)>>]
  BY DEF NewBody
<1> HIDE DEF X, Y, st
<1>4. ASSUME NEW j \in 1 .. st.len
      PROVE  x(j) \in 0 .. Cols - 1 /\ y(j) \in 0 .. Rows - 1
  <2>1. X - j * st.dx \in Int /\ Y - j * st.dy \in Int
        /\ X - (j - 1) * st.dx \in Int /\ Y - (j - 1) * st.dy \in Int
    BY <1>1, <1>2, LimitNext, SizesAssumption
  <2> QED BY <2>1, LimitFacts, SizesAssumption
<1>5. ASSUME NEW j \in 2 .. st.len
      PROVE  x(j) - x(j - 1) \in -1 .. 1 /\ y(j) - y(j - 1) \in -1 .. 1
  <2>1. j - 1 \in Nat \ {0} /\ j \in 1 .. st.len /\ j - 1 \in 1 .. st.len
    BY <1>1
  <2>2. x(j - 1) - x(j) \in -1 .. 1
    BY <2>1, <1>1, <1>2, LimitNext, SizesAssumption
  <2>3. y(j - 1) - y(j) \in -1 .. 1
    BY <2>1, <1>1, <1>2, LimitNext, SizesAssumption
  <2>4. x(j) \in Int /\ y(j) \in Int /\ x(j - 1) \in Int /\ y(j - 1) \in Int
    BY <2>1, <1>4
  <2> HIDE DEF x, y
  <2> QED BY <2>2, <2>3, <2>4
<1> HIDE DEF x, y
<1>6. body \in [1 .. st.len -> Cell]
  BY <1>3, <1>4 DEF Cell
<1>7. ASSUME NEW j \in 2 .. st.len
      PROVE  body[j] \in Around(body[j - 1]) \cup {body[j - 1]}
  <2>1. j \in 1 .. st.len /\ j - 1 \in 1 .. st.len
    BY <1>1
  <2>2. body[j] = <<x(j), y(j)>> /\ body[j - 1] = <<x(j - 1), y(j - 1)>>
    BY <1>3, <2>1
  <2>3. x(j) \in Int /\ y(j) \in Int /\ x(j - 1) \in Int /\ y(j - 1) \in Int
    BY <2>1, <1>4
  <2> QED BY <2>2, <2>3, <1>5, AroundFacts
<1> QED BY <1>6, <1>7 DEF st
-----------------------------------------------------------------------------
(* The list, and the board. *)

\* Without takes out one snake that is listed once.
LEMMA WithoutFacts ==
  ASSUME NEW S, NEW list \in Seq(S), NEW id,
         IsInjective(list), id \in Range(list)
  PROVE  /\ Without(list, id) \in Seq(S)
         /\ IsInjective(Without(list, id))
         /\ Range(Without(list, id)) = Range(list) \ {id}
<1>1. PICK i \in DOMAIN list : list[i] = id
  BY DEF Range
<1>2. /\ DOMAIN list = 1 .. Len(list) /\ Len(list) \in Nat /\ i \in 1 .. Len(list)
      /\ \A j, k \in DOMAIN list : list[j] = list[k] => j = k
  BY <1>1 DEF IsInjective
<1>3. {k \in 1 .. Len(list) : list[k] = id} = {i}
  BY <1>1, <1>2
<1>4. Min({i}) = i
  BY <1>2 DEF Min
<1>5. SelectInSeq(list, LAMBDA v : v = id) = i
  BY <1>3, <1>4 DEF SelectInSeq
<1>6. Without(list, id) = RemoveAt(list, i)
  BY <1>1, <1>2, <1>5 DEF Without, RemoveFirst
<1> DEFINE a == SubSeq(list, 1, i - 1)
           b == SubSeq(list, i + 1, Len(list))
           n == Len(list)
           w == Without(list, id)
<1>7. /\ a \in Seq(S) /\ Len(a) = i - 1
      /\ \A j \in 1 .. i - 1 : a[j] = list[j]
  <2>1. \A j \in 1 .. i - 1 : list[j] \in S
    BY <1>2
  <2>2. /\ 1 \in Int /\ i - 1 \in Int
        /\ Len(a) = IF 1 <= i - 1 THEN (i - 1) - 1 + 1 ELSE 0
        /\ \A j \in 1 .. (i - 1) - 1 + 1 : a[j] = list[1 + j - 1]
        /\ a \in Seq(S)
    BY <1>2, <2>1, SubSeqProperties
  <2> QED BY <1>2, <2>2
<1>8. /\ b \in Seq(S) /\ Len(b) = n - i
      /\ \A j \in 1 .. n - i : b[j] = list[j + i]
  <2>1. \A j \in i + 1 .. n : list[j] \in S
    BY <1>2
  <2>2. /\ Len(b) = IF i + 1 <= n THEN n - (i + 1) + 1 ELSE 0
        /\ \A j \in 1 .. n - (i + 1) + 1 : b[j] = list[(i + 1) + j - 1]
        /\ b \in Seq(S)
    BY <1>2, <2>1, SubSeqProperties
  <2> QED BY <1>2, <2>2
<1>9. w = a \o b
  BY <1>6 DEF RemoveAt
<1> HIDE DEF a, b, w
<1>10. /\ w \in Seq(S) /\ Len(w) = n - 1 /\ DOMAIN w = 1 .. n - 1
      /\ \A j \in 1 .. n - 1 : w[j] = IF j < i THEN list[j] ELSE list[j + 1]
  <2> DEFINE ab == a \o b
  <2>0. /\ ab \in Seq(S) /\ Len(ab) = Len(a) + Len(b)
        /\ \A j \in 1 .. Len(a) + Len(b) :
             ab[j] = IF j <= Len(a) THEN a[j] ELSE b[j - Len(a)]
    BY <1>7, <1>8, ConcatProperties
  <2> HIDE DEF ab
  <2>1. /\ w \in Seq(S) /\ Len(w) = Len(a) + Len(b)
        /\ \A j \in 1 .. Len(a) + Len(b) :
             w[j] = IF j <= Len(a) THEN a[j] ELSE b[j - Len(a)]
    <3>1. w = ab
      BY <1>9 DEF ab
    <3> QED BY ONLY <2>0, <3>1
  <2>2. Len(w) = n - 1 /\ DOMAIN w = 1 .. n - 1
    BY <2>1, <1>2, <1>7, <1>8
  <2>3. ASSUME NEW j \in 1 .. n - 1
        PROVE  w[j] = IF j < i THEN list[j] ELSE list[j + 1]
    <3>1. w[j] = IF j <= i - 1 THEN a[j] ELSE b[j - (i - 1)]
      BY <2>1, <1>2, <1>7, <1>8
    <3>2. CASE j < i
      BY <3>1, <3>2, <1>2, <1>7
    <3>3. CASE ~(j < i)
      BY <3>1, <3>3, <1>2, <1>8
    <3> QED BY <3>2, <3>3
  <2> QED BY <2>1, <2>2, <2>3
<1> DEFINE at(j) == IF j < i THEN j ELSE j + 1
<1>11. /\ \A j \in DOMAIN w : at(j) \in 1 .. n /\ at(j) # i /\ w[j] = list[at(j)]
       /\ \A j, k \in DOMAIN w : at(j) = at(k) => j = k
       /\ \A k \in 1 .. n \ {i} : \E j \in DOMAIN w : at(j) = k
  <2>1. \A j \in DOMAIN w : at(j) \in 1 .. n /\ at(j) # i /\ w[j] = list[at(j)]
    BY <1>2, <1>10
  <2>2. \A j, k \in DOMAIN w : at(j) = at(k) => j = k
    BY <1>2, <1>10
  <2>3. ASSUME NEW k \in 1 .. n \ {i} PROVE \E j \in DOMAIN w : at(j) = k
    <3>1. CASE k < i
      BY <3>1, <1>2, <1>10
    <3>2. CASE k > i
      <4>1. k - 1 \in 1 .. n - 1 /\ at(k - 1) = k
        BY <3>2, <1>2
      <4> QED BY <4>1, <1>10
    <3> QED BY <3>1, <3>2, <1>2
  <2> QED BY <2>1, <2>2, <2>3
<1> HIDE DEF at
<1>12. \A j, k \in DOMAIN w : w[j] = w[k] => j = k
  BY <1>2, <1>11
<1>13. ASSUME NEW k \in DOMAIN w
       PROVE  w[k] # id /\ \E j \in DOMAIN list : list[j] = w[k]
  BY <1>1, <1>2, <1>11
<1>14. ASSUME NEW k \in DOMAIN list, list[k] # id
       PROVE  \E j \in DOMAIN w : w[j] = list[k]
  BY <1>1, <1>2, <1>11, <1>14
<1>15. IsInjective(w) /\ Range(w) = Range(list) \ {id}
  BY <1>12, <1>13, <1>14 DEF IsInjective, Range
<1> QED BY <1>10, <1>15 DEF w

\* The list and the snakes that are asked for where to go are on the board.
LEMMA BodyFacts ==
  ASSUME Loose, NEW id \in Slots
  PROVE  /\ Body(id) \in [1 .. Starts[id].len -> Cell] /\ snakes[id].body = Body(id)
         /\ Starts[id].len \in Nat \ {0}
         /\ Len(Body(id)) = Starts[id].len /\ DOMAIN Body(id) = 1 .. Starts[id].len
         /\ CellsOf(id) = {Body(id)[k] : k \in 1 .. Starts[id].len}
         /\ CellsOf(id) \subseteq Cell /\ Body(id)[1] \in CellsOf(id)
         /\ snakes[id].color \in 1 .. MaxVisibleSnake + 1
         /\ DOMAIN snakes = Slots
<1>1. /\ Body(id) \in [1 .. Starts[id].len -> Cell] /\ snakes[id].body = Body(id)
      /\ Starts[id].len \in Nat \ {0} /\ snakes[id].color \in 1 .. MaxVisibleSnake + 1
  BY StartFacts DEF Loose, Body
<1>2. Body(id) \in Seq(Cell) /\ Len(Body(id)) = Starts[id].len
  BY <1>1
<1>3. DOMAIN Body(id) = 1 .. Starts[id].len
  BY <1>1
<1>4. CellsOf(id) = {Body(id)[k] : k \in 1 .. Starts[id].len}
  BY <1>1, <1>3 DEF CellsOf
<1>5. CellsOf(id) \subseteq Cell /\ Body(id)[1] \in CellsOf(id)
  BY <1>1, <1>4
<1>6. DOMAIN snakes = Slots
  BY DEF Loose
<1> QED BY <1>1, <1>2, <1>3, <1>4, <1>5, <1>6

\* The snakes that are listed are some of the slots', and those of processes.
LEMMA ListFacts ==
  ASSUME Loose
  PROVE  /\ Listed \subseteq Slots
         /\ \A p \in procs : p = <<p[1], 1>> /\ p[1] \in Listed /\ s[p[1]] = p[1]
         /\ Mine = running[1] /\ Mine \in Slots /\ running = <<Mine, 1>>
         /\ (running \in procs <=> Mine \in Listed)
         /\ Listed = {s[p[1]] : p \in procs}
<1>1. Listed \subseteq Slots
  BY DEF Loose, Listed
<1>2. \A p \in procs : p = <<p[1], 1>> /\ p[1] \in Slots /\ p[1] \in Listed /\ s[p[1]] = p[1]
  BY DEF Loose
<1>3. running[1] \in Slots /\ running = <<running[1], 1>> /\ Mine = running[1]
  BY DEF Loose, Mine
<1>4. running \in procs <=> Mine \in Listed
  BY <1>3 DEF Loose
<1>5. ASSUME NEW id \in Listed PROVE \E p \in procs : s[p[1]] = id
  <2>1. <<id, 1>> \in procs /\ id \in Slots
    BY <1>1 DEF Loose
  <2>2. s[<<id, 1>>[1]] = id
    BY <2>1, <1>2
  <2> QED BY <2>1, <2>2
<1>6. Listed = {s[p[1]] : p \in procs}
  BY <1>2, <1>5
<1> QED BY <1>1, <1>2, <1>3, <1>4, <1>6

\* A snake goes to a cell that is free, one on, or stays.
LEMMA HeadFacts ==
  ASSUME NEW h \in Cell, food \in Cell, food # h, NEW head \in NewHeads(h)
  PROVE  /\ head \in Cell
         /\ head \in Around(h) \cup {h}
         /\ head = h \/ ~Obstructed(head)
<1>1. PICK x \in 0 .. Cols - 1, y \in 0 .. Rows - 1 : h = <<x, y>>
  BY DEF Cell
<1>2. PICK u \in 0 .. Cols - 1, v \in 0 .. Rows - 1 : food = <<u, v>>
  BY DEF Cell
<1>3. Towards(h) = <<x + Sign(u - x), y + Sign(v - y)>>
  BY <1>1, <1>2 DEF Towards
<1>4. Towards(h) \in Around(h)
  <2>1. Sign(u - x) \in -1 .. 1 /\ Sign(v - y) \in -1 .. 1
    BY DEF Sign
  <2>2. Sign(u - x) # 0 \/ Sign(v - y) # 0
    <3>1. u # x \/ v # y
      BY <1>1, <1>2
    <3> QED BY <3>1, SizesAssumption DEF Sign
  <2> DEFINE a == x + Sign(u - x)
             b == y + Sign(v - y)
  <2>3. a \in Int /\ b \in Int /\ a - x \in -1 .. 1 /\ b - y \in -1 .. 1 /\ (a # x \/ b # y)
    BY <2>1, <2>2
  <2> HIDE DEF a, b
  <2>4. x \in Int /\ y \in Int /\ <<a, b>> # <<x, y>>
    BY <2>3
  <2>5. <<a, b>> \in Around(<<x, y>>)
    BY <2>3, <2>4, AroundFacts
  <2> QED BY <2>5, <1>1, <1>3 DEF a, b
<1>5. CASE ~Obstructed(Towards(h))
  BY <1>4, <1>5 DEF NewHeads, Obstructed
<1>6. CASE Obstructed(Towards(h))
  BY <1>6 DEF NewHeads, Obstructed
<1> QED BY <1>5, <1>6

\* To be a neighbor is mutual.
LEMMA AroundBack ==
  ASSUME NEW p \in Cell, NEW q \in Around(p)
  PROVE  p \in Around(q)
<1>1. PICK x \in 0 .. Cols - 1, y \in 0 .. Rows - 1 : p = <<x, y>>
  BY DEF Cell
<1>2. PICK d \in (-1 .. 1) \X (-1 .. 1) \ {<<0, 0>>} : q = <<x + d[1], y + d[2]>>
  BY <1>1 DEF Around
<1>3. d[1] \in -1 .. 1 /\ d[2] \in -1 .. 1 /\ (d[1] # 0 \/ d[2] # 0)
  BY <1>2
<1> DEFINE a == x + d[1]
           b == y + d[2]
<1>4. a \in Int /\ b \in Int /\ x - a \in -1 .. 1 /\ y - b \in -1 .. 1 /\ (x # a \/ y # b)
  BY <1>3, SizesAssumption
<1> HIDE DEF a, b
<1>5. <<x, y>> \in Around(<<a, b>>)
  BY <1>4, AroundFacts, SizesAssumption
<1> QED BY <1>1, <1>2, <1>5 DEF a, b
-----------------------------------------------------------------------------
(* The steps. *)

\* Before the terminal starts.
LEMMA Initially == Init => IndInv
BY DEF Init, IndInv, Asleep

\* Where no snake moves, everyone is where they were.
LEMMA Unmoved ==
  ASSUME UNCHANGED <<snakes, allsnakes>>
  PROVE  /\ Listed' = Listed
         /\ \A id : CellsOf(id)' = CellsOf(id) /\ Body(id)' = Body(id)
         /\ Apart' = Apart /\ InOnePiece' = InOnePiece
BY DEF Listed, CellsOf, Body, Apart, InOnePiece

\* What Paint does to one cell, and that a screen stays a screen.
LEMMA PaintFacts ==
  ASSUME NEW scr \in [Cell -> Black .. FoodChar], NEW cells, NEW ink \in Black .. FoodChar
  PROVE  /\ Paint(scr, cells, ink) \in [Cell -> Black .. FoodChar]
         /\ \A c \in Cell : Paint(scr, cells, ink)[c] = IF c \in cells THEN ink ELSE scr[c]
BY DEF Paint

\* The inks.
LEMMA InkFacts ==
  /\ Black \in Black .. FoodChar /\ FoodChar \in Black .. FoodChar
  /\ Black \notin 1 .. MaxVisibleSnake /\ Black # FoodChar
  /\ FoodChar \notin 1 .. MaxVisibleSnake
  /\ \A k \in 1 .. MaxVisibleSnake : Ink(k) = k /\ k \in Black .. FoodChar /\ k # FoodChar
  /\ Ink(MaxVisibleSnake + 1) = Black
BY DEF Black, FoodChar, MaxVisibleSnake, Ink

\* The food shows where it is.
LEMMA DrawFoodFacts ==
  ASSUME NEW scr \in [Cell -> Black .. FoodChar], NEW at
  PROVE  /\ DrawFood(scr, at) \in [Cell -> Black .. FoodChar]
         /\ \A c \in Cell : DrawFood(scr, at)[c] = IF c = at THEN FoodChar ELSE scr[c]
<1>1. \A c : c \in {at} <=> c = at
  OBVIOUS
<1> QED BY <1>1, PaintFacts, InkFacts DEF DrawFood

\* The terminal clears the screen.
LEMMA ClearStep ==
  ASSUME IndInv, ClearConsole
  PROVE  IndInv'
<1>1. UNCHANGED <<snakes, s, allsnakes, food, commands, procs, running, pc>> /\ screen' = Clear
  BY DEF ClearConsole
<1>2. CASE Asleep
  BY <1>1, <1>2 DEF IndInv, Asleep
<1>3. CASE Awake
  <2>1. Clear \in [Cell -> Black .. FoodChar] /\ \A c \in Cell : Clear[c] = Black
    BY InkFacts DEF Clear
  <2>2. Loose' /\ OnTurn'
    BY <1>1, <1>3, <2>1, Unmoved DEF Awake, Loose, OnTurn, Mine
  <2>3. Shown'
    BY <1>1, <2>1, InkFacts DEF Shown
  <2> QED BY <1>1, <1>3, <2>2, <2>3, Unmoved DEF IndInv, Awake
<1> QED BY <1>2, <1>3 DEF IndInv

\* A turn begins, and with the first one the food is placed.
LEMMA BeginStep ==
  ASSUME IndInv, NEW p \in procs, Begin(p)
  PROVE  IndInv'
<1>1. Awake
  BY DEF IndInv, Asleep
<1>2. /\ pc = "yielded" /\ pc' = "crawl" /\ running' = p
      /\ UNCHANGED <<snakes, s, allsnakes, commands, procs>>
  BY DEF Begin
<1>3. CASE food = NoFood
  <2>1. PICK c \in FoodPlaces : food' = c /\ screen' = DrawFood(screen, c)
    BY <1>3 DEF Begin
  <2>2. c \in Cell /\ \A id \in Listed : c \notin CellsOf(id)
    BY <2>1 DEF FoodPlaces, Obstructed
  <2>3. /\ screen' \in [Cell -> Black .. FoodChar]
        /\ \A x \in Cell : screen'[x] = IF x = c THEN FoodChar ELSE screen[x]
    BY <1>1, <2>1, DrawFoodFacts, SMTT(40) DEF Awake, Loose
  <2>4. Loose'
    BY <1>1, <1>2, <2>1, <2>2, <2>3, Unmoved DEF Awake, Loose
  <2>5. OnTurn'
    BY <1>2, <2>1, <2>2, Unmoved DEF OnTurn
  <2>6. Shown'
    <3>1. ASSUME NEW x \in Cell, screen'[x] \in 1 .. MaxVisibleSnake
          PROVE  \E id \in Listed : x \in CellsOf(id) /\ snakes[id].color = screen'[x]
      BY <1>1, <2>3, <3>1, InkFacts DEF Awake, Shown
    <3>2. ASSUME NEW x \in Cell, screen'[x] = FoodChar PROVE x = food'
      BY <1>1, <1>3, <2>1, <2>3, <3>2, NowhereFacts DEF Awake, Shown
    <3> QED BY <1>2, <3>1, <3>2, Unmoved DEF Shown
  <2> QED BY <1>1, <1>2, <2>4, <2>5, <2>6, Unmoved DEF IndInv, Awake
<1>4. CASE food # NoFood
  <2>1. UNCHANGED <<food, screen>>
    BY <1>4 DEF Begin
  <2>2. food \in Cell
    BY <1>1, <1>4 DEF Awake, Loose
  <2>3. Loose'
    BY <1>1, <1>2, <2>1, Unmoved DEF Awake, Loose
  <2>4. OnTurn'
    BY <1>1, <1>2, <2>1, <2>2, Unmoved DEF Awake, OnTurn
  <2>5. Shown'
    BY <1>1, <1>2, <2>1, Unmoved DEF Awake, Shown
  <2> QED BY <1>1, <1>2, <2>3, <2>4, <2>5, Unmoved DEF IndInv, Awake
<1> QED BY <1>3, <1>4

\* The freed snake is drawn once more, in black.
LEMMA DrawFreedStep ==
  ASSUME IndInv, DrawFreed
  PROVE  IndInv'
<1>1. Awake /\ pc = "exited" /\ pc' = "yielded"
      /\ UNCHANGED <<snakes, s, allsnakes, food, commands, procs, running>>
  BY DEF IndInv, Asleep, DrawFreed
<1>2. screen' = Paint(screen, CellsOf(Mine), Black)
  BY <1>1, InkFacts DEF DrawFreed, Awake, OnTurn
<1>3. /\ screen' \in [Cell -> Black .. FoodChar]
      /\ \A c \in Cell : screen'[c] = IF c \in CellsOf(Mine) THEN Black ELSE screen[c]
  BY <1>1, <1>2, PaintFacts, InkFacts DEF Awake, Loose
<1>4. Loose' /\ OnTurn'
  BY <1>1, <1>3, Unmoved DEF Awake, Loose, OnTurn
<1>5. Shown'
  <2>1. ASSUME NEW c \in Cell, screen'[c] # Black PROVE screen'[c] = screen[c]
    BY <1>3, <2>1
  <2> QED BY <1>1, <2>1, Unmoved, InkFacts DEF Awake, Shown
<1> QED BY <1>1, <1>4, <1>5, Unmoved DEF IndInv, Awake

\* The snake moves: where its head comes to was free, or it stays.
LEMMA CrawlStep ==
  ASSUME IndInv, Crawl
  PROVE  IndInv'
<1>0. Mine \in Slots
  BY ListFacts DEF IndInv, Asleep, Awake, Crawl
<1> PICK id \in Slots : id = Mine
  BY <1>0
<1> DEFINE n == Starts[id].len
<1>1. /\ Loose /\ OnTurn /\ Apart /\ InOnePiece /\ Shown /\ pc = "crawl"
      /\ UNCHANGED <<s, allsnakes, food, commands, procs, running>>
  BY DEF IndInv, Asleep, Awake, Crawl
<1>2. PICK head \in NewHeads(snakes[id].body[1]) :
        LET body == Moved(snakes[id].body, head)
        IN  /\ snakes' = [snakes EXCEPT ![id].body = body]
            /\ screen' = Redrawn(id, body)
            /\ pc' = IF head = food THEN "eat" ELSE "yielded"
  BY DEF Crawl
<1> DEFINE old == Body(id)
           new == Moved(old, head)
<1>3. /\ id \in Slots /\ id \in Listed /\ Listed \subseteq Slots
      /\ old \in [1 .. n -> Cell] /\ n \in Nat \ {0} /\ snakes[id].body = old
      /\ DOMAIN old = 1 .. n /\ old[1] \in CellsOf(id)
      /\ CellsOf(id) = {old[k] : k \in 1 .. n} /\ DOMAIN snakes = Slots
  BY <1>1, ListFacts, BodyFacts DEF OnTurn
<1>4. food \in Cell /\ food # old[1] /\ \A b \in Listed : food \notin CellsOf(b)
  BY <1>1, <1>3 DEF OnTurn
<1>5. /\ head \in Cell /\ head \in Around(old[1]) \cup {old[1]}
      /\ head = old[1] \/ \A b \in Listed : head \notin CellsOf(b)
  <2>1. head = old[1] \/ ~Obstructed(head)
    BY <1>2, <1>3, <1>4, HeadFacts
  <2> QED BY <1>2, <1>3, <1>4, <2>1, HeadFacts DEF Obstructed
<1>6. /\ new \in [1 .. n -> Cell] /\ new[1] = head
      /\ \A k \in 2 .. n : new[k] = old[k - 1] /\ k - 1 \in 1 .. n
  BY <1>3, <1>5 DEF Moved
<1> HIDE DEF new, old, n
<1>7. /\ snakes' = [snakes EXCEPT ![id].body = new] /\ screen' = Redrawn(id, new)
      /\ pc' = IF head = food THEN "eat" ELSE "yielded"
  BY <1>2, <1>3 DEF new
<1>8. Listed' = Listed /\ Mine' = Mine
  BY <1>1 DEF Listed, Mine
<1>9. /\ Body(id)' = new /\ snakes'[id].color = snakes[id].color
      /\ \A b \in Slots \ {id} : Body(b)' = Body(b) /\ snakes'[b] = snakes[b]
      /\ snakes' = [b \in Slots |-> [color |-> snakes'[b].color, body |-> Body(b)']]
  <2>1. /\ snakes' = [b \in Slots |-> IF b = id THEN [snakes[b] EXCEPT !.body = new]
                                       ELSE snakes[b]]
    BY <1>3, <1>7
  <2>2. \A b \in Slots : snakes[b] = [color |-> snakes[b].color, body |-> Body(b)]
    BY <1>1 DEF Loose
  <2>3. snakes'[id] = [color |-> snakes[id].color, body |-> new]
    BY <1>3, <2>1, <2>2
  <2>4. /\ Body(id)' = new /\ snakes'[id].color = snakes[id].color
        /\ \A b \in Slots \ {id} : Body(b)' = Body(b) /\ snakes'[b] = snakes[b]
    BY <2>1, <2>3 DEF Body
  <2>5. \A b \in Slots : snakes'[b] = [color |-> snakes'[b].color, body |-> Body(b)']
    BY <2>2, <2>3, <2>4
  <2> QED BY <2>1, <2>4, <2>5
<1>10. /\ CellsOf(id)' = {new[k] : k \in 1 .. n}
       /\ \A b \in Slots \ {id} : CellsOf(b)' = CellsOf(b)
  <2>1. DOMAIN new = 1 .. n
    BY <1>6
  <2> QED BY <1>9, <2>1 DEF CellsOf, Body
<1>11. /\ head \in CellsOf(id)' /\ CellsOf(id)' \subseteq CellsOf(id) \cup {head}
       /\ CellsOf(id)' \subseteq Cell
  BY <1>3, <1>5, <1>6, <1>10
<1>12. /\ snakes[id].color \in 1 .. MaxVisibleSnake
       /\ screen' \in [Cell -> Black .. FoodChar]
       /\ \A c \in Cell : screen'[c] = IF c \in CellsOf(id)' THEN snakes[id].color
                                       ELSE IF c \in CellsOf(id) THEN Black ELSE screen[c]
  <2>1. snakes[id].color \in 1 .. MaxVisibleSnake
    <3>1. snakes[id].color \in 1 .. MaxVisibleSnake + 1
      BY <1>1, BodyFacts
    <3>2. snakes[id].color <= MaxVisibleSnake
      BY <1>1, <1>3 DEF Loose
    <3> QED BY <3>1, <3>2 DEF MaxVisibleSnake
  <2>2. screen \in [Cell -> Black .. FoodChar] /\ DOMAIN new = 1 .. n
    BY <1>1, <1>6 DEF Loose
  <2>3. Erase(screen, id) \in [Cell -> Black .. FoodChar]
        /\ \A c \in Cell : Erase(screen, id)[c] = IF c \in CellsOf(id) THEN Black ELSE screen[c]
    BY <2>2, PaintFacts, InkFacts DEF Erase
  <2>4. screen' = Paint(Erase(screen, id), CellsOf(id)', snakes[id].color)
    BY <1>7, <1>10, <2>1, <2>2, InkFacts DEF Redrawn
  <2>5. snakes[id].color \in Black .. FoodChar
    BY <2>1, InkFacts
  <2> QED BY <2>1, <2>3, <2>4, <2>5, PaintFacts
<1>13. Loose'
  <2>1. \A b \in Slots : /\ Body(b)' \in [1 .. Starts[b].len -> Cell]
                         /\ snakes'[b].color = snakes[b].color
    BY <1>1, <1>6, <1>9 DEF Loose, n
  <2>2. \A b \in Slots : /\ Body(b)' \in [1 .. Starts[b].len -> Cell]
                         /\ snakes'[b].color \in 1 .. MaxVisibleSnake + 1
                         /\ b \in Listed' <=> <<b, 1>> \in procs'
    BY <1>1, <1>8, <2>1 DEF Loose
  <2>3. \A b \in Listed' : snakes'[b].color <= MaxVisibleSnake
    BY <1>1, <1>3, <1>8, <2>1 DEF Loose
  <2>4. /\ commands' = 1 /\ s' = [k \in Slots |-> k]
        /\ allsnakes' \in Seq(Slots)
        /\ \A j, k \in DOMAIN allsnakes' : allsnakes'[j] = allsnakes'[k] => j = k
        /\ procs' \subseteq Slots \X {1} /\ running' \in Slots \X {1}
        /\ food' \in Cell \cup {NoFood}
    BY <1>1 DEF Loose
  <2> QED BY <1>9, <1>12, <2>2, <2>3, <2>4 DEF Loose
<1>14. OnTurn'
  <2>1. \A b \in Listed : food \in CellsOf(b)' => b = id /\ head = food
    BY <1>3, <1>4, <1>10, <1>11
  <2>2. head = food => food \in CellsOf(id)'
    BY <1>11
  <2> QED BY <1>1, <1>3, <1>4, <1>7, <1>8, <2>1, <2>2 DEF OnTurn
<1>15. Apart'
  <2>1. ASSUME NEW b \in Listed, b # id
        PROVE  CellsOf(id)' \cap CellsOf(b) = {} /\ CellsOf(b)' = CellsOf(b)
    <3>1. CellsOf(id) \cap CellsOf(b) = {}
      BY <1>1, <1>3, <2>1 DEF Apart
    <3>2. head \notin CellsOf(b)
      BY <1>3, <1>5, <3>1
    <3> QED BY <1>3, <1>10, <1>11, <2>1, <3>1, <3>2
  <2>2. \A a, b \in Listed : a # b => CellsOf(a)' \cap CellsOf(b)' = {}
    BY <1>1, <2>1 DEF Apart
  <2> QED BY <1>8, <2>2 DEF Apart
<1>16. InOnePiece'
  <2>1. ASSUME NEW b \in Listed, NEW k \in 2 .. Starts[b].len
        PROVE  Body(b)'[k] \in Around(Body(b)'[k - 1]) \cup {Body(b)'[k - 1]}
    <3>1. CASE b # id
      BY <1>1, <1>3, <1>9, <3>1 DEF InOnePiece
    <3>2. CASE b = id /\ k = 2
      <4>1. new[2] = old[1] /\ new[1] = head
        BY <1>6, <3>2 DEF n
      <4>2. old[1] \in Around(head) \cup {head}
        BY <1>3, <1>5, AroundBack
      <4> QED BY <1>9, <3>2, <4>1, <4>2
    <3>3. CASE b = id /\ k # 2
      <4>1. k - 1 \in 2 .. n /\ k \in 2 .. n
        BY <1>3, <3>3 DEF n
      <4>2. old[k - 1] \in Around(old[k - 1 - 1]) \cup {old[k - 1 - 1]}
        BY <1>1, <1>3, <4>1 DEF InOnePiece, old, n
      <4>3. new[k] = old[k - 1] /\ new[k - 1] = old[k - 1 - 1]
        BY <1>6, <4>1
      <4> QED BY <1>9, <3>3, <4>2, <4>3
    <3> QED BY <3>1, <3>2, <3>3
  <2> QED BY <1>8, <2>1 DEF InOnePiece
<1>17. Shown'
  <2>1. ASSUME NEW c \in Cell, screen'[c] \in 1 .. MaxVisibleSnake
        PROVE  \E b \in Listed : c \in CellsOf(b)' /\ snakes'[b].color = screen'[c]
    <3>1. CASE c \in CellsOf(id)'
      BY <1>3, <1>9, <1>12, <3>1
    <3>2. CASE c \notin CellsOf(id)'
      <4>1. c \notin CellsOf(id) /\ screen'[c] = screen[c]
        BY <1>12, <2>1, <3>2, InkFacts
      <4>2. PICK b \in Listed : c \in CellsOf(b) /\ snakes[b].color = screen[c]
        BY <1>1, <2>1, <4>1 DEF Shown
      <4> QED BY <1>3, <1>9, <1>10, <4>1, <4>2
    <3> QED BY <3>1, <3>2
  <2>2. ASSUME NEW c \in Cell, screen'[c] = FoodChar PROVE c = food
    <3>1. screen'[c] = screen[c]
      BY <1>12, <2>2, InkFacts
    <3> QED BY <1>1, <2>2, <3>1 DEF Shown
  <2> QED BY <1>1, <1>8, <2>1, <2>2 DEF Shown
<1> QED BY <1>13, <1>14, <1>15, <1>16, <1>17 DEF IndInv, Awake

\* A snake that gets another color keeps its body.
LEMMA Brighter ==
  ASSUME NEW snake, NEW color, NEW body, snake = [color |-> color, body |-> body],
         NEW other, NEW next, next = [snake EXCEPT !.color = other]
  PROVE  next = [color |-> other, body |-> body]
OBVIOUS

\* The snake eats, and gets brighter or is freed.
LEMMA EatStep ==
  ASSUME IndInv, Eat
  PROVE  IndInv'
<1>0. Mine \in Slots
  BY ListFacts DEF IndInv, Asleep, Awake, Eat
<1> PICK id \in Slots : id = Mine
  BY <1>0
<1> DEFINE color == snakes[id].color
           full == color + 1 > MaxVisibleSnake
<1>1. /\ Loose /\ OnTurn /\ Apart /\ InOnePiece /\ Shown /\ pc = "eat"
      /\ UNCHANGED <<s, commands, running>>
  BY DEF IndInv, Asleep, Awake, Eat
<1>2. PICK c \in FoodPlaces :
        /\ food' = c
        /\ snakes' = [snakes EXCEPT ![id].color = @ + 1]
        /\ LET erased == Erase(DrawFood(screen, c), id)
           IN  screen' = IF full THEN erased
                         ELSE Paint(erased, CellsOf(id), Ink(color + 1))
        /\ allsnakes' = IF full THEN Without(allsnakes, id) ELSE allsnakes
        /\ procs' = IF full THEN procs \ {running} ELSE procs
        /\ pc' = IF full THEN "exited" ELSE "yielded"
  BY DEF Eat
<1>3. c \in Cell /\ \A b \in Listed : c \notin CellsOf(b)
  BY <1>2 DEF FoodPlaces, Obstructed
<1>4. /\ id \in Listed /\ Listed \subseteq Slots /\ Mine' = Mine /\ running = <<id, 1>>
      /\ running \in procs /\ food \in CellsOf(id)
  BY <1>1, ListFacts DEF OnTurn, Mine
<1>5. color \in 1 .. MaxVisibleSnake
  <2>1. color \in 1 .. MaxVisibleSnake + 1
    BY <1>1, BodyFacts
  <2>2. color <= MaxVisibleSnake
    BY <1>1, <1>4 DEF Loose
  <2> QED BY <2>1, <2>2 DEF MaxVisibleSnake
<1>6. /\ (full <=> color = MaxVisibleSnake)
      /\ (~full => color + 1 \in 1 .. MaxVisibleSnake)
      /\ color + 1 \in 1 .. MaxVisibleSnake + 1
  BY <1>5 DEF MaxVisibleSnake
<1> HIDE DEF full
<1>7. /\ \A b \in Slots : Body(b)' = Body(b) /\ CellsOf(b)' = CellsOf(b)
      /\ snakes'[id].color = color + 1
      /\ \A b \in Slots \ {id} : snakes'[b].color = snakes[b].color
      /\ snakes' = [b \in Slots |-> [color |-> snakes'[b].color, body |-> Body(b)']]
  <2>1. snakes' = [b \in Slots |-> IF b = id THEN [snakes[b] EXCEPT !.color = color + 1]
                                    ELSE snakes[b]]
    BY <1>1, <1>2 DEF Loose
  <2>2. \A b \in Slots : snakes[b] = [color |-> snakes[b].color, body |-> Body(b)]
    BY <1>1 DEF Loose
  <2>3. snakes'[id] = [color |-> color + 1, body |-> Body(id)]
    <3>1. snakes'[id] = [snakes[id] EXCEPT !.color = color + 1]
      BY <2>1
    <3>2. snakes[id] = [color |-> snakes[id].color, body |-> Body(id)]
      BY <2>2
    <3> QED BY ONLY <3>1, <3>2, Brighter
  <2>4. \A b \in Slots \ {id} : snakes'[b] = snakes[b]
    BY <2>1
  <2>5. \A b \in Slots : Body(b)' = Body(b)
    BY <2>2, <2>3, <2>4 DEF Body
  <2>6. \A b \in Slots : snakes'[b] = [color |-> snakes'[b].color, body |-> Body(b)']
    BY <2>2, <2>3, <2>4, <2>5
  <2>7. \A b \in Slots : CellsOf(b)' = CellsOf(b)
    BY <2>5 DEF Body, CellsOf
  <2> QED BY <2>1, <2>3, <2>4, <2>5, <2>6, <2>7
<1>8. /\ allsnakes' \in Seq(Slots)
      /\ \A j, k \in DOMAIN allsnakes' : allsnakes'[j] = allsnakes'[k] => j = k
      /\ Listed' = IF full THEN Listed \ {id} ELSE Listed
  <2>1. /\ allsnakes \in Seq(Slots)
        /\ \A j, k \in DOMAIN allsnakes : allsnakes[j] = allsnakes[k] => j = k
    BY <1>1 DEF Loose
  <2>2. CASE full
    <3>1. allsnakes' = Without(allsnakes, id)
      BY <1>2, <2>2
    <3>2. IsInjective(allsnakes) /\ Range(allsnakes) = Listed /\ Range(allsnakes') = Listed'
      BY <2>1 DEF IsInjective, Range, Listed
    <3>3. /\ allsnakes' \in Seq(Slots) /\ IsInjective(allsnakes')
          /\ Listed' = Listed \ {id}
      BY ONLY <1>4, <2>1, <3>1, <3>2, WithoutFacts
    <3> QED BY <2>2, <3>3 DEF IsInjective
  <2>3. CASE ~full
    BY <1>2, <2>1, <2>3 DEF Listed
  <2> QED BY <2>2, <2>3
<1>9. /\ screen' \in [Cell -> Black .. FoodChar]
      /\ \A x \in Cell :
           screen'[x] = IF x \in CellsOf(id) THEN (IF full THEN Black ELSE color + 1)
                        ELSE IF x = c THEN FoodChar ELSE screen[x]
  <2> DEFINE withFood == DrawFood(screen, c)
             erased == Erase(withFood, id)
  <2>1. screen \in [Cell -> Black .. FoodChar]
    BY <1>1 DEF Loose
  <2>2. /\ withFood \in [Cell -> Black .. FoodChar]
        /\ \A x \in Cell : withFood[x] = IF x = c THEN FoodChar ELSE screen[x]
    BY <2>1, DrawFoodFacts
  <2> HIDE DEF withFood
  <2>3. /\ erased \in [Cell -> Black .. FoodChar]
        /\ \A x \in Cell : erased[x] = IF x \in CellsOf(id) THEN Black ELSE withFood[x]
    BY <2>2, PaintFacts, InkFacts DEF Erase
  <2>4. screen' = IF full THEN erased ELSE Paint(erased, CellsOf(id), Ink(color + 1))
    BY <1>2 DEF withFood
  <2> HIDE DEF erased
  <2>5. CASE full
    BY <2>2, <2>3, <2>4, <2>5
  <2>6. CASE ~full
    <3>1. Ink(color + 1) = color + 1 /\ color + 1 \in Black .. FoodChar
      BY <1>6, <2>6, InkFacts
    <3>2. /\ screen' \in [Cell -> Black .. FoodChar]
          /\ \A x \in Cell : screen'[x] = IF x \in CellsOf(id) THEN color + 1 ELSE erased[x]
      BY <2>3, <2>4, <2>6, <3>1, PaintFacts
    <3> QED BY <2>2, <2>3, <2>6, <3>2
  <2> QED BY <2>5, <2>6
<1>10. Loose'
  <2>1. ASSUME NEW b \in Slots
        PROVE  /\ Body(b)' \in [1 .. Starts[b].len -> Cell]
               /\ snakes'[b].color \in 1 .. MaxVisibleSnake + 1
    BY <1>1, <1>6, <1>7 DEF Loose
  <2>2. ASSUME NEW b \in Slots
        PROVE  b \in Listed' <=> <<b, 1>> \in procs'
    BY <1>1, <1>2, <1>4, <1>8 DEF Loose
  <2>3. ASSUME NEW b \in Listed' PROVE snakes'[b].color <= MaxVisibleSnake
    <3>1. CASE b = id
      BY <1>6, <1>7, <1>8, <2>3, <3>1 DEF MaxVisibleSnake
    <3>2. CASE b # id
      BY <1>1, <1>4, <1>7, <1>8, <2>3, <3>2 DEF Loose
    <3> QED BY <3>1, <3>2
  <2>4. /\ commands' = 1 /\ s' = [k \in Slots |-> k]
        /\ procs' \subseteq Slots \X {1} /\ running' \in Slots \X {1}
        /\ food' \in Cell \cup {NoFood}
    BY <1>1, <1>2, <1>3 DEF Loose
  <2> QED BY <1>7, <1>8, <1>9, <2>1, <2>2, <2>3, <2>4 DEF Loose
<1>11. OnTurn'
  <2>1. \A b \in Listed' : food' \notin CellsOf(b)'
    BY <1>2, <1>3, <1>4, <1>7, <1>8
  <2>2. pc' = "exited" => running' \notin procs' /\ snakes'[Mine'].color = MaxVisibleSnake + 1
    BY <1>1, <1>2, <1>4, <1>6, <1>7
  <2> QED BY <1>2, <1>3, <2>1, <2>2 DEF OnTurn
<1>12. Apart' /\ InOnePiece'
  <2>1. Listed' \subseteq Listed
    BY <1>8
  <2> QED BY <1>1, <1>4, <1>7, <2>1 DEF Apart, InOnePiece
<1>13. Shown'
  <2>1. ASSUME NEW x \in Cell, screen'[x] \in 1 .. MaxVisibleSnake
        PROVE  \E b \in Listed' : x \in CellsOf(b)' /\ snakes'[b].color = screen'[x]
    <3>1. CASE x \in CellsOf(id)
      <4>1. ~full /\ screen'[x] = color + 1
        BY <1>9, <2>1, <3>1, InkFacts
      <4> QED BY <1>4, <1>7, <1>8, <3>1, <4>1
    <3>2. CASE x \notin CellsOf(id)
      <4>1. screen'[x] = screen[x]
        BY <1>9, <2>1, <3>2, InkFacts
      <4>2. PICK b \in Listed : x \in CellsOf(b) /\ snakes[b].color = screen[x]
        BY <1>1, <2>1, <4>1 DEF Shown
      <4>3. b # id /\ b \in Slots /\ b \in Listed'
        BY <1>4, <1>8, <3>2, <4>2
      <4> QED BY <1>7, <4>1, <4>2, <4>3
    <3> QED BY <3>1, <3>2
  <2>2. ASSUME NEW x \in Cell, screen'[x] = FoodChar PROVE x = food'
    <3>1. x \notin CellsOf(id)
      BY <1>6, <1>9, <2>2, InkFacts
    <3>2. CASE x # c
      <4>1. screen[x] = FoodChar
        BY <1>9, <2>2, <3>1, <3>2
      <4>2. x = food
        BY <1>1, <4>1 DEF Shown
      <4> QED BY <1>4, <3>1, <4>2
    <3> QED BY <1>2, <3>2
  <2> QED BY <2>1, <2>2 DEF Shown
<1> QED BY <1>10, <1>11, <1>12, <1>13 DEF IndInv, Awake

\* "snakes" is typed: the first command finds no other snakes.
LEMMA SetupStep ==
  ASSUME MaxCommands = 1, IndInv, SetupSnakes
  PROVE  IndInv'
<1> DEFINE n == Len(Starts)
           new == [k \in Slots |-> [color |-> Starts[k].color, body |-> NewBody(Starts[k])]]
           ids == [k \in Slots |-> k]
<1>1. /\ Asleep /\ snakes = <<>> /\ allsnakes = <<>> /\ commands = 0 /\ procs = {}
      /\ UNCHANGED <<food, running, pc>> /\ food = NoFood /\ pc = "yielded"
      /\ running = <<1, 1>> /\ commands' = 1 /\ procs' = Slots \X {1}
  <2>1. Asleep
    <3>1. commands < 1
      BY Zenon DEF SetupSnakes
    <3>2. Awake => commands = 1
      BY Zenon DEF Awake, Loose
    <3>3. ~Awake
      BY ONLY <3>1, <3>2
    <3> QED BY <3>3, Zenon DEF IndInv
  <2>2. /\ commands' = commands + 1 /\ procs' = procs \cup (Slots \X {commands'})
        /\ UNCHANGED <<food, running, pc>>
    BY Zenon DEF SetupSnakes
  <2> QED BY <2>1, <2>2 DEF Asleep
<1>2. n \in Nat \ {0} /\ Slots = 1 .. n /\ 1 \in Slots
  <2>1. n \in Nat /\ DOMAIN Starts = 1 .. n
    BY StartsAssumption, LenProperties
  <2>2. n # 0
    BY StartsAssumption, EmptySeq
  <2> QED BY <2>1, <2>2 DEF Slots
<1>3. /\ snakes' = <<>> \o new /\ s' = [k \in Slots |-> 0 + k]
      /\ allsnakes' = Reverse([k \in Slots |-> 0 + k]) \o <<>>
  <2>1. Len(snakes) = 0
    BY <1>1
  <2>2. /\ snakes' = snakes \o new /\ s' = [k \in Slots |-> Len(snakes) + k]
        /\ allsnakes' = Reverse([k \in Slots |-> Len(snakes) + k]) \o allsnakes
    BY Zenon DEF SetupSnakes
  <2> QED BY <1>1, <2>1, <2>2
<1>4. [k \in Slots |-> 0 + k] = ids
  BY <1>2
<1>5. snakes' = new
  <2> DEFINE R == {new[k] : k \in Slots}
  <2>1. new \in [1 .. n -> R]
    BY <1>2
  <2> HIDE DEF R, new
  <2>2. new \in Seq(R)
    BY <1>2, <2>1
  <2> QED BY <1>3, <2>2, ConcatEmptySeq
<1>6. /\ s' = ids /\ allsnakes' \in Seq(Slots) /\ DOMAIN allsnakes' = Slots
      /\ \A k \in Slots : allsnakes'[k] = n - k + 1
  <2> DEFINE back == [k \in 1 .. n |-> n - k + 1]
  <2>1. ids \in Seq(Slots) /\ Len(ids) = n /\ \A k \in 1 .. n : ids[k] = k
    BY <1>2
  <2> HIDE DEF ids, n
  <2>2. Reverse(ids) = back
    <3>1. \A k \in 1 .. n : (n - k) + 1 \in 1 .. n
      BY <1>2
    <3> QED BY <2>1, <3>1 DEF Reverse
  <2>3. back \in Seq(Slots) /\ DOMAIN back = Slots /\ \A k \in Slots : back[k] = n - k + 1
    BY <1>2
  <2> HIDE DEF back
  <2>4. allsnakes' = back
    BY <1>3, <1>4, <2>2, <2>3, ConcatEmptySeq
  <2> QED BY <1>3, <1>4, <2>3, <2>4
<1> HIDE DEF n
<1>7. Listed' = Slots
  <2>1. \A k \in Slots : n - k + 1 \in Slots /\ n - (n - k + 1) + 1 = k
    BY <1>2
  <2> QED BY <1>6, <2>1 DEF Listed
<1>8. ASSUME NEW k \in Slots
      PROVE  /\ snakes'[k] = [color |-> Starts[k].color, body |-> NewBody(Starts[k])]
             /\ Body(k)' = NewBody(Starts[k]) /\ snakes'[k].color = Starts[k].color
             /\ NewBody(Starts[k]) \in [1 .. Starts[k].len -> Cell]
             /\ DOMAIN NewBody(Starts[k]) = 1 .. Starts[k].len
             /\ Starts[k].color \in 1 .. MaxVisibleSnake
             /\ CellsOf(k)' = {NewBody(Starts[k])[j] : j \in 1 .. Starts[k].len}
             /\ CellsOf(k)' \subseteq Cell
  <2>1. snakes'[k] = [color |-> Starts[k].color, body |-> NewBody(Starts[k])]
    BY <1>5
  <2>2. /\ NewBody(Starts[k]) \in [1 .. Starts[k].len -> Cell]
        /\ DOMAIN NewBody(Starts[k]) = 1 .. Starts[k].len
        /\ Starts[k].color \in 1 .. MaxVisibleSnake
    BY StartFacts, NewBodyFacts
  <2>3. Body(k)' = NewBody(Starts[k]) /\ snakes'[k].color = Starts[k].color
    BY <2>1 DEF Body
  <2>4. CellsOf(k)' = {NewBody(Starts[k])[j] : j \in 1 .. Starts[k].len}
    <3>1. snakes'[k].body = NewBody(Starts[k])
      BY <2>1
    <3> QED BY <2>2, <3>1 DEF CellsOf
  <2>5. CellsOf(k)' \subseteq Cell
    BY <2>2, <2>4
  <2> QED BY <2>1, <2>2, <2>3, <2>4, <2>5
<1>9. Apart'
  <2>1. ASSUME NEW a \in Slots, NEW b \in Slots, a # b
        PROVE  CellsOf(a)' \cap CellsOf(b)' = {}
    <3>1. \A i \in 1 .. Starts[a].len, j \in 1 .. Starts[b].len :
            NewBody(Starts[a])[i] # NewBody(Starts[b])[j]
      BY <2>1, ApartAssumption
    <3>2. ASSUME NEW c \in CellsOf(a)', NEW d \in CellsOf(b)' PROVE c # d
      <4>1. CellsOf(a)' = {NewBody(Starts[a])[i] : i \in 1 .. Starts[a].len}
        BY <1>8
      <4>2. CellsOf(b)' = {NewBody(Starts[b])[j] : j \in 1 .. Starts[b].len}
        BY <1>8
      <4>3. PICK i \in 1 .. Starts[a].len : c = NewBody(Starts[a])[i]
        BY <4>1
      <4>4. PICK j \in 1 .. Starts[b].len : d = NewBody(Starts[b])[j]
        BY <4>2
      <4> QED BY <3>1, <4>3, <4>4
    <3> QED BY <3>2
  <2>2. \A a, b \in Slots : a # b => CellsOf(a)' \cap CellsOf(b)' = {}
    BY <2>1
  <2> QED BY <1>7, <2>2 DEF Apart
<1>10. InOnePiece'
  BY <1>7, <1>8, NewBodyFacts, Zenon DEF InOnePiece
<1> DEFINE at(c) == {k \in DOMAIN allsnakes' : \E j \in DOMAIN snakes'[allsnakes'[k]].body :
                                                 snakes'[allsnakes'[k]].body[j] = c}
           top(c) == allsnakes'[CHOOSE k \in at(c) : \A j \in at(c) : j <= k]
<1>11. screen' = [c \in Cell |-> IF at(c) = {} THEN Black ELSE Ink(snakes'[top(c)].color)]
  BY Zenon DEF SetupSnakes
<1>12. ASSUME NEW c \in Cell, at(c) # {}
       PROVE  \E b \in Slots : top(c) = b /\ c \in CellsOf(b)'
  <2>1. ASSUME NEW k \in at(c)
        PROVE  /\ k \in Slots /\ k \in Int /\ n - k + 1 \in Slots
               /\ allsnakes'[k] = n - k + 1 /\ c \in CellsOf(n - k + 1)'
    <3>0. k \in Slots /\ \E j \in DOMAIN snakes'[allsnakes'[k]].body :
                            snakes'[allsnakes'[k]].body[j] = c
      BY <1>6
    <3>1. k \in Slots /\ allsnakes'[k] = n - k + 1 /\ n - k + 1 \in Slots /\ k \in Int
      BY <1>2, <1>6, <3>0
    <3>2. \E j \in DOMAIN snakes'[n - k + 1].body : snakes'[n - k + 1].body[j] = c
      BY <3>0, <3>1
    <3> QED BY <3>1, <3>2 DEF CellsOf
  <2> HIDE DEF at
  <2>2. ASSUME NEW j \in at(c), NEW k \in at(c) PROVE j = k
    <3>1. \A a, b \in Slots : a # b => CellsOf(a)' \cap CellsOf(b)' = {}
      BY <1>7, <1>9 DEF Apart
    <3>2. n - j + 1 = n - k + 1
      BY <2>1, <3>1
    <3> QED BY <1>2, <2>1, <3>2
  <2>3. \E k \in at(c) : \A j \in at(c) : j <= k
    BY <1>12, <2>1, <2>2
  <2>4. PICK k \in at(c) : top(c) = allsnakes'[k]
    BY <2>3
  <2> QED BY <2>1, <2>4
<1> HIDE DEF at, top
<1>13. ASSUME NEW c \in Cell
       PROVE  \/ screen'[c] = Black
              \/ \E b \in Slots : /\ c \in CellsOf(b)' /\ screen'[c] = snakes'[b].color
                                  /\ screen'[c] \in 1 .. MaxVisibleSnake
  <2>1. CASE at(c) = {}
    BY <1>11, <2>1
  <2>2. CASE at(c) # {}
    <3>1. PICK b \in Slots : top(c) = b /\ c \in CellsOf(b)'
      BY <1>12, <2>2
    <3>2. screen'[c] = Ink(snakes'[b].color)
      BY <1>11, <2>2, <3>1
    <3>3. snakes'[b].color \in 1 .. MaxVisibleSnake
      BY <1>8
    <3> QED BY <3>1, <3>2, <3>3, InkFacts
  <2> QED BY <2>1, <2>2
<1>14. Shown'
  <2>1. ASSUME NEW c \in Cell, screen'[c] \in 1 .. MaxVisibleSnake
        PROVE  \E b \in Slots : c \in CellsOf(b)' /\ snakes'[b].color = screen'[c]
    BY <1>13, <2>1, InkFacts
  <2>2. ASSUME NEW c \in Cell PROVE screen'[c] # FoodChar
    BY <1>13, InkFacts
  <2> QED BY <1>7, <2>1, <2>2 DEF Shown
<1>15. Loose'
  <2>1. screen' \in [Cell -> Black .. FoodChar]
    BY <1>11, <1>13, InkFacts
  <2>2. snakes' = [k \in Slots |-> [color |-> snakes'[k].color, body |-> Body(k)']]
    BY <1>5, <1>8
  <2>3. ASSUME NEW k \in Slots
        PROVE  /\ Body(k)' \in [1 .. Starts[k].len -> Cell]
               /\ snakes'[k].color \in 1 .. MaxVisibleSnake + 1
               /\ snakes'[k].color <= MaxVisibleSnake
               /\ k \in Listed' <=> <<k, 1>> \in procs'
    <3>1. k \in Listed' /\ <<k, 1>> \in procs'
      BY <1>1, <1>7
    <3>2. snakes'[k].color \in 1 .. MaxVisibleSnake
      BY <1>8
    <3>3. Body(k)' \in [1 .. Starts[k].len -> Cell]
      BY <1>8
    <3> QED BY <3>1, <3>2, <3>3 DEF MaxVisibleSnake
  <2>4. \A j, k \in DOMAIN allsnakes' : allsnakes'[j] = allsnakes'[k] => j = k
    BY <1>2, <1>6
  <2>5. running' \in Slots \X {1} /\ food' \in Cell \cup {NoFood}
    BY <1>1, <1>2
  <2> QED BY <1>1, <1>6, <1>7, <2>1, <2>2, <2>3, <2>4, <2>5 DEF Loose
<1>16. OnTurn'
  BY <1>1, <1>7, <1>8, NowhereFacts DEF OnTurn
<1> QED BY <1>9, <1>10, <1>14, <1>15, <1>16 DEF IndInv, Awake
-----------------------------------------------------------------------------
\* The invariant of the game that is started once, for every screen and all
\* snakes that start apart on it.
THEOREM Inductive ==
  ASSUME MaxCommands = 1
  PROVE  Spec => []IndInv
<1>1. ASSUME IndInv, [Next]_vars PROVE IndInv'
  <2>1. CASE UNCHANGED vars
    <3>1. UNCHANGED <<snakes, s, allsnakes, food, screen, commands, procs, running, pc>>
      BY <2>1 DEF vars
    <3>2. CASE Asleep
      BY <3>1, <3>2 DEF IndInv, Asleep
    <3>3. CASE Awake
      <4>1. Mine' = Mine
        BY <3>1 DEF Mine
      <4>2. Loose'
        BY <3>1, <3>3, Unmoved DEF Awake, Loose
      <4>3. OnTurn'
        BY <3>1, <3>3, <4>1, Unmoved DEF Awake, OnTurn
      <4>4. Shown'
        BY <3>1, <3>3, Unmoved DEF Awake, Shown
      <4> QED BY <3>1, <3>3, <4>2, <4>3, <4>4, Unmoved DEF IndInv, Awake
    <3> QED BY <1>1, <3>2, <3>3 DEF IndInv
  <2> QED BY <1>1, <2>1, SetupStep, ClearStep, BeginStep, CrawlStep, EatStep, DrawFreedStep
          DEF Next
<1> QED BY <1>1, Initially, PTL DEF Spec

\* What is on the screen and in the list is what the types say: no snake
\* leaves the screen, and none gets brighter than the table of colors is long
\* (snakes.cpp:78, 202-250).
THEOREM TypeCorrect ==
  ASSUME MaxCommands = 1
  PROVE  Spec => []TypeOK
<1>1. IndInv => TypeOK
  <2>1. ASSUME Asleep PROVE TypeOK
    BY <2>1, StartsAssumption, SizesAssumption, InkFacts
       DEF Asleep, TypeOK, Listed, Ids, Slots, Clear, Black, FoodChar, MaxVisibleSnake
  <2>2. ASSUME Awake PROVE TypeOK
    <3>1. Loose /\ OnTurn
      BY <2>2 DEF Awake
    <3>2. Ids = Slots /\ Listed \subseteq Slots /\ DOMAIN snakes = Slots
      BY <3>1, ListFacts, StartsAssumption DEF Ids, Slots, Loose
    <3>3. \A id \in DOMAIN snakes : /\ snakes[id].color \in 1 .. MaxVisibleSnake + 1
                                    /\ CellsOf(id) \subseteq Cell
      BY <3>1, <3>2, BodyFacts
    <3>4. s \in [Slots -> Ids \cup {0}] /\ commands \in 0 .. MaxCommands /\ 1 .. MaxCommands = {1}
      BY <3>1, <3>2 DEF Loose
    <3> QED BY <3>1, <3>2, <3>3, <3>4 DEF TypeOK, Loose, OnTurn
  <2> QED BY <2>1, <2>2 DEF IndInv
<1>2. Spec => []IndInv
  BY Inductive
<1> QED BY <1>1, <1>2, PTL

\* The snakes on the list are those that processes run; no two share a cell,
\* and none comes apart (snakes.cpp:113-176, 340-435).
THEOREM SnakesStayApart ==
  ASSUME MaxCommands = 1
  PROVE  Spec => []SnakesApart
<1>1. IndInv => SnakesApart
  <2>1. ASSUME Asleep PROVE SnakesApart
    BY <2>1 DEF Asleep, SnakesApart, Listed
  <2>2. ASSUME Awake PROVE SnakesApart
    <3>1. Loose /\ Apart /\ InOnePiece
      BY <2>2 DEF Awake
    <3>2. Listed = {s[p[1]] : p \in procs} /\ Listed \subseteq Slots
      BY <3>1, ListFacts
    <3>3. \A id \in Listed : \A k \in 2 .. Len(snakes[id].body) :
            snakes[id].body[k] \in Around(snakes[id].body[k - 1]) \cup {snakes[id].body[k - 1]}
      BY <3>1, <3>2, BodyFacts DEF InOnePiece
    <3> QED BY <3>1, <3>2, <3>3 DEF SnakesApart, Apart
  <2> QED BY <2>1, <2>2 DEF IndInv
<1>2. Spec => []IndInv
  BY Inductive
<1> QED BY <1>1, <1>2, PTL

\* Between two turns the food is where no snake is (snakes.cpp:180-240).
THEOREM FoodStaysFree ==
  ASSUME MaxCommands = 1
  PROVE  Spec => []FoodIsFree
<1>1. IndInv => FoodIsFree
  BY DEF IndInv, Asleep, Awake, OnTurn, FoodIsFree, Listed
<1>2. Spec => []IndInv
  BY Inductive
<1> QED BY <1>1, <1>2, PTL

\* The screen shows no snake where there is none, not even the one that is
\* drawn after it was freed (snakes.cpp:217-238, 437-459).
THEOREM NothingIsLeft ==
  ASSUME MaxCommands = 1
  PROVE  Spec => []NoTrails
<1>1. IndInv => NoTrails
  <2>1. ASSUME Asleep PROVE NoTrails
    BY <2>1, InkFacts DEF Asleep, NoTrails, Clear
  <2> QED BY <2>1 DEF IndInv, Awake, Shown, NoTrails
<1>2. Spec => []IndInv
  BY Inductive
<1> QED BY <1>1, <1>2, PTL
=============================================================================
