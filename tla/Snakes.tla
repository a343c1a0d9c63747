-------------------------------- MODULE Snakes --------------------------------
(***************************************************************************)
(* The hungry snakes (snakes.cpp), which the terminal turns loose as one   *)
(* process each.  A snake crawls towards the food, eats it, gets brighter, *)
(* and at last is full and winks out.                                      *)
(*                                                                         *)
(* Processes yield at the end of a turn and nowhere else, so a turn is     *)
(* never interleaved with another one; the scheduler's order of turns is   *)
(* left open.  Random chooses from all it may choose from.                 *)
(***************************************************************************)
EXTENDS Integers, Sequences, SequencesExt

CONSTANTS
  Cols, Rows,   \* GetScreenWidth, GetScreenHeight
  Starts,       \* what setup_snakes gives to new_snake, in order
  MaxCommands   \* bound: how often "snakes" is typed

MaxVisibleSnake == 7
Cell  == (0 .. Cols - 1) \X (0 .. Rows - 1)
Slots == DOMAIN Starts
Ids   == 1 .. MaxCommands * Len(Starts)  \* the snakes that new_snake makes

VARIABLES
  snakes,    \* snake_st of each snake: color and body; kept after it is freed
  s,         \* the static array of setup_snakes: the snake of each slot
  allsnakes, \* the list of snakes, newest first
  food,      \* where the food is, or NoFood
  screen,    \* what the game has put in each cell
  commands,  \* how often "snakes" was typed
  procs,     \* the processes, by slot and command, that have not exited
  running,   \* the process that has, or last had, its turn
  pc         \* where it is, or "yielded"

vars == <<snakes, s, allsnakes, food, screen, commands, procs, running, pc>>

ASSUME SizesAssumption == Cols \in Nat \ {0} /\ Rows \in Nat \ {0}
ASSUME StartsAssumption ==
  /\ Starts # <<>>
  /\ Starts \in Seq([y : Int, x : Int, len : Nat \ {0}, dx : -1 .. 1, dy : -1 .. 1,
                     color : 1 .. MaxVisibleSnake])

NoFood == <<-1, -1>>

\* What a cell of the screen shows: black, a snake's color, or food.
Black    == 0
FoodChar == MaxVisibleSnake + 1
Ink(color) == IF color <= MaxVisibleSnake THEN color ELSE Black

Listed == {allsnakes[k] : k \in DOMAIN allsnakes}
CellsOf(id) == {snakes[id].body[k] : k \in DOMAIN snakes[id].body}

TypeOK ==
  /\ \A id \in DOMAIN snakes :
       /\ snakes[id].color \in 1 .. MaxVisibleSnake + 1
       /\ CellsOf(id) \subseteq Cell
  /\ DOMAIN snakes \subseteq Ids /\ Listed \subseteq DOMAIN snakes
  /\ s \in [Slots -> Ids \cup {0}]
  /\ food \in Cell \cup {NoFood}
  /\ screen \in [Cell -> Black .. FoodChar]
  /\ commands \in 0 .. MaxCommands
  /\ procs \subseteq Slots \X (1 .. MaxCommands)
  /\ running \in Slots \X (1 .. MaxCommands)
  /\ pc \in {"yielded", "crawl", "eat", "exited"}

Clear == [c \in Cell |-> Black]

Init ==
  /\ snakes = <<>> /\ allsnakes = <<>> /\ s = [k \in Slots |-> 0]
  /\ food = NoFood /\ screen = Clear
  /\ commands = 0 /\ procs = {} /\ running = <<1, 1>> /\ pc = "yielded"
-----------------------------------------------------------------------------
(* Drawing. *)

Paint(scr, cells, ink) == [c \in Cell |-> IF c \in cells THEN ink ELSE scr[c]]

Erase(scr, id)     == Paint(scr, CellsOf(id), Black)
DrawFood(scr, at)  == Paint(scr, {at}, FoodChar)
-----------------------------------------------------------------------------
(* setup_snakes, in the terminal. *)

Limit(v, min, max) == IF v < min THEN min ELSE IF v > max THEN max ELSE v

\* The body of a new snake: head first, coiled up where the screen ends.
NewBody(st) ==
  [k \in 1 .. st.len |->
    <<Limit(Limit(st.x, 0, Cols - 1) - (k - 1) * st.dx, 0, Cols - 1),
      Limit(Limit(st.y, 0, Rows - 1) - (k - 1) * st.dy, 0, Rows - 1)>>]

\* The snakes of one command start apart (snakes.cpp:536).
ASSUME ApartAssumption ==
  \A j, k \in Slots : j # k =>
    \A m \in 1 .. Starts[j].len, n \in 1 .. Starts[k].len :
      NewBody(Starts[j])[m] # NewBody(Starts[k])[n]

SetupSnakes ==
  /\ pc = "yielded" /\ commands < MaxCommands
  /\ LET first == Len(snakes)
         new   == [k \in Slots |-> [color |-> Starts[k].color, body |-> NewBody(Starts[k])]]
     IN  /\ snakes' = snakes \o new
         /\ s' = [k \in Slots |-> first + k]
         /\ allsnakes' = Reverse([k \in Slots |-> first + k]) \o allsnakes
  /\ commands' = commands + 1
  /\ procs' = procs \cup (Slots \X {commands'})
  \* draw_all_snakes: where two overlap, the one that is later in the list shows
  /\ screen' = [c \in Cell |->
       LET at == {k \in DOMAIN allsnakes' : \E j \in DOMAIN snakes'[allsnakes'[k]].body :
                                               snakes'[allsnakes'[k]].body[j] = c}
       IN  IF at = {} THEN Black
           ELSE Ink(snakes'[allsnakes'[CHOOSE k \in at : \A j \in at : j <= k]].color)]
  /\ UNCHANGED <<food, running, pc>>

\* The terminal clears the screen for every line that is entered.
ClearConsole ==
  /\ pc = "yielded"
  /\ screen' = Clear
  /\ UNCHANGED <<snakes, s, allsnakes, food, commands, procs, running, pc>>
-----------------------------------------------------------------------------
(* run_hungry_snake. *)

\* Fault: the walls are not looked at.
Obstructed_NoWalls(p) == \E id \in Listed : p \in CellsOf(id)

\* Fault: only the heads of the snakes are looked at.
Obstructed_Heads(p) == p \notin Cell \/ \E id \in Listed : p = snakes[id].body[1]

Obstructed(p) == p \notin Cell \/ \E id \in Listed : p \in CellsOf(id)

\* Fault: place_food takes the first cell it comes to.
FoodPlaces_Any == Cell

\* Where place_food may end.
FoodPlaces == {c \in Cell : ~Obstructed(c)}

\* A process gets the processor; the first of all places the food.
Begin(p) ==
  /\ pc = "yielded"
  /\ running' = p
  /\ IF food = NoFood
       THEN \E c \in FoodPlaces : food' = c /\ screen' = DrawFood(screen, c)
       ELSE UNCHANGED <<food, screen>>
  /\ pc' = "crawl"
  /\ UNCHANGED <<snakes, s, allsnakes, commands, procs>>

\* The snake of the process: the one that its slot holds now.
Mine == s[running[1]]

Sign(v) == IF v > 0 THEN 1 ELSE IF v < 0 THEN -1 ELSE 0

Around(p) == {<<p[1] + d[1], p[2] + d[2]>> : d \in (-1 .. 1) \X (-1 .. 1) \ {<<0, 0>>}}

\* food_direction; north, if the head is on the food.
Towards(head) ==
  IF head = food THEN <<head[1], head[2] - 1>>
  ELSE <<head[1] + Sign(food[1] - head[1]), head[2] + Sign(food[2] - head[2])>>

\* Where the head may go next: towards the food, else any way that is free; if
\* all eight are dead ends it stays.
NewHeads(head) ==
  LET ahead == Towards(head)
      free  == {p \in Around(head) : ~Obstructed(p)}
  IN  IF ~Obstructed(ahead) THEN {ahead} ELSE IF free # {} THEN free ELSE {head}

\* Every part moves to where the one before it was.
Moved(body, head) == [k \in DOMAIN body |-> IF k = 1 THEN head ELSE body[k - 1]]

\* Fault: the snake is erased after it has moved.
Redrawn_Late(id, body) ==
  LET cells == {body[k] : k \in DOMAIN body}
  IN  Paint(Paint(screen, cells, Black), cells, Ink(snakes[id].color))

\* The screen after the snake was erased, moved and drawn.
Redrawn(id, body) ==
  Paint(Erase(screen, id), {body[k] : k \in DOMAIN body}, Ink(snakes[id].color))

Crawl ==
  /\ pc = "crawl"
  /\ LET id == Mine
     IN  \E head \in NewHeads(snakes[id].body[1]) :
           LET body == Moved(snakes[id].body, head)
           IN  /\ snakes' = [snakes EXCEPT ![id].body = body]
               /\ screen' = Redrawn(id, body)
               /\ pc' = IF head = food THEN "eat" ELSE "yielded"
  /\ UNCHANGED <<s, allsnakes, food, commands, procs, running>>

\* free_snake: the list without the snake.
Without(list, id) == RemoveFirst(list, id)

\* New food; the snake gets brighter, or is full, is freed, and its process
\* unloaded.  (A snake that two processes share would be freed twice.  What
\* free_snake does then, behind the end of the list, is not modelled.)
Eat ==
  /\ pc = "eat"
  /\ LET id   == Mine
         full == snakes[id].color + 1 > MaxVisibleSnake
     IN  \E c \in FoodPlaces :
           /\ food' = c
           /\ snakes' = [snakes EXCEPT ![id].color = @ + 1]
           /\ LET erased == Erase(DrawFood(screen, c), id)
              IN  screen' = IF full THEN erased
                            ELSE Paint(erased, CellsOf(id), Ink(snakes[id].color + 1))
           /\ allsnakes' = IF full THEN Without(allsnakes, id) ELSE allsnakes
           /\ procs' = IF full THEN procs \ {running} ELSE procs
           /\ pc' = IF full THEN "exited" ELSE "yielded"
  /\ UNCHANGED <<s, commands, running>>

\* ProcessExit returns: the snake that is free is drawn once more.
DrawFreed ==
  /\ pc = "exited"
  /\ screen' = Paint(screen, CellsOf(Mine), Ink(snakes[Mine].color))
  /\ pc' = "yielded"
  /\ UNCHANGED <<snakes, s, allsnakes, food, commands, procs, running>>

Next ==
  \/ SetupSnakes \/ ClearConsole
  \/ (\E p \in procs : Begin(p))
  \/ Crawl \/ Eat \/ DrawFreed

Spec == Init /\ [][Next]_vars
-----------------------------------------------------------------------------
(* Properties. *)

\* The list has the snakes that processes run and no snake that was freed;
\* two of them never share a cell, and each part of one touches the part
\* before it, also after it was coiled up at a wall or stuck in a dead end.
SnakesApart ==
  /\ Listed = {s[p[1]] : p \in procs}
  /\ \A a, b \in Listed : a # b => CellsOf(a) \cap CellsOf(b) = {}
  /\ \A id \in Listed : \A k \in 2 .. Len(snakes[id].body) :
       snakes[id].body[k] \in Around(snakes[id].body[k - 1]) \cup {snakes[id].body[k - 1]}

\* Between two turns no snake is on the food: what a snake comes to is eaten,
\* and new food lies where nobody is.
FoodIsFree == pc = "yielded" => \A id \in Listed : food \notin CellsOf(id)

\* Between two turns the screen shows no snake where there is none, not even
\* what a snake that is gone left or was drawn after it was freed, and no food
\* where there is none.
NoTrails ==
  pc = "yielded" =>
    \A c \in Cell :
      /\ screen[c] \in 1 .. MaxVisibleSnake =>
           \E id \in Listed : c \in CellsOf(id) /\ snakes[id].color = screen[c]
      /\ screen[c] = FoodChar => c = food

\* "turn each snake loose as an individual LWP" (snakes.cpp:548).
EachSnakeHasItsProcess ==
  pc = "yielded" => \A id \in Listed : \E p \in procs : {q \in procs : s[q[1]] = id} = {p}
-----------------------------------------------------------------------------
(* The inductive invariant, when "snakes" is typed once. *)

Body(id) == snakes[id].body

\* Before the command.
Asleep ==
  /\ commands = 0 /\ snakes = <<>> /\ allsnakes = <<>> /\ s = [k \in Slots |-> 0]
  /\ procs = {} /\ running = <<1, 1>> /\ food = NoFood /\ screen = Clear /\ pc = "yielded"

\* After it: the list has the snakes of the processes, each once.
Loose ==
  /\ commands = 1 /\ s = [k \in Slots |-> k]
  /\ snakes = [k \in Slots |-> [color |-> snakes[k].color, body |-> Body(k)]]
  /\ \A k \in Slots : /\ Body(k) \in [1 .. Starts[k].len -> Cell]
                      /\ snakes[k].color \in 1 .. MaxVisibleSnake + 1
                      /\ k \in Listed <=> <<k, 1>> \in procs
  /\ allsnakes \in Seq(Slots)
  /\ \A j, k \in DOMAIN allsnakes : allsnakes[j] = allsnakes[k] => j = k
  /\ \A id \in Listed : snakes[id].color <= MaxVisibleSnake
  /\ procs \subseteq Slots \X {1} /\ running \in Slots \X {1}
  /\ food \in Cell \cup {NoFood} /\ screen \in [Cell -> Black .. FoodChar]

\* Where the process is that has its turn.
OnTurn ==
  /\ pc \in {"yielded", "crawl", "eat", "exited"}
  /\ pc # "yielded" => food \in Cell
  /\ pc \in {"crawl", "eat"} => running \in procs
  /\ pc = "exited" => running \notin procs /\ snakes[Mine].color = MaxVisibleSnake + 1
  /\ \A id \in Listed : food \in CellsOf(id) => pc = "eat" /\ id = Mine
  /\ pc = "eat" => food \in CellsOf(Mine)

Apart == \A a, b \in Listed : a # b => CellsOf(a) \cap CellsOf(b) = {}

InOnePiece ==
  \A id \in Listed : \A k \in 2 .. Starts[id].len :
    Body(id)[k] \in Around(Body(id)[k - 1]) \cup {Body(id)[k - 1]}

\* Each cell shows black, a snake that is there, or the food.
Shown ==
  \A c \in Cell :
    /\ screen[c] \in 1 .. MaxVisibleSnake =>
         \E id \in Listed : c \in CellsOf(id) /\ snakes[id].color = screen[c]
    /\ screen[c] = FoodChar => c = food

Awake == Loose /\ OnTurn /\ Apart /\ InOnePiece /\ Shown

IndInv == Asleep \/ Awake
=============================================================================
