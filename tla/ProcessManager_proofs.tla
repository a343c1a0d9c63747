----------------------- MODULE ProcessManager_proofs ------------------------
(***************************************************************************)
(* Proofs about ProcessManager, for every number of processes.             *)
(***************************************************************************)
EXTENDS ProcessManager, TLAPS

ListInv == TypeOK /\ ListInCreationOrder /\ Linked /\ Population

\* _curPtr = _curPtr->Next, or the head: GetNext stays in the list, and does
\* not return to the same process before it has been to the others.
LEMMA SuccFacts ==
  ASSUME ListInv
  PROVE  /\ \A n \in nodes : Succ(n) \in nodes
         /\ \A n \in nodes : link[n] # Null => Succ(n) = link[n] /\ link[n] > n
         /\ \A n \in nodes : link[n] = Null => Succ(n) = Head
         /\ Terminal \in nodes => Succ(Head) = Terminal
<1> USE MaxPidAssumption, NullAssumption
      DEF ListInv, TypeOK, ListInCreationOrder, Population, Succ, Head, NoProc, Pid, Terminal
<1>1. \A n \in nodes : Succ(n) \in nodes
  OBVIOUS
<1>2. \A n \in nodes : link[n] # Null => Succ(n) = link[n] /\ link[n] > n
  OBVIOUS
<1>3. \A n \in nodes : link[n] = Null => Succ(n) = Head
  OBVIOUS
<1>4. ASSUME Terminal \in nodes PROVE Succ(Head) = Terminal
  <2>1. link[0] # Null
    BY <1>4
  <2>2. link[0] \in nodes /\ link[0] > 0 /\ link[0] <= 1
    BY <1>4, <2>1
  <2> QED
    BY <2>1, <2>2
<1> QED
  BY <1>1, <1>2, <1>3, <1>4

\* RRScheduler::Insert of a new process appends it.
LEMMA InsertFacts ==
  ASSUME ListInv, numProcs \in Pid, Insert(numProcs)
  PROVE  /\ link' \in [Pid -> Pid \cup {Null}]
         /\ nodes' = nodes \cup {numProcs}
         /\ ListInCreationOrder'
         /\ Linked'
         /\ \A n \in nodes : link[n] # Null => link'[n] = link[n]
<1> DEFINE last == CHOOSE n \in nodes : link[n] = Null
<1> USE NullAssumption DEF ListInv, TypeOK, Population, NoProc, Pid
<1>1. last \in nodes /\ link[last] = Null
  BY DEF Linked
<1>2. /\ nodes' = nodes \cup {numProcs}
      /\ link' = [link EXCEPT ![last] = numProcs, ![numProcs] = Null]
  BY DEF Insert
<1> HIDE DEF last
<1>3. \A n \in nodes : n \in Int /\ n < numProcs
  OBVIOUS
<1>4. \A n \in nodes : n <= last /\ (link[n] = Null => n = last)
  BY <1>1, <1>3 DEF ListInCreationOrder
<1>5. /\ link' \in [Pid -> Pid \cup {Null}]
      /\ link'[last] = numProcs
      /\ link'[numProcs] = Null
      /\ \A n \in nodes : n # last => link'[n] = link[n]
  BY <1>1, <1>3, <1>2
<1>6. ListInCreationOrder'
  <2>1. ASSUME NEW n \in nodes', link'[n] = Null
        PROVE  \A m \in nodes' : m <= n
    BY <2>1, <1>4, <1>3, <1>2, <1>5
  <2>2. ASSUME NEW n \in nodes', link'[n] # Null
        PROVE  link'[n] \in nodes' /\ link'[n] > n
                 /\ \A m \in nodes' : m <= n \/ link'[n] <= m
    <3>1. CASE n = last
      BY <3>1, <1>1, <1>4, <1>3, <1>2, <1>5
    <3>2. CASE n \in nodes \ {last}
      <4>1. link'[n] = link[n] /\ link[n] # Null
        BY <3>2, <1>4, <1>5
      <4>2. link[n] \in nodes /\ link[n] > n /\ \A m \in nodes : m <= n \/ link[n] <= m
        BY <3>2, <4>1 DEF ListInCreationOrder
      <4> QED
        BY <4>1, <4>2, <1>3, <1>2
    <3> QED
      BY <3>1, <3>2, <2>2, <1>2, <1>5
  <2> QED
    BY <2>1, <2>2 DEF ListInCreationOrder
<1>7. Linked'
  <2>1. \E n \in nodes' : link'[n] = Null
    BY <1>2, <1>5
  <2>2. ASSUME NEW p \in nodes' \ {Head} PROVE \E n \in nodes' : link'[n] = p
    <3>1. CASE p = numProcs
      BY <3>1, <1>1, <1>2, <1>5
    <3>2. CASE p \in nodes
      <4>1. PICK n \in nodes : link[n] = p
        BY <3>2, <2>2 DEF Linked
      <4>2. n # last
        BY <4>1, <1>1, <3>2
      <4> QED
        BY <4>1, <4>2, <1>2, <1>5
    <3> QED
      BY <3>1, <3>2, <2>2, <1>2
  <2> QED
    BY <2>1, <2>2 DEF Linked, Head
<1>8. \A n \in nodes : link[n] # Null => link'[n] = link[n]
  BY <1>1, <1>5
<1> QED
  BY <1>2, <1>5, <1>6, <1>7, <1>8

\* RRScheduler::Remove of a process other than the first unlinks it.
LEMMA RemoveFacts ==
  ASSUME ListInv, NEW p \in nodes, p # Head, Remove(p)
  PROVE  /\ link' \in [Pid -> Pid \cup {Null}]
         /\ nodes' = nodes \ {p}
         /\ ListInCreationOrder'
         /\ Linked'
         /\ \A n \in nodes' : link[n] # p => link'[n] = link[n]
<1> USE NullAssumption DEF ListInv, TypeOK, Population, NoProc, Pid
<1>1. /\ nodes' = nodes \ {p}
      /\ link' = [n \in Pid |-> IF n \in nodes /\ link[n] = p THEN link[p] ELSE link[n]]
  BY DEF Remove
<1>2. /\ link' \in [Pid -> Pid \cup {Null}]
      /\ \A n \in nodes' : link'[n] = IF link[n] = p THEN link[p] ELSE link[n]
  BY <1>1
<1>3. \A n \in nodes : n \in Int
  OBVIOUS
<1>4. link[p] # Null => link[p] \in nodes /\ link[p] > p /\ \A m \in nodes : m <= p \/ link[p] <= m
  BY DEF ListInCreationOrder
<1>5. link[p] = Null => \A m \in nodes : m <= p
  BY DEF ListInCreationOrder
<1>6. p \in nodes /\ p # Null /\ p \in Int
  BY <1>3
<1>7. ASSUME NEW n \in nodes, link[n] # Null
      PROVE  link[n] \in nodes /\ link[n] > n /\ \A m \in nodes : m <= n \/ link[n] <= m
  BY <1>7 DEF ListInCreationOrder
<1>8. ListInCreationOrder'
  <2>1. ASSUME NEW n \in nodes', link'[n] = Null
        PROVE  \A m \in nodes' : m <= n
    <3>1. CASE link[n] = p
      <4>1. \A m \in nodes : m <= n \/ p <= m
        BY <3>1, <1>1, <1>6, <1>7
      <4>2. \A m \in nodes : m <= p
        BY <3>1, <2>1, <1>2, <1>5
      <4> QED
        BY <4>1, <4>2, <1>1, <1>3, <1>6
    <3>2. CASE link[n] # p
      <4>1. link[n] = Null
        BY <3>2, <2>1, <1>2
      <4> QED
        BY <4>1, <1>1 DEF ListInCreationOrder
    <3> QED
      BY <3>1, <3>2
  <2>2. ASSUME NEW n \in nodes', link'[n] # Null
        PROVE  link'[n] \in nodes' /\ link'[n] > n
                 /\ \A m \in nodes' : m <= n \/ link'[n] <= m
    <3>1. CASE link[n] = p
      <4>1. p > n /\ \A m \in nodes : m <= n \/ p <= m
        BY <3>1, <1>1, <1>6, <1>7
      <4>2. link'[n] = link[p] /\ link[p] # Null
        BY <3>1, <2>2, <1>2
      <4>3. link[p] \in nodes' /\ link[p] > n
        BY <4>1, <4>2, <1>1, <1>3, <1>4, <1>6
      <4>4. ASSUME NEW m \in nodes' PROVE m <= n \/ link[p] <= m
        BY <4>1, <4>2, <1>1, <1>3, <1>4, <1>6
      <4> QED
        BY <4>2, <4>3, <4>4
    <3>2. CASE link[n] # p
      <4>1. link'[n] = link[n] /\ link[n] # Null
        BY <3>2, <2>2, <1>2
      <4> QED
        BY <3>2, <4>1, <1>1, <1>7
    <3> QED
      BY <3>1, <3>2
  <2> QED
    BY <2>1, <2>2 DEF ListInCreationOrder
<1>9. Linked'
  <2>1. PICK pred \in nodes : link[pred] = p
    BY DEF Linked
  <2>2. pred \in nodes'
    BY <2>1, <1>1, <1>6, <1>7
  <2>3. link'[pred] = link[p]
    BY <2>1, <2>2, <1>2
  <2>4. \E n \in nodes' : link'[n] = Null
    <3>1. CASE link[p] = Null
      BY <3>1, <2>2, <2>3
    <3>2. CASE link[p] # Null
      <4>1. PICK n \in nodes : link[n] = Null
        BY DEF Linked
      <4> QED
        BY <4>1, <3>2, <1>1, <1>2, <1>6
    <3> QED
      BY <3>1, <3>2
  <2>5. ASSUME NEW q \in nodes' \ {Head} PROVE \E n \in nodes' : link'[n] = q
    <3>1. PICK n \in nodes : link[n] = q
      BY <2>5, <1>1 DEF Linked
    <3>2. CASE n = p
      BY <3>1, <3>2, <2>2, <2>3
    <3>3. CASE n # p
      BY <3>1, <3>3, <2>5, <1>1, <1>2
    <3> QED
      BY <3>2, <3>3
  <2> QED
    BY <2>4, <2>5 DEF Linked, Head
<1>10. \A n \in nodes' : link[n] # p => link'[n] = link[n]
  BY <1>2
<1> QED
  BY <1>1, <1>2, <1>8, <1>9, <1>10
-----------------------------------------------------------------------------
\* nullptr is no process.
LEMMA NullFacts ==
  Null \notin Pid /\ Null \notin Exiters /\ Null # NoProc /\ Null # Terminal
<1>1. \A p \in Pid : p \in Int
  BY MaxPidAssumption DEF Pid
<1>2. NoProc \in Int /\ Terminal \in Int
  BY DEF NoProc, Terminal
<1>3. \A p \in Exiters : p \in Pid
  BY ClientsAssumption
<1> QED
  BY <1>1, <1>2, <1>3, NullAssumption

\* The invariant holds when only process 0 is in the list.
LEMMA InitIndInv == Init => IndInv
<1> SUFFICES ASSUME Init PROVE IndInv
  OBVIOUS
<1> USE MaxPidAssumption, NullAssumption, ClientsAssumption
      DEF Init, Pid, NoProc, Terminal, Head
<1>1. TypeOK
  BY DEF TypeOK, Control
<1>2. ListInCreationOrder /\ Linked
  BY DEF ListInCreationOrder, Linked
<1>3. Population
  BY DEF Population
<1>4. Null \notin Exiters
  BY NullFacts
<1>5. RunsAhead /\ Holder /\ RegistersBelong
  BY <1>4 DEF RunsAhead, Holder, RegistersBelong
<1> QED
  BY <1>1, <1>2, <1>3, <1>5 DEF IndInv

\* A step that leaves the list alone leaves the facts about it alone.
LEMMA SameList ==
  ASSUME IndInv, UNCHANGED <<numProcs, nodes, link, stacks>>
  PROVE  ListInCreationOrder' /\ Linked' /\ \A n : Succ(n)' = Succ(n)
BY DEF IndInv, ListInCreationOrder, Linked, Succ

\* A new process is put at the end of the list.
LEMMA CreateProcessStep == IndInv /\ CreateProcess => IndInv'
<1> SUFFICES ASSUME IndInv, CreateProcess PROVE IndInv'
  OBVIOUS
<1> USE MaxPidAssumption, NullAssumption, ClientsAssumption
      DEF IndInv, CreateProcess, Pid, NoProc, Terminal
<1>1. ListInv /\ numProcs \in Pid /\ Insert(numProcs)
  BY DEF ListInv, TypeOK
<1>2. /\ link' \in [Pid -> Pid \cup {Null}]
      /\ nodes' = nodes \cup {numProcs}
      /\ ListInCreationOrder' /\ Linked'
      /\ \A n \in nodes : link[n] # Null => link'[n] = link[n]
  BY <1>1, InsertFacts
<1>3. curPtr' = curPtr
  BY DEF Insert
<1>4. TypeOK'
  BY <1>1, <1>2, <1>3 DEF TypeOK
<1>5. Population'
  <2>1. numProcs \in Int /\ numProcs >= 1 /\ numProcs' = numProcs + 1
    BY DEF TypeOK
  <2>2. nodes' \subseteq 0 .. numProcs' - 1
    BY <1>2, <2>1 DEF Population
  <2>3. NoProc \in nodes' /\ Terminal \in nodes'
    BY <1>2, <2>1 DEF Population
  <2>4. stacks' = nodes' /\ (target' # Null => target' \in nodes')
    BY <1>2 DEF Population
  <2>5. \A p \in Pid : blocked'[p] => p < numProcs'
    BY <2>1 DEF Population
  <2> QED
    BY <2>2, <2>3, <2>4, <2>5 DEF Population
<1>6. curProc \notin Exiters
  <2>1. curProc = cpu /\ Null \notin Exiters
    BY NullFacts DEF RegistersBelong
  <2> QED
    BY <2>1
<1>7. RunsAhead'
  <2>1. curPtr \in {Succ(nextProc), Head} => curPtr \in {Succ(nextProc)', Head} \/ nextProc = Null
    BY <1>2 DEF RunsAhead, Succ
  <2> QED
    BY <2>1, <1>2, <1>3, <1>6 DEF RunsAhead
<1>8. Holder'
  BY <1>1, <1>2, <1>6 DEF Holder, TypeOK
<1>9. RegistersBelong'
  BY <1>1, <1>2 DEF RegistersBelong, TypeOK, Population
<1> QED
  BY <1>2, <1>4, <1>5, <1>7, <1>8, <1>9

\* A process that ends leaves the list, and its stack is given back.
LEMMA ExitStep == IndInv /\ Exit => IndInv'
<1> SUFFICES ASSUME IndInv, Exit PROVE IndInv'
  OBVIOUS
<1> USE MaxPidAssumption, NullAssumption, ClientsAssumption
      DEF IndInv, Exit, ProcessExit, UnloadProcess, Pid, NoProc, Terminal
<1>1. /\ curProc = cpu /\ cpu \in Exiters /\ cpu \in nodes
      /\ cpu # Head /\ cpu # Terminal /\ cpu # Null
  BY DEF RegistersBelong, Holder, TypeOK, Head
<1>2. ListInv /\ Remove(cpu)
  BY <1>1 DEF ListInv
<1>3. /\ link' \in [Pid -> Pid \cup {Null}]
      /\ nodes' = nodes \ {cpu}
      /\ ListInCreationOrder' /\ Linked'
      /\ \A n \in nodes' : link[n] # cpu => link'[n] = link[n]
  BY <1>1, <1>2, RemoveFacts
<1>4. curPtr' = curPtr
  BY DEF Remove
<1>5. Terminal \in nodes /\ Head \in nodes
  BY <1>1 DEF Holder, Population, Head
<1>6. /\ nextProc \in nodes'
      /\ curPtr \in nodes'
      /\ curPtr = Succ(nextProc)
      /\ link[nextProc] # cpu
  <2>1. nextProc \in {Succ(cpu), Head} /\ curPtr = Succ(nextProc)
    BY <1>1 DEF RunsAhead
  <2>2. /\ \A n \in nodes : Succ(n) \in nodes
        /\ \A n \in nodes : link[n] # Null => Succ(n) = link[n] /\ link[n] > n
        /\ \A n \in nodes : link[n] = Null => Succ(n) = Head
        /\ Succ(Head) = Terminal
    BY <1>2, <1>5, SuccFacts
  <2>3. CASE nextProc = Head
    BY <2>1, <2>2, <2>3, <1>1, <1>3, <1>5 DEF Head
  <2>4. CASE nextProc # Head
    <3>1. nextProc = link[cpu] /\ nextProc > cpu /\ nextProc \in nodes
      BY <2>1, <2>2, <2>4, <1>1
    <3>2. link[nextProc] = Null \/ link[nextProc] > nextProc
      BY <2>2, <3>1
    <3>3. nextProc \in Int /\ cpu \in Int
      BY <3>1, <1>1 DEF TypeOK
    <3>4. link[nextProc] # cpu
      BY <3>1, <3>2, <3>3, <1>1
    <3>5. curPtr \in nodes /\ curPtr # cpu
      BY <2>1, <2>2, <3>1, <3>4, <1>1
    <3> QED
      BY <2>1, <3>1, <3>3, <3>4, <3>5, <1>3
  <2> QED
    BY <2>3, <2>4
<1>7. TypeOK'
  BY <1>3, <1>4 DEF TypeOK, Control
<1>8. Population'
  BY <1>1, <1>3 DEF TypeOK, Population
<1>9. RunsAhead'
  BY <1>3, <1>4, <1>6 DEF RunsAhead, Succ
<1>10. Holder'
  BY <1>1 DEF Holder
<1>11. RegistersBelong'
  BY <1>3 DEF RegistersBelong
<1> QED
  BY <1>3, <1>7, <1>8, <1>9, <1>10, <1>11

\* The two actions that run ScheduleNext.
LEMMA ScheduleStep ==
  ASSUME IndInv, ScheduleNext, nextProc # Null, pc' = "handler",
         curPtr \in {Succ(nextProc), Head},
         UNCHANGED <<numProcs, nodes, link, stacks>>
  PROVE  RunsAhead' /\ curProc' \in nodes /\ nextProc' \in nodes /\ curPtr' \in nodes
<1>1. /\ curProc' = nextProc /\ nextProc' = curPtr /\ curPtr' = Succ(curPtr)
  BY DEF ScheduleNext
<1>2. nextProc \in nodes /\ curPtr \in nodes
  BY DEF IndInv, RunsAhead
<1>3. Succ(curPtr) \in nodes
  BY <1>2, SuccFacts DEF IndInv, ListInv
<1>4. nextProc' # Null
  BY <1>1, <1>2, NullAssumption DEF IndInv, TypeOK, Pid
<1>5. \A n : Succ(n)' = Succ(n)
  BY SameList
<1>6. Succ(nextProc)' = Succ(curPtr) /\ Succ(curProc)' = Succ(nextProc)
  BY <1>1 DEF Succ
<1> QED
  BY <1>1, <1>2, <1>3, <1>4, <1>6 DEF RunsAhead

\* A process that yields enters the scheduler's loop.
LEMMA YieldStep == IndInv /\ Yield => IndInv'
<1> SUFFICES ASSUME IndInv, Yield PROVE IndInv'
  OBVIOUS
<1> USE MaxPidAssumption, NullAssumption DEF Yield
<1>1. nextProc # Null /\ curPtr \in {Succ(nextProc), Head} /\ numProcs > Terminal /\ target = Null
  BY DEF IndInv, RunsAhead, Holder
<1>2. RunsAhead' /\ curProc' \in nodes /\ nextProc' \in nodes /\ curPtr' \in nodes
  BY <1>1, ScheduleStep
<1>3. ListInCreationOrder' /\ Linked'
  BY SameList
<1>4. curProc = cpu
  BY DEF IndInv, RegistersBelong
<1>5. context' \in [Pid -> Pid \cup {Null}] /\ \A p \in nodes : context'[p] = p
  BY <1>4 DEF SaveContext, IndInv, TypeOK, RegistersBelong
<1>6. TypeOK'
  BY <1>2, <1>5 DEF IndInv, TypeOK, Control
<1>7. Population'
  BY <1>1 DEF IndInv, Population
<1>8. Holder'
  BY <1>1, <1>2 DEF Holder, IndInv, TypeOK, Pid
<1>9. RegistersBelong'
  BY <1>5 DEF RegistersBelong
<1> QED
  BY <1>2, <1>3, <1>6, <1>7, <1>8, <1>9 DEF IndInv

\* The handler goes on past a blocked process.
LEMMA SkipBlockedStep == IndInv /\ SkipBlocked => IndInv'
<1> SUFFICES ASSUME IndInv, SkipBlocked PROVE IndInv'
  OBVIOUS
<1> USE MaxPidAssumption, NullAssumption DEF SkipBlocked
<1>1. nextProc # Null /\ curPtr \in {Succ(nextProc), Head} /\ numProcs > Terminal /\ target = Null
  BY DEF IndInv, RunsAhead, Holder
<1>2. RunsAhead' /\ curProc' \in nodes /\ nextProc' \in nodes /\ curPtr' \in nodes
  BY <1>1, ScheduleStep
<1>3. ListInCreationOrder' /\ Linked'
  BY SameList
<1>4. TypeOK'
  BY <1>2 DEF IndInv, TypeOK, Control
<1>5. Population'
  BY <1>1 DEF IndInv, Population
<1>6. Holder'
  BY <1>1, <1>2 DEF Holder, IndInv, TypeOK, Pid
<1>7. RegistersBelong'
  BY DEF IndInv, RegistersBelong
<1> QED
  BY <1>2, <1>3, <1>4, <1>5, <1>6, <1>7 DEF IndInv

\* StartProcess takes nodes off the scheduler until it has the one it looks for.
LEMMA FindStartedStep == IndInv /\ FindStarted => IndInv'
<1> SUFFICES ASSUME IndInv, FindStarted PROVE IndInv'
  OBVIOUS
<1> USE MaxPidAssumption, NullAssumption DEF FindStarted
<1>1. curPtr \in nodes /\ Succ(curPtr) \in nodes
  BY SuccFacts DEF IndInv, RunsAhead, ListInv
<1>2. ListInCreationOrder' /\ Linked' /\ \A n : Succ(n)' = Succ(n)
  BY SameList DEF IndInv
<1>3. target # Null /\ target \in nodes /\ curProc \notin Exiters /\ numProcs > Terminal
  BY DEF IndInv, Holder, Population
<1>4. TypeOK'
  BY <1>1 DEF IndInv, TypeOK, Control
<1>5. Population'
  BY DEF IndInv, Population
<1>6. RunsAhead'
  BY <1>1, <1>3 DEF IndInv, RunsAhead, Succ, TypeOK, Pid
<1>7. Holder'
  BY <1>3 DEF IndInv, Holder
<1>8. RegistersBelong'
  BY DEF IndInv, RegistersBelong
<1> QED
  BY <1>2, <1>4, <1>5, <1>6, <1>7, <1>8 DEF IndInv

\* The actions that leave the list, _curPtr and __nextProc__ alone.
LEMMA OtherSteps ==
  IndInv /\ (StartProcess \/ Dispatch \/ Block \/ (\E p \in Pid : Unblock(p)) \/ TurnOff
             \/ UNCHANGED vars) => IndInv'
<1> SUFFICES ASSUME IndInv, StartProcess \/ Dispatch \/ Block \/ (\E p \in Pid : Unblock(p))
                              \/ TurnOff \/ UNCHANGED vars
             PROVE  IndInv'
  OBVIOUS
<1> USE MaxPidAssumption, NullAssumption, ClientsAssumption
      DEF StartProcess, Dispatch, Block, Unblock, TurnOff, vars, list
<1>1. UNCHANGED <<numProcs, nodes, link, stacks, curPtr, curProc, nextProc, context, target>>
  OBVIOUS
<1>2. ListInCreationOrder' /\ Linked' /\ \A n : Succ(n)' = Succ(n)
  BY <1>1, SameList
<1>3. Population'
  <2>1. \A p \in Pid : blocked'[p] => blocked[p] \/ p \in nodes
    <3>1. CASE Block
      <4>1. curProc \in nodes
        BY <3>1 DEF IndInv, RegistersBelong, Holder
      <4> QED
        BY <3>1, <4>1 DEF IndInv, TypeOK
    <3>2. CASE \E q \in Pid : Unblock(q)
      BY <3>2 DEF IndInv, TypeOK
    <3>3. CASE blocked' = blocked
      BY <3>3
    <3> QED
      BY <3>1, <3>2, <3>3
  <2>2. \A p \in nodes : p < numProcs
    BY DEF IndInv, TypeOK, Population
  <2> QED
    BY <1>1, <2>1, <2>2 DEF IndInv, Population
<1>4. pc = "handler" => cpu' \in {cpu, context[curProc]} /\ context[curProc] = curProc
  BY DEF IndInv, RegistersBelong, Holder
<1>5. TypeOK'
  <2>1. blocked' \in [Pid -> BOOLEAN]
    BY DEF IndInv, TypeOK
  <2>2. cpu' \in Pid \cup {Null} /\ pc' \in Control
    BY <1>4 DEF IndInv, TypeOK, Control, Dispatch
  <2> QED
    BY <1>1, <2>1, <2>2 DEF IndInv, TypeOK
<1>6. RegistersBelong'
  BY <1>1, <1>4 DEF IndInv, RegistersBelong
<1>7. RunsAhead'
  BY <1>1, <1>2, <1>4 DEF IndInv, RunsAhead, RegistersBelong, Succ
<1>8. Holder'
  <2>1. CASE StartProcess
    BY <2>1, <1>1 DEF IndInv, Holder
  <2>2. CASE Dispatch
    BY <2>2, <1>1 DEF IndInv, Holder
  <2>3. CASE Block \/ TurnOff
    BY <2>3, <1>1, NullFacts DEF IndInv, Holder
  <2>4. CASE UNCHANGED <<pc, cpu>>
    BY <2>4, <1>1 DEF IndInv, Holder
  <2> QED
    BY <2>1, <2>2, <2>3, <2>4
<1> QED
  BY <1>2, <1>3, <1>5, <1>6, <1>7, <1>8 DEF IndInv

\* The strengthening holds in every reachable state.
THEOREM Inductive == Spec => []IndInv
<1>1. Init => IndInv
  BY InitIndInv
<1>2. IndInv /\ [Next]_vars => IndInv'
  <2> SUFFICES ASSUME IndInv, [Next]_vars PROVE IndInv'
    OBVIOUS
  <2>1. CASE CreateProcess
    BY <2>1, CreateProcessStep
  <2>2. CASE FindStarted
    BY <2>2, FindStartedStep
  <2>3. CASE Yield
    BY <2>3, YieldStep
  <2>4. CASE SkipBlocked
    BY <2>4, SkipBlockedStep
  <2>5. CASE Exit
    BY <2>5, ExitStep
  <2>6. CASE StartProcess \/ Dispatch \/ Block \/ (\E p \in Pid : Unblock(p)) \/ TurnOff
               \/ UNCHANGED vars
    BY <2>6, OtherSteps
  <2> QED
    BY <2>1, <2>2, <2>3, <2>4, <2>5, <2>6 DEF Next, Spin
<1> QED
  BY <1>1, <1>2, PTL DEF Spec
-----------------------------------------------------------------------------
\* The types are kept: in particular _curPtr never becomes null, although
\* GetNext follows it without a test.
THEOREM TypeCorrect == Spec => []TypeOK
<1>1. IndInv => TypeOK
  BY DEF IndInv
<1> QED
  BY <1>1, Inductive, PTL

\* A process that was unloaded never executes again, with any number of
\* processes created and exited in any order.
THEOREM UnloadedNeverRuns == Spec => []NothingUnloadedRuns
<1>1. IndInv => NothingUnloadedRuns
  BY DEF IndInv, NothingUnloadedRuns, Holder, RegistersBelong, Population
<1> QED
  BY <1>1, Inductive, PTL

\* Neither _curPtr nor __nextProc__ ever points to a deleted node.
THEOREM PointersStayValid == Spec => []NoDanglingPointer
<1>1. IndInv => NoDanglingPointer
  BY DEF IndInv, NoDanglingPointer, RunsAhead
<1> QED
  BY <1>1, Inductive, PTL

\* Every context switch saves and restores the registers of one process.
THEOREM ContextsNeverMix == Spec => []RegistersBelong
<1>1. IndInv => RegistersBelong
  BY DEF IndInv
<1> QED
  BY <1>1, Inductive, PTL

\* The run list stays complete and in the order of creation.
THEOREM ListStaysOrdered == Spec => []ListInCreationOrder
<1>1. IndInv => ListInCreationOrder
  BY DEF IndInv
<1> QED
  BY <1>1, Inductive, PTL

\* Each step of the process manager is a step of the cooperative scheduler or
\* changes nothing that the scheduler has.
LEMMA StepSimulation ==
  IndInv /\ [Next]_vars => [Abstract!Next]_(Abstract!avars)
<1> SUFFICES ASSUME IndInv, [Next]_vars PROVE [Abstract!Next]_(Abstract!avars)
  OBVIOUS
<1> USE DEF Abstract!avars, Abstract!Next
<1> DEFINE waiting == {p \in nodes : blocked[p]}
<1>1. CASE CreateProcess
  <2>1. cpu \in nodes \cup {Null}
    BY <1>1 DEF CreateProcess, IndInv, Holder, RegistersBelong
  <2>2. nodes' = nodes \cup {numProcs} /\ numProcs \in Pid
    BY <1>1 DEF CreateProcess, Insert, IndInv, TypeOK, Pid
  <2>3. ~blocked[numProcs] /\ blocked' = blocked
    BY <1>1, <2>2, MaxPidAssumption DEF CreateProcess, IndInv, TypeOK, Population, Pid
  <2>4. waiting' = waiting
    BY <2>2, <2>3
  <2> QED
    BY <1>1, <2>1, <2>2, <2>4 DEF CreateProcess, Abstract!Admit
<1>2. CASE Exit
  <2>1. cpu = curProc /\ cpu \in nodes /\ cpu # NoProc /\ cpu # Head
    BY <1>2, NullFacts, ClientsAssumption
       DEF Exit, ProcessExit, IndInv, Holder, RegistersBelong, Head
  <2>2. nodes' = nodes \ {cpu} /\ blocked' = blocked
    BY <1>2, <2>1 DEF Exit, ProcessExit, UnloadProcess, Remove
  <2> QED
    BY <1>2, <2>1, <2>2 DEF Exit, ProcessExit, Abstract!Leave
<1>3. CASE Block
  <2>1. cpu = curProc /\ cpu \in nodes /\ cpu # NoProc
    BY <1>3 DEF Block, IndInv, Holder, RegistersBelong
  <2>2. waiting' = waiting \cup {cpu}
    BY <1>3, <2>1 DEF Block, list, IndInv, TypeOK
  <2> QED
    BY <1>3, <2>1, <2>2 DEF Block, list, Abstract!Wait
<1>4. ASSUME NEW p \in Pid, Unblock(p) PROVE [Abstract!Next]_(Abstract!avars)
  <2>1. waiting' = waiting \ {p}
    BY <1>4 DEF Unblock, list, IndInv, TypeOK
  <2>2. CASE p \in nodes
    <3>1. p \in waiting
      BY <1>4, <2>2 DEF Unblock
    <3>2. Abstract!Wake(p)
      BY <1>4, <2>1 DEF Unblock, list, Abstract!Wake
    <3> QED
      BY <3>1, <3>2
  <2>3. CASE p \notin nodes
    BY <1>4, <2>1, <2>3 DEF Unblock, list
  <2> QED
    BY <2>2, <2>3
<1>5. CASE Dispatch
  <2>1. cpu' = curProc /\ curProc \in nodes \ waiting
    BY <1>5 DEF Dispatch, IndInv, Holder, RegistersBelong
  <2> QED
    BY <1>5, <2>1 DEF Dispatch, list, Abstract!Switch
<1>6. CASE UNCHANGED <<numProcs, nodes, blocked, cpu>>
  BY <1>6
<1> QED
  BY <1>1, <1>2, <1>3, <1>4, <1>5, <1>6
     DEF Next, vars, list, StartProcess, FindStarted, Yield, SkipBlocked, TurnOff, Spin

\* The process manager implements the cooperative scheduler.
THEOREM Implements == Spec => CooperativeSchedulerSpec
<1>1. Init => Abstract!Init
  BY MaxPidAssumption DEF Init, Abstract!Init, Pid, NoProc
<1>2. IndInv /\ [Next]_vars => [Abstract!Next]_(Abstract!avars)
  BY StepSimulation
<1> QED
  BY <1>1, <1>2, Inductive, PTL DEF Spec, Abstract!Spec, CooperativeSchedulerSpec
=============================================================================
