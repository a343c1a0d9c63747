------------------------ MODULE CooperativeScheduler ------------------------
(***************************************************************************)
(* What the process manager promises to the code that runs on it, without  *)
(* saying how: there is one running process; a process that waits or has   *)
(* left is never given the processor; a process that left never returns.   *)
(* Nothing is said of queues, pointers, contexts or handlers.              *)
(***************************************************************************)
EXTENDS Integers

CONSTANTS Idle,    \* a process that is there from the start and never waits
          Nobody   \* who runs before the first process does

VARIABLES count,    \* how many processes there have been
          members,  \* the processes that have not left
          waiting,  \* the members that wait to be woken
          running   \* who has the processor

avars == <<count, members, waiting, running>>

Init ==
  /\ count = Idle + 1
  /\ members = {Idle}
  /\ waiting = {}
  /\ running = Nobody

\* A member, or the code that runs before there is one, adds a process.
Admit ==
  /\ running \in members \cup {Nobody}
  /\ count' = count + 1
  /\ members' = members \cup {count}
  /\ UNCHANGED <<waiting, running>>

\* The running process leaves.  It keeps the processor until the next Switch
\* and can do nothing else that matters here.
Leave ==
  /\ running \in members \ {Idle}
  /\ members' = members \ {running}
  /\ waiting' = waiting \ {running}
  /\ UNCHANGED <<count, running>>

\* The running process starts to wait.
Wait ==
  /\ running \in members \ {Idle}
  /\ waiting' = waiting \cup {running}
  /\ UNCHANGED <<count, members, running>>

\* Somebody is woken.
Wake(p) ==
  /\ waiting' = waiting \ {p}
  /\ UNCHANGED <<count, members, running>>

\* The processor goes to a member that does not wait.
Switch ==
  /\ running' \in members \ waiting
  /\ UNCHANGED <<count, members, waiting>>

Next == Admit \/ Leave \/ Wait \/ (\E p \in waiting : Wake(p)) \/ Switch

Spec == Init /\ [][Next]_avars
=============================================================================
