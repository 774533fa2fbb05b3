--------------------------- MODULE CaseLifecycle ---------------------------
(***************************************************************************)
(* What a rescue case promises, without offers, approvals, timers or the   *)
(* workforce system: it moves along the transition map of RescueStates, it *)
(* names a covering employee exactly while it is covered, only somebody it *)
(* contacted can be that employee, and it contacts people only on its way  *)
(* into the offering or while offering.  The orchestrator (Rescue) is      *)
(* checked to implement this module.                                       *)
(***************************************************************************)
EXTENDS RescueStates

CONSTANTS Employees, Cases, NoOne

VARIABLES
  phase,     \* [Cases -> State \cup {"NONE"}]
  winner,    \* [Cases -> Employees \cup {NoOne}]
  invited    \* [Cases -> SUBSET Employees]: who was ever sent an offer of the case

vars == <<phase, winner, invited>>

Init ==
  /\ phase = [c \in Cases |-> "NONE"]
  /\ winner = [c \in Cases |-> NoOne]
  /\ invited = [c \in Cases |-> {}]

\* The phases in which a handler may contact people.
Contacting == {"NONE", "OPEN", "OFFERING", "COVERED"}

Move(c, to, who, asked) ==
  /\ phase' = [phase EXCEPT ![c] = to]
  /\ winner' = [winner EXCEPT ![c] = who]
  /\ invited' = [invited EXCEPT ![c] = asked]

\* A report opens a case; a manager's mark opens and confirms it in one step.
Open(c) ==
  /\ phase[c] = "NONE"
  /\ \E to \in {"OPEN", "OFFERING", "ESCALATED"}, asked \in SUBSET Employees :
       /\ to = "OPEN" => asked = {}
       /\ Move(c, to, NoOne, asked)

\* A wave sent, or a move along the map to a phase without a winner.
Advance(c) ==
  \E to \in (Successors(phase[c]) \ Winning) \cup ({phase[c]} \cap {"OFFERING"}),
     asked \in SUBSET Employees :
    /\ invited[c] \subseteq asked
    /\ asked # invited[c] => phase[c] \in Contacting /\ to \in {"OFFERING", "ESCALATED"}
    /\ Move(c, to, NoOne, asked)

\* One of the people contacted wins the case.
Win(c) ==
  \E e \in invited[c], to \in Successors(phase[c]) \cap Winning : Move(c, to, e, invited[c])

Next == \E c \in Cases : Open(c) \/ Advance(c) \/ Win(c)

Spec == Init /\ [][Next]_vars
=============================================================================
