--------------------------- MODULE RequestTiming ---------------------------
(***************************************************************************)
(* What every symmetric agent promises of one connection or socket: at     *)
(* most Max requests wait for a reply, replies are told to requests in the *)
(* order of sending, and a latency sample is the time between a reply and  *)
(* the transmission of the request it answers.  A reply may go unsampled.  *)
(***************************************************************************)
EXTENDS Naturals

CONSTANT Max   \* requests that may wait for their reply

VARIABLES
  issued,      \* requests sent
  answered,    \* requests told to have been answered
  timed        \* last latency sample: the reply, and the request it was timed
               \* against; both 0 before the first

vars == <<issued, answered, timed>>

Init == issued = 0 /\ answered = 0 /\ timed = [reply |-> 0, request |-> 0]

\* A request is sent.
Issue == /\ issued - answered < Max
         /\ issued' = issued + 1
         /\ UNCHANGED <<answered, timed>>

\* The oldest waiting request is answered; no sample is taken.
Answer == /\ answered < issued
          /\ answered' = answered + 1
          /\ UNCHANGED <<issued, timed>>

\* The oldest waiting request is answered and timed against itself.
AnswerTimed ==
  /\ answered < issued
  /\ answered' = answered + 1
  /\ timed' = [reply |-> answered', request |-> answered']
  /\ UNCHANGED issued

Next == Issue \/ Answer \/ AnswerTimed

Spec == Init /\ [][Next]_vars
=============================================================================
