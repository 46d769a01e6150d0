--------------------------- MODULE OrderLifecycle ---------------------------
(***************************************************************************)
(* What the automated trader promises about the orders it was given: an    *)
(* order waits for its enter condition, and enters the market at most once, *)
(* on account of one trade the order broker reported filled, which enters  *)
(* no other order. Nothing is dropped and nothing goes back to waiting.    *)
(*                                                                         *)
(* AutomatedTrading.tla is the detailed specification of the threads, the  *)
(* four parallel lists and the messages behind this.                       *)
(***************************************************************************)
EXTENDS Integers

CONSTANTS
  Orders,     (* the orders *)
  Fills       (* the trade requests the order broker can report filled *)

VARIABLES
  waiting,    (* orders not entered yet *)
  entered     (* [order, fill]: the orders entered and the fills that did it *)

vars == <<waiting, entered>>

Init == waiting = {} /\ entered = {}

Fresh(o) == o \notin waiting /\ \A e \in entered : e.order # o

Start(o) ==
  /\ Fresh(o)
  /\ waiting' = waiting \union {o}
  /\ UNCHANGED entered

Enter(o, f) ==
  /\ o \in waiting
  /\ \A e \in entered : e.fill # f
  /\ waiting' = waiting \ {o}
  /\ entered' = entered \union {[order |-> o, fill |-> f]}

Next ==
  \/ \E o \in Orders : Start(o)
  \/ \E o \in waiting, f \in Fills : Enter(o, f)

Spec == Init /\ [][Next]_vars
=============================================================================
