-------------------------- MODULE OrderConfirmation --------------------------
(***************************************************************************)
(* What the calling subsystem promises about an order, without the poll,    *)
(* the dispatcher, the workers or the callbacks: an order is called at most *)
(* Cap times, one call at a time and only while it is pending; a call that  *)
(* ends either decides the order or leaves it pending; the order is given   *)
(* up on only after its last attempt ended; and only the staff of the shop  *)
(* opens it again, which adds one attempt.                                  *)
(***************************************************************************)
EXTENDS Naturals

CONSTANTS Orders, Cap

VARIABLES
  status,    \* status[o] of the order
  made,      \* made[o]: attempts made so far
  calling    \* the orders with an attempt that has not ended

vars == <<status, made, calling>>

Init ==
  /\ status = [o \in Orders |-> "absent"]
  /\ made = [o \in Orders |-> 0]
  /\ calling = {}

Set(o, s) == status' = [status EXCEPT ![o] = s]

Place(o) ==
  /\ status[o] = "absent"
  /\ Set(o, "pending")
  /\ UNCHANGED <<made, calling>>

(* The next attempt of some orders, all of them pending and below the cap. *)
Call(S) ==
  /\ \A o \in S : status[o] = "pending" /\ o \notin calling /\ made[o] < Cap
  /\ made' = [o \in Orders |-> IF o \in S THEN made[o] + 1 ELSE made[o]]
  /\ calling' = calling \cup S
  /\ UNCHANGED status

(* An attempt ends without a decision, or too late for one. *)
EndWithout(o) ==
  /\ o \in calling
  /\ calling' = calling \ {o}
  /\ UNCHANGED <<status, made>>

(* An attempt ends with the decision of the customer. *)
EndWith(o, decision) ==
  /\ o \in calling
  /\ status[o] = "pending"
  /\ Set(o, decision)
  /\ calling' = calling \ {o}
  /\ UNCHANGED made

(* The last attempt ends, or has ended, and the order is given up on. *)
GiveUp(o) ==
  /\ status[o] = "pending"
  /\ made[o] >= Cap
  /\ Set(o, "unreachable")
  /\ calling' = calling \ {o}
  /\ UNCHANGED made

Reopen(o) ==
  /\ status[o] = "unreachable"
  /\ o \notin calling
  /\ Set(o, "pending")
  /\ made' = [made EXCEPT ![o] = @ + 1]
  /\ calling' = calling \cup {o}

Remove(o) ==
  /\ status[o] \notin {"absent", "deleted"}
  /\ Set(o, "deleted")
  /\ made' = [made EXCEPT ![o] = 0]
  /\ calling' = calling \ {o}

Next ==
  \/ \E S \in SUBSET Orders : Call(S)
  \/ \E o \in Orders :
       \/ Place(o) \/ EndWithout(o) \/ GiveUp(o) \/ Reopen(o) \/ Remove(o)
       \/ \E decision \in {"confirmed", "cancelled"} : EndWith(o, decision)

Spec == Init /\ [][Next]_vars
=============================================================================
