--------------------------- MODULE BusRefinement ---------------------------
(***************************************************************************)
(* MessageBus implements LossyLanes.  A message taken by a get() task of   *)
(* consume_inbound's race is still first in its abstract lane: the race    *)
(* decides whether it is handed out or lost.                               *)
(***************************************************************************)
EXTENDS MessageBus

\* The result of a finished get() task, in front of its queue.
InHand(S) == IF S = {} THEN <<>> ELSE <<CHOOSE m \in S : TRUE>>

AbstractLane(l) ==
    (IF l = "inbound" THEN InHand(userHeld)
     ELSE IF l = "inbound_internal" THEN InHand(internalHeld) ELSE <<>>) \o queue[l]

AbstractFate(m) ==
    CASE pub[m] = "new" -> "new"
      [] pub[m] \in {"subscribers", "blocked", "persisting"} -> "offered"
      [] pub[m] \in {"rejected", "raised"} -> "refused"
      [] pub[m] = "accepted" /\ m \in delivered -> "delivered"
      [] pub[m] = "accepted" /\ m \in spilled -> "spilled"
      [] pub[m] = "accepted" /\ (Queued(m) \/ Held(m)) -> "accepted"
      [] OTHER -> "lost"

\* consume_inbound returns user_task's message and never looks at
\* internal_task's.
LostBeside(l) == IF l = "inbound" THEN {"inbound_internal"} ELSE {}

Promise == INSTANCE LossyLanes
             WITH Messages <- Msgs, LaneOf <- Lane, Beside <- LostBeside,
                  CancelDroppable <- {"inbound", "inbound_internal"},
                  fate <- [m \in Msgs |-> AbstractFate(m)],
                  lane <- [l \in Lanes |-> AbstractLane(l)],
                  cancels <- cancels

\* The bus delivers each lane in the order its publishers were told True, at
\* most once and never what was refused or spilled.  A message that was
\* accepted is lost in two ways only: the first internal message in the step
\* that delivers a user message, and the first message of an inbound lane in
\* the step that cancels a waiting consume_inbound.  Nothing outbound is lost.
BusKeepsPromise == Promise!Spec
=============================================================================
