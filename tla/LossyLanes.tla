----------------------------- MODULE LossyLanes -----------------------------
(***************************************************************************)
(* What the message bus promises its users, without its queues, tasks and  *)
(* coroutines: an offered message is refused, spilled to the sink or       *)
(* accepted into its lane; a lane is first in, first out and hands every   *)
(* message out at most once; what can be lost, and by which event, is      *)
(* explicit, so that every loss can be laid to one.                        *)
(***************************************************************************)
EXTENDS Naturals, Sequences, FiniteSets

CONSTANTS
    Messages,
    Lanes,
    LaneOf(_),       \* the lane of a message
    Beside(_),       \* the lanes that may lose a message when lane l delivers
    CancelDroppable  \* the lanes that may lose one when a consumer is cancelled

VARIABLES
    fate,    \* [Messages -> Fates]
    lane,    \* [Lanes -> Seq(Messages)]: accepted and not yet handed out
    cancels  \* history: how many waiting consumers were cancelled

vars == <<fate, lane, cancels>>

Fates == {"new", "offered", "refused", "spilled", "accepted", "delivered", "lost"}

Init ==
    /\ fate = [m \in Messages |-> "new"]
    /\ lane = [l \in Lanes |-> <<>>]
    /\ cancels = 0

Turns(m, from, to) ==
    /\ fate[m] = from
    /\ fate' = [fate EXCEPT ![m] = to]
    /\ UNCHANGED cancels

Offer(m)  == Turns(m, "new", "offered") /\ UNCHANGED lane
Refuse(m) == Turns(m, "offered", "refused") /\ UNCHANGED lane
Spill(m)  == Turns(m, "offered", "spilled") /\ UNCHANGED lane
Accept(m) ==
    /\ Turns(m, "offered", "accepted")
    /\ lane' = [lane EXCEPT ![LaneOf(m)] = Append(@, m)]

\* The first messages of the lanes D are handed out, those of the lanes L are
\* lost.
HandOut(D, L) ==
    /\ \A l \in D \cup L : lane[l] # <<>>
    /\ lane' = [l \in Lanes |-> IF l \in D \cup L THEN Tail(lane[l]) ELSE lane[l]]
    /\ fate' = [m \in Messages |->
                  IF \E l \in D : m = Head(lane[l]) THEN "delivered"
                  ELSE IF \E l \in L : m = Head(lane[l]) THEN "lost"
                  ELSE fate[m]]

\* A consumer gets the first message of lane d; lanes beside d may pay for it.
Deliver(d) ==
    /\ \E L \in SUBSET Beside(d) : HandOut({d}, L)
    /\ UNCHANGED cancels

\* A consumer is cancelled while it waits: the only event that may lose a
\* message without delivering one.
CancelConsumer ==
    /\ cancels' = cancels + 1
    /\ \E L \in SUBSET CancelDroppable : HandOut({}, L)

Next ==
    \/ \E m \in Messages : Offer(m) \/ Refuse(m) \/ Spill(m) \/ Accept(m)
    \/ \E d \in Lanes : Deliver(d)
    \/ CancelConsumer

Spec == Init /\ [][Next]_vars
=============================================================================
