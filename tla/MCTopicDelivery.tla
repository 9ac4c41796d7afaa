-------------------------- MODULE MCTopicDelivery --------------------------
(***************************************************************************)
(* Instances of TopicDelivery.  ann owns subscriptions a1 and a2, bob owns *)
(* b1.  A run takes the subscriptions it is about.                         *)
(***************************************************************************)
EXTENDS TopicDelivery, TLC

CONSTANTS e1, e2, e3, ann, bob, a1, a2, b1

MCOwner == [s \in Subscription |-> IF s = b1 THEN bob ELSE ann]

FromBegin == 0
OnlyNewEvents == -1

AllFromBegin == [s \in Subscription |-> FromBegin]
AllFromOne == [s \in Subscription |-> 1]

\* ann's plain subscription from the beginning, her filtered one from the
\* second event, bob's plain one for new events.
Mixed == [s \in Subscription |->
            CASE s = a1 -> FromBegin [] s = a2 -> 1 [] s = b1 -> OnlyNewEvents]

\* Two filtered subscriptions of ann's; bob's is plain and OnlyNewEvents.
BobOnlyNew == [s \in Subscription |->
                 IF s = a1 THEN FromBegin ELSE OnlyNewEvents]

AcceptsAll == [s \in Subscription |-> Event]
AcceptsNotFirst == [s \in Subscription |->
                      IF s \in Filtered THEN Event \ {e1} ELSE Event]

EventSymmetry == Permutations(Event)
=============================================================================
