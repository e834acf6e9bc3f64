------------------------------- MODULE Asking --------------------------------
(***************************************************************************)
(* A question to the decisions of niwa that are functions of what was read  *)
(* before: its topic is taken first, and then what is put.                  *)
(***************************************************************************)
CONSTANT NoQuestion

VARIABLE question

TakeOneOf(topics) == question = NoQuestion /\ question' \in [topic : topics]

Taken(topic) == question = [topic |-> topic]
Put(q) == question' = [topic |-> question.topic, put |-> q]

IsAsked(topic) == question # NoQuestion /\ question.topic = topic /\ "put" \in DOMAIN question
=============================================================================
