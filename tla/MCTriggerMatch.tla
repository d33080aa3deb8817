---------------------------- MODULE MCTriggerMatch ----------------------------
(***************************************************************************)
(* Instances of TriggerMatch for TLC: two playbooks with every combination *)
(* of trigger, order and priority; one condition and one payload for every *)
(* case of _condition_value_matches.                                       *)
(***************************************************************************)
EXTENDS TriggerMatch

CONSTANTS elastic, elasticAlert, webhookAlert, noTrigger, tags, severity, x, y

AlertTypes == [s \in Sources |-> IF s = Webhook THEN webhookAlert ELSE elasticAlert]

One(v) == [list |-> FALSE, items |-> {v}]
Many(S) == [list |-> TRUE, items |-> S]
Field(k, v) == [f \in {k} |-> v]
Nothing == [f \in {} |-> One(x)]

Conditions == {Nothing, Field(tags, One(x)), Field(tags, Many({x, y}))}

\* Every trigger, with two orders, all priorities and some conditions.
AllMetas ==
    [trigger : {elastic, elasticAlert, Webhook, noTrigger}, order : {10, 1000},
     priority : Queues, conditions : Conditions]

AllPayloads == {Nothing, Field(severity, One(x)), Field(tags, One(x)),
                Field(tags, Many({y})), Field(tags, Many({x, severity}))}
=============================================================================
