----------------------------- MODULE MCOperator -----------------------------
(***************************************************************************)
(* Operator for TLC: the objects of the six programmes in full, and        *)
(* requests for each of them with and without ports of the user's choice.  *)
(***************************************************************************)
EXTENDS Operator

Sidecar == ConfigMap("filebeat-sidecar")

Ask(p, es, kibana) ==
    [programmeNum    |-> p,
     resourceStorage |-> Nil,
     nodePorts       |-> [elasticsearch |-> es, kibana |-> kibana]]

\* Every programme, with the default ports or, for the fourth, with both ends of
\* the range; then one port out of range, one that is the default of the other
\* field, and what the webhook refuses.
EveryProgramme ==
    {Ask(p, 0, 0) : p \in (1..6) \ {4}}
        \cup {Ask(4, 32767, 30000), Ask(1, 0, 80), Ask(2, 31056, 0),
              Ask(0, 0, 0), Ask(7, 0, 0)}
=============================================================================
