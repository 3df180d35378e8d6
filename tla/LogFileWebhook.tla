--------------------------- MODULE LogFileWebhook ---------------------------
(***************************************************************************)
(* The admission webhooks of the LogFile resource                          *)
(* (api/v1/logfile_webhook.go).  The API server calls Default on every     *)
(* CREATE and UPDATE of a LogFile, then ValidateCreate or ValidateUpdate,  *)
(* and refuses the request when one of them answers an error.              *)
(*                                                                         *)
(* A LogFile specification is a record of the programme number and of the  *)
(* two optional parts.  Nil is a part the user did not give; inside a part *)
(* the zero value of a field ("" or 0) is a field the user did not give.   *)
(***************************************************************************)
EXTENDS Integers

CONSTANTS
    Nil,
    Quantities   \* the strings a storage field may hold

ASSUME QuantitiesAssumption == {"", "10Gi", "100Gi"} \subseteq Quantities

ResourceFields == {"elasticsearch", "kafka", "zookeeper"}
NodePortFields == {"elasticsearch", "kibana"}

\* What a user may submit, and what the operator reads after defaulting.
SubmittedSpecs ==
    [programmeNum    : Int,
     resourceStorage : {Nil} \cup [ResourceFields -> Quantities],
     nodePorts       : {Nil} \cup [NodePortFields -> Int]]

AdmittedSpecs ==
    [programmeNum    : 1..6,
     resourceStorage : [ResourceFields -> Quantities],
     nodePorts       : [NodePortFields -> Int]]

-----------------------------------------------------------------------------
DefaultStorage(f) == IF f = "elasticsearch" THEN "100Gi" ELSE "10Gi"

DefaultNodePort(f) == IF f = "elasticsearch" THEN 31920 ELSE 31056

\* The two reflection loops: a nil part is replaced, then each zero field is.
FillStorage(given) ==
    [f \in ResourceFields |->
        IF given = Nil \/ given[f] = "" THEN DefaultStorage(f) ELSE given[f]]

FillNodePorts(given) ==
    [f \in NodePortFields |->
        IF given = Nil \/ given[f] = 0 THEN DefaultNodePort(f) ELSE given[f]]

Default(spec) ==
    [programmeNum    |-> spec.programmeNum,
     resourceStorage |-> FillStorage(spec.resourceStorage),
     nodePorts       |-> FillNodePorts(spec.nodePorts)]

\* Defect for TypeOK: a seventh programme is let through.
ValidateCreateOffByOne(spec) ==
    ~ (spec.programmeNum > 7 \/ spec.programmeNum <= 0)

\* TRUE when the webhook admits the request.
ValidateCreate(spec) == ~ (spec.programmeNum > 6 \/ spec.programmeNum <= 0)

\* Every UPDATE is refused, whatever it changes and whoever sends it.
ValidateUpdate(old, new) == FALSE
=============================================================================
