----------------------------- MODULE MCInjection -----------------------------
(***************************************************************************)
(* Injection for TLC: programmes of three objects, with the certificates   *)
(* in those that create them, and one pod.                                 *)
(***************************************************************************)
EXTENDS Injection, TLC

CONSTANTS Fb, Es, Certs, Kb

ShortSteps ==
    [p \in 1..6 |-> IF p \in {2, 4, 6} THEN <<Fb, Certs, Kb>>
                                       ELSE <<Fb, Es, Kb>>]

ShortPorts ==
    [o \in {Fb, Es, Certs, Kb} |->
        IF o = Es THEN "elasticsearch" ELSE IF o = Kb THEN "kibana" ELSE "none"]

Ask(p) == [programmeNum |-> p, resourceStorage |-> Nil, nodePorts |-> Nil]

\* A programme whose sidecars need the certificates, and one that has none.
OneAndTwo == {Ask(1), Ask(2)}

\* The uids are interchangeable: the properties are safety properties.
Interchangeable == Permutations(UIDs)

\* A container that mounts one of its two log directories.
OnePod ==
    LET data == Injector!Volume("data") IN
    {[optOut |-> FALSE, logs |-> {"/var/log/nginx", "/var/log/mysql"},
      volumes |-> <<{data}>>, inits |-> <<>>,
      containers |->
         <<Injector!Container("app",
               {Injector!Mount(data, "/var/log/nginx", FALSE)}, None)>>]}
=============================================================================
