-------------------------- MODULE MCSidecarInjector --------------------------
(***************************************************************************)
(* SidecarInjector for TLC: pods that mount their log directories in every *)
(* way the webhook tells apart.                                            *)
(***************************************************************************)
EXTENDS SidecarInjector

Data == Volume("data")
Other == Volume("other")

App(mounts) == Container("app", mounts, None)
Db(mounts) == Container("db", mounts, None)

Pod(logs, volumes, containers) ==
    [optOut |-> FALSE, logs |-> logs, volumes |-> <<volumes>>,
     inits |-> <<>>, containers |-> containers]

\* The two examples of the repository: sidecar-test.yaml, and
\* sidecar-nginx-mysql.yaml with its html init container left out.
OneContainer == Pod({"/var/log/nginx", "/etc/pro/kkk"}, {}, <<App({})>>)

NginxMysql ==
    Pod({"/var/log/nginx", "/var/log/mysql"}, {Data},
        <<App({}), Db({Mount(Data, "/var/log/mysql", FALSE)})>>)

\* A log directory that two containers share, or mount from two volumes under
\* two spellings.
TwoShare ==
    Pod({"/var/log/nginx"}, {Data},
        <<App({Mount(Data, "/var/log/nginx", TRUE)}),
          Db({Mount(Data, "/var/log/nginx", TRUE)})>>)

TwoVolumes ==
    Pod({"/var/log/nginx"}, {Data, Other},
        <<App({Mount(Data, "/var/log/nginx", TRUE)}),
          Db({Mount(Other, "/var/log/nginx", FALSE)})>>)

\* No annotation, an empty one, and names that the sidecar takes.
Plain == Pod({}, {}, <<App({})>>)
EmptyAnnotation == Pod({NoDir}, {}, <<App({})>>)
OwnConfDir == Pod({"/var/log/nginx"}, {Volume("confdir")}, <<App({})>>)
OwnFilebeat == Pod({"/var/log/nginx"}, {}, <<Container("filebeat", {}, None)>>)
LogsOfFilebeat == Pod({"/etc/filebeat"}, {}, <<App({})>>)

AllPods ==
    {OneContainer, NginxMysql, TwoShare, TwoVolumes, Plain, EmptyAnnotation,
     OwnConfDir, OwnFilebeat, LogsOfFilebeat}

SharingPods == {OneContainer, TwoShare}
=============================================================================
