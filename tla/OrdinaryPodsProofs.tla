-------------------------- MODULE OrdinaryPodsProofs --------------------------
(***************************************************************************)
(* The sidecar spoils no ordinary pod: theorems about SidecarInjector, for  *)
(* any pods with any containers, mounts and log directories.               *)
(***************************************************************************)
EXTENDS SidecarInjectorProofs

-----------------------------------------------------------------------------
(* Sequences of containers: what holds of their elements, and their names. *)

Elements(s) == {s[i] : i \in DOMAIN s}

Names(s) == {s[i].name : i \in DOMAIN s}

Distinct(s) == \A i, j \in DOMAIN s : s[i].name = s[j].name => i = j

\* Everything these proofs need to know about r = s \o t.
Concatenates(r, s, t) ==
    /\ Elements(r) = Elements(s) \cup Elements(t)
    /\ Names(r) = Names(s) \cup Names(t)
    /\ Distinct(r) <=> Distinct(s) /\ Distinct(t) /\ Names(s) \cap Names(t) = {}

\* Concatenation joins elements and names; they stay distinct when disjoint.
LEMMA ConcatenationOf ==
    ASSUME NEW S, NEW s \in Seq(S), NEW t \in Seq(S)
    PROVE  s \o t \in Seq(S) /\ Concatenates(s \o t, s, t)
<1>. DEFINE r == s \o t
            m == Len(s)
            n == Len(t)
<1>1. m \in Nat /\ n \in Nat /\ r \in Seq(S)
  OBVIOUS
<1>2. Joined(r, s, t)
  BY Concatenated
<1>. HIDE DEF r, m, n
<1>3. /\ DOMAIN s = 1..m /\ DOMAIN t = 1..n /\ DOMAIN r = 1..(m + n)
      /\ \A i \in 1..m : r[i] = s[i]
      /\ \A i \in 1..n : r[m + i] = t[i]
  BY <1>2 DEF Joined, m, n
<1>4. \A i \in 1..(m + n) : i \in 1..m \/ \E j \in 1..n : i = m + j
  <2>. SUFFICES ASSUME NEW i \in 1..(m + n), i \notin 1..m
                PROVE  \E j \in 1..n : i = m + j
    OBVIOUS
  <2>1. i - m \in 1..n /\ i = m + (i - m)
    BY <1>1
  <2>. QED BY <2>1
<1>5. \A i \in 1..m : i \in 1..(m + n)
  BY <1>1
<1>6. \A j \in 1..n : m + j \in 1..(m + n) /\ m + j \notin 1..m
  BY <1>1
<1>7. Elements(r) = Elements(s) \cup Elements(t)
  BY <1>3, <1>4, <1>5, <1>6 DEF Elements
<1>8. Names(r) = Names(s) \cup Names(t)
  BY <1>3, <1>4, <1>5, <1>6 DEF Names
<1>9. ASSUME Distinct(r)
      PROVE  Distinct(s) /\ Distinct(t) /\ Names(s) \cap Names(t) = {}
  <2>1. Distinct(s)
    BY <1>3, <1>5, <1>9 DEF Distinct
  <2>2. Distinct(t)
    <3>. SUFFICES ASSUME NEW i \in 1..n, NEW j \in 1..n, t[i].name = t[j].name
                  PROVE  i = j
      BY <1>3 DEF Distinct
    <3>1. m + i = m + j
      BY <1>3, <1>6, <1>9 DEF Distinct
    <3>. QED BY <1>1, <3>1
  <2>3. ASSUME NEW i \in 1..m, NEW j \in 1..n, s[i].name = t[j].name
        PROVE  FALSE
    <3>1. i = m + j
      BY <1>3, <1>5, <1>6, <1>9, <2>3 DEF Distinct
    <3>. QED BY <1>6, <3>1
  <2>. QED BY <1>3, <2>1, <2>2, <2>3 DEF Names
<1>10. ASSUME Distinct(s), Distinct(t), Names(s) \cap Names(t) = {}
       PROVE  Distinct(r)
  <2>. SUFFICES ASSUME NEW i \in 1..(m + n), NEW j \in 1..(m + n),
                       r[i].name = r[j].name
                PROVE  i = j
    BY <1>3 DEF Distinct
  <2>0. \A k \in 1..m, l \in 1..n : s[k].name # t[l].name
    BY <1>3, <1>10 DEF Names
  <2>1. CASE i \in 1..m /\ j \in 1..m
    BY <1>3, <1>10, <2>1 DEF Distinct
  <2>2. CASE i \in 1..m /\ j \notin 1..m
    BY <1>3, <1>4, <2>0, <2>2
  <2>3. CASE i \notin 1..m /\ j \in 1..m
    BY <1>3, <1>4, <2>0, <2>3
  <2>4. CASE i \notin 1..m /\ j \notin 1..m
    <3>1. PICK k \in 1..n : i = m + k
      BY <1>4, <2>4
    <3>2. PICK l \in 1..n : j = m + l
      BY <1>4, <2>4
    <3>. QED BY <1>3, <1>10, <3>1, <3>2 DEF Distinct
  <2>. QED BY <2>1, <2>2, <2>3, <2>4
<1>. QED BY <1>1, <1>7, <1>8, <1>9, <1>10 DEF Concatenates, r

\* A single container.
LEMMA OneContainer ==
    ASSUME NEW e
    PROVE  /\ Elements(<<e>>) = {e}
           /\ Names(<<e>>) = {e.name}
           /\ Distinct(<<e>>)
<1>1. DOMAIN <<e>> = {1} /\ <<e>>[1] = e
  OBVIOUS
<1>. QED BY <1>1 DEF Elements, Names, Distinct

-----------------------------------------------------------------------------
(* The API server's validation, container by container. *)

WellMounted(container, volumes) ==
    /\ \A m \in container.mounts : m.dir # NoDir /\ m.volume \in volumes
    /\ \A m, n \in container.mounts :
          m.dir = n.dir /\ m.slash = n.slash => m = n

DisjointVolumes(pod) ==
    \A i, j \in DOMAIN pod.volumes :
        i # j => pod.volumes[i] \cap pod.volumes[j] = {}

\* The volumes apart, the names apart, and every container well mounted.
LEMMA ValidParts ==
    ASSUME NEW pod
    PROVE  LET all == pod.inits \o pod.containers IN
           Valid(pod) <=> /\ DisjointVolumes(pod)
                          /\ Distinct(all)
                          /\ \A c \in Elements(all) :
                                WellMounted(c, VolumesOf(pod))
<1>. DEFINE all == pod.inits \o pod.containers
            V == VolumesOf(pod)
<1>1. (\A c \in Elements(all) : WellMounted(c, V))
         <=> \A i \in DOMAIN all : WellMounted(all[i], V)
  BY DEF Elements
<1>2. Valid(pod) <=> /\ DisjointVolumes(pod)
                     /\ Distinct(all)
                     /\ \A i \in DOMAIN all : WellMounted(all[i], V)
  BY DEF Valid, DisjointVolumes, Distinct, WellMounted
<1>. QED BY <1>1, <1>2

-----------------------------------------------------------------------------
(* Pods, the user's and those that Handle has worked on. *)

\* STRING, and the sidecar's strings by name: that they are in it already is
\* beyond the provers.
Strings ==
    STRING \cup {"", "confdir", "logfile-operator", "elasticsearch-master-certs",
                 "/etc/filebeat", "/usr/share/elasticsearch/config/certs",
                 "filebeat", "genfilebeatyml", "genesclusterhttps"}

AnyVolumes == [name : Strings, dir : Strings]

AnyMounts ==
    [volume : AnyVolumes, dir : Strings, slash : BOOLEAN, from : Nat]

Writes ==
    {None} \cup [inputs : SUBSET Strings, output : ConfigMaps]
           \cup [certs : BOOLEAN]

Containers == [name : Strings, mounts : SUBSET AnyMounts, writes : Writes]

PodSpecs ==
    [optOut     : BOOLEAN,
     logs       : SUBSET Strings,
     volumes    : Seq(SUBSET AnyVolumes),
     inits      : Seq(Containers),
     containers : Seq(Containers) \ {<<>>}]

\* What users submit is of this kind.
LEMMA SubmittedSpecs == Pods \subseteq PodSpecs
<1>. SUFFICES ASSUME NEW pod \in Pods PROVE pod \in PodSpecs
  OBVIOUS
<1>1. pod \in [optOut : BOOLEAN, logs : SUBSET STRING,
               volumes : Seq(SUBSET Volumes), inits : Seq(UserContainers),
               containers : Seq(UserContainers) \ {<<>>}]
  BY PodsAssumption DEF Submittable
<1>0. STRING \subseteq Strings /\ Volumes \subseteq AnyVolumes
  BY DEF Strings, Volumes, AnyVolumes
<1>2. UserContainers \subseteq Containers
  <2>1. Mounts \subseteq AnyMounts
    BY <1>0 DEF Mounts, AnyMounts
  <2>. QED BY <1>0, <2>1 DEF UserContainers, Containers, Writes
<1>4. \A s \in Seq(SUBSET Volumes) : s \in Seq(SUBSET AnyVolumes)
  BY <1>0
<1>3. \A s \in Seq(UserContainers) : s \in Seq(Containers)
  BY <1>2
<1>. QED BY <1>0, <1>1, <1>3, <1>4 DEF PodSpecs

\* So are the mounts of the sidecar, and its directories differ.
LEMMA SidecarsMounts ==
    /\ ConfDir \in AnyMounts /\ CertsDir \in AnyMounts
    /\ \A d \in Strings : Mount(SharedVolume(d), d, TRUE) \in AnyMounts
    /\ ConfDir.dir # CertsDir.dir /\ ConfDir.dir # NoDir /\ CertsDir.dir # NoDir
<1>0. ASSUME NEW v \in AnyVolumes, NEW d \in Strings, NEW slash \in BOOLEAN
      PROVE  Mount(v, d, slash) \in AnyMounts
  BY DEF Mount, AnyMounts
<1>1. ConfDir \in AnyMounts
  <2>1. "confdir" \in Strings /\ "" \in Strings /\ "/etc/filebeat" \in Strings
    BY DEF Strings
  <2>2. Volume("confdir") \in AnyVolumes
    BY <2>1 DEF Volume, AnyVolumes
  <2>. QED BY <1>0, <2>1, <2>2 DEF ConfDir
<1>2. CertsDir \in AnyMounts
  <2>1. /\ "elasticsearch-master-certs" \in Strings /\ "" \in Strings
        /\ "/usr/share/elasticsearch/config/certs" \in Strings
    BY DEF Strings
  <2>2. Volume("elasticsearch-master-certs") \in AnyVolumes
    BY <2>1 DEF Volume, AnyVolumes
  <2>. QED BY <1>0, <2>1, <2>2 DEF CertsDir
<1>3. ASSUME NEW d \in Strings
      PROVE  Mount(SharedVolume(d), d, TRUE) \in AnyMounts
  <2>1. SharedVolume(d) \in AnyVolumes
    BY DEF SharedVolume, AnyVolumes, Strings
  <2>. QED BY <1>0, <2>1
<1>4. /\ ConfDir.dir = "/etc/filebeat"
      /\ CertsDir.dir = "/usr/share/elasticsearch/config/certs"
  BY DEF ConfDir, CertsDir, Mount
<1>. QED BY <1>1, <1>2, <1>3, <1>4 DEF NoDir

\* The directories that get a volume of their own.
New(pod) == Unmounted(WithConfDir(pod.containers), pod.logs)

\* What Handle makes of a container of the pod.
LEMMA PreparedContainer ==
    ASSUME NEW pod \in PodSpecs
    PROVE  /\ pod.containers \in Seq(Containers)
           /\ Len(pod.containers) \in Nat \ {0}
           /\ DOMAIN WithConfDir(pod.containers) = 1..Len(pod.containers)
           /\ \A c \in 1..Len(pod.containers) :
                /\ pod.containers[c] \in Containers
                /\ WithConfDir(pod.containers)[c] \in Containers
                /\ WithConfDir(pod.containers)[c].name = pod.containers[c].name
                /\ WithConfDir(pod.containers)[c].mounts =
                      pod.containers[c].mounts
                         \cup (IF c = 1 THEN {ConfDir} ELSE {})
<1>. DEFINE cs == pod.containers
            n == Len(cs)
            mine == WithConfDir(cs)
<1>1. cs \in Seq(Containers) /\ cs # <<>>
  BY DEF PodSpecs
<1>2. n \in Nat \ {0} /\ cs \in [1..n -> Containers]
  BY <1>1, EmptySeq
<1>3. mine = [cs EXCEPT ![1].mounts = @ \cup {ConfDir}]
  BY DEF WithConfDir
<1>. HIDE DEF mine, cs, n
<1>4. DOMAIN mine = 1..n
  BY <1>2, <1>3
<1>5. ASSUME NEW c \in 1..n
      PROVE  /\ cs[c] \in Containers
             /\ mine[c] \in Containers
             /\ mine[c].name = cs[c].name
             /\ mine[c].mounts = cs[c].mounts \cup (IF c = 1 THEN {ConfDir} ELSE {})
  <2>1. cs[c] \in Containers
    BY <1>2
  <2>2. CASE c = 1
    <3>1. mine[c] = [cs[c] EXCEPT !.mounts = @ \cup {ConfDir}]
      BY <1>2, <1>3, <2>2
    <3>2. cs[c].mounts \cup {ConfDir} \in SUBSET AnyMounts
      BY <2>1, SidecarsMounts DEF Containers
    <3>. QED BY <2>1, <2>2, <3>1, <3>2 DEF Containers
  <2>3. CASE c # 1
    <3>1. mine[c] = cs[c]
      BY <1>2, <1>3, <2>3
    <3>. QED BY <2>1, <2>3, <3>1
  <2>. QED BY <2>2, <2>3
<1>. QED BY <1>1, <1>2, <1>4, <1>5 DEF mine, cs, n

\* A mount of the sidecar that some container of the pod has.
CopiedFrom(m, pod) ==
    \E c \in 1..Len(pod.containers) :
        \E x \in WithConfDir(pod.containers)[c].mounts :
            x.dir = m.dir /\ x.volume = m.volume

\* A copied mount keeps its directory and volume.
LEMMA MountAt ==
    ASSUME NEW pod \in PodSpecs, NEW d,
           NEW m \in MountsAt(WithConfDir(pod.containers), d)
    PROVE  m \in AnyMounts /\ m.dir = d /\ CopiedFrom(m, pod)
<1>. DEFINE n == Len(pod.containers)
            mine == WithConfDir(pod.containers)
<1>1. n \in Nat /\ DOMAIN mine = 1..n /\ \A c \in 1..n : mine[c] \in Containers
  BY PreparedContainer
<1>. HIDE DEF mine, n
<1>2. PICK c \in 1..n : \E x \in mine[c].mounts :
         x.dir = d /\ m = [x EXCEPT !.from = c]
  BY <1>1 DEF MountsAt, mine
<1>3. PICK x \in mine[c].mounts : x.dir = d /\ m = [x EXCEPT !.from = c]
  BY <1>2
<1>4. x \in AnyMounts
  BY <1>1 DEF Containers
<1>5. m \in AnyMounts /\ m.dir = d /\ m.volume = x.volume
  BY <1>1, <1>3, <1>4 DEF AnyMounts
<1>. QED BY <1>3, <1>4, <1>5 DEF CopiedFrom, mine, n

-----------------------------------------------------------------------------
(* The injected pod. *)

\* The volumes that Handle adds.
Added(pod, config) ==
    {ConfDir.volume} \cup {SharedVolume(d) : d \in New(pod)}
                     \cup (IF UsesCerts(config) THEN {CertsDir.volume} ELSE {})

Sidecar(pod, config) ==
    Container("filebeat", FilebeatMounts(pod, config), None)

Generator(pod, config) == GenFilebeatYml(pod.logs, config)

\* r is the pod with what Handle adds.
Extends(r, pod, config, found) ==
    /\ r.optOut = pod.optOut /\ r.logs = pod.logs
    /\ r.volumes = Append(pod.volumes, Added(pod, config))
    /\ r.inits = pod.inits \o Certificates(config, found)
                           \o <<Generator(pod, config)>>
    /\ r.containers = Extended(pod) \o <<Sidecar(pod, config)>>
    /\ r = [optOut |-> pod.optOut, logs |-> pod.logs, volumes |-> r.volumes,
            inits |-> r.inits, containers |-> r.containers]

\* Injected, field by field.
LEMMA PartsOf ==
    ASSUME NEW pod \in PodSpecs, NEW config, NEW found
    PROVE  Extends(Injected(pod, config, found), pod, config, found)
<1>1. pod \in [optOut : BOOLEAN, logs : SUBSET Strings,
               volumes : Seq(SUBSET AnyVolumes), inits : Seq(Containers),
               containers : Seq(Containers) \ {<<>>}]
  BY DEF PodSpecs
<1>. DEFINE r == Injected(pod, config, found)
            volumes == Append(pod.volumes, Added(pod, config))
            inits == pod.inits \o Certificates(config, found)
                               \o <<Generator(pod, config)>>
            containers == Extended(pod) \o <<Sidecar(pod, config)>>
<1>2. r = [pod EXCEPT !.volumes = Append(@, Added(pod, config)),
                      !.inits = @ \o Certificates(config, found)
                                  \o <<Generator(pod, config)>>,
                      !.containers = containers]
  BY DEF Injected, Certificates, Extended, FilebeatMounts, Added, New,
         Sidecar, Generator
<1>. HIDE DEF r, containers
<1>3. r = [optOut |-> pod.optOut, logs |-> pod.logs, volumes |-> volumes,
           inits |-> inits, containers |-> containers]
  BY <1>1, <1>2
<1>. HIDE DEF volumes, inits
<1>4. /\ r.optOut = pod.optOut /\ r.logs = pod.logs /\ r.volumes = volumes
      /\ r.inits = inits /\ r.containers = containers
  BY <1>3
<1>5. r = [optOut |-> pod.optOut, logs |-> pod.logs, volumes |-> r.volumes,
           inits |-> r.inits, containers |-> r.containers]
  BY <1>3, <1>4
<1>. QED BY <1>4, <1>5 DEF Extends, r, volumes, inits, containers

\* The new directories are log directories that no container mounts.
LEMMA NewDirectories ==
    ASSUME NEW pod \in PodSpecs
    PROVE  /\ New(pod) \subseteq pod.logs /\ New(pod) \subseteq Strings
           /\ SharedMounts(New(pod)) \subseteq AnyMounts
           /\ \A d \in New(pod) : MountsAt(WithConfDir(pod.containers), d) = {}
<1>1. New(pod) \subseteq pod.logs
      /\ \A d \in New(pod) : MountsAt(WithConfDir(pod.containers), d) = {}
  BY DEF New, Unmounted
<1>2. pod.logs \subseteq Strings
  BY DEF PodSpecs
<1>. QED BY <1>1, <1>2, SidecarsMounts DEF SharedMounts

\* The pod's own containers, one by one.
LEMMA ExtendedContainer ==
    ASSUME NEW pod \in PodSpecs
    PROVE  /\ Extended(pod) \in Seq(Containers)
           /\ Len(Extended(pod)) = Len(pod.containers)
           /\ \A c \in 1..Len(pod.containers) :
                /\ Extended(pod)[c].name = pod.containers[c].name
                /\ Extended(pod)[c].mounts =
                      pod.containers[c].mounts
                         \cup (IF c = 1 THEN {ConfDir} ELSE {})
                         \cup SharedMounts(New(pod))
<1>. DEFINE mine == WithConfDir(pod.containers)
            n == Len(pod.containers)
            shared == SharedMounts(New(pod))
            extended == [c \in 1..n |-> [mine[c] EXCEPT !.mounts = @ \cup shared]]
<1>1. n \in Nat /\ DOMAIN mine = 1..n
      /\ \A c \in 1..n : /\ mine[c] \in Containers
                         /\ mine[c].name = pod.containers[c].name
                         /\ mine[c].mounts =
                               pod.containers[c].mounts
                                  \cup (IF c = 1 THEN {ConfDir} ELSE {})
  BY PreparedContainer
<1>2. Extended(pod) = extended
  BY <1>1 DEF Extended, New
<1>3. shared \subseteq AnyMounts
  BY NewDirectories
<1>. HIDE DEF mine, n, shared
<1>4. ASSUME NEW c \in 1..n
      PROVE  /\ extended[c] \in Containers
             /\ extended[c].name = mine[c].name
             /\ extended[c].mounts = mine[c].mounts \cup shared
  <2>1. mine[c] \in Containers
    BY <1>1
  <2>2. mine[c].mounts \cup shared \in SUBSET AnyMounts
    BY <1>3, <2>1 DEF Containers
  <2>. QED BY <2>1, <2>2 DEF Containers
<1>5. extended \in [1..n -> Containers]
  BY <1>4
<1>6. extended \in Seq(Containers) /\ Len(extended) = n
  BY <1>1, <1>5
<1>. HIDE DEF extended
<1>7. ASSUME NEW c \in 1..n
      PROVE  /\ extended[c].name = pod.containers[c].name
             /\ extended[c].mounts = pod.containers[c].mounts
                    \cup (IF c = 1 THEN {ConfDir} ELSE {}) \cup shared
  BY <1>1, <1>4
<1>. QED BY <1>2, <1>6, <1>7 DEF n, shared

\* The added volumes are volumes.
LEMMA AddedVolumes ==
    ASSUME NEW pod \in PodSpecs, NEW config
    PROVE  Added(pod, config) \in SUBSET AnyVolumes
<1>1. \A m \in AnyMounts : m.volume \in AnyVolumes
  BY DEF AnyMounts
<1>2. ConfDir.volume \in AnyVolumes /\ CertsDir.volume \in AnyVolumes
  BY <1>1, SidecarsMounts
<1>3. ASSUME NEW d \in New(pod) PROVE SharedVolume(d) \in AnyVolumes
  <2>1. d \in Strings
    BY NewDirectories
  <2>2. "logfile-operator" \in Strings
    BY DEF Strings
  <2>. QED BY <2>1, <2>2 DEF SharedVolume, AnyVolumes
<1>. QED BY <1>2, <1>3 DEF Added

\* The three containers that Handle makes.
LEMMA SidecarContainers ==
    ASSUME NEW pod \in PodSpecs, NEW config \in ConfigMaps, NEW found \in BOOLEAN
    PROVE  /\ Sidecar(pod, config) \in Containers
           /\ Sidecar(pod, config).name = "filebeat"
           /\ Sidecar(pod, config).mounts = FilebeatMounts(pod, config)
           /\ Generator(pod, config) \in Containers
           /\ Generator(pod, config).name = "genfilebeatyml"
           /\ Generator(pod, config).mounts = {ConfDir}
           /\ GenEsClusterHttps(found) \in Containers
           /\ GenEsClusterHttps(found).name = "genesclusterhttps"
           /\ GenEsClusterHttps(found).mounts = {CertsDir}
<1>1. /\ "filebeat" \in Strings /\ "genfilebeatyml" \in Strings
      /\ "genesclusterhttps" \in Strings
  BY DEF Strings
<1>2. pod.logs \in SUBSET Strings
  BY DEF PodSpecs
<1>3. ASSUME NEW name \in Strings, NEW mounts \in SUBSET AnyMounts,
             NEW writes \in Writes
      PROVE  /\ Container(name, mounts, writes) \in Containers
             /\ Container(name, mounts, writes).name = name
             /\ Container(name, mounts, writes).mounts = mounts
  BY DEF Container, Containers
<1>4. /\ None \in Writes /\ [certs |-> found] \in Writes
      /\ [inputs |-> pod.logs, output |-> config] \in Writes
  BY <1>2 DEF Writes
<1>5. FilebeatMounts(pod, config) \in SUBSET AnyMounts
  <2>1. SharedMounts(Unmounted(WithConfDir(pod.containers), pod.logs))
           \subseteq AnyMounts
    BY NewDirectories DEF New
  <2>2. \A d : MountsAt(WithConfDir(pod.containers), d) \subseteq AnyMounts
    BY MountAt
  <2>. QED BY <2>1, <2>2, SidecarsMounts DEF FilebeatMounts, SidecarMounts
<1>6. {ConfDir} \in SUBSET AnyMounts /\ {CertsDir} \in SUBSET AnyMounts
  BY SidecarsMounts
<1>7. /\ Sidecar(pod, config) \in Containers
      /\ Sidecar(pod, config).name = "filebeat"
      /\ Sidecar(pod, config).mounts = FilebeatMounts(pod, config)
  BY <1>1, <1>3, <1>4, <1>5 DEF Sidecar
<1>8. /\ Generator(pod, config) \in Containers
      /\ Generator(pod, config).name = "genfilebeatyml"
      /\ Generator(pod, config).mounts = {ConfDir}
  BY <1>1, <1>3, <1>4, <1>6 DEF Generator, GenFilebeatYml
<1>9. /\ GenEsClusterHttps(found) \in Containers
      /\ GenEsClusterHttps(found).name = "genesclusterhttps"
      /\ GenEsClusterHttps(found).mounts = {CertsDir}
  BY <1>1, <1>3, <1>4, <1>6 DEF GenEsClusterHttps
<1>. QED BY <1>7, <1>8, <1>9

\* The init container of the certificates, for programme 2 only.
LEMMA CertificatesPart ==
    ASSUME NEW pod \in PodSpecs, NEW config \in ConfigMaps, NEW found \in BOOLEAN
    PROVE  LET certificates == Certificates(config, found) IN
           /\ certificates \in Seq(Containers)
           /\ Distinct(certificates)
           /\ Names(certificates) \subseteq {"genesclusterhttps"}
           /\ ~ UsesCerts(config) => Elements(certificates) = {}
           /\ Elements(certificates) \subseteq {GenEsClusterHttps(found)}
<1>1. CASE UsesCerts(config)
  <2>1. Certificates(config, found) = <<GenEsClusterHttps(found)>>
    BY <1>1 DEF Certificates
  <2>. QED BY <1>1, <2>1, SidecarContainers, OneContainer
<1>2. CASE ~ UsesCerts(config)
  <2>1. Certificates(config, found) = <<>>
    BY <1>2 DEF Certificates
  <2>. QED BY <1>2, <2>1 DEF Distinct, Names, Elements
<1>. QED BY <1>1, <1>2

\* What Handle answers is a pod it can be asked about again.
LEMMA InjectedSpec ==
    ASSUME NEW pod \in PodSpecs, NEW config \in ConfigMaps, NEW found \in BOOLEAN
    PROVE  Injected(pod, config, found) \in PodSpecs
<1>. DEFINE r == Injected(pod, config, found)
            certificates == Certificates(config, found)
<1>1. /\ pod.optOut \in BOOLEAN /\ pod.logs \in SUBSET Strings
      /\ pod.volumes \in Seq(SUBSET AnyVolumes) /\ pod.inits \in Seq(Containers)
  BY DEF PodSpecs
<1>0. Extends(r, pod, config, found)
  BY PartsOf
<1>2. r.volumes \in Seq(SUBSET AnyVolumes)
  <2>. HIDE DEF r
  <2>. QED BY <1>0, <1>1, AddedVolumes DEF Extends
<1>3. r.inits \in Seq(Containers)
  <2>1. certificates \in Seq(Containers) /\ Generator(pod, config) \in Containers
    BY CertificatesPart, SidecarContainers
  <2>2. r.inits = pod.inits \o certificates \o <<Generator(pod, config)>>
    BY <1>0 DEF Extends
  <2>. HIDE DEF r, certificates
  <2>. QED BY <1>1, <2>1, <2>2
<1>4. r.containers \in Seq(Containers) \ {<<>>}
  <2>1. Extended(pod) \in Seq(Containers) /\ Sidecar(pod, config) \in Containers
    BY ExtendedContainer, SidecarContainers
  <2>2. r.containers = Extended(pod) \o <<Sidecar(pod, config)>>
    BY <1>0 DEF Extends
  <2>. HIDE DEF r
  <2>3. r.containers \in Seq(Containers) /\ Len(r.containers) = Len(Extended(pod)) + 1
    BY <2>1, <2>2
  <2>4. Len(Extended(pod)) \in Nat
    BY <2>1
  <2>. QED BY <2>3, <2>4
<1>. HIDE DEF r
<1>5. r \in PodSpecs
  BY <1>0, <1>1, <1>2, <1>3, <1>4 DEF Extends, PodSpecs
<1>. QED BY <1>5 DEF r

-----------------------------------------------------------------------------
(* An ordinary pod that the API server accepts is accepted with the sidecar. *)

AddedNames == {"confdir", "logfile-operator", "elasticsearch-master-certs"}

SidecarNames == {"genfilebeatyml", "genesclusterhttps", "filebeat"}

\* An ordinary pod has none of the volumes that are added to it.
LEMMA OrdinaryVolumes ==
    ASSUME NEW pod \in PodSpecs, NEW config, Ordinary(pod)
    PROVE  Added(pod, config) \cap VolumesOf(pod) = {}
<1>1. \A v \in VolumesOf(pod) : v.name \notin AddedNames
  BY DEF Ordinary, AddedNames
<1>2. /\ ConfDir.volume.name \in AddedNames /\ CertsDir.volume.name \in AddedNames
      /\ \A d : SharedVolume(d).name \in AddedNames
  <2>1. /\ Volume("confdir").name = "confdir"
        /\ Volume("elasticsearch-master-certs").name = "elasticsearch-master-certs"
        /\ \A d : SharedVolume(d).name = "logfile-operator"
    BY Zenon DEF Volume, SharedVolume
  <2>2. /\ ConfDir.volume = Volume("confdir")
        /\ CertsDir.volume = Volume("elasticsearch-master-certs")
    BY DEF ConfDir, CertsDir, Mount
  <2>. QED BY <2>1, <2>2 DEF AddedNames
<1>3. \A v \in Added(pod, config) : v.name \in AddedNames
  BY <1>2 DEF Added
<1>. QED BY <1>1, <1>3

\* Appending a set of new volumes.
LEMMA VolumesAppended ==
    ASSUME NEW pod, NEW r, NEW added \in SUBSET AnyVolumes,
           pod.volumes \in Seq(SUBSET AnyVolumes), r.volumes = Append(pod.volumes, added)
    PROVE  /\ VolumesOf(r) = VolumesOf(pod) \cup added
           /\ DisjointVolumes(pod) /\ added \cap VolumesOf(pod) = {}
                 => DisjointVolumes(r)
<1>. DEFINE s == pod.volumes
            t == r.volumes
            n == Len(s)
<1>1. /\ n \in Nat /\ DOMAIN s = 1..n /\ DOMAIN t = 1..(n + 1)
      /\ t[n + 1] = added /\ \A i \in 1..n : t[i] = s[i]
  OBVIOUS
<1>. HIDE DEF s, t, n
<1>2. 1..(n + 1) = 1..n \cup {n + 1} /\ n + 1 \notin 1..n
  BY <1>1
<1>3. VolumesOf(pod) = UNION {s[i] : i \in 1..n}
      /\ VolumesOf(r) = UNION {t[i] : i \in 1..(n + 1)}
  BY <1>1 DEF VolumesOf, s, t
<1>4. ASSUME NEW v PROVE v \in VolumesOf(r) <=> v \in VolumesOf(pod) \cup added
  BY <1>1, <1>2, <1>3
<1>5. ASSUME DisjointVolumes(pod), added \cap VolumesOf(pod) = {}
      PROVE  DisjointVolumes(r)
  <2>1. \A i, j \in 1..n : i # j => s[i] \cap s[j] = {}
    BY <1>1, <1>5 DEF DisjointVolumes, s
  <2>2. \A i \in 1..n : s[i] \cap added = {}
    BY <1>3, <1>5
  <2>3. \A i, j \in 1..(n + 1) : i # j => t[i] \cap t[j] = {}
    BY <1>1, <1>2, <2>1, <2>2
  <2>. QED BY <1>1, <2>3 DEF DisjointVolumes, t
<1>. QED BY <1>4, <1>5

\* What the API server sees of the containers of the injected pod r.
HasContainers(r, pod, config, found) ==
    LET all == r.inits \o r.containers IN
    /\ Distinct(all)
    /\ Elements(all) = Elements(pod.inits)
                          \cup Elements(Certificates(config, found))
                          \cup {Generator(pod, config)}
                          \cup Elements(Extended(pod))
                          \cup {Sidecar(pod, config)}

\* No two containers have a name in common.
LEMMA ContainersSeen ==
    ASSUME NEW pod \in PodSpecs, NEW config \in ConfigMaps, NEW found \in BOOLEAN,
           Ordinary(pod), Distinct(pod.inits \o pod.containers)
    PROVE  HasContainers(Injected(pod, config, found), pod, config, found)
<1>. DEFINE r == Injected(pod, config, found)
            all == r.inits \o r.containers
            inits == pod.inits
            cs == pod.containers
            certificates == Certificates(config, found)
            generator == Generator(pod, config)
            extended == Extended(pod)
            sidecar == Sidecar(pod, config)
<1>1. inits \in Seq(Containers) /\ cs \in Seq(Containers)
  BY DEF PodSpecs
<1>2. /\ certificates \in Seq(Containers) /\ Distinct(certificates)
      /\ Names(certificates) \subseteq {"genesclusterhttps"}
  BY CertificatesPart
<1>3. /\ generator \in Containers /\ generator.name = "genfilebeatyml"
      /\ sidecar \in Containers /\ sidecar.name = "filebeat"
  BY SidecarContainers
<1>4. extended \in Seq(Containers) /\ Len(extended) = Len(cs)
      /\ \A c \in 1..Len(cs) : extended[c].name = cs[c].name
  BY ExtendedContainer
<1>5. /\ r.inits = inits \o certificates \o <<generator>>
      /\ r.containers = extended \o <<sidecar>>
  <2>1. Extends(r, pod, config, found)
    BY PartsOf
  <2>. HIDE DEF r
  <2>. QED BY <2>1 DEF Extends
<1>6. \A i \in DOMAIN (inits \o cs) : (inits \o cs)[i].name \notin SidecarNames
  BY DEF Ordinary, SidecarNames
<1>7. Distinct(inits \o cs)
  OBVIOUS
<1>. HIDE DEF r, inits, cs, certificates, generator, extended, sidecar
<1>8. Names(extended) = Names(cs) /\ (Distinct(extended) <=> Distinct(cs))
  <2>1. DOMAIN extended = 1..Len(cs) /\ DOMAIN cs = 1..Len(cs)
    BY <1>1, <1>4
  <2>. QED BY <1>4, <2>1 DEF Names, Distinct
<1>9. Concatenates(inits \o cs, inits, cs)
  BY <1>1, ConcatenationOf
<1>10. /\ Distinct(inits) /\ Distinct(cs) /\ Names(inits) \cap Names(cs) = {}
       /\ Names(inits) \cap SidecarNames = {} /\ Names(cs) \cap SidecarNames = {}
  <2>1. Names(inits \o cs) \cap SidecarNames = {}
    BY <1>6 DEF Names
  <2>. QED BY <1>7, <1>9, <2>1 DEF Concatenates
<1>11. <<generator>> \in Seq(Containers) /\ <<sidecar>> \in Seq(Containers)
  BY <1>3
<1>12. inits \o certificates \in Seq(Containers)
       /\ Concatenates(inits \o certificates, inits, certificates)
  BY <1>1, <1>2, ConcatenationOf
<1>13. r.inits \in Seq(Containers)
       /\ Concatenates(r.inits, inits \o certificates, <<generator>>)
  BY <1>5, <1>11, <1>12, ConcatenationOf
<1>14. r.containers \in Seq(Containers)
       /\ Concatenates(r.containers, extended, <<sidecar>>)
  BY <1>4, <1>5, <1>11, ConcatenationOf
<1>15. Concatenates(all, r.inits, r.containers)
  BY <1>13, <1>14, ConcatenationOf
<1>16. /\ Elements(<<generator>>) = {generator}
       /\ Names(<<generator>>) = {"genfilebeatyml"}
       /\ Elements(<<sidecar>>) = {sidecar}
       /\ Names(<<sidecar>>) = {"filebeat"}
       /\ Distinct(<<generator>>) /\ Distinct(<<sidecar>>)
  BY <1>3, OneContainer
<1>. HIDE DEF all
<1>17. Elements(all) = Elements(inits) \cup Elements(certificates) \cup {generator}
                          \cup Elements(extended) \cup {sidecar}
  BY <1>12, <1>13, <1>14, <1>15, <1>16 DEF Concatenates
<1>18. /\ Names(r.inits) = Names(inits) \cup Names(certificates) \cup {"genfilebeatyml"}
       /\ Names(r.containers) = Names(cs) \cup {"filebeat"}
  BY <1>8, <1>12, <1>13, <1>14, <1>16 DEF Concatenates
<1>19. SidecarNames = {"genfilebeatyml", "genesclusterhttps", "filebeat"}
  BY DEF SidecarNames
<1>20. Distinct(inits \o certificates)
  BY <1>2, <1>10, <1>12, <1>19 DEF Concatenates
<1>21. Names(inits \o certificates) \cap {"genfilebeatyml"} = {}
  BY <1>2, <1>10, <1>12, <1>19 DEF Concatenates
<1>22. Distinct(r.inits)
  BY <1>13, <1>16, <1>20, <1>21 DEF Concatenates
<1>23. Distinct(r.containers)
  BY <1>8, <1>10, <1>14, <1>16, <1>19 DEF Concatenates
<1>24. Names(r.inits) \cap Names(r.containers) = {}
  BY <1>2, <1>10, <1>18, <1>19
<1>25. Distinct(all)
  BY <1>15, <1>22, <1>23, <1>24 DEF Concatenates
<1>26. HasContainers(r, pod, config, found)
  BY <1>17, <1>25 DEF HasContainers, all, inits, certificates, generator,
                      extended, sidecar
<1>. QED BY <1>26 DEF r

\* More volumes do no harm.
LEMMA MoreVolumes ==
    ASSUME NEW c, NEW V, NEW W, V \subseteq W, WellMounted(c, V)
    PROVE  WellMounted(c, W)
BY DEF WellMounted

\* A container with one mount.
LEMMA OneMount ==
    ASSUME NEW c, NEW m, NEW V, c.mounts = {m}, m.dir # NoDir, m.volume \in V
    PROVE  WellMounted(c, V)
BY DEF WellMounted

\* The directories of an ordinary pod's logs are not the sidecar's.
LEMMA OrdinaryLogs ==
    ASSUME NEW pod \in PodSpecs, Ordinary(pod), NEW d \in pod.logs
    PROVE  /\ d # NoDir /\ d # ConfDir.dir /\ d # CertsDir.dir
           /\ MountsAt(WithConfDir(pod.containers), d) = MountsAt(pod.containers, d)
           /\ \A m, n \in MountsAt(WithConfDir(pod.containers), d) : m = n
<1>. DEFINE cs == pod.containers
            mine == WithConfDir(cs)
            k == Len(cs)
            at(s, c) == {m \in s[c].mounts : m.dir = d}
<1>1. d # NoDir /\ d # ConfDir.dir /\ d # CertsDir.dir
      /\ \A m, n \in MountsAt(cs, d) : m = n
  BY DEF Ordinary
<1>2. /\ cs \in Seq(Containers) /\ k \in Nat /\ DOMAIN mine = 1..k
      /\ \A c \in 1..k :
            mine[c].mounts = cs[c].mounts \cup (IF c = 1 THEN {ConfDir} ELSE {})
  BY PreparedContainer
<1>3. DOMAIN cs = 1..k
  BY <1>2
<1>. HIDE DEF cs, mine, k
<1>4. \A c \in 1..k : at(mine, c) = at(cs, c)
  BY <1>1, <1>2
<1>5. /\ MountsAt(mine, d) =
            UNION {{[m EXCEPT !.from = c] : m \in at(mine, c)} : c \in 1..k}
      /\ MountsAt(cs, d) =
            UNION {{[m EXCEPT !.from = c] : m \in at(cs, c)} : c \in 1..k}
  BY <1>2, <1>3 DEF MountsAt
<1>. HIDE DEF at
<1>6. MountsAt(mine, d) = MountsAt(cs, d)
  BY <1>4, <1>5
<1>. QED BY <1>1, <1>6 DEF mine, cs

\* The mount of a new directory.
LEMMA SharedMount ==
    ASSUME NEW d
    PROVE  /\ Mount(SharedVolume(d), d, TRUE).dir = d
           /\ Mount(SharedVolume(d), d, TRUE).volume = SharedVolume(d)
BY DEF Mount

\* Each new directory has its mount.
LEMMA SharedMountsAre ==
    ASSUME NEW dirs, NEW m \in SharedMounts(dirs)
    PROVE  m.dir \in dirs /\ m = Mount(SharedVolume(m.dir), m.dir, TRUE)
           /\ m.volume = SharedVolume(m.dir)
<1>1. PICK d \in dirs : m = Mount(SharedVolume(d), d, TRUE)
  BY Zenon DEF SharedMounts
<1>. QED BY <1>1, SharedMount

\* A container's mount at a directory is among the copied ones.
LEMMA CopyAt ==
    ASSUME NEW cs, NEW c \in DOMAIN cs, NEW d, NEW m \in cs[c].mounts, m.dir = d
    PROVE  [m EXCEPT !.from = c] \in MountsAt(cs, d)
<1>. DEFINE copies(k) == {[x EXCEPT !.from = k] :
                             x \in {y \in cs[k].mounts : y.dir = d}}
<1>1. [m EXCEPT !.from = c] \in copies(c)
  OBVIOUS
<1>2. MountsAt(cs, d) = UNION {copies(k) : k \in DOMAIN cs}
  BY DEF MountsAt
<1>. HIDE DEF copies
<1>. QED BY <1>1, <1>2

\* A container of the pod gets the configuration directory, where it has no
\* mount, and the new directories, where no container has any.
LEMMA OwnContainers ==
    ASSUME NEW pod \in PodSpecs, NEW config, Ordinary(pod), NEW V,
           Added(pod, config) \subseteq V,
           NEW c \in 1..Len(pod.containers), WellMounted(pod.containers[c], V)
    PROVE  WellMounted(Extended(pod)[c], V)
<1>. DEFINE own == pod.containers[c].mounts
            conf == IF c = 1 THEN {ConfDir} ELSE {}
            shared == SharedMounts(New(pod))
            mounts == Extended(pod)[c].mounts
<1>1. mounts = own \cup conf \cup shared
  BY ExtendedContainer
<1>2. /\ \A m \in own : m.dir # NoDir /\ m.volume \in V
      /\ \A m, n \in own : m.dir = n.dir /\ m.slash = n.slash => m = n
  BY DEF WellMounted
<1>3. \A m \in conf : m = ConfDir /\ m.dir # NoDir /\ m.volume \in V
  BY SidecarsMounts DEF Added
<1>4. \A m \in own, n \in conf : m.dir # n.dir
  BY DEF Ordinary
<1>5. \A m \in shared : /\ m.dir \in New(pod) /\ m.volume = SharedVolume(m.dir)
                        /\ m = Mount(SharedVolume(m.dir), m.dir, TRUE)
  BY SharedMountsAre
<1>6. \A d \in New(pod) : d \in pod.logs /\ d # NoDir /\ d # ConfDir.dir
  BY NewDirectories, OrdinaryLogs
<1>7. \A m \in shared : m.volume \in V
  BY <1>5 DEF Added
<1>8. \A m \in own, n \in shared : m.dir # n.dir
  <2>. SUFFICES ASSUME NEW m \in own, NEW n \in shared, m.dir = n.dir PROVE FALSE
    OBVIOUS
  <2>1. MountsAt(WithConfDir(pod.containers), n.dir) = {}
    BY <1>5, NewDirectories
  <2>2. /\ c \in DOMAIN WithConfDir(pod.containers)
        /\ m \in WithConfDir(pod.containers)[c].mounts
    BY PreparedContainer
  <2>3. [m EXCEPT !.from = c]
           \in MountsAt(WithConfDir(pod.containers), n.dir)
    BY <2>2, CopyAt
  <2>. QED BY <2>1, <2>3
<1>. HIDE DEF own, conf, shared, mounts
<1>9. \A m \in mounts : m.dir # NoDir /\ m.volume \in V
  BY <1>1, <1>2, <1>3, <1>5, <1>6, <1>7
<1>10. ASSUME NEW m \in mounts, NEW n \in mounts, m.dir = n.dir, m.slash = n.slash
       PROVE  m = n
  <2>1. \A x \in conf, y \in shared : x.dir # y.dir
    BY <1>3, <1>5, <1>6
  <2>2. \A x, y \in shared : x.dir = y.dir => x = y
    BY <1>5
  <2>3. \A x, y \in conf : x = y
    BY <1>3
  <2>4. CASE m \in own
    BY <1>1, <1>2, <1>4, <1>8, <1>10, <2>4
  <2>5. CASE m \in conf
    BY <1>1, <1>4, <1>10, <2>1, <2>3, <2>5
  <2>6. CASE m \in shared
    BY <1>1, <1>8, <1>10, <2>1, <2>2, <2>6
  <2>. QED BY <1>1, <2>4, <2>5, <2>6
<1>. QED BY <1>9, <1>10 DEF WellMounted, mounts

\* The sidecar mounts every log directory once.
LEMMA SidecarWellMounted ==
    ASSUME NEW pod \in PodSpecs, NEW config, Ordinary(pod), NEW V,
           Added(pod, config) \subseteq V,
           \A c \in Elements(pod.containers) : WellMounted(c, V),
           NEW sidecar, sidecar.mounts = FilebeatMounts(pod, config)
    PROVE  WellMounted(sidecar, V)
<1>. DEFINE mine == WithConfDir(pod.containers)
            shared == SharedMounts(New(pod))
            copied == UNION {MountsAt(mine, d) : d \in pod.logs}
            https == IF UsesCerts(config) THEN {CertsDir} ELSE {}
            mounts == FilebeatMounts(pod, config)
<1>1. mounts = {ConfDir} \cup shared \cup copied \cup https
  BY DEF FilebeatMounts, SidecarMounts, New
<1>2. ConfDir.volume \in V /\ \A m \in https : m = CertsDir /\ m.volume \in V
  BY DEF Added
<1>3. \A m \in shared : /\ m.dir \in New(pod) /\ m.volume = SharedVolume(m.dir)
                        /\ m = Mount(SharedVolume(m.dir), m.dir, TRUE)
  BY SharedMountsAre
<1>4. \A m \in shared : m.volume \in V /\ m.dir \in pod.logs
  BY <1>3, NewDirectories DEF Added
<1>5. \A m \in copied : m.dir \in pod.logs /\ m \in MountsAt(mine, m.dir)
  BY MountAt
<1>6. ASSUME NEW m \in copied PROVE m.volume \in V
  <2>1. m.dir \in pod.logs /\ m \in MountsAt(mine, m.dir)
    BY <1>5
  <2>0. CopiedFrom(m, pod)
    BY <2>1, MountAt
  <2>2. PICK c \in 1..Len(pod.containers) :
           \E x \in mine[c].mounts : x.dir = m.dir /\ m.volume = x.volume
    BY <2>0 DEF CopiedFrom
  <2>3. PICK x \in mine[c].mounts : x.dir = m.dir /\ m.volume = x.volume
    BY <2>2
  <2>4. /\ mine[c].mounts =
               pod.containers[c].mounts \cup (IF c = 1 THEN {ConfDir} ELSE {})
        /\ pod.containers[c] \in Elements(pod.containers)
    BY PreparedContainer DEF Elements
  <2>. QED BY <1>2, <2>3, <2>4 DEF WellMounted
<1>7. \A d \in pod.logs : /\ d # NoDir /\ d # ConfDir.dir /\ d # CertsDir.dir
                          /\ \A m, n \in MountsAt(mine, d) : m = n
  BY OrdinaryLogs
<1>8. \A m \in shared, n \in copied : m.dir # n.dir
  BY <1>3, <1>5, NewDirectories
<1>. HIDE DEF mine, shared, copied, https, mounts
<1>9. \A m \in mounts : m.dir # NoDir /\ m.volume \in V
  BY <1>1, <1>2, <1>4, <1>5, <1>6, <1>7, SidecarsMounts
<1>10. ASSUME NEW m \in mounts, NEW n \in mounts, m.dir = n.dir PROVE m = n
  <2>1. ASSUME NEW x \in shared, NEW y \in shared, x.dir = y.dir PROVE x = y
    BY <1>3, <2>1
  <2>2. ASSUME NEW x \in copied, NEW y \in copied, x.dir = y.dir PROVE x = y
    BY <1>5, <1>7, <2>2
  <2>3. \A x \in shared \cup copied : x.dir # ConfDir.dir /\ x.dir # CertsDir.dir
    BY <1>4, <1>5, <1>7
  <2>. QED BY <1>1, <1>2, <1>8, <1>10, <2>1, <2>2, <2>3, SidecarsMounts
<1>. QED BY <1>9, <1>10 DEF WellMounted, mounts

\* The core of it: what Handle makes of a valid ordinary pod is valid.
LEMMA InjectedValid ==
    ASSUME NEW pod \in PodSpecs, NEW config \in ConfigMaps, NEW found \in BOOLEAN,
           Ordinary(pod), Valid(pod)
    PROVE  Valid(Injected(pod, config, found))
<1>. DEFINE r == Injected(pod, config, found)
            before == pod.inits \o pod.containers
            after == r.inits \o r.containers
            V == VolumesOf(r)
            added == Added(pod, config)
            gen == Generator(pod, config)
            sidecar == Sidecar(pod, config)
            certificates == Certificates(config, found)
<1>1. /\ DisjointVolumes(pod) /\ Distinct(before)
      /\ \A c \in Elements(before) : WellMounted(c, VolumesOf(pod))
  BY ValidParts
<1>2. Extends(r, pod, config, found)
  BY PartsOf
<1>3. HasContainers(r, pod, config, found)
  BY <1>1, ContainersSeen
<1>4. /\ pod.inits \in Seq(Containers) /\ pod.containers \in Seq(Containers)
      /\ pod.volumes \in Seq(SUBSET AnyVolumes)
  BY DEF PodSpecs
<1>. HIDE DEF r
<1>5. V = VolumesOf(pod) \cup added /\ DisjointVolumes(r)
  <2>1. r.volumes = Append(pod.volumes, added)
    BY <1>2 DEF Extends
  <2>2. added \in SUBSET AnyVolumes /\ added \cap VolumesOf(pod) = {}
    BY AddedVolumes, OrdinaryVolumes
  <2>. HIDE DEF added
  <2>. QED BY <1>1, <1>4, <2>1, <2>2, VolumesAppended
<1>6. added \subseteq V
  BY <1>5
<1>7. \A c \in Elements(pod.inits) \cup Elements(pod.containers) : WellMounted(c, V)
  <2>1. Concatenates(before, pod.inits, pod.containers)
    BY <1>4, ConcatenationOf
  <2>2. ASSUME NEW c \in Elements(pod.inits) \cup Elements(pod.containers)
        PROVE  WellMounted(c, V)
    <3>1. WellMounted(c, VolumesOf(pod))
      BY <1>1, <2>1 DEF Concatenates
    <3>2. VolumesOf(pod) \subseteq V
      BY <1>5
    <3>. QED BY <3>1, <3>2, MoreVolumes
  <2>. QED BY <2>2
<1>8. \A c \in Elements(certificates) : WellMounted(c, V)
  <2>1. SUFFICES ASSUME NEW c \in Elements(certificates) PROVE WellMounted(c, V)
    OBVIOUS
  <2>2. UsesCerts(config) /\ c = GenEsClusterHttps(found)
    BY CertificatesPart
  <2>3. c.mounts = {CertsDir}
    BY <2>2, SidecarContainers
  <2>4. CertsDir.volume \in V
    BY <1>6, <2>2 DEF Added
  <2>. QED BY <2>3, <2>4, SidecarsMounts, OneMount
<1>9. WellMounted(gen, V)
  <2>1. gen.mounts = {ConfDir}
    BY SidecarContainers
  <2>2. ConfDir.volume \in V
    BY <1>6 DEF Added
  <2>. QED BY <2>1, <2>2, SidecarsMounts, OneMount
<1>10. \A c \in Elements(Extended(pod)) : WellMounted(c, V)
  <2>1. SUFFICES ASSUME NEW i \in DOMAIN Extended(pod)
                 PROVE  WellMounted(Extended(pod)[i], V)
    BY DEF Elements
  <2>2. i \in 1..Len(pod.containers)
    BY ExtendedContainer
  <2>3. WellMounted(pod.containers[i], V)
    BY <1>4, <1>7, <2>2 DEF Elements
  <2>. HIDE DEF added, V
  <2>. QED BY <1>6, <2>2, <2>3, OwnContainers DEF added
<1>11. WellMounted(sidecar, V)
  <2>1. sidecar.mounts = FilebeatMounts(pod, config)
    BY SidecarContainers
  <2>2. \A c \in Elements(pod.containers) : WellMounted(c, V)
    BY <1>7
  <2>. HIDE DEF sidecar, V
  <2>. QED BY <1>6, <2>1, <2>2, SidecarWellMounted
<1>12. Distinct(after)
       /\ Elements(after) = Elements(pod.inits) \cup Elements(certificates)
                               \cup {gen} \cup Elements(Extended(pod)) \cup {sidecar}
  BY <1>3 DEF HasContainers
<1>. HIDE DEF after, V, certificates, gen, sidecar
<1>13. \A c \in Elements(after) : WellMounted(c, V)
  BY <1>7, <1>8, <1>9, <1>10, <1>11, <1>12
<1>14. Valid(r)
  BY <1>5, <1>12, <1>13, ValidParts DEF after, V
<1>. QED BY <1>14 DEF r

-----------------------------------------------------------------------------
(* What is stored and what is under review: the invariant. *)

AnswersTo(pod) ==
    {pod} \cup {Injected(pod, config, found) :
                   config \in ConfigMaps, found \in BOOLEAN}

\* Handle changes a pod in its last step only, and injects into it once.
CorrectReview(r) ==
    /\ r \in [request : {"CREATE", "UPDATE"}, stage : {"config", "certs", "answer"},
              given : PodSpecs, pod : PodSpecs, config : ConfigMaps \cup {None}]
    /\ r.stage = "certs" => r.config \in ConfigMaps /\ UsesCerts(r.config)
    /\ r.stage = "answer" => r.pod \in AnswersTo(r.given)
    /\ r.stage # "answer" => r.pod = r.given

CorrectPod(pod) == pod \in PodSpecs /\ Valid(pod)

Correct ==
    /\ configMap \in ConfigMaps \cup {None}
    /\ certs \in BOOLEAN
    /\ pods = [p \in PodNames |-> pods[p]]
    /\ review = [p \in PodNames |-> review[p]]
    /\ \A p \in PodNames : pods[p] # None => CorrectPod(pods[p])
    /\ \A p \in PodNames : review[p] # None => CorrectReview(review[p])

\* Nothing is stored, and no review is under way.
LEMMA CorrectInitially == Init => Correct
BY DEF Init, Correct

\* A step on one pod and its review.
LEMMA OnePodStep ==
    ASSUME Correct, NEW p \in PodNames, NEW r, NEW pod,
           r # None => CorrectReview(r), pod # None => CorrectPod(pod),
           pods' = [pods EXCEPT ![p] = pod],
           review' = [review EXCEPT ![p] = r], UNCHANGED objects
    PROVE  Correct'
<1>1. configMap' \in ConfigMaps \cup {None} /\ certs' \in BOOLEAN
  BY DEF Correct, objects
<1>2. /\ pods' = [q \in PodNames |-> IF q = p THEN pod ELSE pods[q]]
      /\ review' = [q \in PodNames |-> IF q = p THEN r ELSE review[q]]
  BY DEF Correct
<1>3. /\ \A q \in PodNames : pods[q] # None => CorrectPod(pods[q])
      /\ \A q \in PodNames : review[q] # None => CorrectReview(review[q])
  BY DEF Correct
<1>4. \A q \in PodNames : pods'[q] # None => CorrectPod(pods'[q])
  BY <1>2, <1>3
<1>5. \A q \in PodNames : review'[q] # None => CorrectReview(review'[q])
  BY <1>2, <1>3
<1>6. /\ pods' = [q \in PodNames |-> pods'[q]]
      /\ review' = [q \in PodNames |-> review'[q]]
  BY <1>2
<1>. QED BY <1>1, <1>4, <1>5, <1>6 DEF Correct, CorrectPod, CorrectReview

\* A step on a review alone.
LEMMA OneReviewStep ==
    ASSUME Correct, NEW p \in PodNames, NEW r, r # None => CorrectReview(r),
           review' = [review EXCEPT ![p] = r], UNCHANGED <<objects, pods>>
    PROVE  Correct'
<1>1. pods' = [pods EXCEPT ![p] = pods[p]] /\ UNCHANGED objects
  BY DEF Correct
<1>2. pods[p] # None => CorrectPod(pods[p])
  BY DEF Correct
<1>. QED BY <1>1, <1>2, OnePodStep

\* A review starts with the pod as it is given.
LEMMA NewReview ==
    ASSUME NEW request \in {"CREATE", "UPDATE"}, NEW pod \in PodSpecs
    PROVE  CorrectReview(Review(request, pod))
BY DEF Review, CorrectReview

\* An UPDATE gives a stored pod other annotations: it stays a pod.
LEMMA SubmittedCorrect ==
    ASSUME Correct, NEW p \in PodNames, Submitted(p)
    PROVE  Correct'
<1>1. ASSUME NEW pod \in Pods, CreatePod(p, pod)
      PROVE  Correct'
  <2>1. CorrectReview(Review("CREATE", pod))
    BY NewReview, SubmittedSpecs
  <2>. QED BY <1>1, <2>1, OneReviewStep DEF CreatePod
<1>2. ASSUME NEW other \in Pods, NEW optOut \in BOOLEAN,
             UpdatePod(p, other.logs, optOut)
      PROVE  Correct'
  <2>. DEFINE pod == [pods[p] EXCEPT !.logs = other.logs, !.optOut = optOut]
  <2>1. other.logs \in SUBSET Strings
    BY SubmittedSpecs DEF PodSpecs
  <2>2. pods[p] \in PodSpecs
    BY <1>2 DEF UpdatePod, Correct, CorrectPod
  <2>3. pod \in PodSpecs
    BY <2>1, <2>2 DEF PodSpecs
  <2>. HIDE DEF pod
  <2>4. CorrectReview(Review("UPDATE", pod))
    BY <2>3, NewReview
  <2>. QED BY <1>2, <2>4, OneReviewStep DEF UpdatePod, pod
<1>3. CASE DeletePod(p)
  <2>1. /\ pods' = [pods EXCEPT ![p] = None]
        /\ review' = [review EXCEPT ![p] = review[p]]
        /\ UNCHANGED objects
    BY <1>3 DEF DeletePod, Correct
  <2>2. review[p] # None => CorrectReview(review[p])
    BY DEF Correct
  <2>. QED BY <2>1, <2>2, OnePodStep
<1>. QED BY <1>1, <1>2, <1>3 DEF Submitted

\* What Handle makes of the pod is one of its answers.
LEMMA InjectedAnswer ==
    ASSUME NEW pod \in PodSpecs, NEW config \in ConfigMaps, NEW found \in BOOLEAN
    PROVE  /\ Injected(pod, config, found) \in PodSpecs
           /\ Injected(pod, config, found) \in AnswersTo(pod)
BY InjectedSpec DEF AnswersTo

\* The first read answers at once, or leaves the pod for the second.
LEMMA WithConfigCorrect ==
    ASSUME Correct, NEW p \in PodNames, NEW config \in ConfigMaps \cup {None},
           WithConfig(p, config)
    PROVE  Correct'
<1>. DEFINE r == review[p]
<1>1. /\ r # None /\ r.stage = "config" /\ CorrectReview(r)
      /\ UNCHANGED <<objects, pods>>
  BY DEF WithConfig, AtStage, Correct
<1>2. review' =
         [review EXCEPT ![p] =
             IF Untouched(r.given, config)
             THEN [r EXCEPT !.stage = "answer"]
             ELSE IF UsesCerts(config)
             THEN [r EXCEPT !.stage = "certs", !.config = config]
             ELSE [r EXCEPT !.stage = "answer", !.config = config,
                            !.pod = Injected(r.pod, config, FALSE)]]
  BY DEF WithConfig
<1>. HIDE DEF r
<1>4. r.given \in PodSpecs /\ r.pod = r.given
  BY <1>1 DEF CorrectReview
<1>5. CASE Untouched(r.given, config)
  <2>1. CorrectReview([r EXCEPT !.stage = "answer"])
    BY <1>1, <1>4 DEF CorrectReview, AnswersTo
  <2>2. review' = [review EXCEPT ![p] = [r EXCEPT !.stage = "answer"]]
    BY <1>2, <1>5 DEF r
  <2>. QED BY <1>1, <2>1, <2>2, OneReviewStep
<1>6. CASE ~ Untouched(r.given, config) /\ UsesCerts(config)
  <2>1. CorrectReview([r EXCEPT !.stage = "certs", !.config = config])
    BY <1>1, <1>6 DEF CorrectReview, Untouched
  <2>2. review' = [review EXCEPT ![p] = [r EXCEPT !.stage = "certs",
                                                  !.config = config]]
    BY <1>2, <1>6 DEF r
  <2>. QED BY <1>1, <2>1, <2>2, OneReviewStep
<1>7. CASE ~ Untouched(r.given, config) /\ ~ UsesCerts(config)
  <2>. DEFINE pod == Injected(r.pod, config, FALSE)
  <2>1. pod \in PodSpecs /\ pod \in AnswersTo(r.given)
    <3>1. config \in ConfigMaps
      BY <1>7 DEF Untouched
    <3>. QED BY <1>4, <3>1, InjectedAnswer
  <2>2. review' = [review EXCEPT ![p] = [r EXCEPT !.stage = "answer",
                                                  !.config = config, !.pod = pod]]
    BY <1>2, <1>7 DEF r
  <2>. HIDE DEF pod
  <2>3. CorrectReview([r EXCEPT !.stage = "answer", !.config = config, !.pod = pod])
    BY <1>1, <2>1 DEF CorrectReview
  <2>. QED BY <1>1, <2>2, <2>3, OneReviewStep
<1>. QED BY <1>5, <1>6, <1>7

\* The second read injects into the pod as it was given.
LEMMA WithCertsCorrect ==
    ASSUME Correct, NEW p \in PodNames, NEW found \in BOOLEAN,
           WithCerts(p, found)
    PROVE  Correct'
<1>. DEFINE r == review[p]
<1>1. /\ r # None /\ r.stage = "certs" /\ CorrectReview(r)
      /\ UNCHANGED <<objects, pods>>
  BY DEF WithCerts, AtStage, Correct
<1>2. review' =
         [review EXCEPT ![p] =
             [r EXCEPT !.stage = "answer",
                       !.pod = Injected(r.pod, r.config, found)]]
  BY DEF WithCerts
<1>. HIDE DEF r
<1>. DEFINE pod == Injected(r.pod, r.config, found)
<1>4. pod \in PodSpecs /\ pod \in AnswersTo(r.given)
  <2>1. r.given \in PodSpecs /\ r.pod = r.given /\ r.config \in ConfigMaps
    BY <1>1 DEF CorrectReview
  <2>. QED BY <2>1, InjectedAnswer
<1>5. review' = [review EXCEPT ![p] = [r EXCEPT !.stage = "answer", !.pod = pod]]
  BY <1>2 DEF r
<1>. HIDE DEF pod
<1>6. CorrectReview([r EXCEPT !.stage = "answer", !.pod = pod])
  BY <1>1, <1>4 DEF CorrectReview
<1>. QED BY <1>1, <1>5, <1>6, OneReviewStep

\* A read that fails answers like one that finds nothing.
LEMMA HandleCorrect ==
    ASSUME Correct, NEW p \in PodNames, Handle(p)
    PROVE  Correct'
<1>1. configMap \in ConfigMaps \cup {None} /\ certs \in BOOLEAN
  BY DEF Correct
<1>2. CASE ReadConfig(p) \/ ReadConfigFails(p)
  BY <1>1, <1>2, WithConfigCorrect DEF ReadConfig, ReadConfigFails
<1>3. CASE ReadCerts(p) \/ ReadCertsFails(p)
  BY <1>1, <1>3, WithCertsCorrect DEF ReadCerts, ReadCertsFails
<1>. QED BY <1>2, <1>3 DEF Handle

\* Only what the API server accepts is stored.
LEMMA AnswerCorrect ==
    ASSUME Correct, NEW p \in PodNames, Answer(p)
    PROVE  Correct'
<1>. DEFINE stored == IF Accepted(p) THEN review[p].pod ELSE pods[p]
<1>1. /\ review[p] # None
      /\ pods' = [pods EXCEPT ![p] = stored]
      /\ review' = [review EXCEPT ![p] = None]
      /\ UNCHANGED objects
  BY DEF Answer, AtStage
<1>2. stored # None => CorrectPod(stored)
  <2>1. CASE Accepted(p)
    BY <1>1, <2>1 DEF Accepted, Correct, CorrectReview, CorrectPod
  <2>2. CASE ~ Accepted(p)
    BY <2>2 DEF Correct
  <2>. QED BY <2>1, <2>2
<1>. HIDE DEF stored
<1>. QED BY <1>1, <1>2, OnePodStep

\* A lost call leaves the stored pods alone.
LEMMA CallsLostCorrect ==
    ASSUME Correct, NEW lost, CallsLost(lost)
    PROVE  Correct'
<1>1. /\ review' = [p \in PodNames |-> IF p \in lost THEN None ELSE review[p]]
      /\ UNCHANGED <<configMap, certs, pods>>
  BY DEF CallsLost, objects
<1>. QED BY <1>1 DEF Correct, CorrectPod, CorrectReview

\* So do the other objects.
LEMMA EnvironmentCorrect ==
    ASSUME Correct, Environment
    PROVE  Correct'
<1>1. /\ configMap' \in ConfigMaps \cup {None}
      /\ certs' \in BOOLEAN
      /\ UNCHANGED <<pods, review>>
  BY DEF Environment, ConfigMapCreated, ConfigMapCollected, CertsCreated,
         CertsCollected, Correct
<1>. QED BY <1>1 DEF Correct, CorrectPod, CorrectReview

\* The invariant is inductive.
LEMMA CorrectStep == Correct /\ [Next]_vars => Correct'
<1>. SUFFICES ASSUME Correct, [Next]_vars PROVE Correct'
  OBVIOUS
<1>1. CASE \E p \in PodNames : Submitted(p)
  BY <1>1, SubmittedCorrect
<1>2. CASE \E p \in PodNames : Handle(p)
  BY <1>2, HandleCorrect
<1>3. CASE \E p \in PodNames : Answer(p)
  BY <1>3, AnswerCorrect
<1>4. CASE \E lost \in SUBSET PodNames : CallsLost(lost)
  BY <1>4, CallsLostCorrect
<1>5. CASE Environment
  BY <1>5, EnvironmentCorrect
<1>6. CASE UNCHANGED vars
  BY <1>6 DEF vars, Correct, CorrectPod, CorrectReview
<1>. QED BY <1>1, <1>2, <1>3, <1>4, <1>5, <1>6 DEF Next

\* Only a review for programme 2 waits for the certificates, and every stored
\* pod is valid, whatever Handle made of it (Handle's two reads).
THEOREM InjectorTypeCorrect == Spec => []TypeOK
<1>1. Correct => TypeOK
  <2>. SUFFICES ASSUME Correct PROVE TypeOK
    OBVIOUS
  <2>1. /\ configMap \in ConfigMaps \cup {None} /\ certs \in BOOLEAN
        /\ \A p \in PodNames : pods[p] # None => Valid(pods[p])
    BY DEF Correct, CorrectPod
  <2>2. ASSUME NEW p \in PodNames, review[p] # None
        PROVE  /\ review[p].request \in {"CREATE", "UPDATE"}
               /\ review[p].stage \in {"config", "certs", "answer"}
               /\ review[p].config \in ConfigMaps \cup {None}
               /\ review[p].stage = "certs" =>
                     review[p].config \in {c \in ConfigMaps : c.programme = 2}
    BY <2>2 DEF Correct, CorrectReview, UsesCerts
  <2>. QED BY <2>1, <2>2 DEF TypeOK
<1>. QED BY CorrectInitially, CorrectStep, <1>1, PTL DEF Spec

\* Whatever the mounts, the log directories, the programme and the certificates,
\* and however often the annotations change: a valid pod without a name of the
\* sidecar's, whose log directories have one mount at most, is answered with a
\* valid pod (Handle, Duplicate_mount_point).
THEOREM OrdinaryPodsStayAdmitted == Spec => []OrdinaryPodsAdmitted
<1>1. Correct => OrdinaryPodsAdmitted
  <2>. SUFFICES ASSUME Correct, NEW p \in PodNames, AtStage(p, "answer"),
                       Ordinary(review[p].given), Valid(review[p].given)
                PROVE  Valid(review[p].pod)
    BY DEF OrdinaryPodsAdmitted
  <2>1. review[p].given \in PodSpecs /\ review[p].pod \in AnswersTo(review[p].given)
    BY DEF AtStage, Correct, CorrectReview
  <2>2. CASE review[p].pod = review[p].given
    BY <2>2
  <2>3. CASE \E config \in ConfigMaps, found \in BOOLEAN :
                review[p].pod = Injected(review[p].given, config, found)
    BY <2>1, <2>3, InjectedValid
  <2>. QED BY <2>1, <2>2, <2>3 DEF AnswersTo
<1>. QED BY CorrectInitially, CorrectStep, <1>1, PTL DEF Spec
=============================================================================
