------------------------ MODULE SidecarInjectorProofs ------------------------
(***************************************************************************)
(* Theorems about SidecarInjector, for any pods with any containers, mounts *)
(* and log directories, any number of reviews and any history of the       *)
(* ConfigMap and the certificates.                                         *)
(***************************************************************************)
EXTENDS SidecarInjector, SequenceTheorems, TLAPS

-----------------------------------------------------------------------------
(* The containers of an injected pod                                       *)

Certificates(config, found) ==
    IF UsesCerts(config) THEN <<GenEsClusterHttps(found)>> ELSE <<>>

\* The pod's own containers after the injection, and the sidecar.
Extended(pod) ==
    LET containers == WithConfDir(pod.containers) IN
    [c \in DOMAIN containers |->
        [containers[c] EXCEPT
            !.mounts = @ \cup SharedMounts(Unmounted(containers, pod.logs))]]

FilebeatMounts(pod, config) ==
    {ConfDir} \cup SidecarMounts(WithConfDir(pod.containers), pod.logs)
              \cup (IF UsesCerts(config) THEN {CertsDir} ELSE {})

\* Injected appends containers at the end of the two sequences of a pod.
LEMMA InjectedParts ==
    ASSUME NEW pod \in Pods, NEW config, NEW found
    PROVE  /\ Injected(pod, config, found).inits =
                 pod.inits \o Certificates(config, found)
                           \o <<GenFilebeatYml(pod.logs, config)>>
           /\ Injected(pod, config, found).containers =
                 Extended(pod)
                    \o <<Container("filebeat", FilebeatMounts(pod, config), None)>>
<1>1. pod \in [optOut : BOOLEAN, logs : SUBSET STRING, volumes : Seq(SUBSET Volumes),
               inits : Seq(UserContainers),
               containers : Seq(UserContainers) \ {<<>>}]
  BY PodsAssumption DEF Submittable
<1> QED
  BY <1>1 DEF Injected, Certificates, Extended, FilebeatMounts

\* A user's container, with the configuration directory or without.
Prepared == [name : STRING, mounts : SUBSET (Mounts \cup {ConfDir}), writes : {None}]

\* Every container of a pod stays one under WithConfDir.
LEMMA ContainersPrepared ==
    ASSUME NEW pod \in Pods
    PROVE  /\ pod.containers \in Seq(UserContainers)
           /\ Len(pod.containers) \in Nat \ {0}
           /\ WithConfDir(pod.containers) \in [1..Len(pod.containers) -> Prepared]
<1>1. pod.containers \in Seq(UserContainers) /\ pod.containers # <<>>
  BY PodsAssumption DEF Submittable
<1>2. Len(pod.containers) \in Nat \ {0}
  BY <1>1, EmptySeq
<1>3. pod.containers \in [1..Len(pod.containers) -> UserContainers]
  BY <1>1
<1>4. \A x \in UserContainers :
         x \in Prepared /\ [x EXCEPT !.mounts = @ \cup {ConfDir}] \in Prepared
  BY DEF UserContainers, Prepared
<1>5. pod.containers[1] \in UserContainers
  BY <1>2, <1>3
<1> QED
  BY <1>1, <1>2, <1>3, <1>4, <1>5 DEF WithConfDir

\* A mount copied to the sidecar is the same volume at the same place.
LEMMA CopiedMount ==
    ASSUME NEW m \in Mounts \cup {ConfDir}, NEW c
    PROVE  /\ [m EXCEPT !.from = c].volume = m.volume
           /\ [m EXCEPT !.from = c].dir = m.dir
BY DEF Mounts, ConfDir, Mount

\* A volume that a prepared container mounts at a log directory is mounted at
\* it in the sidecar.
LEMMA SidecarGetsMount ==
    ASSUME NEW pod \in Pods, NEW d \in pod.logs,
           NEW c \in 1..Len(pod.containers),
           NEW m \in WithConfDir(pod.containers)[c].mounts, m.dir = d
    PROVE  \E x \in SidecarMounts(WithConfDir(pod.containers), pod.logs) :
              x.dir = d /\ x.volume = m.volume
<1> DEFINE x == [m EXCEPT !.from = c]
           containers == WithConfDir(pod.containers)
<1>5. c \in DOMAIN containers /\ containers[c] \in Prepared
  BY ContainersPrepared
<1>1. m \in Mounts \cup {ConfDir}
  BY <1>5 DEF Prepared
<1> HIDE DEF containers
<1>2. x.dir = d /\ x.volume = m.volume
  BY <1>1, CopiedMount
<1>3. x \in MountsAt(containers, d)
  <2> DEFINE copies(k) == {[y EXCEPT !.from = k] :
                              y \in {z \in containers[k].mounts : z.dir = d}}
  <2>1. x \in copies(c)
    BY DEF containers
  <2>3. MountsAt(containers, d) = UNION {copies(k) : k \in DOMAIN containers}
    BY DEF MountsAt
  <2> HIDE DEF copies
  <2> QED
    BY <1>5, <2>1, <2>3
<1>4. x \in SidecarMounts(containers, pod.logs)
  BY <1>3 DEF SidecarMounts
<1> QED
  BY <1>2, <1>4 DEF containers

\* The injection leaves every log directory mounted by a container of the pod.
LEMMA DirectoryMounted ==
    ASSUME NEW pod \in Pods, NEW d \in pod.logs
    PROVE  LET containers == WithConfDir(pod.containers) IN
           \E c \in 1..Len(pod.containers) :
              \E m \in containers[c].mounts
                          \cup SharedMounts(Unmounted(containers, pod.logs)) :
                 m.dir = d
<1> DEFINE n == Len(pod.containers)
           containers == WithConfDir(pod.containers)
<1>3. n \in Nat \ {0} /\ DOMAIN containers = 1..n
  BY ContainersPrepared
<1> HIDE DEF n, containers
<1> SUFFICES \E c \in 1..n :
                \E m \in containers[c].mounts
                            \cup SharedMounts(Unmounted(containers, pod.logs)) :
                   m.dir = d
  BY DEF n, containers
<1>1. CASE d \in Unmounted(containers, pod.logs)
  <2>1. Mount(SharedVolume(d), d, TRUE)
           \in SharedMounts(Unmounted(containers, pod.logs))
    BY <1>1 DEF SharedMounts
  <2>2. Mount(SharedVolume(d), d, TRUE).dir = d
    BY DEF Mount
  <2>3. 1 \in 1..n
    BY <1>3
  <2> QED
    BY <2>1, <2>2, <2>3
<1>2. CASE d \notin Unmounted(containers, pod.logs)
  <2>1. PICK c \in 1..n : \E m \in containers[c].mounts : m.dir = d
    BY <1>2, <1>3 DEF Unmounted, MountsAt
  <2> QED
    BY <2>1
<1> QED
  BY <1>1, <1>2

-----------------------------------------------------------------------------
(* An injected pod shares its logs                                         *)

\* Appending one element to a sequence.
LEMMA AppendedLast ==
    ASSUME NEW S, NEW s \in Seq(S), NEW e
    PROVE  /\ s \o <<e>> \in Seq(S \cup {e})
           /\ Len(s \o <<e>>) = Len(s) + 1
           /\ Len(s) \in Nat
           /\ (s \o <<e>>)[Len(s) + 1] = e
           /\ \A i \in 1..Len(s) : (s \o <<e>>)[i] = s[i]
<1>1. s \in Seq(S \cup {e}) /\ <<e>> \in Seq(S \cup {e})
  OBVIOUS
<1> QED
  BY <1>1

\* r has the elements of s and behind them those of t.
Joined(r, s, t) ==
    /\ DOMAIN s = 1..Len(s)
    /\ DOMAIN t = 1..Len(t)
    /\ DOMAIN r = 1..(Len(s) + Len(t))
    /\ \A i \in 1..Len(s) : r[i] = s[i]
    /\ \A i \in 1..Len(t) : r[Len(s) + i] = t[i]

\* The places of two sequences in their concatenation.
LEMMA Concatenated ==
    ASSUME NEW S, NEW s \in Seq(S), NEW t \in Seq(S)
    PROVE  Joined(s \o t, s, t)
<1>1. /\ s \o t \in Seq(S)
      /\ Len(s \o t) = Len(s) + Len(t)
      /\ Len(s) \in Nat /\ Len(t) \in Nat
  OBVIOUS
<1>2. \A i \in 1..Len(t) : (s \o t)[Len(s) + i] = t[i]
  BY <1>1
<1> QED
  BY <1>1, <1>2 DEF Joined

\* The init container that writes the configuration comes last.
LEMMA InjectedInits ==
    ASSUME NEW pod \in Pods, NEW config, NEW found
    PROVE  LET inits == Injected(pod, config, found).inits IN
           /\ \E S : inits \in Seq(S)
           /\ Len(inits) \in Nat \ {0}
           /\ inits[Len(inits)] = GenFilebeatYml(pod.logs, config)
<1> DEFINE before == pod.inits \o Certificates(config, found)
           S == UserContainers \cup {GenEsClusterHttps(found)}
           last == GenFilebeatYml(pod.logs, config)
<1>1. pod.inits \in Seq(UserContainers)
  BY PodsAssumption DEF Submittable
<1>2. pod.inits \in Seq(S)
  BY <1>1
<1>3. Certificates(config, found) \in Seq(S)
  <2> DEFINE e == GenEsClusterHttps(found)
  <2>1. e \in S
    OBVIOUS
  <2> HIDE DEF S, e
  <2>2. <<e>> \in Seq(S) /\ <<>> \in Seq(S)
    BY <2>1
  <2>3. Certificates(config, found) \in {<<e>>, <<>>}
    BY DEF Certificates, e
  <2> QED
    BY <2>2, <2>3
<1>4. before \in Seq(S)
  BY <1>2, <1>3
<1> HIDE DEF before, S, last
<1>5. /\ before \o <<last>> \in Seq(S \cup {last})
      /\ Len(before \o <<last>>) \in Nat \ {0}
      /\ (before \o <<last>>)[Len(before \o <<last>>)] = last
  BY <1>4, AppendedLast
<1>6. Injected(pod, config, found).inits = before \o <<last>>
  BY InjectedParts DEF before, last
<1> QED
  BY <1>5, <1>6 DEF last

\* The sidecar is the last container, behind those of the user.
LEMMA InjectedContainers ==
    ASSUME NEW pod \in Pods, NEW config, NEW found
    PROVE  LET containers == Injected(pod, config, found).containers
               n == Len(pod.containers)
           IN /\ \E S : containers \in Seq(S)
              /\ n \in Nat \ {0}
              /\ Len(containers) = n + 1
              /\ containers[n + 1].name = "filebeat"
              /\ containers[n + 1].mounts = FilebeatMounts(pod, config)
              /\ \A c \in 1..n :
                    containers[c].mounts =
                       WithConfDir(pod.containers)[c].mounts
                          \cup SharedMounts(Unmounted(
                                  WithConfDir(pod.containers), pod.logs))
<1> DEFINE n == Len(pod.containers)
           mine == WithConfDir(pod.containers)
           own == Extended(pod)
           S == {own[c] : c \in 1..n}
           last == Container("filebeat", FilebeatMounts(pod, config), None)
           new == SharedMounts(Unmounted(mine, pod.logs))
<1>1. n \in Nat \ {0} /\ mine \in [1..n -> Prepared]
  BY ContainersPrepared
<1>2. own = [c \in 1..n |-> [mine[c] EXCEPT !.mounts = @ \cup new]]
  BY <1>1 DEF Extended
<1>3. \A c \in 1..n : own[c].mounts = mine[c].mounts \cup new
  <2> SUFFICES ASSUME NEW c \in 1..n
               PROVE  own[c].mounts = mine[c].mounts \cup new
    OBVIOUS
  <2>1. mine[c] \in Prepared
    BY <1>1
  <2> HIDE DEF new, mine
  <2> QED
    BY <1>2, <2>1 DEF Prepared
<1>4. own \in Seq(S) /\ Len(own) = n
  <2> HIDE DEF own, n, mine, new
  <2>1. own \in [1..n -> S]
    BY <1>2
  <2> QED
    BY <1>1, <2>1
<1>5. Injected(pod, config, found).containers = own \o <<last>>
  BY InjectedParts
<1>7. last.name = "filebeat" /\ last.mounts = FilebeatMounts(pod, config)
  BY DEF Container
<1> HIDE DEF own, S, last, n, mine, new
<1>6. /\ own \o <<last>> \in Seq(S \cup {last})
      /\ Len(own \o <<last>>) = n + 1
      /\ (own \o <<last>>)[n + 1] = last
      /\ \A c \in 1..n : (own \o <<last>>)[c] = own[c]
  BY <1>4, AppendedLast
<1> QED
  BY <1>1, <1>3, <1>5, <1>6, <1>7 DEF n, mine, new

\* In a pod that the API server accepts, no other container is called filebeat,
\* and no other init container writes a configuration.
LEMMA OneSidecar ==
    ASSUME NEW pod \in Pods, NEW config, NEW found,
           Valid(Injected(pod, config, found))
    PROVE  /\ SidecarsOf(Injected(pod, config, found))
                 \subseteq {Len(pod.containers) + 1}
           /\ Inputs(Injected(pod, config, found)) \subseteq pod.logs
<1> DEFINE q == Injected(pod, config, found)
           n == Len(pod.containers)
           k == Len(q.inits)
           all == q.inits \o q.containers
<1>1. PICK S : q.inits \in Seq(S)
  BY InjectedInits
<1>2. PICK T : q.containers \in Seq(T)
  BY InjectedContainers
<1>3. q.inits[k] = GenFilebeatYml(pod.logs, config)
  BY InjectedInits
<1>4. q.containers[n + 1].name = "filebeat"
  BY InjectedContainers
<1>10. k \in Nat \ {0} /\ n \in Nat \ {0}
  BY InjectedInits, InjectedContainers
<1>11. Len(q.inits) = k /\ Len(q.containers) = n + 1
  BY InjectedContainers
<1>5. \A i, j \in DOMAIN all : all[i].name = all[j].name => i = j
  BY DEF Valid
<1> HIDE DEF q, n, k
<1>6. q.inits \in Seq(S \cup T) /\ q.containers \in Seq(S \cup T)
  BY <1>1, <1>2
<1>7. /\ DOMAIN all = 1..(k + n + 1)
      /\ \A i \in 1..k : all[i] = q.inits[i]
      /\ \A c \in 1..(n + 1) : all[k + c] = q.containers[c]
      /\ DOMAIN q.containers = 1..(n + 1)
      /\ DOMAIN q.inits = 1..k
  <2>1. k + (n + 1) = k + n + 1
    BY <1>10
  <2>2. Joined(all, q.inits, q.containers)
    <3> DEFINE U == S \cup T
    <3>1. q.inits \in Seq(U) /\ q.containers \in Seq(U)
      BY <1>6
    <3> HIDE DEF U
    <3> QED
      BY <3>1, Concatenated
  <2> QED
    BY <1>11, <2>1, <2>2 DEF Joined
<1> HIDE DEF all
<1>8. SidecarsOf(q) \subseteq {n + 1}
  <2> SUFFICES ASSUME NEW c \in 1..(n + 1), q.containers[c].name = "filebeat"
               PROVE  c = n + 1
    BY <1>7 DEF SidecarsOf
  <2>1. all[k + c].name = all[k + (n + 1)].name
    BY <1>4, <1>7, <1>10
  <2>2. k + c \in DOMAIN all /\ k + (n + 1) \in DOMAIN all
    BY <1>7, <1>10
  <2>3. k + c = k + (n + 1)
    BY <1>5, <2>1, <2>2
  <2> QED
    BY <1>10, <2>3
<1>9. Inputs(q) \subseteq pod.logs
  <2> SUFFICES ASSUME NEW j \in 1..k, q.inits[j].name = "genfilebeatyml"
               PROVE  q.inits[j].writes.inputs = pod.logs
    BY <1>7 DEF Inputs
  <2>1. /\ q.inits[k].name = "genfilebeatyml"
        /\ q.inits[k].writes.inputs = pod.logs
    BY <1>3 DEF GenFilebeatYml, Container
  <2>2. j = k
    <3>1. j \in DOMAIN all /\ k \in DOMAIN all /\ k \in 1..k
      BY <1>7, <1>10
    <3> QED
      BY <1>5, <1>7, <2>1, <3>1
  <2> QED
    BY <2>1, <2>2
<1> QED
  BY <1>8, <1>9 DEF q, n

\* What the sidecar mounts outside the directory of the certificates, a
\* container of the pod mounts there too.
LEMMA SidecarMountsNoMore ==
    ASSUME NEW pod \in Pods, NEW config,
           NEW x \in FilebeatMounts(pod, config), x.dir # CertsDir.dir
    PROVE  LET containers == WithConfDir(pod.containers) IN
           \E c \in 1..Len(pod.containers) :
              \E m \in containers[c].mounts
                          \cup SharedMounts(Unmounted(containers, pod.logs)) :
                 m.dir = x.dir /\ m.volume = x.volume
<1> DEFINE n == Len(pod.containers)
           containers == WithConfDir(pod.containers)
           new == SharedMounts(Unmounted(containers, pod.logs))
<1>1. /\ n \in Nat \ {0} /\ DOMAIN containers = 1..n
      /\ \A c \in 1..n : containers[c].mounts \subseteq Mounts \cup {ConfDir}
  BY ContainersPrepared DEF Prepared
<1>2. ConfDir \in containers[1].mounts
  BY <1>1, ContainersPrepared DEF WithConfDir, UserContainers
<1>3. \/ x = ConfDir
      \/ x \in new
      \/ \E d \in pod.logs : x \in MountsAt(containers, d)
  BY DEF FilebeatMounts, SidecarMounts
<1> HIDE DEF n, containers, new
<1> SUFFICES \E c \in 1..n : \E m \in containers[c].mounts \cup new :
                m.dir = x.dir /\ m.volume = x.volume
  BY DEF n, containers, new
<1>4. CASE x = ConfDir \/ x \in new
  BY <1>1, <1>2, <1>4
<1>5. CASE \E d \in pod.logs : x \in MountsAt(containers, d)
  <2>1. PICK c \in 1..n : \E m \in containers[c].mounts : x = [m EXCEPT !.from = c]
    BY <1>1, <1>5 DEF MountsAt
  <2>3. PICK m \in containers[c].mounts : x = [m EXCEPT !.from = c]
    BY <2>1
  <2>2. x.dir = m.dir /\ x.volume = m.volume
    BY <1>1, <2>3, CopiedMount
  <2> QED
    BY <2>2
<1> QED
  BY <1>3, <1>4, <1>5

\* A shared volume that Handle has added is one of a directory that nobody mounts.
LEMMA AddedIsUnmounted ==
    ASSUME NEW pod \in Pods, NEW config, NEW found, NEW d,
           SharedVolume(d) \in VolumesAdded(Injected(pod, config, found))
    PROVE  d \in Unmounted(WithConfDir(pod.containers), pod.logs)
<1> DEFINE containers == WithConfDir(pod.containers)
           new == {SharedVolume(e) : e \in Unmounted(containers, pod.logs)}
           added == {ConfDir.volume} \cup new
                       \cup (IF UsesCerts(config) THEN {CertsDir.volume} ELSE {})
<1>1. pod \in [optOut : BOOLEAN, logs : SUBSET STRING, volumes : Seq(SUBSET Volumes),
               inits : Seq(UserContainers),
               containers : Seq(UserContainers) \ {<<>>}]
  BY PodsAssumption DEF Submittable
<1>2. Injected(pod, config, found).volumes = Append(pod.volumes, added)
  BY <1>1 DEF Injected
<1>3. pod.volumes \in Seq(SUBSET Volumes)
  BY <1>1
<1> HIDE DEF added
<1>4. VolumesAdded(Injected(pod, config, found)) = added
  BY <1>2, <1>3 DEF VolumesAdded
<1>5. SharedVolume(d) # ConfDir.volume /\ SharedVolume(d) # CertsDir.volume
  BY DEF SharedVolume, Volume, ConfDir, CertsDir, Mount
<1>6. SharedVolume(d) \in new
  BY <1>4, <1>5 DEF added
<1> QED
  BY <1>6 DEF SharedVolume

\* Where nobody mounts anything, the shared volume is all that is mounted.
LEMMA SharedAlone ==
    ASSUME NEW pod \in Pods, NEW c \in 1..Len(pod.containers),
           NEW d \in Unmounted(WithConfDir(pod.containers), pod.logs)
    PROVE  LET containers == WithConfDir(pod.containers)
               mounts == containers[c].mounts
                            \cup SharedMounts(Unmounted(containers, pod.logs))
           IN {m.volume : m \in {x \in mounts : x.dir = d}} = {SharedVolume(d)}
<1> DEFINE containers == WithConfDir(pod.containers)
           none == Unmounted(containers, pod.logs)
<1>1. c \in DOMAIN containers /\ d \in none
  BY ContainersPrepared
<1> HIDE DEF containers
<1>2. \A m \in containers[c].mounts : m.dir # d
  <2> DEFINE copies(k) == {[y EXCEPT !.from = k] :
                              y \in {z \in containers[k].mounts : z.dir = d}}
  <2>1. MountsAt(containers, d) = {}
    BY <1>1 DEF Unmounted
  <2>2. MountsAt(containers, d) = UNION {copies(k) : k \in DOMAIN containers}
    BY DEF MountsAt
  <2>3. copies(c) = {}
    <3> HIDE DEF copies
    <3> QED
      BY <1>1, <2>1, <2>2
  <2> QED
    BY <2>3
<1>3. \A m \in SharedMounts(none) :
          m.dir = d => m.volume = SharedVolume(d)
  BY DEF SharedMounts, Mount
<1>4. \E m \in SharedMounts(none) : m.dir = d /\ m.volume = SharedVolume(d)
  <2> DEFINE m == Mount(SharedVolume(d), d, TRUE)
  <2>1. m \in SharedMounts(none)
    BY <1>1 DEF SharedMounts
  <2>2. m.dir = d /\ m.volume = SharedVolume(d)
    BY DEF Mount
  <2> HIDE DEF m
  <2> QED
    BY <2>1, <2>2
<1> HIDE DEF none
<1> QED
  BY <1>2, <1>3, <1>4 DEF containers, none

\* What Handle makes of a pod shares the logs of the pod, if it is accepted.
LEMMA InjectedSharesLogs ==
    ASSUME NEW pod \in Pods, NEW config, NEW found,
           Valid(Injected(pod, config, found))
    PROVE  SharesLogs(Injected(pod, config, found))
<1> DEFINE q == Injected(pod, config, found)
           n == Len(pod.containers)
           mine == WithConfDir(pod.containers)
           none == Unmounted(mine, pod.logs)
           new == SharedMounts(none)
           mounted(d) == UNION {VolumesAt(q, c, d) : c \in 1..n}
<1>1. n \in Nat \ {0}
  BY ContainersPrepared
<1>3. /\ Len(q.containers) = n + 1
      /\ \E S : q.containers \in Seq(S)
      /\ \A c \in 1..n : q.containers[c].mounts = mine[c].mounts \cup new
      /\ q.containers[n + 1].mounts = FilebeatMounts(pod, config)
  BY InjectedContainers
<1>4. SidecarsOf(q) \subseteq {n + 1} /\ Inputs(q) \subseteq pod.logs
  BY OneSidecar
<1>5. /\ new \subseteq FilebeatMounts(pod, config)
      /\ SidecarMounts(mine, pod.logs) \subseteq FilebeatMounts(pod, config)
  BY DEF FilebeatMounts, SidecarMounts
<1> HIDE DEF q, n, mine, none, new
<1>6. SUFFICES ASSUME NEW d \in pod.logs, d # CertsDir.dir
               PROVE  /\ mounted(d) # {}
                      /\ VolumesAt(q, n + 1, d) = mounted(d)
                      /\ SharedVolume(d) \in VolumesAdded(q) =>
                            \A c \in 1..n : VolumesAt(q, c, d) = {SharedVolume(d)}
  <2>1. DOMAIN q.containers \ {n + 1} = 1..n
    BY <1>1, <1>3
  <2> QED
    BY <1>4, <2>1 DEF SharesLogs, q
<1>7. ASSUME NEW c \in 1..n, NEW m \in q.containers[c].mounts, m.dir = d
      PROVE  m.volume \in VolumesAt(q, n + 1, d)
  <2>1. CASE m \in new
    BY <1>3, <1>5, <1>7, <2>1 DEF VolumesAt
  <2>2. CASE m \in mine[c].mounts
    <3>1. PICK x \in SidecarMounts(mine, pod.logs) :
             x.dir = d /\ x.volume = m.volume
      BY <1>7, <2>2, SidecarGetsMount DEF n, mine
    <3> QED
      BY <1>3, <1>5, <3>1 DEF VolumesAt
  <2> QED
    BY <1>3, <1>7, <2>1, <2>2
<1>8. mounted(d) \subseteq VolumesAt(q, n + 1, d)
  BY <1>7 DEF VolumesAt
<1>9. ASSUME NEW x \in q.containers[n + 1].mounts, x.dir = d
      PROVE  x.volume \in mounted(d)
  <2>1. PICK c \in 1..n : \E m \in mine[c].mounts \cup new :
                m.dir = x.dir /\ m.volume = x.volume
    BY <1>3, <1>6, <1>9, SidecarMountsNoMore DEF n, mine, none, new
  <2>2. x.volume \in VolumesAt(q, c, d)
    BY <1>3, <1>9, <2>1 DEF VolumesAt
  <2> QED
    BY <2>2
<1>10. VolumesAt(q, n + 1, d) \subseteq mounted(d)
  BY <1>9 DEF VolumesAt
<1>11. mounted(d) # {}
  <2>1. PICK c \in 1..n : \E m \in mine[c].mounts \cup new : m.dir = d
    BY DirectoryMounted DEF n, mine, none, new
  <2>2. VolumesAt(q, c, d) # {}
    BY <1>3, <2>1 DEF VolumesAt
  <2> QED
    BY <2>2
<1>12. ASSUME SharedVolume(d) \in VolumesAdded(q), NEW c \in 1..n
       PROVE  VolumesAt(q, c, d) = {SharedVolume(d)}
  <2>1. d \in none
    BY <1>12, AddedIsUnmounted DEF q, mine, none
  <2>2. {m.volume : m \in {x \in mine[c].mounts \cup new : x.dir = d}}
            = {SharedVolume(d)}
    BY <2>1, SharedAlone DEF n, mine, none, new
  <2> QED
    BY <1>3, <2>2 DEF VolumesAt
<1> QED
  BY <1>8, <1>10, <1>11, <1>12

-----------------------------------------------------------------------------
(* The invariant                                                           *)

\* A pod under review for its creation is a user's, or what Handle makes of one.
Answers ==
    Pods \cup {Injected(pod, config, found) :
                  pod \in Pods, config \in ConfigMaps, found \in BOOLEAN}

\* What Handle has in hand of a review: until it answers, the pod of the user;
\* and never a pod to be created that it has not made itself from a user's.
HandledReview(r) ==
    /\ r \in [request : {r.request}, stage : {r.stage}, given : {r.given},
              pod : {r.pod}, config : {r.config}]
    /\ r.stage = "certs" => r.config \in ConfigMaps
    /\ r.request = "CREATE" =>
          /\ r.pod \in Answers
          /\ r.stage # "answer" => r.pod \in Pods

Handled ==
    /\ configMap \in ConfigMaps \cup {None}
    /\ certs \in BOOLEAN
    /\ pods = [p \in PodNames |-> pods[p]]
    /\ review = [p \in PodNames |-> review[p]]
    /\ \A p \in PodNames : review[p] # None => HandledReview(review[p])

HandledInv == Handled /\ LogsShared

\* A pod as its user submits it has no configuration of Filebeat in it.
LEMMA SubmittedSharesLogs ==
    ASSUME NEW pod \in Pods
    PROVE  SharesLogs(pod)
<1>1. \A i \in DOMAIN pod.inits : pod.inits[i].name # "genfilebeatyml"
  BY PodsAssumption DEF Submittable
<1>2. Inputs(pod) = {}
  BY <1>1 DEF Inputs
<1> QED
  BY <1>2 DEF SharesLogs

\* Only the volumes and containers of a pod say whether it shares its logs.
LEMMA SameSpecSharesLogs ==
    ASSUME NEW pod, NEW stored, SameSpec(pod, stored), SharesLogs(stored)
    PROVE  SharesLogs(pod)
<1>1. \A c, d : VolumesAt(pod, c, d) = VolumesAt(stored, c, d)
  BY DEF SameSpec, VolumesAt
<1>2. /\ Inputs(pod) = Inputs(stored) /\ SidecarsOf(pod) = SidecarsOf(stored)
      /\ VolumesAdded(pod) = VolumesAdded(stored)
  BY DEF SameSpec, Inputs, SidecarsOf, VolumesAdded
<1> QED
  BY <1>1, <1>2 DEF SameSpec, SharesLogs

\* Whether the certificates are found or not.
LEMMA InjectedAnswers ==
    ASSUME NEW pod \in Pods, NEW config \in ConfigMaps
    PROVE  /\ Injected(pod, config, FALSE) \in Answers
           /\ Injected(pod, config, TRUE) \in Answers
<1>1. \A found \in BOOLEAN : Injected(pod, config, found) \in Answers
  BY DEF Answers
<1> QED
  BY <1>1

\* What the API server stores shares its logs.
LEMMA AcceptedSharesLogs ==
    ASSUME HandledInv, NEW p \in PodNames, review[p] # None,
           Accepted(p)
    PROVE  SharesLogs(review[p].pod)
<1>1. CASE review[p].request = "CREATE"
  <2>1. review[p].pod \in Answers /\ Valid(review[p].pod)
    BY <1>1 DEF HandledInv, Handled, HandledReview, Accepted
  <2> QED
    BY <2>1, SubmittedSharesLogs, InjectedSharesLogs DEF Answers
<1>2. CASE review[p].request # "CREATE"
  <2>1. pods[p] # None /\ SameSpec(review[p].pod, pods[p])
    BY <1>2 DEF Accepted
  <2>2. SharesLogs(pods[p])
    BY <2>1 DEF HandledInv, LogsShared
  <2> QED
    BY <2>1, <2>2, SameSpecSharesLogs
<1> QED
  BY <1>1, <1>2

-----------------------------------------------------------------------------
(* Every step keeps the invariant                                          *)

\* Nothing is stored, and no review is under way.
LEMMA HandledInitially == Init => HandledInv
BY DEF Init, HandledInv, Handled, LogsShared

\* A step on one review that leaves the objects alone.
LEMMA OneReview ==
    ASSUME HandledInv, NEW p \in PodNames, NEW r,
           r # None => HandledReview(r),
           review' = [review EXCEPT ![p] = r], UNCHANGED <<objects, pods>>
    PROVE  HandledInv'
<1>1. Handled'
  <2>1. /\ configMap' \in ConfigMaps \cup {None}
        /\ certs' \in BOOLEAN
        /\ pods' = [q \in PodNames |-> pods'[q]]
    BY DEF HandledInv, Handled, objects
  <2>2. \A q \in PodNames : review'[q] = IF q = p THEN r ELSE review[q]
    BY DEF HandledInv, Handled
  <2>3. review' = [q \in PodNames |-> review'[q]]
    BY DEF HandledInv, Handled
  <2>4. \A q \in PodNames : review'[q] # None => HandledReview(review'[q])
    BY <2>2 DEF HandledInv, Handled
  <2> QED
    BY <2>1, <2>3, <2>4 DEF Handled, HandledReview
<1>2. LogsShared'
  BY DEF HandledInv, LogsShared
<1> QED
  BY <1>1, <1>2 DEF HandledInv

\* CREATE and UPDATE start a review of a user's pod; DELETE stores nothing.
LEMMA SubmittedKeeps ==
    ASSUME HandledInv, NEW p \in PodNames, Submitted(p)
    PROVE  HandledInv'
<1>1. ASSUME NEW pod \in Pods, CreatePod(p, pod)
      PROVE  HandledInv'
  <2>1. HandledReview(Review("CREATE", pod))
    BY DEF HandledReview, Review, Answers
  <2> QED
    BY <1>1, <2>1, OneReview DEF CreatePod
<1>2. ASSUME NEW logs, NEW optOut, UpdatePod(p, logs, optOut)
      PROVE  HandledInv'
  <2> DEFINE pod == [pods[p] EXCEPT !.logs = logs, !.optOut = optOut]
  <2>1. HandledReview(Review("UPDATE", pod))
    BY DEF HandledReview, Review
  <2> QED
    BY <1>2, <2>1, OneReview DEF UpdatePod
<1>3. CASE DeletePod(p)
  <2>1. /\ pods' = [q \in PodNames |-> IF q = p THEN None ELSE pods[q]]
        /\ UNCHANGED <<objects, review>>
    BY <1>3 DEF DeletePod, HandledInv, Handled
  <2>2. Handled'
    BY <2>1 DEF HandledInv, Handled, HandledReview, objects
  <2>3. LogsShared'
    BY <2>1 DEF HandledInv, LogsShared
  <2> QED
    BY <2>2, <2>3 DEF HandledInv
<1> QED
  BY <1>1, <1>2, <1>3 DEF Submitted

\* The injection, but for programme 2, works on the pod that the user submits.
LEMMA WithConfigKeeps ==
    ASSUME HandledInv, NEW p \in PodNames, NEW config \in ConfigMaps \cup {None},
           WithConfig(p, config)
    PROVE  HandledInv'
<1> DEFINE r == review[p]
<1>1. /\ r # None /\ r.stage = "config" /\ HandledReview(r)
      /\ UNCHANGED <<objects, pods>>
  BY DEF WithConfig, AtStage, HandledInv, Handled
<1>2. review' =
         [review EXCEPT ![p] =
             IF Untouched(r.given, config)
             THEN [r EXCEPT !.stage = "answer"]
             ELSE IF UsesCerts(config)
             THEN [r EXCEPT !.stage = "certs", !.config = config]
             ELSE [r EXCEPT !.stage = "answer", !.config = config,
                            !.pod = Injected(r.pod, config, FALSE)]]
  BY DEF WithConfig
<1> HIDE DEF r
<1>4. CASE Untouched(r.given, config)
  <2>1. HandledReview([r EXCEPT !.stage = "answer"])
    BY <1>1 DEF HandledReview, Answers
  <2>2. review' = [review EXCEPT ![p] = [r EXCEPT !.stage = "answer"]]
    BY <1>2, <1>4 DEF r
  <2> QED
    BY <1>1, <2>1, <2>2, OneReview
<1>5. CASE ~ Untouched(r.given, config) /\ UsesCerts(config)
  <2>1. HandledReview([r EXCEPT !.stage = "certs", !.config = config])
    BY <1>1, <1>5 DEF HandledReview, Untouched
  <2>2. review' = [review EXCEPT ![p] = [r EXCEPT !.stage = "certs",
                                                  !.config = config]]
    BY <1>2, <1>5 DEF r
  <2> QED
    BY <1>1, <2>1, <2>2, OneReview
<1>6. CASE ~ Untouched(r.given, config) /\ ~ UsesCerts(config)
  <2> DEFINE pod == Injected(r.pod, config, FALSE)
  <2>1. r.request = "CREATE" => pod \in Answers
    <3>1. config \in ConfigMaps
      BY <1>6 DEF Untouched
    <3>2. r.request = "CREATE" => r.pod \in Pods
      BY <1>1 DEF HandledReview
    <3> QED
      BY <3>1, <3>2, InjectedAnswers
  <2>3. review' = [review EXCEPT ![p] = [r EXCEPT !.stage = "answer",
                                                  !.config = config, !.pod = pod]]
    BY <1>2, <1>6 DEF r
  <2> HIDE DEF pod
  <2>2. HandledReview([r EXCEPT !.stage = "answer", !.config = config, !.pod = pod])
    BY <1>1, <2>1 DEF HandledReview
  <2> QED
    BY <1>1, <2>2, <2>3, OneReview
<1> QED
  BY <1>4, <1>5, <1>6

\* So does the injection with the certificates, read or not.
LEMMA WithCertsKeeps ==
    ASSUME HandledInv, NEW p \in PodNames, NEW found \in BOOLEAN,
           WithCerts(p, found)
    PROVE  HandledInv'
<1> DEFINE r == review[p]
<1>1. /\ r # None /\ r.stage = "certs" /\ HandledReview(r)
      /\ UNCHANGED <<objects, pods>>
  BY DEF WithCerts, AtStage, HandledInv, Handled
<1>2. review' =
         [review EXCEPT ![p] =
             [r EXCEPT !.stage = "answer",
                       !.pod = Injected(r.pod, r.config, found)]]
  BY DEF WithCerts
<1> HIDE DEF r
<1> DEFINE pod == Injected(r.pod, r.config, found)
<1>4. r.request = "CREATE" => pod \in Answers
  BY <1>1 DEF HandledReview, Answers
<1>6. review' = [review EXCEPT ![p] = [r EXCEPT !.stage = "answer", !.pod = pod]]
  BY <1>2 DEF r
<1> HIDE DEF pod
<1>5. HandledReview([r EXCEPT !.stage = "answer", !.pod = pod])
  BY <1>1, <1>4 DEF HandledReview
<1> QED
  BY <1>1, <1>5, <1>6, OneReview

\* A read answers with what is there; one that fails, with nothing.
LEMMA HandleKeeps ==
    ASSUME HandledInv, NEW p \in PodNames, Handle(p)
    PROVE  HandledInv'
<1>1. configMap \in ConfigMaps \cup {None} /\ certs \in BOOLEAN
  BY DEF HandledInv, Handled
<1>2. CASE ReadConfig(p) \/ ReadConfigFails(p)
  BY <1>1, <1>2, WithConfigKeeps DEF ReadConfig, ReadConfigFails
<1>3. CASE ReadCerts(p) \/ ReadCertsFails(p)
  BY <1>1, <1>3, WithCertsKeeps DEF ReadCerts, ReadCertsFails
<1> QED
  BY <1>2, <1>3 DEF Handle

\* The API server stores what AcceptedSharesLogs speaks of, or nothing.
LEMMA AnswerKeeps ==
    ASSUME HandledInv, NEW p \in PodNames, Answer(p)
    PROVE  HandledInv'
<1> DEFINE stored == IF Accepted(p) THEN review[p].pod ELSE pods[p]
<1>1. /\ review[p] # None
      /\ pods' = [q \in PodNames |-> IF q = p THEN stored ELSE pods[q]]
      /\ review' = [q \in PodNames |-> IF q = p THEN None ELSE review[q]]
      /\ UNCHANGED objects
  BY DEF Answer, AtStage, HandledInv, Handled
<1>2. stored # None => SharesLogs(stored)
  BY <1>1, AcceptedSharesLogs DEF HandledInv, LogsShared
<1> HIDE DEF stored
<1>3. Handled'
  BY <1>1 DEF HandledInv, Handled, HandledReview, objects
<1>4. LogsShared'
  BY <1>1, <1>2 DEF HandledInv, LogsShared
<1> QED
  BY <1>3, <1>4 DEF HandledInv

\* A review without an answer stores nothing.
LEMMA CallsLostKeeps ==
    ASSUME HandledInv, NEW lost, CallsLost(lost)
    PROVE  HandledInv'
<1>1. Handled'
  BY DEF CallsLost, HandledInv, Handled, HandledReview, objects
<1>2. LogsShared'
  BY DEF CallsLost, HandledInv, LogsShared
<1> QED
  BY <1>1, <1>2 DEF HandledInv

\* What the webhook has read is not what exists any more: it does not matter.
LEMMA EnvironmentKeeps ==
    ASSUME HandledInv, Environment
    PROVE  HandledInv'
<1>1. /\ configMap' \in ConfigMaps \cup {None}
      /\ certs' \in BOOLEAN
      /\ UNCHANGED <<pods, review>>
  BY DEF Environment, ConfigMapCreated, ConfigMapCollected, CertsCreated,
         CertsCollected, HandledInv, Handled
<1>2. Handled'
  BY <1>1 DEF HandledInv, Handled, HandledReview
<1>3. LogsShared'
  BY <1>1 DEF HandledInv, LogsShared
<1> QED
  BY <1>2, <1>3 DEF HandledInv

\* The invariant is inductive.
LEMMA HandledStep == HandledInv /\ [Next]_vars => HandledInv'
<1> SUFFICES ASSUME HandledInv, [Next]_vars
             PROVE  HandledInv'
  OBVIOUS
<1>1. CASE \E p \in PodNames : Submitted(p)
  BY <1>1, SubmittedKeeps
<1>2. CASE \E p \in PodNames : Handle(p)
  BY <1>2, HandleKeeps
<1>3. CASE \E p \in PodNames : Answer(p)
  BY <1>3, AnswerKeeps
<1>4. CASE \E lost \in SUBSET PodNames : CallsLost(lost)
  BY <1>4, CallsLostKeeps
<1>5. CASE Environment
  BY <1>5, EnvironmentKeeps
<1>6. CASE UNCHANGED vars
  <2>1. UNCHANGED <<configMap, certs, pods, review>>
    BY <1>6 DEF vars
  <2>2. Handled'
    BY <2>1 DEF HandledInv, Handled, HandledReview
  <2>3. LogsShared'
    BY <2>1 DEF HandledInv, LogsShared
  <2> QED
    BY <2>2, <2>3 DEF HandledInv
<1> QED
  BY <1>1, <1>2, <1>3, <1>4, <1>5, <1>6 DEF Next

\* Whatever containers, mounts and annotations a pod has, however often its
\* annotations change and whatever Handle reads on the way: at a directory that
\* Filebeat reads, the sidecar of a stored pod mounts just what the other
\* containers mount there, and a volume that was added for a directory is the
\* only one there in every container (Handle, Duplicate_mount_point).
THEOREM SidecarSharesLogs == Spec => []LogsShared
<1>1. HandledInv => LogsShared
  BY DEF HandledInv
<1> QED
  BY HandledInitially, HandledStep, <1>1, PTL DEF Spec
=============================================================================
