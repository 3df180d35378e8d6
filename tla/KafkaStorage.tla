----------------------------- MODULE KafkaStorage -----------------------------
(***************************************************************************)
(* The size of the claim that Zookeeper and Kafka share in programme 5     *)
(* (controllers/Create_Kafka.go).  A quantity is a number and its unit; no *)
(* unit is "B", plain bytes.  A fraction is a number of a smaller unit:    *)
(* 1.5Gi, which strconv.Atoi does not read, is 1536 Mi.                    *)
(***************************************************************************)
EXTENDS Integers, TLAPS

\* Every suffix of a Kubernetes quantity, but for those of parts of a byte.
Factor ==
    [B  |-> 1,
     k  |-> 1000,
     M  |-> 1000 * 1000,
     G  |-> 1000 * 1000 * 1000,
     T  |-> 1000 * 1000 * 1000 * 1000,
     P  |-> 1000 * 1000 * 1000 * 1000 * 1000,
     E  |-> 1000 * 1000 * 1000 * 1000 * 1000 * 1000,
     Ki |-> 1024,
     Mi |-> 1024 * 1024,
     Gi |-> 1024 * 1024 * 1024,
     Ti |-> 1024 * 1024 * 1024 * 1024,
     Pi |-> 1024 * 1024 * 1024 * 1024 * 1024,
     Ei |-> 1024 * 1024 * 1024 * 1024 * 1024 * 1024]

Quantity == [number : Nat, unit : DOMAIN Factor]

Bytes(q) == q.number * Factor[q.unit]

\* The number before "Gi", and 0 for every other unit.
FormatStorageint(storage) ==
    IF storage.unit = "Gi" THEN storage.number ELSE 0

\* The sum is written without a unit and parsed as a quantity again.
KafkaClaim(zookeeper, kafka) ==
    [number |-> FormatStorageint(zookeeper) + FormatStorageint(kafka),
     unit   |-> "B"]

\* Every unit is a number of bytes.
LEMMA FactorsAreNatural == \A unit \in DOMAIN Factor : Factor[unit] \in Nat
BY DEF Factor

\* The claim of the single Kafka is meant to be the sum of what the LogFile asks
\* for Zookeeper and for Kafka.  It is at most a 2^30th part of that sum.
THEOREM KafkaClaimFallsShort ==
    ASSUME NEW zookeeper \in Quantity, NEW kafka \in Quantity
    PROVE  Bytes(KafkaClaim(zookeeper, kafka)) * 1073741824
               <= Bytes(zookeeper) + Bytes(kafka)
<1>1. ASSUME NEW q \in Quantity
      PROVE  /\ FormatStorageint(q) \in Nat
             /\ Bytes(q) \in Nat
             /\ FormatStorageint(q) * 1073741824 <= Bytes(q)
  <2>1. q.number \in Nat /\ q.unit \in DOMAIN Factor
    BY DEF Quantity
  <2>2. Bytes(q) \in Nat
    BY <2>1, FactorsAreNatural DEF Bytes
  <2>3. CASE q.unit = "Gi"
    <3>1. Factor["Gi"] = 1073741824
      BY DEF Factor
    <3>. QED BY <2>1, <2>2, <2>3, <3>1 DEF Bytes, FormatStorageint
  <2>4. CASE q.unit # "Gi"
    BY <2>2, <2>4 DEF FormatStorageint
  <2>. QED BY <2>3, <2>4
<1>. DEFINE z == FormatStorageint(zookeeper)
            k == FormatStorageint(kafka)
<1>2. z \in Nat /\ k \in Nat
  BY <1>1
<1>3. Bytes(KafkaClaim(zookeeper, kafka)) = (z + k) * 1
  BY DEF Bytes, KafkaClaim, Factor
<1>4. z * 1073741824 <= Bytes(zookeeper) /\ k * 1073741824 <= Bytes(kafka)
  BY <1>1
<1>5. Bytes(zookeeper) \in Nat /\ Bytes(kafka) \in Nat
  BY <1>1
<1>. HIDE DEF z, k
<1>. QED BY <1>2, <1>3, <1>4, <1>5
=============================================================================
