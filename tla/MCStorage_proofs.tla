-------------------------- MODULE MCStorage_proofs --------------------------
(***************************************************************************)
(* Proofs about the storage components in their composition, for all       *)
(* constants that satisfy StorageAssumption.  IoUring and SnapshotStore    *)
(* have modules of proofs of their own, which are cited here; those of the *)
(* completion port, the buffer pool, the file back ends and the write      *)
(* pipeline follow.                                                        *)
(***************************************************************************)
EXTENDS MCStorage, DataLemmas, FiniteSetTheorems, SequenceTheorems, TLAPS

-----------------------------------------------------------------------------
(* The completion port.                                                     *)

\* A write the kernel may still work on, or has just finished.
InKernel == {"awaiting", "dropped"}

PacketAt(a) == \E i \in DOMAIN packets : packets[i].at = a

\* What is registered under an address is a write that has this address and no
\* answer yet.
RegistryInv ==
    \A a \in Addresses :
        registry[a] # None =>
            /\ address[registry[a]] = a
            /\ writePc[registry[a]] \in InKernel \cup {"registered"}
            /\ answer[registry[a]] = None

\* The kernel works for the registered write only, and has sent no packet yet.
PendingInv ==
    \A a \in Addresses :
        pending[a] # None =>
            /\ registry[a] = pending[a]
            /\ writePc[registry[a]] \in InKernel
            /\ registry[a] \notin landed
            /\ ~PacketAt(a)

\* A packet is of the registered write, tells the truth, and is the only one.
PacketsInv ==
    /\ \A i \in DOMAIN packets :
        /\ registry[packets[i].at] # None
        /\ writePc[registry[packets[i].at]] \in InKernel
        /\ packets[i].res = "ok" <=> registry[packets[i].at] \in landed
    /\ \A i, j \in DOMAIN packets : packets[i].at = packets[j].at => i = j

\* The pool holds an address once, and none that is registered.
FreeInv ==
    /\ \A i \in DOMAIN freeList : registry[freeList[i]] = None
    /\ \A i, j \in DOMAIN freeList : freeList[i] = freeList[j] => i = j

\* What a write knows where it stands.
WritesInv ==
    \A w \in IoWrites :
        /\ writePc[w] = "idle" => w \notin landed /\ answer[w] = None
        /\ writePc[w] = "registered" =>
            /\ portState = "Ready" /\ address[w] \in Addresses /\ registry[address[w]] = w
            /\ w \notin landed
        /\ writePc[w] = "awaiting" => address[w] \in Addresses
        /\ answer[w] # None => (answer[w] = "ok" <=> w \in landed)
        /\ writePc[w] = "ok" => w \in landed
        /\ writePc[w] = "error" => w \notin landed

\* What is not leaked is empty when the storage closes.
DrainInv == portState \in {"drained", "Closed"} /\ ~leaked => Port!Registered = {}

PortInv ==
    /\ Port!TypeOK /\ RegistryInv /\ PendingInv /\ PacketsInv /\ FreeInv /\ WritesInv /\ DrainInv

\* What the places of a sequence are after Append and Tail.
LEMMA Appended ==
    ASSUME NEW S, NEW s \in Seq(S), NEW e \in S
    PROVE  /\ Append(s, e) \in Seq(S)
           /\ DOMAIN Append(s, e) = (DOMAIN s) \cup {Len(s) + 1} /\ Len(s) + 1 \notin DOMAIN s
           /\ \A i \in DOMAIN s : Append(s, e)[i] = s[i]
           /\ Append(s, e)[Len(s) + 1] = e
OBVIOUS

LEMMA Tailed ==
    ASSUME NEW S, NEW s \in Seq(S), s # <<>>
    PROVE  /\ Tail(s) \in Seq(S) /\ 1 \in DOMAIN s /\ Head(s) = s[1] /\ Head(s) \in S
           /\ \A i \in DOMAIN Tail(s) : i + 1 \in DOMAIN s /\ Tail(s)[i] = s[i + 1] /\ i + 1 # 1
           /\ \A i, j \in DOMAIN Tail(s) : i + 1 = j + 1 => i = j
OBVIOUS

LEMMA LeastAddress ==
    ASSUME NEW A \in SUBSET Nat, A # {}
    PROVE  Port!Min(A) \in A
BY LeastNat DEF Port!Min

\* A write that begins gets an address that nothing is registered under.
LEMMA AcquiredIsFree ==
    ASSUME PortInv, NEW w \in IoWrites, writePc[w] = "idle"
    PROVE  Port!Acquired \in Addresses /\ registry[Port!Acquired] = None
<1>1. CASE freeList = <<>>
  <2> DEFINE R == Port!Registered
             f == [a \in R |-> registry[a]]
             T == IoWrites \ {w}
  <2>1. /\ \A a \in R : a \in Addresses /\ registry[a] \in T
        /\ \A a, b \in R : registry[a] = registry[b] => a = b
    BY DEF PortInv, Port!TypeOK, RegistryInv, Port!Registered, InKernel
  <2>2. f \in Injection(R, T)
    BY <2>1 DEF Injection, IsInjective
  <2>3. IsFiniteSet(T) /\ Cardinality(T) = Cardinality(IoWrites) - 1
    BY StorageAssumption, FS_RemoveElement
  <2>4. IsFiniteSet(R) /\ Cardinality(R) <= Cardinality(T)
    <3> HIDE DEF f, R, T
    <3> QED
      BY <2>2, <2>3, FS_Injection
  <2>5. /\ Cardinality(R) \in Nat /\ Cardinality(IoWrites) \in Nat /\ Cardinality(Addresses) \in Nat
        /\ Cardinality(IoWrites) <= Cardinality(Addresses)
    BY <2>4, FS_CardinalityType, StorageAssumption
  <2>6. Cardinality(R) < Cardinality(Addresses)
    BY <2>3, <2>4, <2>5
  <2>7. Addresses \ R # {}
    <3>1. Addresses # R
      BY <2>5, <2>6
    <3> QED
      BY <3>1 DEF Port!Registered
  <2>8. Port!Min(Addresses \ R) \in Addresses \ R
    BY <2>7, LeastAddress, StorageAssumption
  <2> QED
    BY <1>1, <2>8 DEF Port!Acquired, Port!Registered
<1>2. CASE freeList # <<>>
  <2>1. Head(freeList) \in Addresses /\ Head(freeList) = freeList[1] /\ 1 \in DOMAIN freeList
    BY <1>2, Tailed DEF PortInv, Port!TypeOK
  <2> QED
    BY <1>2, <2>1 DEF Port!Acquired, PortInv, FreeInv
<1> QED
  BY <1>1, <1>2

Packets == [at : Addresses, res : {"ok", "error", "aborted"}]

LEMMA PacketType ==
    ASSUME Port!TypeOK
    PROVE  /\ packets \in Seq(Packets)
           /\ \A i \in DOMAIN packets : packets[i] \in Packets /\ packets[i].at \in Addresses
<1>1. packets \in Seq(Packets)
  BY DEF Port!TypeOK, Packets
<1>2. \A p \in Packets : p.at \in Addresses
  BY DEF Packets
<1> HIDE DEF Packets
<1> QED
  BY <1>1, <1>2

LEMMA PortInit == Port!Init => PortInv
<1> SUFFICES ASSUME Port!Init PROVE PortInv
  OBVIOUS
<1>1. Port!TypeOK
  <2>1. \A S : <<>> \in Seq(S)
    OBVIOUS
  <2> QED
    BY <2>1, Zenon DEF Port!Init, Port!TypeOK
<1>2. RegistryInv /\ PendingInv /\ PacketsInv /\ FreeInv
  BY DEF Port!Init, RegistryInv, PendingInv, PacketsInv, FreeInv
<1>3. WritesInv /\ DrainInv
  BY StorageAssumption DEF Port!Init, WritesInv, DrainInv
<1> QED
  BY <1>1, <1>2, <1>3 DEF PortInv

\* A write is registered under a free address.
LEMMA RegisterKeeps ==
    ASSUME PortInv, NEW w \in IoWrites, Port!Register(w)
    PROVE  PortInv'
<1> DEFINE a == Port!Acquired
<1>1. /\ writePc[w] = "idle" /\ portState = "Ready"
      /\ address' = [address EXCEPT ![w] = a]
      /\ registry' = [registry EXCEPT ![a] = w]
      /\ freeList' = IF freeList = <<>> THEN freeList ELSE Tail(freeList)
      /\ writePc' = [writePc EXCEPT ![w] = "registered"]
      /\ UNCHANGED <<portState, pending, cancelled, packets, answer, landed, leaked>>
  BY DEF Port!Register, Port!Go
<1>2. a \in Addresses /\ registry[a] = None
  BY <1>1, AcquiredIsFree
<1>3. freeList # <<>> => a = Head(freeList)
  BY DEF Port!Acquired
<1> HIDE DEF a
<1>4. w \in IoWrites /\ w # None /\ answer[w] = None /\ w \notin landed
  BY <1>1, StorageAssumption DEF PortInv, WritesInv
<1>5. pending[a] = None /\ ~PacketAt(a)
  BY <1>2, StorageAssumption DEF PortInv, PendingInv, PacketsInv, PacketAt, Port!TypeOK
<1>6. \A b \in Addresses : registry[b] # w
  BY <1>1, <1>4 DEF PortInv, RegistryInv, InKernel
<1>7. freeList' \in Seq(Addresses)
  BY <1>1, Tailed DEF PortInv, Port!TypeOK
<1>8. Port!TypeOK'
  BY <1>1, <1>2, <1>7 DEF PortInv, Port!TypeOK
<1>9. RegistryInv' /\ PendingInv'
  BY <1>1, <1>2, <1>4, <1>5, <1>6
     DEF PortInv, Port!TypeOK, RegistryInv, PendingInv, PacketAt, InKernel
<1>10. PacketsInv'
  BY <1>1, <1>2, <1>5, <1>6 DEF PortInv, Port!TypeOK, PacketsInv, PacketAt, InKernel
<1>11. FreeInv'
  <2>1. CASE freeList = <<>>
    BY <1>1, <2>1 DEF FreeInv
  <2>2. CASE freeList # <<>>
    <3>1. /\ freeList' = Tail(freeList) /\ a = freeList[1] /\ 1 \in DOMAIN freeList
          /\ \A i \in DOMAIN freeList' :
               i + 1 \in DOMAIN freeList /\ freeList'[i] = freeList[i + 1] /\ i + 1 # 1
          /\ \A i, j \in DOMAIN freeList' : i + 1 = j + 1 => i = j
      BY <1>1, <1>3, <2>2, Tailed DEF PortInv, Port!TypeOK
    <3>2. \A i \in DOMAIN freeList' : freeList'[i] # a /\ registry[freeList'[i]] = None
      BY <3>1 DEF PortInv, FreeInv
    <3>3. \A i \in DOMAIN freeList' : freeList'[i] \in Addresses
      BY <1>7
    <3>4. \A i \in DOMAIN freeList' : registry'[freeList'[i]] = None
      BY <1>1, <3>2, <3>3 DEF PortInv, Port!TypeOK
    <3>5. \A i, j \in DOMAIN freeList' : freeList'[i] = freeList'[j] => i = j
      BY <3>1 DEF PortInv, FreeInv
    <3> QED
      BY <3>4, <3>5 DEF FreeInv
  <2> QED
    BY <2>1, <2>2
<1>12. WritesInv'
  BY <1>1, <1>2, <1>4, StorageAssumption DEF PortInv, Port!TypeOK, WritesInv
<1>13. DrainInv'
  BY <1>1 DEF DrainInv
<1> QED
  BY <1>8, <1>9, <1>10, <1>11, <1>12, <1>13 DEF PortInv

\* The steps of a write that leave the registry alone.
LEMMA WriteStepKeeps ==
    ASSUME PortInv, NEW w \in IoWrites,
           Port!Refuse(w) \/ Port!WritePending(w) \/ Port!Receive(w) \/ Port!Abort(w)
    PROVE  PortInv'
<1>1. UNCHANGED <<portState, address, registry, freeList, packets, answer, landed, leaked>>
  BY DEF Port!Refuse, Port!WritePending, Port!Receive, Port!Abort
<1>2. PICK pc \in {"error", "awaiting", "ok", "dropped"} :
        /\ writePc' = [writePc EXCEPT ![w] = pc]
        /\ \/ /\ writePc[w] = "idle" /\ pc = "error" /\ portState # "Ready"
              /\ UNCHANGED <<pending, cancelled>>
           \/ /\ writePc[w] = "registered" /\ pc = "awaiting"
              /\ pending' = [pending EXCEPT ![address[w]] = w] /\ UNCHANGED cancelled
           \/ /\ writePc[w] = "awaiting" /\ answer[w] # None /\ pc = answer[w]
              /\ UNCHANGED <<pending, cancelled>>
           \/ /\ writePc[w] = "awaiting" /\ pc = "dropped" /\ UNCHANGED pending
              /\ cancelled' \in {cancelled, cancelled \cup ({pending[address[w]]} \ {None})}
  BY DEF Port!Refuse, Port!WritePending, Port!Receive, Port!Abort, Port!Go, PortInv, Port!TypeOK
<1>3. /\ writePc[w] = "registered" =>
           address[w] \in Addresses /\ registry[address[w]] = w /\ w \notin landed
      /\ writePc[w] = "awaiting" => address[w] \in Addresses
      /\ w # None
  BY StorageAssumption DEF PortInv, WritesInv
<1>4. Port!TypeOK'
  <2>1. cancelled' \subseteq IoWrites /\ pending' \in [Addresses -> IoWrites \cup {None}]
    BY <1>2, <1>3 DEF PortInv, Port!TypeOK
  <2>2. writePc' \in [IoWrites -> {"idle", "registered", "awaiting", "ok", "error", "dropped"}]
    BY <1>2 DEF PortInv, Port!TypeOK
  <2> QED
    BY <1>1, <2>1, <2>2 DEF PortInv, Port!TypeOK
<1>5. \A a \in Addresses :
        registry[a] # None => /\ registry[a] \in IoWrites
                              /\ registry[a] = w => a = address[w]
                              /\ writePc'[registry[a]] \in InKernel \cup {"registered"}
                              /\ writePc[registry[a]] \in InKernel => writePc'[registry[a]] \in InKernel
  BY <1>2 DEF PortInv, Port!TypeOK, RegistryInv, InKernel
<1>6. RegistryInv'
  BY <1>1, <1>5 DEF PortInv, RegistryInv
<1>7. PendingInv'
  <2>1. ASSUME writePc[w] = "registered" PROVE ~PacketAt(address[w])
    BY <1>3, <2>1 DEF PortInv, PacketsInv, PacketAt, InKernel
  <2>2. ASSUME NEW a \in Addresses, pending'[a] # None
        PROVE  /\ registry[a] = pending'[a] /\ writePc'[registry[a]] \in InKernel
               /\ registry[a] \notin landed /\ ~PacketAt(a)
    <3>1. CASE pending'[a] = pending[a]
      BY <1>5, <2>2, <3>1 DEF PortInv, PendingInv
    <3>2. CASE pending'[a] # pending[a]
      <4>1. /\ writePc[w] = "registered" /\ a = address[w] /\ pending'[a] = w
            /\ writePc'[w] = "awaiting"
        BY <1>2, <1>3, <2>2, <3>2 DEF PortInv, Port!TypeOK
      <4> QED
        BY <1>3, <2>1, <4>1 DEF InKernel
    <3> QED
      BY <3>1, <3>2
  <2> QED
    BY <1>1, <2>2 DEF PendingInv, PacketAt
<1>8. PacketsInv'
  <2>1. \A i \in DOMAIN packets : packets[i].at \in Addresses
    BY PacketType DEF PortInv
  <2> QED
    BY <1>1, <1>5, <2>1 DEF PortInv, PacketsInv
<1>9. FreeInv' /\ DrainInv'
  BY <1>1 DEF PortInv, FreeInv, DrainInv, Port!Registered
<1>10. WritesInv'
  <2>1. ASSUME NEW v \in IoWrites, v # w PROVE writePc'[v] = writePc[v]
    BY <1>2, <2>1 DEF PortInv, Port!TypeOK
  <2>2. writePc'[w] = "ok" => w \in landed
    BY <1>2 DEF PortInv, Port!TypeOK, WritesInv
  <2>3. writePc'[w] = "error" => w \notin landed
    BY <1>2, StorageAssumption DEF PortInv, Port!TypeOK, WritesInv
  <2>4. writePc'[w] \notin {"idle", "registered"}
    BY <1>2 DEF PortInv, Port!TypeOK
  <2>5. writePc'[w] = "awaiting" => address[w] \in Addresses
    BY <1>2, <1>3 DEF PortInv, Port!TypeOK
  <2> QED
    BY <1>1, <2>1, <2>2, <2>3, <2>4, <2>5 DEF PortInv, WritesInv
<1> QED
  BY <1>4, <1>6, <1>7, <1>8, <1>9, <1>10 DEF PortInv

\* An address that leaves the registry for the pool is the one of its write.
LEMMA ReleaseKeepsFree ==
    ASSUME PortInv, NEW a \in Addresses, registry[a] # None, Port!Release(a)
    PROVE  /\ registry' \in [Addresses -> IoWrites \cup {None}] /\ freeList' \in Seq(Addresses)
           /\ registry'[a] = None /\ \A b \in Addresses : b # a => registry'[b] = registry[b]
           /\ FreeInv'
<1>1. registry' = [registry EXCEPT ![a] = None] /\ freeList' = Append(freeList, a)
  BY DEF Port!Release
<1>2. registry' \in [Addresses -> IoWrites \cup {None}]
  BY <1>1 DEF PortInv, Port!TypeOK
<1>3. /\ freeList' \in Seq(Addresses)
      /\ DOMAIN freeList' = (DOMAIN freeList) \cup {Len(freeList) + 1}
      /\ Len(freeList) + 1 \notin DOMAIN freeList
      /\ \A i \in DOMAIN freeList : freeList'[i] = freeList[i]
      /\ freeList'[Len(freeList) + 1] = a
  BY <1>1, Appended DEF PortInv, Port!TypeOK
<1>4. registry'[a] = None /\ \A b \in Addresses : b # a => registry'[b] = registry[b]
  BY <1>1 DEF PortInv, Port!TypeOK
<1>5. \A i \in DOMAIN freeList : freeList[i] \in Addresses
  BY DEF PortInv, Port!TypeOK
<1>6. \A i \in DOMAIN freeList : freeList[i] # a
  BY DEF PortInv, FreeInv
<1>7. FreeInv'
  BY <1>3, <1>4, <1>5, <1>6 DEF PortInv, FreeInv
<1> QED
  BY <1>2, <1>3, <1>4, <1>7

\* A write that WriteFile ends at once, with its data in the file or an error.
LEMMA SyncStepKeeps ==
    ASSUME PortInv, NEW w \in IoWrites, Port!WriteSync(w) \/ Port!WriteRefused(w)
    PROVE  PortInv'
<1> DEFINE a == address[w]
<1>1. /\ writePc[w] = "registered" /\ Port!Release(a)
      /\ UNCHANGED <<portState, address, pending, cancelled, packets, answer, leaked>>
  BY DEF Port!WriteSync, Port!WriteRefused
<1>2. /\ portState = "Ready" /\ a \in Addresses /\ registry[a] = w /\ w \notin landed
      /\ w # None
  BY <1>1, StorageAssumption DEF PortInv, WritesInv
<1>3. \/ writePc' = [writePc EXCEPT ![w] = "ok"] /\ landed' = landed \cup {w}
      \/ writePc' = [writePc EXCEPT ![w] = "error"] /\ landed' = landed
  BY DEF Port!WriteSync, Port!WriteRefused, Port!Go
<1>4. /\ registry' \in [Addresses -> IoWrites \cup {None}] /\ freeList' \in Seq(Addresses)
      /\ registry'[a] = None /\ \A b \in Addresses : b # a => registry'[b] = registry[b]
      /\ FreeInv'
  BY <1>1, <1>2, ReleaseKeepsFree
<1>5. /\ pending[a] = None /\ ~PacketAt(a) /\ answer[w] = None
      /\ \A b \in Addresses : b # a => registry[b] # w
  BY <1>1, <1>2 DEF PortInv, PendingInv, PacketsInv, PacketAt, RegistryInv, InKernel
<1> HIDE DEF a
<1>6. /\ writePc' \in [IoWrites -> {"idle", "registered", "awaiting", "ok", "error", "dropped"}]
      /\ landed' \subseteq IoWrites
      /\ \A v \in IoWrites : v # w => writePc'[v] = writePc[v] /\ (v \in landed' <=> v \in landed)
      /\ writePc'[w] \in {"ok", "error"}
      /\ writePc'[w] = "ok" <=> w \in landed'
  BY <1>2, <1>3 DEF PortInv, Port!TypeOK
<1>7. Port!TypeOK'
  BY <1>1, <1>4, <1>6 DEF PortInv, Port!TypeOK
<1>8. RegistryInv' /\ PendingInv'
  <2>1. ASSUME NEW b \in Addresses, registry'[b] # None
        PROVE  /\ b # a /\ registry'[b] = registry[b] /\ registry[b] \in IoWrites \ {w}
               /\ writePc'[registry[b]] = writePc[registry[b]]
               /\ registry[b] \in landed' <=> registry[b] \in landed
    BY <1>4, <1>5, <1>6, <2>1 DEF PortInv, Port!TypeOK
  <2>2. RegistryInv'
    BY <1>1, <2>1 DEF PortInv, RegistryInv
  <2>3. \A b \in Addresses : pending[b] # None => b # a /\ registry'[b] = pending[b]
    BY <1>4, <1>5 DEF PortInv, PendingInv
  <2>4. PendingInv'
    BY <1>1, <2>1, <2>3 DEF PortInv, PendingInv, PacketAt
  <2> QED
    BY <2>2, <2>4
<1>9. PacketsInv'
  <2>1. \A i \in DOMAIN packets : packets[i].at \in Addresses /\ packets[i].at # a
    BY <1>5, PacketType DEF PortInv, PacketAt
  <2> QED
    BY <1>1, <1>4, <1>5, <1>6, <2>1 DEF PortInv, Port!TypeOK, PacketsInv
<1>10. WritesInv'
  <2>1. \A v \in IoWrites \ {w} : address[v] = a => writePc[v] # "registered"
    BY <1>2 DEF PortInv, WritesInv
  <2> QED
    BY <1>1, <1>4, <1>5, <1>6, <2>1 DEF PortInv, WritesInv
<1>11. DrainInv'
  BY <1>1, <1>2 DEF DrainInv
<1> QED
  BY <1>4, <1>7, <1>8, <1>9, <1>10, <1>11 DEF PortInv

\* The kernel ends a write.
LEMMA KernelKeeps ==
    ASSUME PortInv, NEW a \in Addresses, NEW res \in {"ok", "error", "aborted"},
           Port!KernelFinishes(a, res)
    PROVE  PortInv'
<1> DEFINE w == pending[a]
           p == [at |-> a, res |-> res]
<1>1. /\ w # None
      /\ pending' = [pending EXCEPT ![a] = None]
      /\ landed' = IF res = "ok" THEN landed \cup {w} ELSE landed
      /\ packets' = Append(packets, p)
      /\ UNCHANGED <<portState, writePc, address, registry, freeList, cancelled, answer, leaked>>
  BY DEF Port!KernelFinishes
<1>2. /\ w \in IoWrites /\ registry[a] = w /\ writePc[w] \in InKernel /\ w \notin landed
      /\ ~PacketAt(a) /\ answer[w] = None
      /\ \A b \in Addresses : b # a => registry[b] # w
  BY <1>1 DEF PortInv, Port!TypeOK, PendingInv, RegistryInv
<1>3. p \in Packets /\ p.at = a /\ p.res = res
  BY DEF Packets
<1>4. \A i \in DOMAIN packets : packets[i].at \in Addresses /\ packets[i].at # a
  BY <1>2, PacketType DEF PortInv, PacketAt
<1>5. /\ packets' \in Seq(Packets)
      /\ DOMAIN packets' = (DOMAIN packets) \cup {Len(packets) + 1}
      /\ Len(packets) + 1 \notin DOMAIN packets
      /\ \A i \in DOMAIN packets : packets'[i] = packets[i]
      /\ packets'[Len(packets) + 1] = p
  <2> HIDE DEF p
  <2> QED
    BY <1>1, <1>3, PacketType, Appended DEF PortInv
<1> HIDE DEF p, w
<1>6. /\ landed' \subseteq IoWrites /\ (w \in landed' <=> res = "ok")
      /\ \A v \in IoWrites : v # w => (v \in landed' <=> v \in landed)
  BY <1>1, <1>2 DEF PortInv, Port!TypeOK
<1>7. /\ pending' \in [Addresses -> IoWrites \cup {None}] /\ pending'[a] = None
      /\ \A b \in Addresses : b # a => pending'[b] = pending[b]
  BY <1>1 DEF PortInv, Port!TypeOK
<1>8. Port!TypeOK'
  BY <1>1, <1>5, <1>6, <1>7 DEF PortInv, Port!TypeOK, Packets
<1>9. RegistryInv' /\ FreeInv' /\ DrainInv'
  BY <1>1 DEF PortInv, RegistryInv, FreeInv, DrainInv, Port!Registered
<1>10. PendingInv'
  <2>1. ASSUME NEW b \in Addresses, pending'[b] # None
        PROVE  /\ registry[b] = pending'[b] /\ writePc[registry[b]] \in InKernel
               /\ registry[b] \notin landed' /\ ~(PacketAt(b)')
    <3>1. b # a /\ pending[b] # None
      BY <1>7, <2>1
    <3>2. /\ registry[b] = pending[b] /\ writePc[registry[b]] \in InKernel
          /\ registry[b] \notin landed /\ ~PacketAt(b)
      BY <3>1 DEF PortInv, PendingInv
    <3>3. registry[b] \in IoWrites /\ registry[b] # w
      BY <1>2, <3>1, <3>2 DEF PortInv, Port!TypeOK
    <3> QED
      BY <1>3, <1>5, <1>6, <1>7, <3>1, <3>2, <3>3 DEF PacketAt
  <2> QED
    BY <1>1, <2>1 DEF PendingInv
<1>11. PacketsInv'
  <2>1. /\ registry[a] # None /\ writePc[registry[a]] \in InKernel
        /\ p.res = "ok" <=> registry[a] \in landed'
    BY <1>1, <1>2, <1>3, <1>6
  <2>2. \A i \in DOMAIN packets :
          /\ registry[packets[i].at] # None /\ writePc[registry[packets[i].at]] \in InKernel
          /\ packets[i].res = "ok" <=> registry[packets[i].at] \in landed'
    BY <1>2, <1>4, <1>6 DEF PortInv, Port!TypeOK, PacketsInv
  <2>3. \A i, j \in DOMAIN packets : packets[i].at = packets[j].at => i = j
    BY DEF PortInv, PacketsInv
  <2> QED
    BY <1>1, <1>3, <1>4, <1>5, <2>1, <2>2, <2>3 DEF PacketsInv
<1>12. WritesInv'
  BY <1>1, <1>2, <1>6 DEF PortInv, WritesInv, InKernel
<1> QED
  BY <1>8, <1>9, <1>10, <1>11, <1>12 DEF PortInv

\* The poller takes the oldest packet and answers the write it is of.
LEMMA PollKeeps == PortInv /\ Port!Poll => PortInv'
<1> SUFFICES ASSUME PortInv, Port!Poll PROVE PortInv'
  OBVIOUS
<1> DEFINE p == packets[1]
           a == packets[1].at
           w == registry[packets[1].at]
<1>1. packets # <<>> /\ packets' = Tail(packets)
  BY DEF Port!Poll, Port!Polling
<1>2. /\ packets' \in Seq(Packets) /\ Head(packets) = p /\ 1 \in DOMAIN packets
      /\ \A i \in DOMAIN packets' :
           i + 1 \in DOMAIN packets /\ packets'[i] = packets[i + 1] /\ i + 1 # 1
      /\ \A i, j \in DOMAIN packets' : i + 1 = j + 1 => i = j
  <2>1. packets \in Seq(Packets)
    BY PacketType DEF PortInv
  <2> QED
    BY <1>1, <2>1, Tailed
<1>3. /\ a \in Addresses /\ w # None /\ w \in IoWrites
      /\ writePc[w] \in InKernel /\ (p.res = "ok" <=> w \in landed)
      /\ answer[w] = None /\ address[w] = a
  BY <1>2, PacketType DEF PortInv, Port!TypeOK, PacketsInv, RegistryInv
<1>4. /\ answer' = [answer EXCEPT ![w] = IF p.res = "ok" THEN "ok" ELSE "error"]
      /\ Port!Release(a)
      /\ UNCHANGED <<portState, writePc, address, pending, cancelled, landed, leaked>>
  BY <1>2, <1>3 DEF Port!Poll
<1>5. /\ registry' \in [Addresses -> IoWrites \cup {None}] /\ freeList' \in Seq(Addresses)
      /\ registry'[a] = None /\ \A b \in Addresses : b # a => registry'[b] = registry[b]
      /\ FreeInv'
  BY <1>3, <1>4, ReleaseKeepsFree
<1>6. pending[a] = None
  BY <1>2, <1>3 DEF PortInv, PendingInv, PacketAt
<1>7. /\ answer' \in [IoWrites -> {None, "ok", "error"}]
      /\ answer'[w] = "ok" <=> w \in landed
      /\ \A v \in IoWrites : v # w => answer'[v] = answer[v]
  BY <1>3, <1>4 DEF PortInv, Port!TypeOK
<1>8. \A b \in Addresses : b # a => registry[b] # w
  BY <1>3 DEF PortInv, RegistryInv
<1>9. \A i \in DOMAIN packets' : packets'[i].at \in Addresses /\ packets'[i].at # a
  <2>1. \A i \in DOMAIN packets' : packets[i + 1].at # a
    BY <1>2 DEF PortInv, PacketsInv
  <2> QED
    BY <1>2, <2>1, PacketType DEF PortInv
<1>10. \A v \in IoWrites : writePc[v] = "registered" => address[v] # a
  BY <1>3 DEF PortInv, WritesInv, InKernel
<1> HIDE DEF p, a, w
<1>11. Port!TypeOK'
  BY <1>2, <1>4, <1>5, <1>7 DEF PortInv, Port!TypeOK, Packets
<1>12. RegistryInv'
  BY <1>4, <1>5, <1>7, <1>8 DEF PortInv, Port!TypeOK, RegistryInv
<1>13. PendingInv'
  <2>1. \A b \in Addresses : PacketAt(b)' => PacketAt(b)
    BY <1>2 DEF PacketAt
  <2> QED
    BY <1>4, <1>5, <1>6, <2>1 DEF PortInv, PendingInv
<1>14. PacketsInv'
  <2>1. \A i \in DOMAIN packets' :
          registry'[packets'[i].at] = registry[packets[i + 1].at] /\ packets'[i].res = packets[i + 1].res
    BY <1>2, <1>5, <1>9
  <2>2. \A i \in DOMAIN packets' :
          /\ registry'[packets'[i].at] # None /\ writePc[registry'[packets'[i].at]] \in InKernel
          /\ packets'[i].res = "ok" <=> registry'[packets'[i].at] \in landed
    BY <1>2, <2>1 DEF PortInv, PacketsInv
  <2>3. \A i, j \in DOMAIN packets' : packets'[i].at = packets'[j].at => i = j
    BY <1>2 DEF PortInv, PacketsInv
  <2> QED
    BY <1>4, <2>2, <2>3 DEF PacketsInv
<1>15. WritesInv'
  BY <1>3, <1>4, <1>5, <1>7, <1>10 DEF PortInv, WritesInv, InKernel
<1>16. DrainInv'
  BY <1>4, <1>5 DEF PortInv, DrainInv, Port!Registered
<1> QED
  BY <1>5, <1>11, <1>12, <1>13, <1>14, <1>15, <1>16 DEF PortInv

\* The storage is opened, dropped, drained and closed.
LEMMA StorageKeeps == PortInv /\ Port!Storage => PortInv'
<1> SUFFICES ASSUME PortInv, Port!Storage PROVE PortInv'
  OBVIOUS
<1>1. CASE Port!Open \/ Port!DropStarts \/ Port!Drained
  <2>1. UNCHANGED <<writePc, address, registry, freeList, pending, packets, answer, landed>>
    BY <1>1 DEF Port!Open, Port!DropStarts, Port!Drained
  <2>2. /\ portState' \in {"Created", "Ready", "draining", "drained", "Closed"}
        /\ cancelled' \subseteq IoWrites /\ leaked' \in BOOLEAN
    <3>1. \A a \in Addresses : pending[a] \in IoWrites \cup {None}
      BY DEF PortInv, Port!TypeOK
    <3>2. cancelled \subseteq IoWrites /\ leaked \in BOOLEAN
      BY DEF PortInv, Port!TypeOK
    <3>3. {pending[a] : a \in Port!Registered} \ {None} \subseteq IoWrites
      BY <3>1 DEF Port!Registered
    <3>4. cancelled' \subseteq IoWrites
      BY <1>1, <3>2, <3>3 DEF Port!Open, Port!DropStarts, Port!Drained
    <3> QED
      BY <1>1, <3>2, <3>4 DEF Port!Open, Port!DropStarts, Port!Drained
  <2>3. Port!TypeOK'
    BY <2>1, <2>2 DEF PortInv, Port!TypeOK
  <2>4. RegistryInv' /\ PendingInv' /\ PacketsInv' /\ FreeInv'
    BY <2>1 DEF PortInv, RegistryInv, PendingInv, PacketsInv, FreeInv, PacketAt
  <2>5. DrainInv'
    BY <1>1, <2>1 DEF Port!Open, Port!DropStarts, Port!Drained, PortInv, DrainInv, Port!Registered
  <2>6. \A w \in IoWrites : writePc[w] = "registered" => portState' = "Ready"
    BY <1>1 DEF Port!Open, Port!DropStarts, Port!Drained, PortInv, WritesInv
  <2>7. WritesInv'
    BY <2>1, <2>6 DEF PortInv, WritesInv
  <2> QED
    BY <2>3, <2>4, <2>5, <2>7 DEF PortInv
<1>2. CASE Port!Close
  <2>1. /\ portState = "drained" /\ portState' = "Closed" /\ freeList' = <<>> /\ packets' = <<>>
        /\ UNCHANGED <<writePc, address, pending, cancelled, answer, landed, leaked>>
    BY <1>2 DEF Port!Close
  <2>2. registry' = registry
    <3>1. CASE leaked
      BY <1>2, <3>1 DEF Port!Close
    <3>2. CASE ~leaked
      <4>1. \A a \in Addresses : registry[a] = None
        BY <2>1, <3>2 DEF PortInv, DrainInv, Port!Registered
      <4>2. registry' = [a \in Addresses |-> None]
        BY <1>2, <3>2 DEF Port!Close
      <4> QED
        BY <4>1, <4>2 DEF PortInv, Port!TypeOK
    <3> QED
      BY <3>1, <3>2
  <2>3. \A S : <<>> \in Seq(S)
    OBVIOUS
  <2>4. Port!TypeOK'
    BY <2>1, <2>2, <2>3, Zenon DEF PortInv, Port!TypeOK
  <2>5. RegistryInv' /\ FreeInv' /\ PacketsInv' /\ DrainInv'
    BY <2>1, <2>2 DEF PortInv, RegistryInv, FreeInv, PacketsInv, DrainInv, Port!Registered
  <2>6. PendingInv'
    BY <2>1, <2>2 DEF PortInv, PendingInv, PacketAt
  <2>7. WritesInv'
    BY <2>1, <2>2 DEF PortInv, WritesInv
  <2> QED
    BY <2>4, <2>5, <2>6, <2>7 DEF PortInv
<1> QED
  BY <1>1, <1>2 DEF Port!Storage

LEMMA PortStep == PortInv /\ [Port!Next]_(Port!portVars) => PortInv'
<1> SUFFICES ASSUME PortInv, [Port!Next]_(Port!portVars) PROVE PortInv'
  OBVIOUS
<1>1. CASE UNCHANGED Port!portVars
  BY <1>1 DEF Port!portVars, PortInv, Port!TypeOK, RegistryInv, PendingInv, PacketsInv, FreeInv,
              WritesInv, DrainInv, Port!Registered, PacketAt
<1>2. CASE Port!Next
  BY <1>2, StorageKeeps, KernelKeeps, PollKeeps, RegisterKeeps, SyncStepKeeps, WriteStepKeeps
     DEF Port!Next, Port!Kernel, Port!Submission
<1> QED
  BY <1>1, <1>2

\* What the port promises follows: memory is held, and answers are true.
LEMMA PortPromises ==
    PortInv => Port!TypeOK /\ Port!MemoryHeld /\ Port!OwnAnswer
<1>1. ASSUME PortInv PROVE Port!MemoryHeld
  <2>1. ASSUME NEW a \in Addresses, pending[a] # None
        PROVE  registry[a] = pending[a] /\ a \notin Port!ToSet(freeList)
    <3>1. registry[a] = pending[a] /\ registry[a] # None
      BY <1>1, <2>1 DEF PortInv, PendingInv
    <3>2. \A i \in DOMAIN freeList : freeList[i] # a
      BY <1>1, <3>1 DEF PortInv, FreeInv
    <3> QED
      BY <3>1, <3>2 DEF Port!ToSet
  <2> QED
    BY <2>1 DEF Port!MemoryHeld
<1> QED
  BY <1>1 DEF PortInv, WritesInv, Port!OwnAnswer

-----------------------------------------------------------------------------
(* The buffer pool.                                                         *)

\* The pool counts with its own instance of Cardinality.
LEMMA PoolCardinality == \A S : Pool!Cardinality(S) = Cardinality(S)
<1> SUFFICES ASSUME NEW S PROVE Pool!Cardinality(S) = Cardinality(S)
  OBVIOUS
<1> QED
  BY DEF Pool!Cardinality, Cardinality

\* The users between the two atomics of an operation, and those counted.
Between == {"granted", "uncounted", "stored"}
Counted == {"counted", "holding"}

\* The counter mirrors who is counted; the permits are what is left.
PoolInv == Pool!TypeOK /\ Pool!PermitsBalance /\ outstanding = Pool!At(Counted)

\* What the move of one user does to the number of those who stand in pcs.
LEMMA CountStep ==
    ASSUME PoolInv, NEW u \in Users, NEW from, NEW to, Pool!Step(u, from, to), NEW pcs
    PROVE  /\ Pool!At(pcs) \in Nat /\ Pool!At(pcs)' \in Nat
           /\ from \in pcs /\ to \notin pcs => Pool!At(pcs)' = Pool!At(pcs) - 1
           /\ from \notin pcs /\ to \in pcs => Pool!At(pcs)' = Pool!At(pcs) + 1
           /\ (from \in pcs <=> to \in pcs) => Pool!At(pcs)' = Pool!At(pcs)
<1> DEFINE A == {v \in Users : bufPc[v] \in pcs}
           B == {v \in Users : bufPc'[v] \in pcs}
<1>1. Pool!At(pcs) = Cardinality(A) /\ Pool!At(pcs)' = Cardinality(B)
  BY PoolCardinality DEF Pool!At
<1>2. IsFiniteSet(A) /\ IsFiniteSet(B)
  BY FS_Subset, StorageAssumption DEF PoolInv
<1>3. /\ bufPc[u] = from /\ bufPc'[u] = to
      /\ \A v \in Users \ {u} : bufPc'[v] = bufPc[v]
  BY DEF PoolInv, Pool!TypeOK, Pool!Step
<1>4. (u \in A <=> from \in pcs) /\ (u \in B <=> to \in pcs)
  BY <1>3
<1>5. /\ from \in pcs /\ to \notin pcs => B = A \ {u}
      /\ from \notin pcs /\ to \in pcs => B = A \cup {u}
      /\ (from \in pcs <=> to \in pcs) => B = A
  BY <1>3, <1>4
<1> HIDE DEF A, B
<1>6. Cardinality(A) \in Nat /\ Cardinality(B) \in Nat
  BY <1>2, FS_CardinalityType
<1>7. /\ u \in A => Cardinality(A \ {u}) = Cardinality(A) - 1
      /\ u \notin A => Cardinality(A \cup {u}) = Cardinality(A) + 1
  BY <1>2, FS_RemoveElement, FS_AddElement
<1> QED
  BY <1>1, <1>4, <1>5, <1>6, <1>7

LEMMA PoolInvInit == Pool!Init => PoolInv
<1> SUFFICES ASSUME Pool!Init PROVE PoolInv
  OBVIOUS
<1>1. {u \in Users : bufPc[u] \in Between} = {} /\ {u \in Users : bufPc[u] \in Counted} = {}
  BY DEF Pool!Init, Between, Counted
<1>2. Pool!At(Between) = 0 /\ Pool!At(Counted) = 0
  BY <1>1, FS_EmptySet, PoolCardinality DEF Pool!At
<1>3. Pool!TypeOK
  BY StorageAssumption DEF Pool!Init, Pool!TypeOK, Pool!Places
<1> QED
  BY <1>2, <1>3, StorageAssumption DEF PoolInv, Pool!PermitsBalance, Between, Pool!Init

\* alloc, release and prewarm, one atomic at a time, keep the balance.
LEMMA PoolInvStep == PoolInv /\ [Pool!Next]_(Pool!poolVars) => PoolInv'
<1> SUFFICES ASSUME PoolInv, [Pool!Next]_(Pool!poolVars) PROVE PoolInv'
  OBVIOUS
<1>1. /\ PoolCapacity \in Nat /\ Pool!Places \in Nat /\ Pool!Places >= PoolCapacity
      /\ free \in 0..PoolCapacity /\ outstanding \in 0..PoolCapacity /\ stored \in 0..Pool!Places
      /\ outstanding = Pool!At(Counted) /\ free + outstanding + Pool!At(Between) = PoolCapacity
  BY StorageAssumption DEF PoolInv, Pool!TypeOK, Pool!PermitsBalance, Between, Pool!Places
<1>2. ASSUME NEW u \in Users, Pool!Alloc(u) \/ Pool!Release(u) PROVE PoolInv'
  <2>1. PICK from, to :
           /\ Pool!Step(u, from, to)
           /\ to \in {"idle", "granted", "counted", "holding", "uncounted", "stored"}
           /\ \/ /\ from = "idle" /\ to = "granted" /\ free > 0 /\ free' = free - 1
                 /\ UNCHANGED outstanding
              \/ /\ from = "granted" /\ to = "counted" /\ outstanding' = outstanding + 1
                 /\ UNCHANGED free
              \/ /\ from = "counted" /\ to = "holding" /\ UNCHANGED <<free, outstanding>>
              \/ /\ from = "holding" /\ to = "uncounted" /\ outstanding' = outstanding - 1
                 /\ UNCHANGED free
              \/ /\ from = "uncounted" /\ to = "stored" /\ UNCHANGED <<free, outstanding>>
              \/ /\ from = "stored" /\ to = "idle" /\ free' = free + 1
                 /\ UNCHANGED outstanding
    BY <1>2 DEF Pool!Alloc, Pool!Release
  <2>2. stored' \in 0..Pool!Places /\ UNCHANGED toFill
    BY <1>1, <1>2 DEF Pool!Alloc, Pool!Release
  <2>3. /\ Pool!At(Counted)' \in Nat /\ Pool!At(Between)' \in Nat
        /\ Pool!At(Counted) \in Nat /\ Pool!At(Between) \in Nat
    BY <2>1, CountStep
  <2>4. /\ free' + outstanding' + Pool!At(Between)' = PoolCapacity
        /\ outstanding' = Pool!At(Counted)' /\ free' \in Nat
    BY <1>1, <2>1, <2>3, CountStep DEF Between, Counted
  <2>5. free' \in 0..PoolCapacity /\ outstanding' \in 0..PoolCapacity
    BY <1>1, <2>3, <2>4
  <2>6. bufPc' \in [Users -> {"idle", "granted", "counted", "holding", "uncounted", "stored"}]
    BY <2>1 DEF PoolInv, Pool!TypeOK, Pool!Step
  <2>7. toFill' \in [stage : {"idle", "read", "fill", "done"}, n : 0..PoolCapacity]
    BY <2>2 DEF PoolInv, Pool!TypeOK
  <2> QED
    BY <1>1, <2>2, <2>4, <2>5, <2>6, <2>7
       DEF PoolInv, Pool!TypeOK, Pool!PermitsBalance, Between, Pool!Places
<1>3. CASE Pool!Prewarm
  <2>1. UNCHANGED <<free, outstanding, bufPc>>
    BY <1>3 DEF Pool!Prewarm
  <2>2. /\ toFill.n \in 0..PoolCapacity
        /\ toFill.stage \in {"idle", "read", "fill", "done"}
    BY DEF PoolInv, Pool!TypeOK
  <2>3. Pool!Missing(toFill.n, stored) \in 0..PoolCapacity
    BY <1>1, <2>2 DEF Pool!Missing
  <2>4. stored' \in 0..Pool!Places
    BY <1>1, <1>3 DEF Pool!Prewarm
  <2>5. toFill' \in [stage : {"idle", "read", "fill", "done"}, n : 0..PoolCapacity]
    <3>1. CASE toFill.stage = "fill" /\ toFill.n > 0 /\ toFill' = [toFill EXCEPT !.n = @ - 1]
      <4>1. toFill.n - 1 \in 0..PoolCapacity
        BY <1>1, <2>2, <3>1
      <4> QED
        BY <3>1, <4>1 DEF PoolInv, Pool!TypeOK
    <3>2. CASE \/ toFill' = [stage |-> "read", n |-> outstanding]
               \/ toFill' = [stage |-> "fill", n |-> Pool!Missing(toFill.n, stored)]
               \/ toFill' = [stage |-> "done", n |-> 0]
      BY <1>1, <2>3, <3>2
    <3> QED
      BY <1>3, <3>1, <3>2 DEF Pool!Prewarm
  <2> QED
    BY <1>1, <2>1, <2>4, <2>5
       DEF PoolInv, Pool!TypeOK, Pool!PermitsBalance, Pool!At, Between, Pool!Places
<1>4. CASE UNCHANGED Pool!poolVars
  BY <1>4 DEF Pool!poolVars, PoolInv, Pool!TypeOK, Pool!PermitsBalance, Pool!At, Pool!Places
<1> QED
  BY <1>2, <1>3, <1>4 DEF Pool!Next

-----------------------------------------------------------------------------
(* The file and the threads that write it.                                  *)

EndOf(w) == Ends[w][Len(Ends[w])]

\* A writer keeps within its batch; a fragment knows where its batch ends.
PlaceInv ==
    \A w \in File!Writers :
        /\ place[w].batch \in DOMAIN Ends[w]
        /\ From[w] <= place[w].pos
        /\ place[w].pos + place[w].rest <= Ends[w][place[w].batch]
        /\ mode = "fragments" => place[w].pos + place[w].rest = Ends[w][place[w].batch]

\* A thread works for a writer that awaits it or was interrupted, at its place.
JobInv ==
    \A w \in File!Writers :
        job[w] # File!NoJob =>
            /\ w \in File!Active /\ filePc[w] \in {"waiting", "interrupted"}
            /\ job[w] = [at |-> place[w].pos, len |-> place[w].rest]
            /\ reply[w] = File!NoReply

\* What a thread says it has written is in the file.
ReplyInv ==
    \A w \in File!Writers :
        reply[w] # File!NoReply =>
            /\ w \in File!Active /\ filePc[w] \in {"waiting", "interrupted"}
            /\ reply[w].is = "error" => reply[w].n = 0
            /\ reply[w].n <= place[w].rest
            /\ \A u \in File!Units :
                place[w].pos <= u /\ u < place[w].pos + reply[w].n => disk[u] = w

\* What lies between the start of a writer and its place is its own.
DataInv ==
    \A w \in File!Active : \A u \in File!Units :
        From[w] <= u /\ u < place[w].pos => disk[u] = w

\* A writer that was told Ok has come to its end.
EndInv ==
    \A w \in File!Writers :
        filePc[w] = "ok" =>
            /\ w \in File!Active
            /\ mode = "fragments" => place[w].pos = EndOf(w)
            /\ mode = "known" => place[w].pos = Size

\* Those sync() is about are done, and stay so.
FlushInv ==
    /\ flush.state # "idle" =>
        flush.done \subseteq File!Active /\ \A w \in flush.done : filePc[w] = "ok"
    /\ File!SyncCovers

FileInv ==
    /\ File!TypeOK /\ PlaceInv /\ JobInv /\ ReplyInv /\ DataInv /\ EndInv /\ FlushInv

\* What StorageAssumption says of a writer and of two fragments.
LEMMA WriterEnds ==
    ASSUME NEW w \in File!Writers
    PROVE  /\ From[w] \in Nat /\ EndOf(w) \in 0..Size /\ Size \in Nat
           /\ Len(Ends[w]) \in DOMAIN Ends[w] /\ Len(Ends[w]) \in Nat /\ 1 \in DOMAIN Ends[w]
           /\ \A i \in DOMAIN Ends[w] :
                /\ i \in 1..Len(Ends[w]) /\ Ends[w][i] \in 0..Size
                /\ From[w] <= Ends[w][i] /\ Ends[w][i] <= EndOf(w)
                /\ File!LengthOf(w, i) \in 0..Size
                /\ i = 1 => From[w] + File!LengthOf(w, i) = Ends[w][i]
                /\ i # 1 => Ends[w][i - 1] + File!LengthOf(w, i) = Ends[w][i]
<1>1. /\ From[w] \in Nat /\ Ends[w] \in Seq(0..Size) /\ Ends[w] # <<>> /\ Size \in Nat
      /\ \A i \in DOMAIN Ends[w] :
          From[w] <= Ends[w][i] /\ \A j \in DOMAIN Ends[w] : i <= j => Ends[w][i] <= Ends[w][j]
  BY StorageAssumption DEF File!Writers
<1>2. /\ Len(Ends[w]) \in DOMAIN Ends[w] /\ Len(Ends[w]) \in Nat /\ 1 \in DOMAIN Ends[w]
      /\ \A i \in DOMAIN Ends[w] : i \in 1..Len(Ends[w]) /\ Ends[w][i] \in 0..Size
  BY <1>1
<1>3. ASSUME NEW i \in DOMAIN Ends[w]
      PROVE  /\ Ends[w][i] <= EndOf(w) /\ EndOf(w) \in 0..Size
             /\ File!LengthOf(w, i) \in 0..Size
             /\ i = 1 => From[w] + File!LengthOf(w, i) = Ends[w][i]
             /\ i # 1 => Ends[w][i - 1] + File!LengthOf(w, i) = Ends[w][i]
  <2>1. Ends[w][i] <= EndOf(w) /\ EndOf(w) \in 0..Size
    BY <1>1, <1>2 DEF EndOf
  <2>2. CASE i = 1
    BY <1>1, <1>2, <2>1, <2>2 DEF File!LengthOf
  <2>3. CASE i # 1
    <3>1. i - 1 \in DOMAIN Ends[w] /\ i - 1 <= i /\ i \in Nat
      BY <1>1, <1>2, <2>3
    <3>2. /\ Ends[w][i - 1] \in 0..Size /\ Ends[w][i] \in 0..Size
          /\ Ends[w][i - 1] <= Ends[w][i]
      BY <1>1, <1>2, <3>1
    <3> QED
      BY <1>1, <2>1, <2>3, <3>2 DEF File!LengthOf
  <2> QED
    BY <2>2, <2>3
<1> QED
  BY <1>1, <1>2, <1>3

\* Two writers of one download write in different places.
LEMMA WritersApart ==
    ASSUME NEW v \in File!Active, NEW w \in File!Active, v # w
    PROVE  EndOf(v) <= From[w] \/ EndOf(w) <= From[v]
BY StorageAssumption DEF File!Active, EndOf

LEMMA ActiveWrites == File!Active \subseteq File!Writers
BY DEF File!Active, File!Writers

LEMMA MaxOfTwo ==
    ASSUME NEW a \in Nat, NEW b \in Nat
    PROVE  File!Max({a, b}) \in {a, b}
<1>1. \E x \in {a, b} : \A y \in {a, b} : x >= y
  OBVIOUS
<1> QED
  BY <1>1 DEF File!Max

\* The numbers of a writer.
LEMMA Numbers ==
    ASSUME FileInv, NEW w \in File!Writers
    PROVE  /\ place[w] \in [pos : 0..Size, rest : 0..Size, batch : Nat]
           /\ place[w].pos \in Nat /\ place[w].rest \in Nat /\ place[w].batch \in DOMAIN Ends[w]
           /\ From[w] \in Nat /\ From[w] <= place[w].pos
           /\ place[w].pos + place[w].rest <= EndOf(w) /\ EndOf(w) \in Nat /\ EndOf(w) <= Size
           /\ reply[w].n \in Nat /\ job[w] \in [at : 0..Size, len : 0..Size] /\ Size \in Nat
<1>1. /\ place[w] \in [pos : 0..Size, rest : 0..Size, batch : Nat]
      /\ reply[w] \in [is : {"none", "written", "error"}, n : 0..Size]
      /\ job[w] \in [at : 0..Size, len : 0..Size]
  BY DEF FileInv, File!TypeOK
<1>2. /\ place[w].batch \in DOMAIN Ends[w] /\ From[w] <= place[w].pos
      /\ place[w].pos + place[w].rest <= Ends[w][place[w].batch]
  BY DEF FileInv, PlaceInv
<1>3. /\ From[w] \in Nat /\ EndOf(w) \in 0..Size /\ Size \in Nat
      /\ Ends[w][place[w].batch] \in 0..Size /\ Ends[w][place[w].batch] <= EndOf(w)
  BY <1>2, WriterEnds
<1> QED
  BY <1>1, <1>2, <1>3

LEMMA FileInit == File!Init => FileInv
<1> SUFFICES ASSUME File!Init PROVE FileInv
  OBVIOUS
<1>1. ASSUME NEW w \in File!Writers
      PROVE  /\ place[w].pos = From[w] /\ place[w].rest = File!LengthOf(w, 1) /\ place[w].batch = 1
             /\ place[w] \in [pos : 0..Size, rest : 0..Size, batch : Nat]
             /\ 1 \in DOMAIN Ends[w] /\ From[w] \in Nat
             /\ place[w].pos + place[w].rest = Ends[w][1] /\ Ends[w][1] \in 0..Size
  <2>1. /\ place[w].pos = From[w] /\ place[w].rest = File!LengthOf(w, 1) /\ place[w].batch = 1
        /\ place[w] = [pos |-> From[w], rest |-> File!LengthOf(w, 1), batch |-> 1]
    BY DEF File!Init
  <2>2. /\ 1 \in DOMAIN Ends[w] /\ From[w] \in 0..Size
        /\ File!LengthOf(w, 1) \in 0..Size /\ From[w] + File!LengthOf(w, 1) = Ends[w][1]
        /\ Ends[w][1] \in 0..Size
    <3>1. 1 \in DOMAIN Ends[w] /\ From[w] \in Nat /\ Size \in Nat
      BY WriterEnds
    <3>2. /\ File!LengthOf(w, 1) \in 0..Size /\ From[w] + File!LengthOf(w, 1) = Ends[w][1]
          /\ Ends[w][1] \in 0..Size /\ From[w] <= Ends[w][1]
      BY <3>1, WriterEnds
    <3> QED
      BY <3>1, <3>2
  <2> QED
    BY <2>1, <2>2
<1>2. File!TypeOK
  <2>1. place \in [File!Writers -> [pos : 0..Size, rest : 0..Size, batch : Nat]]
    BY <1>1 DEF File!Init
  <2>2. /\ backend \in [sectors : BOOLEAN, most : 0..Size, cuts : BOOLEAN]
        /\ length \in 0 .. Size + 1
    BY StorageAssumption DEF File!Init, File!Closed
  <2>3. /\ job \in [File!Writers -> [at : 0..Size, len : 0..Size]]
        /\ reply \in [File!Writers -> [is : {"none", "written", "error"}, n : 0..Size]]
    BY StorageAssumption DEF File!Init, File!NoJob, File!NoReply
  <2>4. /\ disk \in [File!Units -> File!Writers \cup {Hole}]
        /\ durable \in [File!Units -> File!Writers \cup {Hole}]
        /\ filePc \in [File!Writers -> {"idle", "waiting", "ok", "error", "interrupted"}]
        /\ mode \in {"fragments", "known", "unknown"} /\ prepared \in BOOLEAN
        /\ flush \in [state : {"idle", "running", "ok"}, done : SUBSET File!Writers]
    BY DEF File!Init
  <2> QED
    BY <2>1, <2>2, <2>3, <2>4 DEF File!TypeOK
<1>3. PlaceInv
  BY <1>1 DEF PlaceInv
<1>4. JobInv /\ ReplyInv /\ EndInv
  BY DEF File!Init, JobInv, ReplyInv, EndInv
<1>5. DataInv
  BY <1>1, ActiveWrites DEF DataInv, File!Units
<1>6. FlushInv
  BY DEF File!Init, FlushInv, File!SyncCovers
<1> QED
  BY <1>2, <1>3, <1>4, <1>5, <1>6 DEF FileInv

\* The back end is chosen, and the file prepared.
LEMMA PrepareKeeps ==
    ASSUME FileInv, File!OpenStorage \/ File!PrepareStorage
    PROVE  FileInv'
<1>1. UNCHANGED <<mode, disk, durable, filePc, place, job, reply, flush>>
  BY DEF File!OpenStorage, File!PrepareStorage
<1>2. /\ Size \in Nat /\ RingBuffer \in 0..Size /\ length \in 0 .. Size + 1
      /\ backend \in [sectors : BOOLEAN, most : 0..Size, cuts : BOOLEAN]
  BY StorageAssumption DEF FileInv, File!TypeOK
<1>3. backend' \in [sectors : BOOLEAN, most : 0..Size, cuts : BOOLEAN]
  <2>1. CASE File!PrepareStorage
    BY <1>2, <2>1 DEF File!PrepareStorage
  <2>2. CASE File!OpenStorage
    <3>1. backend' \in {File!TokioLinux, File!TokioUnix, File!TokioWindows, File!WinFile, File!IoCp,
                        File!IoUring(TRUE), File!IoUring(FALSE)}
      BY <2>2, Zenon DEF File!OpenStorage, File!Offered, File!Standard
    <3> DEFINE B == [sectors : BOOLEAN, most : 0..Size, cuts : BOOLEAN]
    <3>2. Size \in 0..Size
      BY <1>2
    <3>3. File!TokioLinux \in B /\ File!TokioUnix \in B /\ File!TokioWindows \in B
      BY <3>2 DEF File!TokioLinux, File!TokioUnix, File!TokioWindows
    <3>4. File!WinFile \in B /\ File!IoCp \in B
      BY <3>2 DEF File!WinFile, File!IoCp
    <3>5. File!IoUring(TRUE) \in B /\ File!IoUring(FALSE) \in B
      BY <1>2 DEF File!IoUring
    <3> HIDE DEF B
    <3>6. backend' \in B
      BY <3>1, <3>3, <3>4, <3>5
    <3> QED
      BY <3>6 DEF B
  <2> QED
    BY <2>1, <2>2
<1>4. length' \in 0 .. Size + 1
  <2>1. length \in Nat /\ File!Max({Size, length}) \in {Size, length}
    BY <1>2, MaxOfTwo
  <2>2. length' \in {length, Size, File!Max({Size, length})}
    BY DEF File!OpenStorage, File!PrepareStorage, File!Allocated, File!Extended
  <2> QED
    BY <1>2, <2>1, <2>2
<1>5. prepared' \in BOOLEAN
  BY DEF File!OpenStorage, File!PrepareStorage, FileInv, File!TypeOK
<1>6. File!TypeOK'
  BY <1>1, <1>3, <1>4, <1>5 DEF FileInv, File!TypeOK
<1> QED
  BY <1>1, <1>6 DEF FileInv, PlaceInv, JobInv, ReplyInv, DataInv, EndInv, FlushInv,
                    File!Active, File!SyncCovers

\* A write is handed to a thread.
LEMMA IssueKeeps ==
    ASSUME FileInv, NEW w \in File!Writers, File!Issue(w)
    PROVE  FileInv'
<1>1. /\ w \in File!Active /\ filePc[w] = "idle"
      /\ UNCHANGED <<mode, backend, prepared, length, disk, durable, place, reply, flush>>
  BY DEF File!Issue, File!storage
<1>2. \/ /\ job' = [job EXCEPT ![w] = [at |-> place[w].pos, len |-> place[w].rest]]
         /\ filePc' = [filePc EXCEPT ![w] = "waiting"]
      \/ /\ job' = job
         /\ filePc' = [filePc EXCEPT ![w] = "error"]
  BY DEF File!Issue
<1>3. reply[w] = File!NoReply /\ job[w] = File!NoJob
  BY <1>1 DEF FileInv, ReplyInv, JobInv
<1>4. /\ job' \in [File!Writers -> [at : 0..Size, len : 0..Size]]
      /\ filePc' \in [File!Writers -> {"idle", "waiting", "ok", "error", "interrupted"}]
  <2>1. [at |-> place[w].pos, len |-> place[w].rest] \in [at : 0..Size, len : 0..Size]
    BY Numbers
  <2>2. job' \in [File!Writers -> [at : 0..Size, len : 0..Size]]
    BY <1>2, <2>1 DEF FileInv, File!TypeOK
  <2>3. filePc' \in [File!Writers -> {"idle", "waiting", "ok", "error", "interrupted"}]
    BY <1>2 DEF FileInv, File!TypeOK
  <2> QED
    BY <2>2, <2>3
<1>5. \A v \in File!Writers : v # w => job'[v] = job[v] /\ filePc'[v] = filePc[v]
  BY <1>2 DEF FileInv, File!TypeOK
<1>6. /\ filePc'[w] \in {"waiting", "error"}
      /\ job'[w] # File!NoJob =>
          job'[w] = [at |-> place[w].pos, len |-> place[w].rest] /\ filePc'[w] = "waiting"
  <2>1. filePc'[w] = "waiting" \/ (filePc'[w] = "error" /\ job' = job)
    BY <1>2 DEF FileInv, File!TypeOK
  <2>2. job' # job => job'[w] = [at |-> place[w].pos, len |-> place[w].rest]
    BY <1>2 DEF FileInv, File!TypeOK
  <2> QED
    BY <1>2, <1>3, <2>1, <2>2
<1>7. File!TypeOK' /\ PlaceInv'
  BY <1>1, <1>4 DEF FileInv, File!TypeOK, PlaceInv
<1>8. JobInv'
  BY <1>1, <1>3, <1>5, <1>6 DEF FileInv, JobInv, File!Active
<1>9. ReplyInv' /\ DataInv'
  BY <1>1, <1>3, <1>5 DEF FileInv, ReplyInv, DataInv, File!Active
<1>10. EndInv'
  BY <1>1, <1>5, <1>6 DEF FileInv, EndInv, File!Active
<1>11. FlushInv'
  <2>1. \A v \in File!Writers : filePc[v] = "ok" => filePc'[v] = "ok"
    BY <1>1, <1>5
  <2>2. File!Active' = File!Active /\ File!SyncCovers' = File!SyncCovers
    BY <1>1 DEF File!Active, File!SyncCovers
  <2> QED
    BY <1>1, <2>1, <2>2, ActiveWrites DEF FileInv, FlushInv
<1> QED
  BY <1>7, <1>8, <1>9, <1>10, <1>11 DEF FileInv

\* A thread ends: it has written the first n units, or has failed.
LEMMA ThreadKeeps ==
    ASSUME FileInv, NEW w \in File!Writers, File!Thread(w)
    PROVE  FileInv'
<1> DEFINE from == place[w].pos
<1>1. /\ UNCHANGED <<mode, backend, prepared, durable, filePc, place, flush>>
      /\ job[w] # File!NoJob /\ job' = [job EXCEPT ![w] = File!NoJob]
  BY DEF File!Thread, File!Land, File!Fail, File!storage
<1>2. /\ w \in File!Active /\ filePc[w] \in {"waiting", "interrupted"}
      /\ job[w].at = from /\ job[w].len = place[w].rest
  <2>1. job[w] = [at |-> place[w].pos, len |-> place[w].rest]
    BY <1>1 DEF FileInv, JobInv
  <2> QED
    BY <1>1, <2>1 DEF FileInv, JobInv
<1>3. PICK n \in 0..Size, is \in {"written", "error"} :
        /\ n <= place[w].rest
        /\ is = "error" => n = 0
        /\ reply' = [reply EXCEPT ![w] = [is |-> is, n |-> n]]
        /\ is = "written" => disk' = [u \in File!Units |-> IF from <= u /\ u < from + n THEN w ELSE disk[u]]
        /\ is = "error" => disk' = disk
        /\ length' \in {length, File!Max({length, from + n})}
  <2>1. CASE File!Fail(w)
    <3>1. 0 \in 0..Size /\ 0 <= place[w].rest
      BY Numbers
    <3> QED
      BY <2>1, <3>1 DEF File!Fail
  <2>2. CASE \E n \in 0..Size : File!Land(w, n)
    BY <1>2, <2>2 DEF File!Land
  <2> QED
    BY <2>1, <2>2 DEF File!Thread
<1>4. /\ from \in Nat /\ place[w].rest \in Nat /\ From[w] \in Nat /\ From[w] <= from
      /\ from + place[w].rest <= EndOf(w) /\ EndOf(w) <= Size /\ EndOf(w) \in Nat /\ Size \in Nat
  BY Numbers
<1>5. /\ from + n \in Nat /\ from + n <= EndOf(w) /\ from + n <= Size
  BY <1>3, <1>4
<1>6. /\ disk' \in [File!Units -> File!Writers \cup {Hole}]
      /\ \A u \in File!Units : disk'[u] = disk[u] \/ (disk'[u] = w /\ from <= u /\ u < from + n)
      /\ is = "written" => \A u \in File!Units : from <= u /\ u < from + n => disk'[u] = w
  BY <1>3 DEF FileInv, File!TypeOK
<1>7. /\ reply' \in [File!Writers -> [is : {"none", "written", "error"}, n : 0..Size]]
      /\ reply'[w].is = is /\ reply'[w].n = n
      /\ \A v \in File!Writers : v # w => reply'[v] = reply[v]
  <2>1. [is |-> is, n |-> n] \in [is : {"none", "written", "error"}, n : 0..Size]
    BY <1>3
  <2> QED
    BY <1>3, <2>1 DEF FileInv, File!TypeOK
<1>8. /\ job' \in [File!Writers -> [at : 0..Size, len : 0..Size]]
      /\ job'[w] = File!NoJob /\ \A v \in File!Writers : v # w => job'[v] = job[v]
  <2>1. File!NoJob \in [at : 0..Size, len : 0..Size]
    BY <1>4 DEF File!NoJob
  <2> QED
    BY <1>1, <2>1 DEF FileInv, File!TypeOK
<1>9. File!TypeOK' /\ PlaceInv'
  <2>1. length' \in 0 .. Size + 1
    <3>1. length \in Nat /\ length <= Size + 1
      BY <1>4 DEF FileInv, File!TypeOK
    <3>2. File!Max({length, from + n}) \in {length, from + n}
      BY <1>5, <3>1, MaxOfTwo
    <3> QED
      BY <1>3, <1>4, <1>5, <3>1, <3>2
  <2> QED
    BY <1>1, <1>6, <1>7, <1>8, <2>1 DEF FileInv, File!TypeOK, PlaceInv
\* The units of another writer of the download are not touched.
<1>10. ASSUME NEW v \in File!Active, v # w, NEW u \in File!Units, From[v] <= u, u < EndOf(v)
       PROVE  disk'[u] = disk[u]
  <2>1. EndOf(v) <= From[w] \/ EndOf(w) <= From[v]
    BY <1>2, <1>10, WritersApart
  <2>2. From[v] \in Nat /\ EndOf(v) \in Nat /\ u \in Nat
    BY ActiveWrites, Numbers DEF File!Units
  <2> QED
    BY <1>4, <1>5, <1>6, <1>10, <2>1, <2>2
<1>11. JobInv'
  BY <1>1, <1>7, <1>8 DEF FileInv, JobInv, File!Active
<1>12. ReplyInv'
  <2>1. ASSUME NEW v \in File!Writers, v # w, reply[v] # File!NoReply
        PROVE  /\ v \in File!Active /\ filePc[v] \in {"waiting", "interrupted"}
               /\ reply[v].is = "error" => reply[v].n = 0
               /\ reply[v].n <= place[v].rest
               /\ \A u \in File!Units :
                   place[v].pos <= u /\ u < place[v].pos + reply[v].n => disk'[u] = v
    <3>1. /\ v \in File!Active /\ filePc[v] \in {"waiting", "interrupted"}
          /\ reply[v].is = "error" => reply[v].n = 0
          /\ reply[v].n <= place[v].rest
          /\ \A u \in File!Units :
               place[v].pos <= u /\ u < place[v].pos + reply[v].n => disk[u] = v
      BY <2>1 DEF FileInv, ReplyInv
    <3>2. ASSUME NEW u \in File!Units, place[v].pos <= u, u < place[v].pos + reply[v].n
          PROVE  From[v] <= u /\ u < EndOf(v)
      <4>1. u \in Nat
        BY DEF File!Units
      <4> QED
        BY <3>1, <3>2, <4>1, Numbers
    <3> QED
      BY <1>10, <2>1, <3>1, <3>2
  <2>2. reply'[w].n <= place[w].rest /\ (reply'[w].is = "error" => reply'[w].n = 0)
    BY <1>3, <1>7
  <2>3. \A u \in File!Units :
          place[w].pos <= u /\ u < place[w].pos + reply'[w].n => disk'[u] = w
    <3>1. CASE is = "written"
      BY <1>6, <1>7, <3>1
    <3>2. CASE is = "error"
      BY <1>3, <1>4, <1>7, <3>2 DEF File!Units
    <3> QED
      BY <1>3, <3>1, <3>2
  <2> QED
    BY <1>1, <1>2, <1>7, <2>1, <2>2, <2>3 DEF ReplyInv, File!Active
<1>13. DataInv'
  <2>1. ASSUME NEW v \in File!Active, NEW u \in File!Units, From[v] <= u, u < place[v].pos
        PROVE  disk'[u] = v
    <3>1. disk[u] = v
      BY <2>1 DEF FileInv, DataInv
    <3>2. CASE v = w
      BY <1>6, <3>1, <3>2
    <3>3. CASE v # w
      <4>1. u \in Nat /\ u < EndOf(v)
        BY <2>1, ActiveWrites, Numbers DEF File!Units
      <4> QED
        BY <1>10, <2>1, <3>1, <3>3, <4>1
    <3> QED
      BY <3>2, <3>3
  <2> QED
    BY <1>1, <2>1 DEF DataInv, File!Active
<1>14. EndInv' /\ FlushInv'
  BY <1>1 DEF FileInv, EndInv, FlushInv, File!Active, File!SyncCovers
<1> QED
  BY <1>9, <1>11, <1>12, <1>13, <1>14 DEF FileInv

\* Where a write loop may stand after it was answered.
Places == [pos : 0..Size, rest : 0..Size, batch : Nat]

MovesTo(w, pc, p) ==
    /\ filePc' = [filePc EXCEPT ![w] = pc]
    /\ place' = [place EXCEPT ![w] = p]
    /\ p.batch \in DOMAIN Ends[w]
    /\ p.pos = place[w].pos \/ p.pos = place[w].pos + reply[w].n
    /\ p.pos + p.rest <= Ends[w][p.batch]
    /\ mode = "fragments" => p.pos + p.rest = Ends[w][p.batch]
    /\ pc = "ok" => (mode = "fragments" => p.pos = EndOf(w)) /\ (mode = "known" => p.pos = Size)

\* A write loop takes its answer: it goes on behind what was written, with the
\* rest of the batch, the next one or none.
LEMMA ConsumeKeeps ==
    ASSUME FileInv, NEW w \in File!Writers, File!WriteAll(w) \/ File!WriteChunk(w)
    PROVE  FileInv'
<1> DEFINE pos == place[w].pos
           rest == place[w].rest
           batch == place[w].batch
           n == reply[w].n
           next == place[w].batch + 1
<1>1. /\ filePc[w] = "waiting" /\ reply[w] # File!NoReply
      /\ UNCHANGED <<mode, backend, prepared, length, disk, durable, job, flush>>
      /\ reply' = [reply EXCEPT ![w] = File!NoReply]
  BY DEF File!WriteAll, File!WriteChunk, File!Answered, File!storage
<1>2. /\ pos \in Nat /\ rest \in Nat /\ batch \in DOMAIN Ends[w] /\ n \in Nat
      /\ From[w] \in Nat /\ From[w] <= pos /\ pos + rest <= EndOf(w) /\ EndOf(w) \in Nat
      /\ EndOf(w) <= Size /\ Size \in Nat
      /\ place[w] \in Places
  BY Numbers DEF Places
<1>3. /\ w \in File!Active /\ n <= rest
      /\ \A u \in File!Units : pos <= u /\ u < pos + n => disk[u] = w
  BY <1>1 DEF FileInv, ReplyInv
<1>4. /\ pos + rest <= Ends[w][batch]
      /\ mode = "fragments" => pos + rest = Ends[w][batch]
      /\ mode \in {"fragments", "known", "unknown"}
  BY DEF FileInv, PlaceInv, File!TypeOK
<1>5. /\ Len(Ends[w]) \in Nat /\ batch \in 1..Len(Ends[w]) /\ Ends[w][batch] \in 0..Size
      /\ batch \in Nat
  BY <1>2, WriterEnds
<1>6. next \in DOMAIN Ends[w] =>
        /\ File!LengthOf(w, next) \in 0..Size /\ Ends[w][next] \in 0..Size
        /\ Ends[w][batch] + File!LengthOf(w, next) = Ends[w][next]
  <2>1. next # 1 /\ next - 1 = batch
    BY <1>5
  <2> QED
    BY <2>1, WriterEnds
<1>7. next <= Len(Ends[w]) => next \in DOMAIN Ends[w]
  BY <1>5, StorageAssumption DEF File!Writers
<1>8. PICK pc \in {"idle", "ok", "error"}, p \in Places : MovesTo(w, pc, p)
  <2>1. ASSUME filePc' = [filePc EXCEPT ![w] = "error"], place' = place
        PROVE  \E pc \in {"idle", "ok", "error"}, p \in Places : MovesTo(w, pc, p)
    <3>1. place' = [place EXCEPT ![w] = place[w]]
      BY <2>1 DEF FileInv, File!TypeOK
    <3> QED
      BY <1>2, <1>4, <2>1, <3>1 DEF MovesTo
  <2>2. ASSUME File!NextBatch(w, pos + n), mode = "fragments" => n = rest
        PROVE  \E pc \in {"idle", "ok", "error"}, p \in Places : MovesTo(w, pc, p)
    <3>1. pos + n \in 0..Size /\ pos + n <= Ends[w][batch]
      <4>1. pos + n \in Nat /\ pos + n <= pos + rest
        BY <1>2, <1>3
      <4> QED
        BY <1>2, <1>4, <1>5, <4>1
    <3>2. CASE next <= Len(Ends[w])
      <4> DEFINE p == [pos |-> pos + n, rest |-> File!LengthOf(w, next), batch |-> next]
      <4>1. place' = [place EXCEPT ![w] = p] /\ filePc' = [filePc EXCEPT ![w] = "idle"]
        BY <2>2, <3>2 DEF File!NextBatch
      <4>2. p \in Places /\ p.batch \in DOMAIN Ends[w]
        BY <1>5, <1>6, <1>7, <3>1, <3>2 DEF Places
      <4>3. /\ p.pos + p.rest <= Ends[w][p.batch]
            /\ mode = "fragments" => p.pos + p.rest = Ends[w][p.batch]
        <5> DEFINE length1 == File!LengthOf(w, next)
                   end1 == Ends[w][batch]
                   end2 == Ends[w][next]
                   pos1 == pos + n
        <5>1. p.pos = pos1 /\ p.rest = length1 /\ Ends[w][p.batch] = end2
          OBVIOUS
        <5>2. length1 \in Nat /\ end1 \in Nat /\ end1 + length1 = end2
          BY <1>5, <1>6, <1>7, <3>2
        <5>3. pos1 \in Nat /\ pos1 <= end1
          BY <3>1
        <5>4. mode = "fragments" => pos1 = end1
          BY <1>4, <2>2
        <5> HIDE DEF p, length1, end1, end2, pos1
        <5> QED
          BY <5>1, <5>2, <5>3, <5>4
      <4>4. MovesTo(w, "idle", p)
        BY <4>1, <4>2, <4>3 DEF MovesTo
      <4> QED
        BY <4>2, <4>4
    <3>3. CASE ~(next <= Len(Ends[w]))
      <4> DEFINE p == [pos |-> pos + n, rest |-> 0, batch |-> batch]
                 pc == IF mode = "known" /\ pos + n # Size THEN "error" ELSE "ok"
      <4>1. filePc' = [filePc EXCEPT ![w] = pc]
        BY <2>2, <3>3 DEF File!NextBatch
      <4>2. place' = [place EXCEPT ![w] = p]
        BY <2>2, <3>3 DEF File!NextBatch, FileInv, File!TypeOK
      <4>3. batch = Len(Ends[w])
        BY <1>5, <3>3
      <4>4. p \in Places /\ p.batch \in DOMAIN Ends[w]
        BY <1>2, <3>1 DEF Places
      <4>5. /\ p.pos + p.rest <= Ends[w][p.batch]
            /\ mode = "fragments" => p.pos + p.rest = Ends[w][p.batch]
            /\ mode = "fragments" => p.pos = EndOf(w)
        BY <1>2, <1>4, <2>2, <3>1, <4>3 DEF EndOf
      <4>6. pc = "ok" => (mode = "known" => p.pos = Size)
        OBVIOUS
      <4>7. MovesTo(w, pc, p) /\ pc \in {"idle", "ok", "error"}
        BY <4>1, <4>2, <4>4, <4>5, <4>6 DEF MovesTo
      <4> QED
        BY <4>4, <4>7
    <3> QED
      BY <3>2, <3>3
  <2>3. CASE File!WriteChunk(w)
    BY <2>1, <2>2, <2>3 DEF File!WriteChunk
  <2>4. CASE File!WriteAll(w)
    <3>1. CASE n = 0
      BY <2>1, <2>4, <3>1 DEF File!WriteAll
    <3>2. CASE n # 0 /\ n = rest
      BY <2>2, <2>4, <3>2 DEF File!WriteAll
    <3>3. CASE n # 0 /\ n # rest
      <4> DEFINE p == [pos |-> pos + n, rest |-> rest - n, batch |-> batch]
      <4>1. filePc' = [filePc EXCEPT ![w] = "idle"]
        BY <2>4, <3>3 DEF File!WriteAll
      <4>2. place' = [place EXCEPT ![w] = p]
        BY <2>4, <3>3 DEF File!WriteAll, FileInv, File!TypeOK
      <4>3. p \in Places /\ p.batch \in DOMAIN Ends[w]
        BY <1>2, <1>3 DEF Places
      <4>4. /\ p.pos + p.rest <= Ends[w][p.batch]
            /\ mode = "fragments" => p.pos + p.rest = Ends[w][p.batch]
        BY <1>2, <1>3, <1>4, <1>5
      <4>5. MovesTo(w, "idle", p)
        BY <4>1, <4>2, <4>3, <4>4 DEF MovesTo
      <4> QED
        BY <4>3, <4>5
    <3> QED
      BY <3>1, <3>2, <3>3
  <2> QED
    BY <2>3, <2>4
<1>9. /\ filePc' \in [File!Writers -> {"idle", "waiting", "ok", "error", "interrupted"}]
      /\ place' \in [File!Writers -> [pos : 0..Size, rest : 0..Size, batch : Nat]]
      /\ place'[w] = p /\ filePc'[w] = pc /\ reply'[w] = File!NoReply
      /\ \A v \in File!Writers : v # w =>
           place'[v] = place[v] /\ filePc'[v] = filePc[v] /\ reply'[v] = reply[v]
  BY <1>1, <1>8 DEF FileInv, File!TypeOK, MovesTo, Places
<1>10. job[w] = File!NoJob
  BY <1>1 DEF FileInv, JobInv
<1>11. File!TypeOK'
  <2>1. reply' \in [File!Writers -> [is : {"none", "written", "error"}, n : 0..Size]]
    <3>1. File!NoReply \in [is : {"none", "written", "error"}, n : 0..Size]
      BY <1>2 DEF File!NoReply
    <3> QED
      BY <1>1, <3>1 DEF FileInv, File!TypeOK
  <2> QED
    BY <1>1, <1>9, <2>1 DEF FileInv, File!TypeOK
<1>12. PlaceInv'
  <2>1. From[w] <= p.pos
    BY <1>2, <1>8 DEF MovesTo
  <2> QED
    BY <1>1, <1>8, <1>9, <2>1 DEF FileInv, PlaceInv, MovesTo
<1>13. JobInv' /\ ReplyInv'
  BY <1>1, <1>9, <1>10 DEF FileInv, JobInv, ReplyInv, File!Active
<1>14. DataInv'
  <2>1. ASSUME NEW u \in File!Units, From[w] <= u, u < p.pos PROVE disk[u] = w
    <3>1. u \in Nat
      BY DEF File!Units
    <3>2. u < pos \/ (pos <= u /\ u < pos + n)
      BY <1>2, <1>8, <2>1, <3>1 DEF MovesTo
    <3> QED
      BY <1>3, <2>1, <3>2 DEF FileInv, DataInv
  <2> QED
    BY <1>1, <1>9, <2>1, ActiveWrites DEF FileInv, DataInv, File!Active
<1>15. EndInv'
  BY <1>1, <1>3, <1>8, <1>9 DEF FileInv, EndInv, File!Active, MovesTo
<1>16. FlushInv'
  <2>1. \A v \in File!Writers : filePc[v] = "ok" => filePc'[v] = "ok"
    BY <1>1, <1>9
  <2>2. File!Active' = File!Active /\ File!SyncCovers' = File!SyncCovers
    BY <1>1 DEF File!Active, File!SyncCovers
  <2> QED
    BY <1>1, <2>1, <2>2, ActiveWrites DEF FileInv, FlushInv
<1> QED
  BY <1>11, <1>12, <1>13, <1>14, <1>15, <1>16 DEF FileInv

\* The future of a writer is dropped, or sync() goes on.
LEMMA InterruptKeeps ==
    ASSUME FileInv, NEW w \in File!Writers, File!Interrupt(w)
    PROVE  FileInv'
<1>1. /\ filePc[w] = "waiting" /\ filePc' = [filePc EXCEPT ![w] = "interrupted"]
      /\ UNCHANGED <<mode, backend, prepared, length, disk, durable, place, job, reply, flush>>
  BY DEF File!Interrupt, File!storage
<1>2. /\ filePc' \in [File!Writers -> {"idle", "waiting", "ok", "error", "interrupted"}]
      /\ filePc'[w] = "interrupted"
      /\ \A v \in File!Writers : v # w => filePc'[v] = filePc[v]
  BY <1>1 DEF FileInv, File!TypeOK
<1>3. File!TypeOK' /\ PlaceInv'
  BY <1>1, <1>2 DEF FileInv, File!TypeOK, PlaceInv
<1>4. JobInv' /\ ReplyInv' /\ DataInv' /\ EndInv'
  BY <1>1, <1>2 DEF FileInv, JobInv, ReplyInv, DataInv, EndInv, File!Active
<1>5. FlushInv'
  <2>1. \A v \in File!Writers : filePc[v] = "ok" => filePc'[v] = "ok"
    BY <1>1, <1>2
  <2>2. File!Active' = File!Active /\ File!SyncCovers' = File!SyncCovers
    BY <1>1 DEF File!Active, File!SyncCovers
  <2> QED
    BY <1>1, <2>1, <2>2, ActiveWrites DEF FileInv, FlushInv
<1> QED
  BY <1>3, <1>4, <1>5 DEF FileInv

\* A writer that was told Ok has its data in the file.
LEMMA OkIsWritten == FileInv => File!WrittenIsThere
<1> SUFFICES ASSUME FileInv, NEW w \in File!Active, filePc[w] = "ok", mode # "unknown",
                    NEW u \in File!Region(w)
             PROVE  disk[u] = w
  BY DEF File!WrittenIsThere
<1>1. w \in File!Writers /\ mode \in {"fragments", "known"}
  BY ActiveWrites DEF FileInv, File!TypeOK
<1>2. u \in File!Units /\ From[w] <= u /\ u < EndOf(w) /\ EndOf(w) <= Size /\ EndOf(w) \in Nat
      /\ u \in Nat /\ Size \in Nat
  BY <1>1, Numbers DEF File!Region, File!Last, File!Units, EndOf
<1>3. place[w].pos = EndOf(w) \/ place[w].pos = Size
  BY <1>1 DEF FileInv, EndInv
<1>4. u < place[w].pos
  BY <1>2, <1>3
<1> QED
  BY <1>2, <1>4 DEF FileInv, DataInv

LEMMA SyncKeeps == FileInv /\ (File!SyncStarts \/ File!SyncRuns) => FileInv'
<1> SUFFICES ASSUME FileInv, File!SyncStarts \/ File!SyncRuns PROVE FileInv'
  OBVIOUS
<1>1. UNCHANGED <<mode, backend, prepared, length, disk, filePc, place, job, reply>>
  BY DEF File!SyncStarts, File!SyncRuns, File!storage
<1>2. PlaceInv' /\ JobInv' /\ ReplyInv' /\ DataInv' /\ EndInv' /\ File!Active' = File!Active
  BY <1>1 DEF FileInv, PlaceInv, JobInv, ReplyInv, DataInv, EndInv, File!Active
<1>3. CASE File!SyncStarts
  <2>1. /\ flush' = [state |-> "running", done |-> File!Active] /\ durable' = durable
        /\ \A w \in File!Active : filePc[w] = "ok"
    BY <1>3 DEF File!SyncStarts
  <2>2. flush'.state = "running" /\ flush'.done = File!Active
    BY <2>1
  <2>3. File!TypeOK'
    BY <1>1, <2>1, <2>2, ActiveWrites DEF FileInv, File!TypeOK
  <2>4. FlushInv'
    BY <1>1, <1>2, <2>1, <2>2 DEF FlushInv, File!SyncCovers
  <2> QED
    BY <1>2, <2>3, <2>4 DEF FileInv
<1>4. CASE File!SyncRuns
  <2>1. /\ flush.state = "running" /\ durable' = disk
        /\ flush'.state = "ok" /\ flush'.done = flush.done
        /\ flush' \in [state : {"idle", "running", "ok"}, done : SUBSET File!Writers]
    BY <1>4 DEF File!SyncRuns, FileInv, File!TypeOK
  <2>2. File!TypeOK'
    BY <1>1, <2>1 DEF FileInv, File!TypeOK, File!Units
  <2>3. flush.done \subseteq File!Active /\ \A w \in flush.done : filePc[w] = "ok"
    BY <2>1 DEF FileInv, FlushInv
  <2>4. mode # "unknown" => \A w \in flush.done : \A u \in File!Region(w) : disk[u] = w
    BY <2>3, OkIsWritten DEF File!WrittenIsThere
  <2>5. FlushInv'
    BY <1>1, <1>2, <2>1, <2>3, <2>4 DEF FlushInv, File!SyncCovers
  <2> QED
    BY <1>2, <2>2, <2>5 DEF FileInv
<1> QED
  BY <1>3, <1>4

LEMMA FileStep == FileInv /\ [File!Next]_(File!fileVars) => FileInv'
<1> SUFFICES ASSUME FileInv, [File!Next]_(File!fileVars) PROVE FileInv'
  OBVIOUS
<1>1. CASE UNCHANGED File!fileVars
  BY <1>1 DEF File!fileVars, FileInv, File!TypeOK, PlaceInv, JobInv, ReplyInv, DataInv, EndInv,
              FlushInv, File!Active, File!SyncCovers
<1>2. CASE File!Next
  BY <1>2, PrepareKeeps, SyncKeeps, ThreadKeeps, IssueKeeps, ConsumeKeeps, InterruptKeeps
     DEF File!Next, File!Engine
<1> QED
  BY <1>1, <1>2

-----------------------------------------------------------------------------
(* The write pipeline.                                                      *)

Symbols == STRING
Cells == Symbols \cup {Blank}

\* What of StorageAssumption the pipeline needs.
LEMMA PipeConstants ==
    /\ IsFiniteSet(Calls) /\ IsFiniteSet(Inputs)
    /\ Inputs \subseteq Seq([off : Nat, data : Seq(Symbols)])
    /\ PipeCapacity \in Nat \ {0} /\ MaxPending \in Nat \ {0}
BY StorageAssumption DEF Symbols

\* What a call may be given, as StorageAssumption has it.
RawSegments == [off : Nat, data : Seq(Symbols)]

LEMMA InputsRaw == \A s \in Inputs : s \in Seq(RawSegments) /\ \A i \in DOMAIN s : s[i] \in RawSegments
<1> SUFFICES ASSUME NEW s \in Inputs
             PROVE  s \in Seq(RawSegments) /\ \A i \in DOMAIN s : s[i] \in RawSegments
  OBVIOUS
<1>1. s \in Seq(RawSegments)
  BY PipeConstants DEF RawSegments
<1> QED
  BY <1>1

\* The segments of a call, and the writes made of them.
Segments == [off : Pipe!Units, data : Seq(Cells)]
Given == {seg \in Segments : Pipe!EndOf(seg) \in Pipe!Units}

InputEnds == {0} \cup {Pipe!EndOf(seg) : seg \in UNION {Pipe!ToSet(s) : s \in Inputs}}

LEMMA LastUnit == \E m \in Nat : Pipe!Units = 0..m /\ \A e \in InputEnds : e \in 0..m
<1> DEFINE Lists == {Pipe!ToSet(s) : s \in Inputs}
           Given1 == UNION Lists
           Ends1 == {Pipe!EndOf(seg) : seg \in Given1}
<1>1. \A s \in Inputs : IsFiniteSet(Pipe!ToSet(s))
  <2> SUFFICES ASSUME NEW s \in Inputs PROVE IsFiniteSet(Pipe!ToSet(s))
    OBVIOUS
  <2> DEFINE D == 1..Len(s)
             m == [i \in D |-> s[i]]
  <2>1. s \in Seq(RawSegments)
    BY InputsRaw
  <2>2. Len(s) \in Int /\ 1 \in Int /\ DOMAIN s = D
    BY <2>1
  <2>3. IsFiniteSet(D)
    BY <2>2, FS_Interval
  <2>4. m \in Surjection(D, Pipe!ToSet(s))
    BY <2>2 DEF Surjection, Pipe!ToSet
  <2> HIDE DEF D, m
  <2> QED
    BY <2>3, <2>4, FS_Surjection
<1>2. IsFiniteSet(Lists)
  <2> DEFINE m == [s \in Inputs |-> Pipe!ToSet(s)]
  <2>1. m \in Surjection(Inputs, Lists)
    BY DEF Surjection
  <2> HIDE DEF m
  <2> QED
    BY <2>1, FS_Surjection, PipeConstants
<1>3. IsFiniteSet(Given1)
  <2>1. \A T \in Lists : IsFiniteSet(T)
    BY <1>1
  <2> HIDE DEF Lists
  <2> QED
    BY <1>2, <2>1, FS_UNION
<1>4. IsFiniteSet(Ends1)
  <2> HIDE DEF Given1
  <2> DEFINE m == [seg \in Given1 |-> Pipe!EndOf(seg)]
  <2>1. m \in Surjection(Given1, Ends1)
    BY DEF Surjection
  <2> HIDE DEF m
  <2> QED
    BY <1>3, <2>1, FS_Surjection
<1>5. \A seg \in Given1 : seg \in RawSegments
  <2> SUFFICES ASSUME NEW s \in Inputs, NEW i \in DOMAIN s PROVE s[i] \in RawSegments
    BY DEF Pipe!ToSet
  <2> QED
    BY InputsRaw
<1>6. \A seg \in RawSegments : Pipe!EndOf(seg) \in Nat
  <2> SUFFICES ASSUME NEW seg \in RawSegments PROVE Pipe!EndOf(seg) \in Nat
    OBVIOUS
  <2>1. seg.off \in Nat /\ seg.data \in Seq(Symbols)
    BY DEF RawSegments
  <2>2. Len(seg.data) \in Nat
    BY <2>1
  <2> QED
    BY <2>1, <2>2 DEF Pipe!EndOf
<1>7. InputEnds \in SUBSET Nat /\ InputEnds = {0} \cup Ends1
  BY <1>5, <1>6 DEF InputEnds
<1> HIDE DEF Lists, Given1, Ends1
<1>8. IsFiniteSet(InputEnds) /\ InputEnds # {}
  BY <1>4, <1>7, FS_Singleton, FS_Union
<1>9. PICK m \in InputEnds : \A e \in InputEnds : m >= e
  BY <1>7, <1>8, GreatestFinite
<1>10. Pipe!Max(InputEnds) \in InputEnds /\ \A e \in InputEnds : Pipe!Max(InputEnds) >= e
  BY <1>9 DEF Pipe!Max
<1> DEFINE last == Pipe!Max(InputEnds)
<1>11. last \in Nat /\ \A e \in InputEnds : e \in 0..last
  BY <1>7, <1>10
<1>12. Pipe!Units = 0..last
  BY DEF Pipe!Units, InputEnds
<1> QED
  BY <1>11, <1>12

LEMMA InputsGiven == Inputs \subseteq Seq(Given)
<1> SUFFICES ASSUME NEW s \in Inputs PROVE s \in Seq(Given)
  OBVIOUS
<1>1. s \in Seq(RawSegments) /\ \A i \in DOMAIN s : s[i] \in RawSegments
  BY InputsRaw
<1>2. PICK m \in Nat : Pipe!Units = 0..m /\ \A e \in InputEnds : e \in 0..m
  BY LastUnit
<1>3. ASSUME NEW i \in DOMAIN s PROVE s[i] \in Given
  <2> DEFINE seg == s[i]
  <2>1. seg \in RawSegments
    BY <1>1
  <2>a. seg \in Pipe!ToSet(s)
    BY DEF Pipe!ToSet
  <2> HIDE DEF seg
  <2>b. seg \in UNION {Pipe!ToSet(t) : t \in Inputs}
    BY <2>a
  <2>2. Pipe!EndOf(seg) \in 0..m
    BY <1>2, <2>b DEF InputEnds
  <2>c. seg.off \in Nat /\ seg.data \in Seq(Symbols) /\ seg = [off |-> seg.off, data |-> seg.data]
    BY <2>1 DEF RawSegments
  <2>3. Len(seg.data) \in Nat /\ seg.off \in Nat /\ seg.data \in Seq(Symbols)
    BY <2>c
  <2>4. seg.off \in 0..m
    BY <2>2, <2>3 DEF Pipe!EndOf
  <2>5. seg.data \in Seq(Cells)
    BY <2>3 DEF Cells
  <2>6. seg \in Segments
    BY <1>2, <2>c, <2>4, <2>5 DEF Segments
  <2>7. Pipe!EndOf(seg) \in Pipe!Units
    BY <1>2, <2>2
  <2> QED
    BY <2>6, <2>7 DEF Given, seg
<1> QED
  BY <1>1, <1>3

\* The segments of a call in an order of their offsets.
LEMMA SortedGiven ==
    ASSUME NEW s \in Seq(Given), NEW order \in Pipe!Orders(s)
    PROVE  /\ Pipe!Sorted(s, order) \in Seq(Given) /\ Len(Pipe!Sorted(s, order)) = Len(s)
           /\ order \in [DOMAIN s -> DOMAIN s] /\ \A i, j \in DOMAIN s : order[i] = order[j] => i = j
           /\ \A i \in DOMAIN s : Pipe!Sorted(s, order)[i] = s[order[i]]
<1>1. order \in [DOMAIN s -> DOMAIN s] /\ \A i, j \in DOMAIN s : order[i] = order[j] => i = j
  BY DEF Pipe!Orders, Pipe!IsInjective
<1>2. Pipe!Sorted(s, order) = [i \in 1..Len(s) |-> s[order[i]]] /\ Len(s) \in Nat /\ DOMAIN s = 1..Len(s)
  BY DEF Pipe!Sorted
<1>3. \A i \in DOMAIN s : s[order[i]] \in Given
  BY <1>1
<1>4. Pipe!Sorted(s, order) \in Seq(Given)
  BY <1>2, <1>3
<1> QED
  BY <1>1, <1>2, <1>4
-----------------------------------------------------------------------------
(* How much the segments of a list have.                                    *)

Sizes(s) == [i \in DOMAIN s |-> Len(s[i].data)]
SizeOf(s) == SumOver(Sizes(s))

LEMMA UnitsType == Pipe!Units \subseteq Nat /\ 0 \in Pipe!Units
BY LastUnit

LEMMA SegmentType ==
    ASSUME NEW seg \in Segments
    PROVE  seg.off \in Pipe!Units /\ seg.off \in Nat /\ seg.data \in Seq(Cells) /\ Len(seg.data) \in Nat
<1>1. seg.off \in Pipe!Units /\ seg.data \in Seq(Cells)
  BY DEF Segments
<1>2. Len(seg.data) \in Nat
  BY <1>1
<1> QED
  BY <1>1, <1>2, UnitsType

LEMMA SizesType ==
    ASSUME NEW s \in Seq(Segments)
    PROVE  /\ Sizes(s) \in Seq(Nat) /\ Len(Sizes(s)) = Len(s) /\ SizeOf(s) \in Nat
           /\ \A i \in 1..Len(s) : Sizes(s)[i] = Len(s[i].data)
<1>1. Len(s) \in Nat /\ DOMAIN s = 1..Len(s) /\ \A i \in DOMAIN s : s[i] \in Segments
  OBVIOUS
<1>2. Sizes(s) = [i \in 1..Len(s) |-> Len(s[i].data)]
  BY <1>1 DEF Sizes
<1>3. \A i \in 1..Len(s) : Len(s[i].data) \in Nat
  BY <1>1, SegmentType
<1>4. Sizes(s) \in Seq(Nat) /\ Len(Sizes(s)) = Len(s)
  BY <1>1, <1>2, <1>3
<1>5. SizeOf(s) \in Nat
  BY <1>4, 0 \in Nat, SumPrepended DEF SizeOf
<1> QED
  BY <1>2, <1>4, <1>5

LEMMA SizeOfNone == SizeOf(<<>>) = 0
<1>1. Sizes(<<>>) = [x \in {} |-> 0]
  BY DEF Sizes
<1>2. IsFiniteSet({})
  BY FS_EmptySet
<1> QED
  BY <1>1, <1>2, SumOfNone DEF SizeOf

LEMMA SizeAppended ==
    ASSUME NEW s \in Seq(Segments), NEW seg \in Segments
    PROVE  SizeOf(Append(s, seg)) = SizeOf(s) + Len(seg.data)
<1> DEFINE t == Append(s, seg)
           n == Len(s)
           d == Len(seg.data)
<1>1. n \in Nat /\ t \in Seq(Segments) /\ Len(t) = n + 1 /\ t[n + 1] = seg /\ \A i \in 1..n : t[i] = s[i]
  OBVIOUS
<1>2. d \in Nat
  BY SegmentType
<1>3. /\ Sizes(t) \in Seq(Nat) /\ Len(Sizes(t)) = n + 1 /\ \A i \in 1..(n + 1) : Sizes(t)[i] = Len(t[i].data)
  BY <1>1, SizesType
<1>4. /\ Sizes(s) \in Seq(Nat) /\ Len(Sizes(s)) = n /\ \A i \in 1..n : Sizes(s)[i] = Len(s[i].data)
  BY SizesType
<1>5. n + 1 \in 1..(n + 1) /\ (n + 1) - 1 = n /\ n <= n + 1 /\ \A i \in 1..n : i \in 1..(n + 1)
  BY <1>1
<1>6. Sizes(t)[n + 1] = d /\ \A i \in 1..n : Sizes(t)[i] = Sizes(s)[i]
  BY <1>1, <1>3, <1>4, <1>5
<1> HIDE DEF t, n, d
<1>7. SubSeq(Sizes(t), 1, n) = Sizes(s)
  <2> DEFINE a == Sizes(t)
             b == Sizes(s)
  <2>1. /\ a \in Seq(Nat) /\ b \in Seq(Nat) /\ Len(a) = n + 1 /\ Len(b) = n
        /\ \A i \in 1..n : a[i] = b[i]
    BY <1>3, <1>4, <1>6
  <2> HIDE DEF a, b
  <2>2. /\ SubSeq(a, 1, n) \in Seq(Nat) /\ Len(SubSeq(a, 1, n)) = n
        /\ \A i \in 1..n : SubSeq(a, 1, n)[i] = a[i]
    BY <1>1, <2>1
  <2>3. SubSeq(a, 1, n) = b
    BY <2>1, <2>2, SeqEqual
  <2> QED
    BY <2>3 DEF a, b
<1>8. Sizes(t) # <<>>
  BY <1>1, <1>3
<1>9. SumOver(SubSeq(Sizes(t), 1, Len(Sizes(t)) - 1)) = SumOver(Sizes(t)) - Sizes(t)[Len(Sizes(t))]
  BY <1>3, <1>8, SumWithoutLast
<1>10. SumOver(Sizes(s)) = SumOver(Sizes(t)) - d
  BY <1>3, <1>5, <1>6, <1>7, <1>9
<1>11. SizeOf(s) = SizeOf(t) - d /\ SizeOf(s) \in Nat /\ SizeOf(t) \in Nat
  BY <1>1, <1>10, SizesType DEF SizeOf
<1>12. SizeOf(t) = SizeOf(s) + d
  BY <1>2, <1>11
<1> QED
  BY <1>12 DEF t, d

LEMMA SizeOfTail ==
    ASSUME NEW s \in Seq(Segments), s # <<>>
    PROVE  /\ Head(s) \in Segments /\ Tail(s) \in Seq(Segments)
           /\ SizeOf(s) = Len(Head(s).data) + SizeOf(Tail(s))
<1> DEFINE t == Tail(s)
           n == Len(s)
           d == Len(Head(s).data)
<1>1. /\ n \in Nat /\ n # 0 /\ Head(s) = s[1] /\ Head(s) \in Segments
      /\ t \in Seq(Segments) /\ Len(t) = n - 1 /\ \A i \in 1..(n - 1) : t[i] = s[i + 1]
  OBVIOUS
<1>2. d \in Nat
  BY <1>1, SegmentType
<1>3. /\ Sizes(s) \in Seq(Nat) /\ Len(Sizes(s)) = n /\ \A i \in 1..n : Sizes(s)[i] = Len(s[i].data)
  BY SizesType
<1>4. /\ Sizes(t) \in Seq(Nat) /\ Len(Sizes(t)) = n - 1 /\ \A i \in 1..(n - 1) : Sizes(t)[i] = Len(t[i].data)
  BY <1>1, SizesType
<1>5. 1 \in 1..n /\ \A i \in 1..(n - 1) : i + 1 \in 1..n
  BY <1>1
<1>6. Sizes(s)[1] = d /\ \A i \in 1..(n - 1) : Sizes(s)[i + 1] = Sizes(t)[i]
  BY <1>1, <1>3, <1>4, <1>5
<1> HIDE DEF t, n, d
<1>7. <<d>> \o Sizes(t) = Sizes(s)
  <2> DEFINE a == Sizes(s)
             b == Sizes(t)
             u == <<d>> \o b
  <2>1. /\ a \in Seq(Nat) /\ b \in Seq(Nat) /\ Len(a) = n /\ Len(b) = n - 1 /\ a[1] = d
        /\ \A i \in 1..(n - 1) : a[i + 1] = b[i]
    BY <1>3, <1>4, <1>6
  <2> HIDE DEF a, b
  <2>2. u \in Seq(Nat) /\ Len(u) = n /\ u[1] = d /\ \A i \in 1..(n - 1) : u[i + 1] = b[i]
    BY <1>1, <1>2, <2>1
  <2> HIDE DEF u
  <2>3. ASSUME NEW i \in 1..n PROVE u[i] = a[i]
    <3>1. CASE i = 1
      BY <2>1, <2>2, <3>1
    <3>2. CASE i # 1
      <4>1. i - 1 \in 1..(n - 1) /\ (i - 1) + 1 = i
        BY <1>1, <3>2
      <4> QED
        BY <2>1, <2>2, <4>1
    <3> QED
      BY <3>1, <3>2
  <2>4. u = a
    BY <2>1, <2>2, <2>3, SeqEqual
  <2> QED
    BY <2>4 DEF u, a, b
<1>8. SumOver(Sizes(s)) = d + SumOver(Sizes(t))
  BY <1>2, <1>4, <1>7, SumPrepended
<1> QED
  BY <1>1, <1>8 DEF SizeOf, t, d

\* Sorting moves the segments and keeps them.
LEMMA SizeOfSorted ==
    ASSUME NEW s \in Seq(Given), NEW order \in Pipe!Orders(s)
    PROVE  SizeOf(Pipe!Sorted(s, order)) = SizeOf(s)
<1> DEFINE t == Pipe!Sorted(s, order)
           D == DOMAIN s
           f == Sizes(s)
<1>1. /\ t \in Seq(Given) /\ Len(t) = Len(s) /\ order \in [D -> D]
      /\ \A i, j \in D : order[i] = order[j] => i = j
      /\ \A i \in D : t[i] = s[order[i]]
  BY SortedGiven
<1>2. Len(s) \in Nat /\ D = 1..Len(s) /\ DOMAIN t = D
  BY <1>1
<1>3. s \in Seq(Segments) /\ t \in Seq(Segments)
  BY <1>1 DEF Given
<1>4. IsFiniteSet(D)
  <2>1. 1 \in Int /\ Len(s) \in Int
    BY <1>2
  <2>2. IsFiniteSet(1..Len(s))
    BY <2>1, FS_Interval
  <2> QED
    BY <1>2, <2>2
<1>5. f \in [D -> Nat] /\ \A i \in D : f[i] = Len(s[i].data)
  <2>1. f \in Seq(Nat) /\ Len(f) = Len(s) /\ \A i \in 1..Len(s) : f[i] = Len(s[i].data)
    BY <1>3, SizesType
  <2> HIDE DEF f
  <2> QED
    BY <1>2, <2>1
<1>6. Sizes(t) = Permuted(f, order, D)
  <2>1. Sizes(t) = [i \in D |-> Len(t[i].data)]
    BY <1>2 DEF Sizes
  <2>2. \A i \in D : Len(t[i].data) = f[order[i]]
    BY <1>1, <1>5
  <2> HIDE DEF t, f, D
  <2> QED
    BY <2>1, <2>2 DEF Permuted
<1> HIDE DEF t, f, D
<1>7. SumOver(Permuted(f, order, D)) = SumOver(f)
  <2>1. order \in [D -> D] /\ \A x, y \in D : order[x] = order[y] => x = y
    BY <1>1
  <2>2. f \in [D -> Nat]
    BY <1>5
  <2> QED
    BY <1>4, <2>1, <2>2, SumPermuted
<1> QED
  BY <1>6, <1>7 DEF SizeOf, t, f

\* The total of the model, a fold with + from the left, is the same.
LeftAdded(g, t, S) == IF S = {} THEN 0 ELSE g[S \ {GreatestOf(S)}] + t[GreatestOf(S)]

LEMMA TotalIsIter ==
    ASSUME NEW s
    PROVE  Pipe!Total(s) =
               (CHOOSE g : g = [S \in SUBSET DOMAIN Sizes(s) |-> LeftAdded(g, Sizes(s), S)])[DOMAIN Sizes(s)]
<1> DEFINE t == [i \in DOMAIN s |-> Len(s[i].data)]
<1>1. Pipe!Total(s) = (CHOOSE g : g = [S \in SUBSET DOMAIN t |-> LeftAdded(g, t, S)])[DOMAIN t]
  BY DEF Pipe!Total, Pipe!FoldLeft, Pipe!MapThenFoldSet, Pipe!Max, LeftAdded, GreatestOf
<1> QED
  BY <1>1 DEF Sizes

LEMMA TotalIs ==
    ASSUME NEW s \in Seq(Segments)
    PROVE  Pipe!Total(s) = SizeOf(s)
<1> DEFINE t == Sizes(s)
           plus == [p \in Nat \X Nat |-> p[1] + p[2]]
           c == CHOOSE g : g = [S \in SUBSET DOMAIN t |-> LeftAdded(g, t, S)]
<1>1. t \in Seq(Nat) /\ Pipe!Total(s) = c[DOMAIN t]
  BY SizesType, TotalIsIter
<1>2. plus \in [Nat \X Nat -> Nat] /\ \A a, b \in Nat : plus[<<a, b>>] = a + b
  OBVIOUS
<1> HIDE DEF t, plus
<1>3. Len(t) \in Nat /\ DOMAIN t = 1..Len(t) /\ \A i \in DOMAIN t : t[i] \in Nat
  BY <1>1
<1>4. \A S \in SUBSET DOMAIN t : S # {} => GreatestOf(S) \in DOMAIN t
  BY <1>3, GreatestIsIn
<1>5. PICK g \in [SUBSET DOMAIN t -> Nat] : LeftFolded(plus, 0, t, g)
  <2>1. 0 \in Nat
    OBVIOUS
  <2> QED
    BY <1>1, <1>2, <2>1, LeftFoldExists
<1>6. ASSUME NEW S \in SUBSET DOMAIN t PROVE g[S] = LeftAdded(g, t, S)
  <2>1. g[S] = IF S = {} THEN 0 ELSE plus[<<g[S \ {GreatestOf(S)}], t[GreatestOf(S)]>>]
    BY <1>5 DEF LeftFolded
  <2>2. S # {} => t[GreatestOf(S)] \in Nat /\ g[S \ {GreatestOf(S)}] \in Nat
    BY <1>3, <1>4
  <2> QED
    BY <1>2, <2>1, <2>2 DEF LeftAdded
<1>7. c = [S \in SUBSET DOMAIN t |-> LeftAdded(c, t, S)]
  <2>1. g = [S \in SUBSET DOMAIN t |-> LeftAdded(g, t, S)]
    BY <1>6
  <2> QED
    BY <2>1
<1> HIDE DEF c
<1>8. c[{}] = 0
  BY <1>7 DEF LeftAdded
<1>9. ASSUME NEW S \in SUBSET DOMAIN t, S # {}, c[S \ {GreatestOf(S)}] \in Nat
      PROVE  c[S] = plus[<<c[S \ {GreatestOf(S)}], t[GreatestOf(S)]>>]
  <2>1. c[S] = LeftAdded(c, t, S)
    BY <1>7
  <2>2. c[S] = c[S \ {GreatestOf(S)}] + t[GreatestOf(S)] /\ t[GreatestOf(S)] \in Nat
    BY <1>3, <1>4, <1>9, <2>1 DEF LeftAdded
  <2> QED
    BY <1>2, <1>9, <2>2
<1>10. PICK h : HasValues(Nat, t, h) /\ IsLeftFold(plus, 0, t, h) /\ EndsIn(c, t, h)
  <2>1. /\ 0 \in Nat /\ t \in Seq(Nat) /\ plus \in [Nat \X Nat -> Nat]
        /\ FoldsWithin(Nat, plus, 0, t, c)
    BY <1>1, <1>2, <1>8, <1>9 DEF FoldsWithin
  <2> QED
    BY <2>1, LeftFoldIs
<1>11. IsPartial(t, h)
  <2>1. h[0] = 0 /\ \A k \in 1..Len(t) : h[k] = plus[<<h[k - 1], t[k]>>]
    BY <1>10 DEF IsLeftFold
  <2>2. ASSUME NEW k \in 1..Len(t) PROVE h[k] = t[k] + h[k - 1]
    <3>1. k - 1 \in 0..Len(t) /\ t[k] \in Nat
      BY <1>3
    <3>2. h[k - 1] \in Nat
      BY <1>10, <3>1 DEF HasValues
    <3>3. h[k] = h[k - 1] + t[k]
      BY <1>2, <2>1, <3>1, <3>2
    <3> QED
      BY <3>1, <3>2, <3>3
  <2> QED
    BY <1>10, <2>1, <2>2 DEF IsPartial, HasValues
<1>12. PICK P : IsPartial(t, P) /\ SumOver(t) = P[Len(t)]
  BY <1>1, SequenceSum
<1>13. P[Len(t)] = h[Len(t)]
  BY <1>1, <1>11, <1>12, PartialIsOne
<1> QED
  BY <1>1, <1>10, <1>12, <1>13 DEF SizeOf, EndsIn, t
-----------------------------------------------------------------------------
(* What a list of writes leaves of an area.                                 *)

Areas == [Pipe!Units -> Cells]
Writer == [p \in Areas \X Segments |-> Pipe!WriteWhole(p[1], p[2])]
Apply(a, s) == Pipe!FoldLeft(Pipe!WriteWhole, a, s)

LEMMA WriteType ==
    ASSUME NEW a \in Areas, NEW seg \in Segments, NEW n \in Nat, n <= Len(seg.data)
    PROVE  Pipe!Write(a, seg, n) \in Areas
<1>1. seg.off \in Nat /\ seg.data \in Seq(Cells) /\ Len(seg.data) \in Nat
  BY SegmentType
<1>2. ASSUME NEW u \in Pipe!Units
      PROVE  (IF seg.off <= u /\ u < seg.off + n THEN seg.data[u - seg.off + 1] ELSE a[u]) \in Cells
  <2>1. u \in Nat /\ a[u] \in Cells
    BY UnitsType DEF Areas
  <2>2. ASSUME seg.off <= u, u < seg.off + n PROVE seg.data[u - seg.off + 1] \in Cells
    <3>1. u - seg.off + 1 \in 1..Len(seg.data)
      BY <1>1, <2>1, <2>2
    <3> QED
      BY <1>1, <3>1
  <2> QED
    BY <2>1, <2>2
<1> QED
  BY <1>2 DEF Pipe!Write, Areas

LEMMA WriterType ==
    /\ Writer \in [Areas \X Segments -> Areas]
    /\ \A a \in Areas, seg \in Segments :
        Writer[<<a, seg>>] = Pipe!WriteWhole(a, seg) /\ Pipe!WriteWhole(a, seg) \in Areas
<1>1. \A a \in Areas, seg \in Segments : Pipe!WriteWhole(a, seg) \in Areas
  <2> SUFFICES ASSUME NEW a \in Areas, NEW seg \in Segments PROVE Pipe!WriteWhole(a, seg) \in Areas
    OBVIOUS
  <2>1. Len(seg.data) \in Nat /\ Len(seg.data) <= Len(seg.data)
    BY SegmentType
  <2> QED
    BY <2>1, WriteType DEF Pipe!WriteWhole
<1> QED
  BY <1>1 DEF Writer

LeftWritten(g, t, a, S) ==
    IF S = {} THEN a ELSE Pipe!WriteWhole(g[S \ {GreatestOf(S)}], t[GreatestOf(S)])

LEMMA ApplyIsIter ==
    ASSUME NEW a, NEW s
    PROVE  Apply(a, s) =
               (CHOOSE g : g = [S \in SUBSET DOMAIN s |-> LeftWritten(g, s, a, S)])[DOMAIN s]
BY DEF Apply, Pipe!FoldLeft, Pipe!MapThenFoldSet, Pipe!Max, LeftWritten, GreatestOf

LEMMA ApplyIs ==
    ASSUME NEW a \in Areas, NEW s \in Seq(Segments)
    PROVE  \E h : HasValues(Areas, s, h) /\ IsLeftFold(Writer, a, s, h) /\ Apply(a, s) = h[Len(s)]
<1> DEFINE c == CHOOSE g : g = [S \in SUBSET DOMAIN s |-> LeftWritten(g, s, a, S)]
<1>1. Apply(a, s) = c[DOMAIN s]
  BY ApplyIsIter
<1>2. Len(s) \in Nat /\ DOMAIN s = 1..Len(s) /\ \A i \in DOMAIN s : s[i] \in Segments
  OBVIOUS
<1>3. \A S \in SUBSET DOMAIN s : S # {} => GreatestOf(S) \in DOMAIN s
  BY <1>2, GreatestIsIn
<1>4. PICK g \in [SUBSET DOMAIN s -> Areas] : LeftFolded(Writer, a, s, g)
  BY WriterType, LeftFoldExists
<1>5. ASSUME NEW S \in SUBSET DOMAIN s PROVE g[S] = LeftWritten(g, s, a, S)
  <2>1. g[S] = IF S = {} THEN a ELSE Writer[<<g[S \ {GreatestOf(S)}], s[GreatestOf(S)]>>]
    BY <1>4 DEF LeftFolded
  <2>2. S # {} => s[GreatestOf(S)] \in Segments /\ g[S \ {GreatestOf(S)}] \in Areas
    BY <1>2, <1>3
  <2> QED
    BY <2>1, <2>2, WriterType DEF LeftWritten
<1>6. c = [S \in SUBSET DOMAIN s |-> LeftWritten(c, s, a, S)]
  <2>1. g = [S \in SUBSET DOMAIN s |-> LeftWritten(g, s, a, S)]
    BY <1>5
  <2> QED
    BY <2>1
<1> HIDE DEF c
<1>7. c[{}] = a
  BY <1>6 DEF LeftWritten
<1>8. ASSUME NEW S \in SUBSET DOMAIN s, S # {}, c[S \ {GreatestOf(S)}] \in Areas
      PROVE  c[S] = Writer[<<c[S \ {GreatestOf(S)}], s[GreatestOf(S)]>>]
  <2>1. c[S] = LeftWritten(c, s, a, S)
    BY <1>6
  <2>2. s[GreatestOf(S)] \in Segments
    BY <1>2, <1>3, <1>8
  <2> QED
    BY <1>8, <2>1, <2>2, WriterType DEF LeftWritten
<1>9. FoldsWithin(Areas, Writer, a, s, c)
  BY <1>7, <1>8 DEF FoldsWithin
<1>10. PICK h : HasValues(Areas, s, h) /\ IsLeftFold(Writer, a, s, h) /\ EndsIn(c, s, h)
  BY <1>9, WriterType, LeftFoldIs
<1> QED
  BY <1>1, <1>10 DEF EndsIn

LEMMA ApplyType ==
    ASSUME NEW a \in Areas, NEW s \in Seq(Segments)
    PROVE  Apply(a, s) \in Areas
<1>1. PICK h : HasValues(Areas, s, h) /\ IsLeftFold(Writer, a, s, h) /\ Apply(a, s) = h[Len(s)]
  BY ApplyIs
<1>2. Len(s) \in 0..Len(s)
  OBVIOUS
<1> QED
  BY <1>1, <1>2 DEF HasValues

LEMMA ApplyNone ==
    ASSUME NEW a \in Areas
    PROVE  Apply(a, <<>>) = a
<1>1. <<>> \in Seq(Segments) /\ Len(<<>>) = 0
  OBVIOUS
<1>2. PICK h : HasValues(Areas, <<>>, h) /\ IsLeftFold(Writer, a, <<>>, h) /\ Apply(a, <<>>) = h[Len(<<>>)]
  BY <1>1, ApplyIs
<1> QED
  BY <1>1, <1>2 DEF IsLeftFold

LEMMA ApplyAppended ==
    ASSUME NEW a \in Areas, NEW s \in Seq(Segments), NEW seg \in Segments
    PROVE  Apply(a, Append(s, seg)) = Pipe!WriteWhole(Apply(a, s), seg)
<1> DEFINE t == Append(s, seg)
<1>1. t \in Seq(Segments) /\ Len(t) = Len(s) + 1
  OBVIOUS
<1>2. PICK h : HasValues(Areas, s, h) /\ IsLeftFold(Writer, a, s, h) /\ Apply(a, s) = h[Len(s)]
  BY ApplyIs
<1>3. PICK h2 : HasValues(Areas, t, h2) /\ IsLeftFold(Writer, a, t, h2) /\ Apply(a, t) = h2[Len(t)]
  BY <1>1, ApplyIs
<1>4. h2[Len(s) + 1] = Writer[<<h[Len(s)], seg>>]
  BY <1>2, <1>3, LeftFoldAppend
<1>5. Apply(a, s) \in Areas
  BY ApplyType
<1> QED
  BY <1>1, <1>2, <1>3, <1>4, <1>5, WriterType

LEMMA ApplyFirst ==
    ASSUME NEW a \in Areas, NEW s \in Seq(Segments), s # <<>>
    PROVE  Apply(a, s) = Apply(Pipe!WriteWhole(a, Head(s)), Tail(s))
<1> DEFINE t == Tail(s)
           b == Pipe!WriteWhole(a, Head(s))
<1>1. t \in Seq(Segments) /\ Head(s) \in Segments
  OBVIOUS
<1>2. b \in Areas /\ b = Writer[<<a, Head(s)>>]
  BY <1>1, WriterType
<1> HIDE DEF b
<1>3. PICK h : HasValues(Areas, s, h) /\ IsLeftFold(Writer, a, s, h) /\ Apply(a, s) = h[Len(s)]
  BY ApplyIs
<1>4. PICK h2 : HasValues(Areas, t, h2) /\ IsLeftFold(Writer, b, t, h2) /\ Apply(b, t) = h2[Len(t)]
  BY <1>1, <1>2, ApplyIs
<1>5. h[Len(s)] = h2[Len(Tail(s))]
  BY <1>2, <1>3, <1>4, LeftFoldHead
<1> QED
  BY <1>3, <1>4, <1>5 DEF b

\* A write of nothing changes nothing; two writes that follow each other are one.
LEMMA WriteOfNothing ==
    ASSUME NEW a \in Areas, NEW off \in Pipe!Units
    PROVE  Pipe!WriteWhole(a, [off |-> off, data |-> <<>>]) = a
<1> DEFINE seg == [off |-> off, data |-> <<>>]
<1>1. off \in Nat /\ seg.off = off /\ seg.data = <<>> /\ Len(seg.data) = 0
  BY UnitsType
<1>2. \A u \in Pipe!Units : ~(off <= u /\ u < off + 0)
  BY <1>1, UnitsType
<1> HIDE DEF seg
<1>3. Pipe!WriteWhole(a, seg) = [u \in Pipe!Units |-> a[u]]
  BY <1>1, <1>2 DEF Pipe!WriteWhole, Pipe!Write
<1> QED
  BY <1>3 DEF Areas, seg

LEMMA WritesJoin ==
    ASSUME NEW a \in Areas, NEW x \in Segments, NEW y \in Segments, y.off = x.off + Len(x.data)
    PROVE  Pipe!WriteWhole(Pipe!WriteWhole(a, x), y) =
               Pipe!WriteWhole(a, [off |-> x.off, data |-> x.data \o y.data])
<1> DEFINE z == [off |-> x.off, data |-> x.data \o y.data]
           xo == x.off
           xd == x.data
           yd == y.data
           m == Len(xd)
           n == Len(yd)
           b == Pipe!WriteWhole(a, x)
<1>1. xo \in Nat /\ xd \in Seq(Cells) /\ m \in Nat /\ yd \in Seq(Cells) /\ n \in Nat /\ y.off = xo + m
  BY SegmentType
<1>2. z.off = xo /\ z.data = xd \o yd
  OBVIOUS
<1>3. /\ Len(xd \o yd) = m + n
      /\ \A i \in 1..m : (xd \o yd)[i] = xd[i]
      /\ \A i \in (m + 1)..(m + n) : (xd \o yd)[i] = yd[i - m]
  <2>1. \A p, q \in Seq(Cells) :
            /\ Len(p \o q) = Len(p) + Len(q)
            /\ \A i \in 1..(Len(p) + Len(q)) : (p \o q)[i] = IF i <= Len(p) THEN p[i] ELSE q[i - Len(p)]
    OBVIOUS
  <2>2. /\ Len(xd \o yd) = m + n
        /\ \A i \in 1..(m + n) : (xd \o yd)[i] = IF i <= m THEN xd[i] ELSE yd[i - m]
    BY <1>1, <2>1
  <2> HIDE DEF xd, yd, m, n
  <2>3. /\ \A i \in 1..m : i \in 1..(m + n) /\ i <= m
        /\ \A i \in (m + 1)..(m + n) : i \in 1..(m + n) /\ ~(i <= m)
    BY <1>1
  <2> QED
    BY <2>2, <2>3
<1>4. b = [u \in Pipe!Units |-> IF xo <= u /\ u < xo + m THEN xd[u - xo + 1] ELSE a[u]]
  BY DEF Pipe!WriteWhole, Pipe!Write
<1>5. Pipe!WriteWhole(b, y) =
          [u \in Pipe!Units |-> IF xo + m <= u /\ u < (xo + m) + n THEN yd[u - (xo + m) + 1] ELSE b[u]]
  BY <1>1 DEF Pipe!WriteWhole, Pipe!Write
<1>6. Pipe!WriteWhole(a, z) =
          [u \in Pipe!Units |-> IF xo <= u /\ u < xo + (m + n) THEN (xd \o yd)[u - xo + 1] ELSE a[u]]
  BY <1>2, <1>3 DEF Pipe!WriteWhole, Pipe!Write
<1> DEFINE xy == xd \o yd
<1> HIDE DEF z, b, m, n, xo, xd, yd, xy
<1>7. ASSUME NEW u \in Pipe!Units
      PROVE  (IF xo + m <= u /\ u < (xo + m) + n THEN yd[u - (xo + m) + 1] ELSE b[u])
                 = (IF xo <= u /\ u < xo + (m + n) THEN xy[u - xo + 1] ELSE a[u])
  <2>1. u \in Nat
    BY UnitsType
  <2>2. b[u] = IF xo <= u /\ u < xo + m THEN xd[u - xo + 1] ELSE a[u]
    BY <1>4
  <2>3. CASE xo + m <= u /\ u < (xo + m) + n
    <3> DEFINE i == u - xo + 1
               j == u - (xo + m) + 1
    <3>1. i \in (m + 1)..(m + n) /\ i - m = j /\ xo <= u /\ u < xo + (m + n)
      BY <1>1, <2>1, <2>3
    <3> HIDE DEF i, j
    <3>2. xy[i] = yd[j]
      BY <1>3, <3>1 DEF xy
    <3> QED
      BY <2>3, <3>1, <3>2 DEF i, j
  <2>4. CASE xo <= u /\ u < xo + m
    <3> DEFINE i == u - xo + 1
    <3>1. i \in 1..m /\ u < xo + (m + n) /\ ~(xo + m <= u)
      BY <1>1, <2>1, <2>4
    <3> HIDE DEF i
    <3>2. xy[i] = xd[i]
      BY <1>3, <3>1 DEF xy
    <3> QED
      BY <2>2, <2>4, <3>1, <3>2 DEF i
  <2>5. CASE ~(xo <= u /\ u < xo + (m + n))
    <3>1. ~(xo + m <= u /\ u < (xo + m) + n) /\ ~(xo <= u /\ u < xo + m)
      BY <1>1, <2>1, <2>5
    <3> QED
      BY <2>2, <2>5, <3>1
  <2>6. \/ xo + m <= u /\ u < (xo + m) + n
        \/ xo <= u /\ u < xo + m
        \/ ~(xo <= u /\ u < xo + (m + n))
    BY <1>1, <2>1
  <2> QED
    BY <2>3, <2>4, <2>5, <2>6
<1>8. Pipe!WriteWhole(b, y) = Pipe!WriteWhole(a, z)
  BY <1>5, <1>6, <1>7 DEF xy
<1> QED
  BY <1>8 DEF b, z, xo, xd, yd
-----------------------------------------------------------------------------
(* plan_batches writes what its segments would.                             *)

Plans == [out : Seq(Segments), start : Pipe!Units, end : Pipe!Units, data : Seq(Cells)]
Merger == [p \in Plans \X Given |-> Pipe!Merge(p[1], p[2])]
Merged(plan, s) == Pipe!FoldLeft(Pipe!Merge, plan, s)

\* The writes of a plan if the segments ended here, and what they come to.
Part(plan) == [off |-> plan.start, data |-> plan.data]
Whole(plan) == Append(plan.out, Part(plan))
Covers(plan, a, n) ==
    /\ plan.start + Len(plan.data) = plan.end
    /\ Apply(Pipe!Empty, Whole(plan)) = a /\ SizeOf(Whole(plan)) = n

LEMMA EmptyType == Pipe!Empty \in Areas
BY DEF Pipe!Empty, Areas, Cells

LEMMA PlanType ==
    ASSUME NEW plan \in Plans
    PROVE  /\ plan.out \in Seq(Segments) /\ plan.start \in Pipe!Units /\ plan.end \in Pipe!Units
           /\ plan.data \in Seq(Cells) /\ Len(plan.data) \in Nat
           /\ Part(plan) \in Segments /\ Part(plan).off = plan.start /\ Part(plan).data = plan.data
           /\ Whole(plan) \in Seq(Segments)
<1>1. /\ plan.out \in Seq(Segments) /\ plan.start \in Pipe!Units /\ plan.end \in Pipe!Units
      /\ plan.data \in Seq(Cells)
  BY DEF Plans
<1>2. Len(plan.data) \in Nat
  BY <1>1
<1>3. Part(plan) \in Segments /\ Part(plan).off = plan.start /\ Part(plan).data = plan.data
  BY <1>1 DEF Part, Segments
<1>4. Whole(plan) \in Seq(Segments)
  BY <1>1, <1>3 DEF Whole
<1> QED
  BY <1>1, <1>2, <1>3, <1>4

LEMMA GivenType ==
    ASSUME NEW seg \in Given
    PROVE  /\ seg \in Segments /\ seg.off \in Pipe!Units /\ seg.off \in Nat /\ seg.data \in Seq(Cells)
           /\ Len(seg.data) \in Nat /\ Pipe!EndOf(seg) \in Pipe!Units
           /\ Pipe!EndOf(seg) = seg.off + Len(seg.data)
           /\ [off |-> seg.off, data |-> seg.data] = seg
<1>1. seg \in Segments /\ Pipe!EndOf(seg) \in Pipe!Units
  BY DEF Given
<1>2. [off |-> seg.off, data |-> seg.data] = seg
  BY <1>1 DEF Segments
<1> QED
  BY <1>1, <1>2, SegmentType DEF Pipe!EndOf

\* The three ways of Merge: the segment is appended to the merged part, which
\* may then be given out, or begins the next.
Appends(plan, seg) == seg.off = plan.end /\ seg.data # <<>>
Flushes(plan, seg) == Len(plan.data \o seg.data) >= MaxPending
Joined(plan, seg) == [off |-> plan.start, data |-> plan.data \o seg.data]

LEMMA JoinedType ==
    ASSUME NEW plan \in Plans, NEW seg \in Given
    PROVE  /\ Joined(plan, seg) \in Segments /\ plan.data \o seg.data \in Seq(Cells)
           /\ Len(plan.data \o seg.data) = Len(plan.data) + Len(seg.data)
<1>1. plan.data \in Seq(Cells) /\ seg.data \in Seq(Cells) /\ plan.start \in Pipe!Units
  BY PlanType, GivenType
<1>2. plan.data \o seg.data \in Seq(Cells) /\ Len(plan.data \o seg.data) = Len(plan.data) + Len(seg.data)
  BY <1>1
<1> QED
  BY <1>1, <1>2 DEF Joined, Segments

LEMMA MergeExtends ==
    ASSUME NEW plan \in Plans, NEW seg \in Given, Appends(plan, seg), ~Flushes(plan, seg)
    PROVE  LET new == Pipe!Merge(plan, seg)
           IN  /\ new \in Plans /\ new.out = plan.out /\ new.start = plan.start
               /\ new.end = Pipe!EndOf(seg) /\ new.data = plan.data \o seg.data
<1> DEFINE e == Pipe!EndOf(seg)
           d == plan.data \o seg.data
           new == [plan EXCEPT !.end = e, !.data = d]
<1>1. e \in Pipe!Units /\ d \in Seq(Cells)
  BY GivenType, JoinedType
<1>2. Pipe!Merge(plan, seg) = new
  BY DEF Pipe!Merge, Appends, Flushes
<1> HIDE DEF e, d
<1>3. new \in Plans /\ new.out = plan.out /\ new.start = plan.start /\ new.end = e /\ new.data = d
  BY <1>1 DEF Plans
<1> HIDE DEF new
<1> QED
  BY <1>2, <1>3 DEF e, d

LEMMA MergeFlushes ==
    ASSUME NEW plan \in Plans, NEW seg \in Given, Appends(plan, seg), Flushes(plan, seg)
    PROVE  LET new == Pipe!Merge(plan, seg)
           IN  /\ new \in Plans /\ new.out = Append(plan.out, Joined(plan, seg))
               /\ new.start = Pipe!EndOf(seg) /\ new.end = Pipe!EndOf(seg) /\ new.data = <<>>
<1> DEFINE e == Pipe!EndOf(seg)
           o == Append(plan.out, Joined(plan, seg))
           new == [out |-> o, start |-> e, end |-> e, data |-> <<>>]
<1>1. e \in Pipe!Units /\ o \in Seq(Segments) /\ <<>> \in Seq(Cells)
  BY GivenType, JoinedType, PlanType
<1>2. Pipe!Merge(plan, seg) = new
  BY DEF Pipe!Merge, Appends, Flushes, Joined
<1> HIDE DEF e, o
<1>3. new \in Plans /\ new.out = o /\ new.start = e /\ new.end = e /\ new.data = <<>>
  BY <1>1 DEF Plans
<1> HIDE DEF new
<1> QED
  BY <1>2, <1>3 DEF e, o

LEMMA MergeStarts ==
    ASSUME NEW plan \in Plans, NEW seg \in Given, ~Appends(plan, seg)
    PROVE  LET new == Pipe!Merge(plan, seg)
           IN  /\ new \in Plans /\ new.out = Whole(plan)
               /\ new.start = seg.off /\ new.end = Pipe!EndOf(seg) /\ new.data = seg.data
<1> DEFINE e == Pipe!EndOf(seg)
           o == Whole(plan)
           new == [out |-> o, start |-> seg.off, end |-> e, data |-> seg.data]
<1>1. e \in Pipe!Units /\ o \in Seq(Segments) /\ seg.off \in Pipe!Units /\ seg.data \in Seq(Cells)
  BY GivenType, PlanType
<1>2. Pipe!Merge(plan, seg) = new
  BY DEF Pipe!Merge, Appends, Whole, Part
<1> HIDE DEF e, o
<1>3. new \in Plans /\ new.out = o /\ new.start = seg.off /\ new.end = e /\ new.data = seg.data
  BY <1>1 DEF Plans
<1> HIDE DEF new
<1> QED
  BY <1>2, <1>3 DEF e, o

LEMMA MergerType ==
    /\ Merger \in [Plans \X Given -> Plans]
    /\ \A plan \in Plans, seg \in Given :
        Merger[<<plan, seg>>] = Pipe!Merge(plan, seg) /\ Pipe!Merge(plan, seg) \in Plans
<1>1. \A plan \in Plans, seg \in Given : Pipe!Merge(plan, seg) \in Plans
  <2> SUFFICES ASSUME NEW plan \in Plans, NEW seg \in Given PROVE Pipe!Merge(plan, seg) \in Plans
    OBVIOUS
  <2> QED
    BY MergeExtends, MergeFlushes, MergeStarts
<1> QED
  BY <1>1 DEF Merger

\* What the writes of a plan come to before the part that is being merged.
LEMMA WholeIs ==
    ASSUME NEW plan \in Plans
    PROVE  LET b == Apply(Pipe!Empty, plan.out)
           IN  /\ b \in Areas /\ SizeOf(plan.out) \in Nat
               /\ Apply(Pipe!Empty, Whole(plan)) = Pipe!WriteWhole(b, Part(plan))
               /\ SizeOf(Whole(plan)) = SizeOf(plan.out) + Len(plan.data)
<1>1. plan.out \in Seq(Segments) /\ Part(plan) \in Segments /\ Part(plan).data = plan.data
  BY PlanType
<1> QED
  BY <1>1, EmptyType, ApplyType, ApplyAppended, SizesType, SizeAppended DEF Whole

\* A segment more.
LEMMA MergeCovers ==
    ASSUME NEW plan \in Plans, NEW seg \in Given, NEW a, NEW n \in Nat, Covers(plan, a, n)
    PROVE  Covers(Pipe!Merge(plan, seg), Pipe!WriteWhole(a, seg), n + Len(seg.data))
<1> DEFINE new == Pipe!Merge(plan, seg)
           b == Apply(Pipe!Empty, plan.out)
           d == Len(seg.data)
           m == Len(plan.data)
           k == SizeOf(plan.out)
<1>1. /\ seg \in Segments /\ seg.off \in Nat /\ d \in Nat /\ Pipe!EndOf(seg) = seg.off + d
      /\ [off |-> seg.off, data |-> seg.data] = seg
  BY GivenType
<1>2. /\ plan.start \in Nat /\ plan.end \in Nat /\ m \in Nat /\ Part(plan) \in Segments
      /\ Part(plan).off = plan.start /\ Part(plan).data = plan.data /\ plan.out \in Seq(Segments)
      /\ Whole(plan) \in Seq(Segments)
  BY PlanType, UnitsType
<1>3. /\ b \in Areas /\ k \in Nat /\ a = Pipe!WriteWhole(b, Part(plan)) /\ n = k + m
      /\ plan.start + m = plan.end
  BY WholeIs DEF Covers
<1>4. a \in Areas
  BY <1>2, <1>3, WriterType
<1>5. CASE Appends(plan, seg) /\ ~Flushes(plan, seg)
  <2>1. /\ new \in Plans /\ new.out = plan.out /\ new.start = plan.start
        /\ new.end = Pipe!EndOf(seg) /\ new.data = plan.data \o seg.data
    BY <1>5, MergeExtends
  <2>2. seg.off = plan.end
    BY <1>5 DEF Appends
  <2>3. Part(new) = Joined(plan, seg)
    BY <2>1 DEF Part, Joined
  <2> HIDE DEF new
  <2>4. Pipe!WriteWhole(b, Joined(plan, seg)) = Pipe!WriteWhole(a, seg)
    <3>1. seg.off = Part(plan).off + Len(Part(plan).data)
      BY <1>2, <1>3, <2>2
    <3>2. Pipe!WriteWhole(Pipe!WriteWhole(b, Part(plan)), seg)
              = Pipe!WriteWhole(b, [off |-> Part(plan).off, data |-> Part(plan).data \o seg.data])
      BY <1>1, <1>2, <1>3, <3>1, WritesJoin
    <3>3. [off |-> Part(plan).off, data |-> Part(plan).data \o seg.data] = Joined(plan, seg)
      BY <1>2 DEF Joined
    <3> QED
      BY <1>3, <3>2, <3>3
  <2>5. Apply(Pipe!Empty, Whole(new)) = Pipe!WriteWhole(a, seg)
    BY <2>1, <2>3, <2>4, WholeIs
  <2>6. Len(new.data) = m + d
    BY <2>1, JoinedType
  <2>7. SizeOf(Whole(new)) = n + d
    <3>1. SizeOf(Whole(new)) = k + (m + d)
      BY <2>1, <2>6, WholeIs
    <3> HIDE DEF k, m, d
    <3> QED
      BY <1>1, <1>2, <1>3, <3>1
  <2>8. new.start + Len(new.data) = new.end
    <3>1. plan.start + (m + d) = seg.off + d
      <4> HIDE DEF m, d
      <4> QED
        BY <1>1, <1>2, <1>3, <2>2
    <3> QED
      BY <1>1, <2>1, <2>6, <3>1
  <2> QED
    BY <2>5, <2>7, <2>8 DEF Covers, new
<1>6. CASE Appends(plan, seg) /\ Flushes(plan, seg)
  <2>1. /\ new \in Plans /\ new.out = Append(plan.out, Joined(plan, seg))
        /\ new.start = Pipe!EndOf(seg) /\ new.end = Pipe!EndOf(seg) /\ new.data = <<>>
    BY <1>6, MergeFlushes
  <2>2. seg.off = plan.end
    BY <1>6 DEF Appends
  <2>3. Part(new) = [off |-> Pipe!EndOf(seg), data |-> <<>>] /\ Pipe!EndOf(seg) \in Pipe!Units
    BY <2>1, GivenType DEF Part
  <2> HIDE DEF new
  <2>4. Pipe!WriteWhole(b, Joined(plan, seg)) = Pipe!WriteWhole(a, seg)
    <3>1. seg.off = Part(plan).off + Len(Part(plan).data)
      BY <1>2, <1>3, <2>2
    <3>2. Pipe!WriteWhole(Pipe!WriteWhole(b, Part(plan)), seg)
              = Pipe!WriteWhole(b, [off |-> Part(plan).off, data |-> Part(plan).data \o seg.data])
      BY <1>1, <1>2, <1>3, <3>1, WritesJoin
    <3>3. [off |-> Part(plan).off, data |-> Part(plan).data \o seg.data] = Joined(plan, seg)
      BY <1>2 DEF Joined
    <3> QED
      BY <1>3, <3>2, <3>3
  <2>5. Pipe!WriteWhole(a, seg) \in Areas
    BY <1>1, <1>4, WriterType
  <2>6. Apply(Pipe!Empty, new.out) = Pipe!WriteWhole(a, seg)
    <3>1. Apply(Pipe!Empty, Append(plan.out, Joined(plan, seg))) = Pipe!WriteWhole(b, Joined(plan, seg))
      BY <1>2, EmptyType, JoinedType, ApplyAppended
    <3> QED
      BY <2>1, <2>4, <3>1
  <2>7. Apply(Pipe!Empty, Whole(new)) = Pipe!WriteWhole(a, seg)
    <3>1. Apply(Pipe!Empty, Whole(new)) = Pipe!WriteWhole(Pipe!WriteWhole(a, seg), Part(new))
      BY <2>1, <2>6, WholeIs
    <3> QED
      BY <2>3, <2>5, <3>1, WriteOfNothing
  <2>8. SizeOf(Whole(new)) = n + d
    <3>1. Len(Joined(plan, seg).data) = m + d
      BY JoinedType DEF Joined
    <3>2. SizeOf(new.out) = k + (m + d)
      BY <1>2, <2>1, <3>1, JoinedType, SizeAppended
    <3>3. SizeOf(Whole(new)) = SizeOf(new.out) + Len(new.data) /\ Len(new.data) = 0
      BY <2>1, WholeIs
    <3> HIDE DEF k, m, d
    <3> QED
      BY <1>1, <1>2, <1>3, <3>2, <3>3
  <2>9. new.start + Len(new.data) = new.end
    <3>1. Len(new.data) = 0 /\ new.end \in Nat /\ new.start = new.end
      BY <2>1, <2>3, UnitsType
    <3> QED
      BY <3>1
  <2> QED
    BY <2>7, <2>8, <2>9 DEF Covers, new
<1>7. CASE ~Appends(plan, seg)
  <2>1. /\ new \in Plans /\ new.out = Whole(plan)
        /\ new.start = seg.off /\ new.end = Pipe!EndOf(seg) /\ new.data = seg.data
    BY <1>7, MergeStarts
  <2>2. Part(new) = seg
    BY <1>1, <2>1 DEF Part
  <2> HIDE DEF new
  <2>3. Apply(Pipe!Empty, new.out) = a /\ SizeOf(new.out) = n
    BY <2>1 DEF Covers
  <2>4. Apply(Pipe!Empty, Whole(new)) = Pipe!WriteWhole(a, seg)
    BY <2>1, <2>2, <2>3, WholeIs
  <2>5. SizeOf(Whole(new)) = n + d
    BY <2>1, <2>3, WholeIs
  <2>6. new.start + Len(new.data) = new.end
    BY <1>1, <2>1
  <2> QED
    BY <2>4, <2>5, <2>6 DEF Covers, new
<1> QED
  BY <1>5, <1>6, <1>7
LeftMerged(g, t, p, S) ==
    IF S = {} THEN p ELSE Pipe!Merge(g[S \ {GreatestOf(S)}], t[GreatestOf(S)])

LEMMA MergedIsIter ==
    ASSUME NEW p, NEW s
    PROVE  Merged(p, s) =
               (CHOOSE g : g = [S \in SUBSET DOMAIN s |-> LeftMerged(g, s, p, S)])[DOMAIN s]
BY DEF Merged, Pipe!FoldLeft, Pipe!MapThenFoldSet, Pipe!Max, LeftMerged, GreatestOf

LEMMA MergedIs ==
    ASSUME NEW p \in Plans, NEW s \in Seq(Given)
    PROVE  \E h : HasValues(Plans, s, h) /\ IsLeftFold(Merger, p, s, h) /\ Merged(p, s) = h[Len(s)]
<1> DEFINE c == CHOOSE g : g = [S \in SUBSET DOMAIN s |-> LeftMerged(g, s, p, S)]
<1>1. Merged(p, s) = c[DOMAIN s]
  BY MergedIsIter
<1>2. Len(s) \in Nat /\ DOMAIN s = 1..Len(s) /\ \A i \in DOMAIN s : s[i] \in Given
  OBVIOUS
<1>3. \A S \in SUBSET DOMAIN s : S # {} => GreatestOf(S) \in DOMAIN s
  BY <1>2, GreatestIsIn
<1>4. PICK g \in [SUBSET DOMAIN s -> Plans] : LeftFolded(Merger, p, s, g)
  BY MergerType, LeftFoldExists
<1>5. ASSUME NEW S \in SUBSET DOMAIN s PROVE g[S] = LeftMerged(g, s, p, S)
  <2>1. g[S] = IF S = {} THEN p ELSE Merger[<<g[S \ {GreatestOf(S)}], s[GreatestOf(S)]>>]
    BY <1>4 DEF LeftFolded
  <2>2. S # {} => s[GreatestOf(S)] \in Given /\ g[S \ {GreatestOf(S)}] \in Plans
    BY <1>2, <1>3
  <2> QED
    BY <2>1, <2>2, MergerType DEF LeftMerged
<1>6. c = [S \in SUBSET DOMAIN s |-> LeftMerged(c, s, p, S)]
  <2>1. g = [S \in SUBSET DOMAIN s |-> LeftMerged(g, s, p, S)]
    BY <1>5
  <2> QED
    BY <2>1
<1> HIDE DEF c
<1>7. c[{}] = p
  BY <1>6 DEF LeftMerged
<1>8. ASSUME NEW S \in SUBSET DOMAIN s, S # {}, c[S \ {GreatestOf(S)}] \in Plans
      PROVE  c[S] = Merger[<<c[S \ {GreatestOf(S)}], s[GreatestOf(S)]>>]
  <2>1. c[S] = LeftMerged(c, s, p, S)
    BY <1>6
  <2>2. s[GreatestOf(S)] \in Given
    BY <1>2, <1>3, <1>8
  <2> QED
    BY <1>8, <2>1, <2>2, MergerType DEF LeftMerged
<1>9. FoldsWithin(Plans, Merger, p, s, c)
  BY <1>7, <1>8 DEF FoldsWithin
<1>10. PICK h : HasValues(Plans, s, h) /\ IsLeftFold(Merger, p, s, h) /\ EndsIn(c, s, h)
  BY <1>9, MergerType, LeftFoldIs
<1> QED
  BY <1>1, <1>10 DEF EndsIn

\* What the merge of a list begins with and what it gives out.
Begun(first) == [out |-> <<>>, start |-> first.off, end |-> Pipe!EndOf(first), data |-> first.data]
GivenOut(plan) == IF plan.data = <<>> THEN plan.out ELSE Whole(plan)

LEMMA PlanBatchesIs ==
    ASSUME NEW s, s # <<>>
    PROVE  Pipe!PlanBatches(s) = GivenOut(Merged(Begun(Head(s)), Tail(s)))
BY DEF Pipe!PlanBatches, GivenOut, Merged, Begun, Whole, Part

LEMMA BegunCovers ==
    ASSUME NEW seg \in Given
    PROVE  /\ Begun(seg) \in Plans
           /\ Covers(Begun(seg), Pipe!WriteWhole(Pipe!Empty, seg), Len(seg.data))
<1> DEFINE new == Begun(seg)
<1>1. /\ seg \in Segments /\ seg.off \in Pipe!Units /\ seg.off \in Nat /\ seg.data \in Seq(Cells)
      /\ Len(seg.data) \in Nat /\ Pipe!EndOf(seg) \in Pipe!Units
      /\ Pipe!EndOf(seg) = seg.off + Len(seg.data) /\ [off |-> seg.off, data |-> seg.data] = seg
  BY GivenType
<1>2. /\ new.out = <<>> /\ new.start = seg.off /\ new.end = Pipe!EndOf(seg) /\ new.data = seg.data
  BY DEF Begun
<1>3. new \in Plans
  BY <1>1 DEF Begun, Plans
<1>4. Part(new) = seg
  BY <1>1, <1>2 DEF Part
<1> HIDE DEF new
<1>5. Apply(Pipe!Empty, Whole(new)) = Pipe!WriteWhole(Pipe!Empty, seg)
  BY <1>2, <1>3, <1>4, EmptyType, ApplyNone, WholeIs
<1>6. SizeOf(Whole(new)) = Len(seg.data)
  <2>1. SizeOf(Whole(new)) = 0 + Len(seg.data)
    BY <1>2, <1>3, SizeOfNone, WholeIs
  <2> QED
    BY <1>1, <2>1
<1>7. new.start + Len(new.data) = new.end
  BY <1>1, <1>2
<1> QED
  BY <1>3, <1>5, <1>6, <1>7 DEF Covers, new

LEMMA OutCovers ==
    ASSUME NEW plan \in Plans, NEW a, NEW n \in Nat, Covers(plan, a, n)
    PROVE  /\ GivenOut(plan) \in Seq(Segments)
           /\ Apply(Pipe!Empty, GivenOut(plan)) = a /\ SizeOf(GivenOut(plan)) = n
<1>1. plan.out \in Seq(Segments) /\ Whole(plan) \in Seq(Segments) /\ plan.start \in Pipe!Units
  BY PlanType
<1>2. CASE plan.data = <<>>
  <2>1. Part(plan) = [off |-> plan.start, data |-> <<>>] /\ Len(plan.data) = 0
    BY <1>2 DEF Part
  <2>2. Apply(Pipe!Empty, Whole(plan)) = Apply(Pipe!Empty, plan.out)
    BY <1>1, <2>1, WholeIs, WriteOfNothing
  <2>3. SizeOf(Whole(plan)) = SizeOf(plan.out) + 0 /\ SizeOf(plan.out) \in Nat
    BY <2>1, WholeIs
  <2>4. SizeOf(Whole(plan)) = SizeOf(plan.out)
    BY <2>3
  <2> QED
    BY <1>1, <1>2, <2>2, <2>4 DEF GivenOut, Covers
<1>3. CASE plan.data # <<>>
  BY <1>1, <1>3 DEF GivenOut, Covers
<1> QED
  BY <1>2, <1>3

\* The plan of a list of segments writes what they would, and as much.
LEMMA PlanWrites ==
    ASSUME NEW s \in Seq(Given)
    PROVE  /\ Pipe!PlanBatches(s) \in Seq(Segments)
           /\ Apply(Pipe!Empty, Pipe!PlanBatches(s)) = Apply(Pipe!Empty, s)
           /\ SizeOf(Pipe!PlanBatches(s)) = SizeOf(s)
<1>1. CASE s = <<>>
  <2>1. Pipe!PlanBatches(s) = s /\ <<>> \in Seq(Segments)
    BY <1>1 DEF Pipe!PlanBatches
  <2> QED
    BY <1>1, <2>1
<1>2. CASE s # <<>>
  <2> DEFINE first == Head(s)
             t == Tail(s)
             n == Len(s)
             p == Begun(first)
  <2>1. /\ n \in Nat /\ n # 0 /\ first = s[1] /\ first \in Given /\ t \in Seq(Given) /\ Len(t) = n - 1
        /\ (\A i \in 1..(n - 1) : t[i] = s[i + 1]) /\ \A i \in 1..n : s[i] \in Given
    BY <1>2
  <2>2. s \in Seq(Segments) /\ \A i \in 1..n : s[i] \in Segments /\ Len(s[i].data) \in Nat
    <3>1. Given \subseteq Segments
      BY DEF Given
    <3>2. s \in Seq(Segments)
      BY <3>1
    <3> QED
      BY <2>1, <3>1, <3>2, SegmentType
  <2>3. p \in Plans /\ Covers(p, Pipe!WriteWhole(Pipe!Empty, first), Len(first.data))
    BY <2>1, BegunCovers
  <2> HIDE DEF first, t, n, p
  <2>4. PICK h : HasValues(Plans, t, h) /\ IsLeftFold(Merger, p, t, h) /\ Merged(p, t) = h[Len(t)]
    BY <2>1, <2>3, MergedIs
  <2>5. PICK w : HasValues(Areas, s, w) /\ IsLeftFold(Writer, Pipe!Empty, s, w) /\ Apply(Pipe!Empty, s) = w[n]
    BY <2>2, EmptyType, ApplyIs DEF n
  <2>6. PICK P : IsPartial(Sizes(s), P) /\ SizeOf(s) = P[n]
    BY <2>2, SizesType, SequenceSum DEF SizeOf, n
  <2>7. /\ \A k \in 0..(n - 1) : h[k] \in Plans
        /\ h[0] = p /\ \A k \in 1..(n - 1) : h[k] = Merger[<<h[k - 1], t[k]>>]
    BY <2>1, <2>4 DEF HasValues, IsLeftFold
  <2>8. /\ \A k \in 0..n : w[k] \in Areas
        /\ w[0] = Pipe!Empty /\ \A k \in 1..n : w[k] = Writer[<<w[k - 1], s[k]>>]
    BY <2>5 DEF HasValues, IsLeftFold, n
  <2>9. /\ \A k \in 0..n : P[k] \in Nat
        /\ P[0] = 0 /\ \A k \in 1..n : P[k] = Len(s[k].data) + P[k - 1]
    <3>1. Len(Sizes(s)) = n /\ \A i \in 1..n : Sizes(s)[i] = Len(s[i].data)
      BY <2>2, SizesType DEF n
    <3> QED
      BY <2>6, <3>1 DEF IsPartial
  <2> DEFINE Good == {k \in Nat : k <= n - 1 => Covers(h[k], w[k + 1], P[k + 1])}
  <2>10. 0 \in Good
    <3>1. 1 \in 1..n /\ 0 \in 0..n /\ 1 - 1 = 0 /\ 0 + 1 = 1
      BY <2>1
    <3>2. w[1] = Pipe!WriteWhole(Pipe!Empty, first)
      BY <2>1, <2>2, <2>8, <3>1, EmptyType, WriterType
    <3>3. P[1] = Len(first.data)
      <4>1. P[1] = Len(first.data) + 0 /\ Len(first.data) \in Nat
        BY <2>1, <2>2, <2>9, <3>1
      <4> QED
        BY <4>1
    <3>4. Covers(h[0], w[0 + 1], P[0 + 1])
      BY <2>3, <2>7, <3>1, <3>2, <3>3
    <3> QED
      BY <3>4
  <2>11. ASSUME NEW k \in Good PROVE k + 1 \in Good
    <3>1. k \in Nat /\ k + 1 \in Nat
      OBVIOUS
    <3>2. ASSUME k + 1 <= n - 1 PROVE Covers(h[k + 1], w[(k + 1) + 1], P[(k + 1) + 1])
      <4>1. Covers(h[k], w[k + 1], P[k + 1])
        BY <2>1, <3>1, <3>2
      <4> DEFINE j == k + 1
      <4>2. /\ j \in 1..(n - 1) /\ j \in 0..n /\ j - 1 = k /\ k \in 0..(n - 1) /\ j + 1 \in 1..n
            /\ (j + 1) - 1 = j
        BY <2>1, <3>1, <3>2
      <4> HIDE DEF j, Good
      <4> DEFINE seg == s[j + 1]
      <4>3. seg \in Given /\ seg \in Segments /\ Len(seg.data) \in Nat /\ t[j] = seg
        BY <2>1, <2>2, <4>2
      <4> HIDE DEF seg
      <4>4. h[k] \in Plans /\ w[j] \in Areas /\ P[j] \in Nat
        BY <2>7, <2>8, <2>9, <4>2
      <4>5. h[j] = Pipe!Merge(h[k], seg)
        BY <2>7, <4>2, <4>3, <4>4, MergerType
      <4>6. w[j + 1] = Pipe!WriteWhole(w[j], seg)
        <5>1. w[j + 1] = Writer[<<w[j], s[j + 1]>>]
          BY <2>8, <4>2
        <5> QED
          BY <4>3, <4>4, <5>1, WriterType DEF seg
      <4>7. P[j + 1] = P[j] + Len(seg.data)
        <5>1. P[j + 1] = Len(s[j + 1].data) + P[j]
          BY <2>9, <4>2
        <5> QED
          BY <4>3, <4>4, <5>1 DEF seg
      <4>8. Covers(h[k], w[j], P[j])
        BY <4>1 DEF j
      <4>9. Covers(h[j], w[j + 1], P[j + 1])
        BY <4>3, <4>4, <4>5, <4>6, <4>7, <4>8, MergeCovers
      <4> QED
        BY <4>9 DEF j
    <3> HIDE DEF Good
    <3>3. k + 1 <= n - 1 => Covers(h[k + 1], w[(k + 1) + 1], P[(k + 1) + 1])
      BY <3>2
    <3> QED
      BY <3>1, <3>3 DEF Good
  <2>12. Good = Nat
    <3> HIDE DEF Good
    <3>1. Good \in SUBSET Nat
      BY DEF Good
    <3> QED
      BY <2>10, <2>11, <3>1, FirstFailure
  <2> DEFINE last == n - 1
  <2>13. last \in Nat /\ last <= n - 1 /\ last + 1 = n /\ last \in 0..(n - 1) /\ n \in 0..n
    BY <2>1
  <2>14. Covers(h[last], w[last + 1], P[last + 1])
    <3> HIDE DEF last
    <3> QED
      BY <2>12, <2>13
  <2>15. Covers(h[last], w[n], P[n]) /\ h[last] \in Plans /\ P[n] \in Nat
    <3> HIDE DEF last, Good
    <3> QED
      BY <2>7, <2>9, <2>13, <2>14
  <2>16. Pipe!PlanBatches(s) = GivenOut(h[last])
    BY <1>2, <2>1, <2>4, PlanBatchesIs DEF p, t, first
  <2> HIDE DEF last, Good
  <2> QED
    BY <2>5, <2>6, <2>15, <2>16, OutCovers
<1> QED
  BY <1>1, <1>2
-----------------------------------------------------------------------------
(* The invariant of the pipeline.                                           *)

CallStates == {"idle", "queued", "writing", "ok", "error", "dropped"}

PipeTypes ==
    /\ input \in [Calls -> Inputs] /\ batches \in [Calls -> Seq(Segments)]
    /\ pipePc \in [Calls -> CallStates] /\ area \in [Calls -> Areas] /\ reported \in [Calls -> Nat]

\* The permits are those nobody holds; a call holds some only while it writes.
PermitsInv ==
    /\ permits \in Nat /\ held \in [Calls -> Nat] /\ permits + SumOver(held) = PipeCapacity
    /\ \A c \in Calls : pipePc[c] # "writing" => held[c] = 0

\* The queue of the semaphore is the calls that wait, each of them once.
QueueInv ==
    /\ queue \in Seq(Calls)
    /\ \A i \in DOMAIN queue : pipePc[queue[i]] = "queued"
    /\ \A c \in Calls : pipePc[c] = "queued" => \E i \in DOMAIN queue : queue[i] = c
    /\ \A i, j \in DOMAIN queue : queue[i] = queue[j] => i = j

\* What is counted and what is left to write are no more than the segments
\* have; as long as nothing was cut short, the writes that are left make of
\* the area what the segments make of an empty one.
Remains(segs, left, a, n, order) ==
    /\ n + SizeOf(left) <= SizeOf(segs)
    /\ n + SizeOf(left) = SizeOf(segs) => Apply(a, left) = Apply(Pipe!Empty, Pipe!Sorted(segs, order))

Planned(segs, left, a, n) == \E order \in Pipe!Orders(segs) : Remains(segs, left, a, n, order)

BatchInv ==
    \A c \in Calls :
        /\ pipePc[c] = "idle" => area[c] = Pipe!Empty /\ reported[c] = 0
        /\ pipePc[c] # "idle" => Planned(input[c], batches[c], area[c], reported[c])
        /\ pipePc[c] = "ok" => batches[c] = <<>>

PipeInv == PipeTypes /\ PermitsInv /\ QueueInv /\ BatchInv

LEMMA PipeInit == Pipe!Init => PipeInv
<1> SUFFICES ASSUME Pipe!Init PROVE PipeInv
  OBVIOUS
<1>1. <<>> \in Seq(Segments) /\ <<>> \in Seq(Calls) /\ DOMAIN <<>> = {} /\ 0 \in Nat /\ PipeCapacity \in Nat
  BY PipeConstants
<1>2. PipeTypes
  BY <1>1, EmptyType DEF Pipe!Init, PipeTypes, CallStates
<1>3. held = [c \in Calls |-> 0] /\ held \in [Calls -> Nat]
  BY DEF Pipe!Init
<1>4. SumOver(held) = 0
  BY <1>3, PipeConstants, SumOfNone
<1>5. permits + SumOver(held) = PipeCapacity /\ permits \in Nat
  BY <1>1, <1>4 DEF Pipe!Init
<1>6. PermitsInv
  BY <1>3, <1>5 DEF PermitsInv
<1>7. QueueInv
  BY <1>1 DEF Pipe!Init, QueueInv
<1>8. BatchInv
  BY DEF Pipe!Init, BatchInv
<1> QED
  BY <1>2, <1>6, <1>7, <1>8 DEF PipeInv

\* A sequence without one of its elements, which it has once.
LEMMA WithoutOne ==
    ASSUME NEW S, NEW s \in Seq(S), \A i, j \in DOMAIN s : s[i] = s[j] => i = j, NEW k \in DOMAIN s,
           NEW t, t = Pipe!RemoveAt(s, k)
    PROVE  /\ t \in Seq(S) /\ \A i, j \in DOMAIN t : t[i] = t[j] => i = j
           /\ \A i \in DOMAIN t : t[i] # s[k] /\ \E j \in DOMAIN s : s[j] = t[i]
           /\ \A i \in DOMAIN s : s[i] # s[k] => \E j \in DOMAIN t : t[j] = s[i]
<1> DEFINE n == Len(s)
           a == SubSeq(s, 1, k - 1)
           b == SubSeq(s, k + 1, n)
<1>1. n \in Nat /\ DOMAIN s = 1..n /\ k \in 1..n /\ \A i \in 1..n : s[i] \in S
  OBVIOUS
<1>2. a \in Seq(S) /\ Len(a) = k - 1 /\ \A i \in 1..(k - 1) : a[i] = s[i]
  <2>1. \A m \in Nat : m <= Len(s) =>
            /\ SubSeq(s, 1, m) \in Seq(S) /\ Len(SubSeq(s, 1, m)) = m
            /\ \A i \in 1..m : SubSeq(s, 1, m)[i] = s[i]
    OBVIOUS
  <2>2. k - 1 \in Nat /\ k - 1 <= Len(s)
    BY <1>1
  <2> QED
    BY <2>1, <2>2
<1>3. b \in Seq(S) /\ Len(b) = n - k /\ \A i \in 1..(n - k) : b[i] = s[i + k]
  <2>1. \A m \in 1..(Len(s) + 1) :
            /\ SubSeq(s, m, Len(s)) \in Seq(S) /\ Len(SubSeq(s, m, Len(s))) = Len(s) - m + 1
            /\ \A i \in 1..(Len(s) - m + 1) : SubSeq(s, m, Len(s))[i] = s[i + m - 1]
    OBVIOUS
  <2>2. k + 1 \in 1..(n + 1) /\ n - (k + 1) + 1 = n - k /\ \A i \in 1..(n - k) : i + (k + 1) - 1 = i + k
    BY <1>1
  <2> QED
    BY <2>1, <2>2
<1>4. t = a \o b
  BY DEF Pipe!RemoveAt
<1> HIDE DEF n, a, b
<1>5. \A p, q \in Seq(S) :
          /\ p \o q \in Seq(S) /\ Len(p \o q) = Len(p) + Len(q)
          /\ \A i \in 1..(Len(p) + Len(q)) : (p \o q)[i] = IF i <= Len(p) THEN p[i] ELSE q[i - Len(p)]
  OBVIOUS
<1>6. /\ t \in Seq(S) /\ Len(t) = n - 1
      /\ \A i \in 1..(n - 1) : t[i] = IF i <= k - 1 THEN a[i] ELSE b[i - (k - 1)]
  <2>1. (k - 1) + (n - k) = n - 1
    BY <1>1
  <2>2. /\ t \in Seq(S) /\ Len(t) = Len(a) + Len(b)
        /\ \A i \in 1..(Len(a) + Len(b)) : t[i] = IF i <= Len(a) THEN a[i] ELSE b[i - Len(a)]
    <3>1. a \in Seq(S) /\ b \in Seq(S)
      BY <1>2, <1>3
    <3> QED
      BY <1>4, <1>5, <3>1
  <2> QED
    BY <1>2, <1>3, <2>1, <2>2
<1> DEFINE from(i) == IF i <= k - 1 THEN i ELSE i + 1
<1>7. ASSUME NEW i \in 1..(n - 1)
      PROVE  t[i] = s[from(i)] /\ from(i) \in 1..n /\ from(i) # k
  <2>1. CASE i <= k - 1
    <3>1. i \in 1..(k - 1) /\ i \in 1..n /\ i # k
      BY <1>1, <2>1
    <3> QED
      BY <1>2, <1>6, <2>1, <3>1
  <2>2. CASE ~(i <= k - 1)
    <3>1. i - (k - 1) \in 1..(n - k) /\ (i - (k - 1)) + k = i + 1 /\ i + 1 \in 1..n /\ i + 1 # k
      BY <1>1, <2>2
    <3> QED
      BY <1>3, <1>6, <2>2, <3>1
  <2> QED
    BY <2>1, <2>2
<1>8. \A i, j \in 1..(n - 1) : from(i) = from(j) => i = j
  BY <1>1
<1>9. \A i \in 1..n : i # k => \E j \in 1..(n - 1) : from(j) = i
  <2> SUFFICES ASSUME NEW i \in 1..n, i # k PROVE \E j \in 1..(n - 1) : from(j) = i
    OBVIOUS
  <2>1. CASE i <= k - 1
    <3>1. i \in 1..(n - 1) /\ from(i) = i
      BY <1>1, <2>1
    <3> QED
      BY <3>1
  <2>2. CASE ~(i <= k - 1)
    <3>1. i - 1 \in 1..(n - 1) /\ from(i - 1) = i
      BY <1>1, <2>2
    <3> QED
      BY <3>1
  <2> QED
    BY <2>1, <2>2
<1> HIDE DEF from
<1>10. DOMAIN t = 1..(n - 1)
  BY <1>6
<1>11. \A i, j \in DOMAIN t : t[i] = t[j] => i = j
  <2> SUFFICES ASSUME NEW i \in 1..(n - 1), NEW j \in 1..(n - 1), t[i] = t[j] PROVE i = j
    BY <1>10
  <2>1. s[from(i)] = s[from(j)] /\ from(i) \in DOMAIN s /\ from(j) \in DOMAIN s
    BY <1>1, <1>7
  <2> QED
    BY <1>8, <2>1
<1>12. ASSUME NEW i \in 1..(n - 1) PROVE t[i] # s[k] /\ \E j \in DOMAIN s : s[j] = t[i]
  <2>1. t[i] = s[from(i)] /\ from(i) \in DOMAIN s /\ from(i) # k
    BY <1>1, <1>7
  <2> QED
    BY <2>1
<1>13. ASSUME NEW i \in 1..n, s[i] # s[k] PROVE \E j \in 1..(n - 1) : t[j] = s[i]
  <2>1. PICK j \in 1..(n - 1) : from(j) = i
    BY <1>9, <1>13
  <2> QED
    BY <1>7, <2>1
<1> QED
  BY <1>1, <1>6, <1>10, <1>11, <1>12, <1>13

LEMMA PairBounds ==
    ASSUME NEW m \in Nat, NEW n \in Nat
    PROVE  Pipe!Max({m, n}) \in Nat /\ Pipe!Min({m, n}) \in Nat
<1>1. \E x \in {m, n} : \A y \in {m, n} : x >= y
  OBVIOUS
<1>2. \E x \in {m, n} : \A y \in {m, n} : x =< y
  OBVIOUS
<1>3. Pipe!Max({m, n}) \in {m, n}
  BY <1>1 DEF Pipe!Max
<1>4. Pipe!Min({m, n}) \in {m, n}
  BY <1>2 DEF Pipe!Min
<1> QED
  BY <1>3, <1>4

LEMMA WantedType == PipeTypes => \A c \in Calls : Pipe!Wanted(c) \in Nat
<1> SUFFICES ASSUME PipeTypes, NEW c \in Calls PROVE Pipe!Wanted(c) \in Nat
  OBVIOUS
<1>1. batches[c] \in Seq(Segments)
  BY DEF PipeTypes
<1>2. Len(batches[c]) \in Nat /\ 1 \in Nat /\ PipeCapacity \in Nat
  BY <1>1, PipeConstants
<1> QED
  BY <1>2, PairBounds DEF Pipe!Wanted
-----------------------------------------------------------------------------
(* Every step of the pipeline keeps the invariant.                          *)

LEMMA InputType ==
    ASSUME NEW segs \in Inputs
    PROVE  segs \in Seq(Given) /\ segs \in Seq(Segments) /\ SizeOf(segs) \in Nat
<1>1. segs \in Seq(Given)
  BY InputsGiven
<1>2. Given \subseteq Segments
  BY DEF Given
<1>3. segs \in Seq(Segments)
  BY <1>1, <1>2
<1> QED
  BY <1>1, <1>3, SizesType

LEMMA BatchPlanned ==
    ASSUME NEW segs \in Inputs, NEW order \in Pipe!Orders(segs),
           NEW left, left = Pipe!PlanBatches(Pipe!Sorted(segs, order))
    PROVE  /\ left \in Seq(Segments) /\ Planned(segs, left, Pipe!Empty, 0)
           /\ segs = <<>> => left = <<>>
<1> DEFINE t == Pipe!Sorted(segs, order)
<1>1. segs \in Seq(Given) /\ SizeOf(segs) \in Nat
  BY InputType
<1>2. t \in Seq(Given) /\ Len(t) = Len(segs) /\ SizeOf(t) = SizeOf(segs)
  BY <1>1, SortedGiven, SizeOfSorted
<1> HIDE DEF t
<1>3. left = Pipe!PlanBatches(t)
  BY DEF t
<1>4. left \in Seq(Segments) /\ Apply(Pipe!Empty, left) = Apply(Pipe!Empty, t) /\ SizeOf(left) = SizeOf(segs)
  BY <1>2, <1>3, PlanWrites
<1>5. 0 + SizeOf(left) <= SizeOf(segs)
  BY <1>1, <1>4
<1>6. Remains(segs, left, Pipe!Empty, 0, order)
  BY <1>4, <1>5 DEF Remains, t
<1>7. ASSUME segs = <<>> PROVE left = <<>>
  <2>1. t = <<>>
    BY <1>2, <1>7
  <2> QED
    BY <1>3, <2>1 DEF Pipe!PlanBatches
<1> QED
  BY <1>4, <1>6, <1>7 DEF Planned

LEMMA BatchWritten ==
    ASSUME NEW segs \in Inputs, NEW left \in Seq(Segments), left # <<>>, NEW a \in Areas,
           NEW n \in Nat, NEW m \in Nat, m <= Len(Head(left).data), Planned(segs, left, a, n)
    PROVE  /\ Tail(left) \in Seq(Segments) /\ Pipe!Write(a, Head(left), m) \in Areas
           /\ Planned(segs, Tail(left), Pipe!Write(a, Head(left), m), n + m)
<1> DEFINE seg == Head(left)
           rest == Tail(left)
           b == Pipe!Write(a, seg, m)
           d == Len(seg.data)
           whole == SizeOf(segs)
           more == SizeOf(rest)
<1>1. PICK order \in Pipe!Orders(segs) : Remains(segs, left, a, n, order)
  BY DEF Planned
<1>2. whole \in Nat
  BY InputType
<1>3. seg \in Segments /\ rest \in Seq(Segments) /\ SizeOf(left) = d + more
  BY SizeOfTail
<1>4. d \in Nat /\ more \in Nat /\ b \in Areas
  BY <1>3, SegmentType, SizesType, WriteType
<1>5. n + (d + more) <= whole
  BY <1>1, <1>3 DEF Remains
<1>6. m <= d
  OBVIOUS
<1>7. (n + m) + more <= whole /\ ((n + m) + more = whole => m = d /\ n + (d + more) = whole)
  <2> HIDE DEF d, more, whole
  <2> QED
    BY <1>2, <1>4, <1>5, <1>6
<1>8. ASSUME (n + m) + more = whole
      PROVE  Apply(b, rest) = Apply(Pipe!Empty, Pipe!Sorted(segs, order))
  <2>1. b = Pipe!WriteWhole(a, seg)
    BY <1>7, <1>8 DEF Pipe!WriteWhole
  <2>2. n + SizeOf(left) = SizeOf(segs)
    BY <1>3, <1>7, <1>8
  <2>3. Apply(a, left) = Apply(Pipe!Empty, Pipe!Sorted(segs, order))
    BY <1>1, <2>2 DEF Remains
  <2>4. Apply(a, left) = Apply(Pipe!WriteWhole(a, Head(left)), Tail(left))
    BY ApplyFirst
  <2> QED
    BY <2>1, <2>3, <2>4
<1>9. Remains(segs, rest, b, n + m, order)
  BY <1>7, <1>8 DEF Remains
<1>10. Planned(segs, rest, b, n + m)
  BY <1>9 DEF Planned
<1> QED
  BY <1>3, <1>4, <1>10

LEMMA BeginKeeps ==
    ASSUME PipeInv, NEW c \in Calls, Pipe!Begin(c)
    PROVE  PipeInv'
<1> USE DEF PipeInv
<1>1. /\ pipePc[c] = "idle" /\ UNCHANGED <<input, permits, held, area, reported>>
      /\ input[c] \in Inputs /\ area[c] = Pipe!Empty /\ reported[c] = 0
  BY DEF Pipe!Begin, PipeTypes, BatchInv
<1>2. PICK order \in Pipe!Orders(input[c]) :
          batches' = [batches EXCEPT ![c] = Pipe!PlanBatches(Pipe!Sorted(input[c], order))]
  BY DEF Pipe!Begin
<1> DEFINE left == Pipe!PlanBatches(Pipe!Sorted(input[c], order))
<1>3. /\ left \in Seq(Segments) /\ Planned(input[c], left, Pipe!Empty, 0)
      /\ input[c] = <<>> => left = <<>>
  BY <1>1, BatchPlanned
<1> HIDE DEF left
<1>4. batches' = [batches EXCEPT ![c] = left] /\ batches \in [Calls -> Seq(Segments)]
  BY <1>2 DEF left, PipeTypes
<1>5. \/ /\ input[c] = <<>> /\ pipePc' = [pipePc EXCEPT ![c] = "ok"] /\ queue' = queue
      \/ /\ pipePc' = [pipePc EXCEPT ![c] = "queued"] /\ queue' = Append(queue, c)
  BY DEF Pipe!Begin
<1>6. pipePc \in [Calls -> CallStates]
  BY DEF PipeTypes
<1>7. PipeTypes'
  <2>1. batches' \in [Calls -> Seq(Segments)]
    BY <1>3, <1>4
  <2>2. pipePc' \in [Calls -> CallStates]
    BY <1>5, <1>6 DEF CallStates
  <2> QED
    BY <1>1, <2>1, <2>2 DEF PipeTypes
<1>8. PermitsInv'
  <2>1. \A e \in Calls : pipePc'[e] # "writing" => pipePc[e] # "writing"
    BY <1>1, <1>5, <1>6
  <2> QED
    BY <1>1, <2>1 DEF PermitsInv
<1>9. QueueInv'
  <2>1. CASE input[c] = <<>> /\ pipePc' = [pipePc EXCEPT ![c] = "ok"] /\ queue' = queue
    <3>1. \A e \in Calls : pipePc'[e] = "queued" <=> pipePc[e] = "queued"
      BY <1>1, <1>6, <2>1
    <3> QED
      BY <2>1, <3>1 DEF QueueInv
  <2>2. CASE pipePc' = [pipePc EXCEPT ![c] = "queued"] /\ queue' = Append(queue, c)
    <3> DEFINE n == Len(queue)
    <3>1. /\ queue \in Seq(Calls) /\ n \in Nat /\ queue' \in Seq(Calls) /\ DOMAIN queue = 1..n
          /\ DOMAIN queue' = 1..(n + 1) /\ queue'[n + 1] = c /\ \A i \in 1..n : queue'[i] = queue[i]
      BY <2>2 DEF QueueInv
    <3>2. pipePc'[c] = "queued" /\ \A e \in Calls : e # c => pipePc'[e] = pipePc[e]
      BY <1>6, <2>2
    <3>3. /\ \A i \in 1..n : pipePc[queue[i]] = "queued" /\ queue[i] \in Calls /\ queue[i] # c
          /\ \A e \in Calls : pipePc[e] = "queued" => \E i \in 1..n : queue[i] = e
          /\ \A i, j \in 1..n : queue[i] = queue[j] => i = j
      BY <1>1, <3>1 DEF QueueInv
    <3> HIDE DEF n
    <3>4. n + 1 \in 1..(n + 1) /\ \A i \in 1..(n + 1) : i \in 1..n \/ i = n + 1
      BY <3>1
    <3>5. \A i \in 1..n : i \in 1..(n + 1)
      BY <3>1
    <3>6. ASSUME NEW i \in 1..(n + 1) PROVE pipePc'[queue'[i]] = "queued"
      BY <3>1, <3>2, <3>3, <3>4
    <3>7. ASSUME NEW e \in Calls, pipePc'[e] = "queued" PROVE \E i \in 1..(n + 1) : queue'[i] = e
      <4>1. CASE e = c
        BY <3>1, <3>4, <4>1
      <4>2. CASE e # c
        <5>1. PICK i \in 1..n : queue[i] = e
          BY <3>2, <3>3, <3>7, <4>2
        <5> QED
          BY <3>1, <3>5, <5>1
      <4> QED
        BY <4>1, <4>2
    <3>8. ASSUME NEW i \in 1..(n + 1), NEW j \in 1..(n + 1), queue'[i] = queue'[j] PROVE i = j
      BY <3>1, <3>3, <3>4, <3>8
    <3> QED
      BY <3>1, <3>6, <3>7, <3>8 DEF QueueInv
  <2> QED
    BY <1>5, <2>1, <2>2
<1>10. BatchInv'
  <2> SUFFICES ASSUME NEW e \in Calls
               PROVE  /\ pipePc'[e] = "idle" => area'[e] = Pipe!Empty /\ reported'[e] = 0
                      /\ pipePc'[e] # "idle" => Planned(input'[e], batches'[e], area'[e], reported'[e])
                      /\ pipePc'[e] = "ok" => batches'[e] = <<>>
    BY DEF BatchInv, Pipe!Empty, Planned, Remains
  <2>1. CASE e = c
    <3>1. batches'[e] = left /\ pipePc'[e] # "idle" /\ (pipePc'[e] = "ok" => left = <<>>)
      BY <1>3, <1>4, <1>5, <1>6, <2>1
    <3> QED
      BY <1>1, <1>3, <2>1, <3>1
  <2>2. CASE e # c
    <3>1. batches'[e] = batches[e] /\ pipePc'[e] = pipePc[e]
      BY <1>4, <1>5, <1>6, <2>2
    <3> QED
      BY <1>1, <3>1 DEF BatchInv
  <2> QED
    BY <2>1, <2>2
<1> QED
  BY <1>7, <1>8, <1>9, <1>10

\* What the other steps leave alone of a call.
LEMMA BatchStays ==
    ASSUME PipeInv, NEW c \in Calls, NEW v \in CallStates \ {"idle"},
           pipePc[c] # "idle", pipePc' = [pipePc EXCEPT ![c] = v], v = "ok" => batches[c] = <<>>,
           UNCHANGED <<input, batches, area, reported>>
    PROVE  PipeTypes' /\ BatchInv'
<1>1. pipePc \in [Calls -> CallStates]
  BY DEF PipeInv, PipeTypes
<1>2. PipeTypes'
  BY <1>1 DEF PipeInv, PipeTypes
<1>3. ASSUME NEW e \in Calls
      PROVE  /\ pipePc'[e] = "idle" => area'[e] = Pipe!Empty /\ reported'[e] = 0
             /\ pipePc'[e] # "idle" => Planned(input'[e], batches'[e], area'[e], reported'[e])
             /\ pipePc'[e] = "ok" => batches'[e] = <<>>
  <2>1. CASE e = c
    BY <1>1, <2>1 DEF PipeInv, BatchInv
  <2>2. CASE e # c
    <3>1. pipePc'[e] = pipePc[e]
      BY <1>1, <2>2
    <3> QED
      BY <3>1 DEF PipeInv, BatchInv
  <2> QED
    BY <2>1, <2>2
<1>4. BatchInv'
  BY <1>3 DEF BatchInv, Pipe!Empty, Planned, Remains
<1> QED
  BY <1>2, <1>4

LEMMA AcquireKeeps ==
    ASSUME PipeInv, NEW c \in Calls, Pipe!Acquire(c)
    PROVE  PipeInv'
<1> DEFINE n == Len(queue)
           w == Pipe!Wanted(c)
<1>1. /\ queue # <<>> /\ Head(queue) = c /\ w <= permits /\ queue' = Tail(queue)
      /\ pipePc' = [pipePc EXCEPT ![c] = "writing"] /\ held' = [held EXCEPT ![c] = w]
      /\ permits' = permits - w /\ UNCHANGED <<input, batches, area, reported>>
  BY DEF Pipe!Acquire
<1>2. w \in Nat
  BY WantedType DEF PipeInv
<1>3. /\ queue \in Seq(Calls) /\ n \in Nat /\ n # 0 /\ DOMAIN queue = 1..n /\ queue[1] = c
      /\ queue' \in Seq(Calls) /\ DOMAIN queue' = 1..(n - 1) /\ \A i \in 1..(n - 1) : queue'[i] = queue[i + 1]
  BY <1>1 DEF PipeInv, QueueInv
<1> HIDE DEF n, w
<1>4. 1 \in 1..n /\ \A i \in 1..(n - 1) : i + 1 \in 1..n /\ i + 1 # 1
  BY <1>3
<1>5. /\ \A i \in 1..n : pipePc[queue[i]] = "queued" /\ queue[i] \in Calls
      /\ \A e \in Calls : pipePc[e] = "queued" => \E i \in 1..n : queue[i] = e
      /\ \A i, j \in 1..n : queue[i] = queue[j] => i = j
  <2>1. \A i \in 1..n : queue[i] \in Calls
    BY <1>3
  <2>2. \A i \in 1..n : pipePc[queue[i]] = "queued"
    BY <1>3 DEF PipeInv, QueueInv
  <2>3. \A e \in Calls : pipePc[e] = "queued" => \E i \in 1..n : queue[i] = e
    BY <1>3 DEF PipeInv, QueueInv
  <2>4. \A i, j \in 1..n : queue[i] = queue[j] => i = j
    BY <1>3 DEF PipeInv, QueueInv
  <2> QED
    BY <2>1, <2>2, <2>3, <2>4
<1>6. pipePc[c] = "queued" /\ \A i \in 1..(n - 1) : queue'[i] # c
  BY <1>3, <1>4, <1>5
<1>7. pipePc \in [Calls -> CallStates] /\ pipePc'[c] = "writing" /\ \A e \in Calls : e # c => pipePc'[e] = pipePc[e]
  BY <1>1 DEF PipeInv, PipeTypes
<1>8. PipeTypes' /\ BatchInv'
  <2>1. "writing" \in CallStates \ {"idle"} /\ "writing" # "ok"
    BY DEF CallStates
  <2> QED
    BY <1>1, <1>6, <2>1, BatchStays
<1>9. PermitsInv'
  <2>1. /\ permits \in Nat /\ held \in [Calls -> Nat] /\ permits + SumOver(held) = PipeCapacity
        /\ \A e \in Calls : pipePc[e] # "writing" => held[e] = 0
    BY DEF PipeInv, PermitsInv
  <2>2. SumOver(held) \in Nat /\ SumOver(held') = (SumOver(held) - held[c]) + w
    <3>1. held' \in [Calls -> Nat] /\ held'[c] = w /\ \A e \in Calls : e # c => held'[e] = held[e]
      BY <1>1, <1>2, <2>1
    <3>2. /\ IsFiniteSet(Calls) /\ held \in [Calls -> Nat] /\ held' \in [Calls -> Nat]
          /\ \A y \in Calls : y # c => held'[y] = held[y]
      BY <2>1, <3>1, PipeConstants
    <3>3. SumOver(held) \in Nat /\ SumOver(held') = (SumOver(held) - held[c]) + held'[c]
      BY <3>2, SumChanged
    <3> QED
      BY <3>1, <3>3
  <2>3. held[c] = 0
    BY <1>6, <2>1
  <2>4. permits - w \in Nat
    BY <1>1, <1>2, <2>1
  <2>5. permits' + SumOver(held') = PipeCapacity
    BY <1>1, <1>2, <2>1, <2>2, <2>3
  <2>6. held' \in [Calls -> Nat] /\ \A e \in Calls : pipePc'[e] # "writing" => held'[e] = 0
    BY <1>1, <1>2, <1>7, <2>1
  <2> QED
    BY <1>1, <2>4, <2>5, <2>6 DEF PermitsInv
<1>10. QueueInv'
  <2>1. ASSUME NEW i \in 1..(n - 1) PROVE pipePc'[queue'[i]] = "queued"
    <3>1. queue'[i] \in Calls /\ pipePc[queue'[i]] = "queued" /\ queue'[i] # c
      BY <1>3, <1>4, <1>5, <1>6
    <3> QED
      BY <1>7, <3>1
  <2>2. ASSUME NEW e \in Calls, pipePc'[e] = "queued" PROVE \E i \in 1..(n - 1) : queue'[i] = e
    <3>1. e # c /\ pipePc[e] = "queued"
      BY <1>7, <2>2
    <3>2. PICK i \in 1..n : queue[i] = e
      BY <1>5, <3>1
    <3>3. i # 1 /\ i - 1 \in 1..(n - 1) /\ (i - 1) + 1 = i
      BY <1>3, <3>1, <3>2
    <3> QED
      BY <1>3, <3>2, <3>3
  <2>3. ASSUME NEW i \in 1..(n - 1), NEW j \in 1..(n - 1), queue'[i] = queue'[j] PROVE i = j
    <3>1. queue[i + 1] = queue[j + 1] /\ i + 1 \in 1..n /\ j + 1 \in 1..n
      BY <1>3, <1>4, <2>3
    <3>2. i + 1 = j + 1
      BY <1>5, <3>1
    <3> QED
      BY <3>2
  <2> QED
    BY <1>3, <2>1, <2>2, <2>3 DEF QueueInv
<1> QED
  BY <1>8, <1>9, <1>10 DEF PipeInv

\* Steps of a writing call leave the queue to the others.
LEMMA QueueStays ==
    ASSUME PipeInv, NEW c \in Calls, NEW v, v # "queued", pipePc[c] = "writing",
           pipePc' = [pipePc EXCEPT ![c] = v], queue' = queue
    PROVE  QueueInv'
<1>1. \A e \in Calls : pipePc'[e] = "queued" <=> pipePc[e] = "queued"
  BY DEF PipeInv, PipeTypes
<1> QED
  BY <1>1 DEF PipeInv, QueueInv

LEMMA WriteNextKeeps ==
    ASSUME PipeInv, NEW c \in Calls, NEW m \in Pipe!Units, Pipe!WriteNext(c, m)
    PROVE  PipeInv'
<1>1. /\ pipePc[c] = "writing" /\ batches[c] # <<>> /\ m <= Len(Head(batches[c]).data)
      /\ area' = [area EXCEPT ![c] = Pipe!Write(area[c], Head(batches[c]), m)]
      /\ reported' = [reported EXCEPT ![c] = reported[c] + m]
      /\ batches' = [batches EXCEPT ![c] = Tail(batches[c])]
      /\ UNCHANGED <<input, permits, held, queue, pipePc>>
  BY DEF Pipe!WriteNext
<1>2. /\ input[c] \in Inputs /\ batches[c] \in Seq(Segments) /\ area[c] \in Areas /\ reported[c] \in Nat
      /\ m \in Nat /\ Planned(input[c], batches[c], area[c], reported[c])
  BY <1>1, UnitsType DEF PipeInv, PipeTypes, BatchInv
<1> DEFINE left == Tail(batches[c])
           a == Pipe!Write(area[c], Head(batches[c]), m)
           n == reported[c] + m
<1>3. left \in Seq(Segments) /\ a \in Areas /\ Planned(input[c], left, a, n)
  BY <1>1, <1>2, BatchWritten
<1>4. n \in Nat
  BY <1>2
<1>5. area' = [area EXCEPT ![c] = a] /\ reported' = [reported EXCEPT ![c] = n] /\ batches' = [batches EXCEPT ![c] = left]
  BY <1>1
<1> HIDE DEF left, a, n
<1>6. PipeTypes'
  BY <1>1, <1>3, <1>4, <1>5 DEF PipeInv, PipeTypes
<1>7. ASSUME NEW e \in Calls
      PROVE  /\ pipePc'[e] = "idle" => area'[e] = Pipe!Empty /\ reported'[e] = 0
             /\ pipePc'[e] # "idle" => Planned(input'[e], batches'[e], area'[e], reported'[e])
             /\ pipePc'[e] = "ok" => batches'[e] = <<>>
  <2>1. CASE e = c
    <3>1. area'[e] = a /\ reported'[e] = n /\ batches'[e] = left
      BY <1>5, <2>1 DEF PipeInv, PipeTypes
    <3> QED
      BY <1>1, <1>3, <2>1, <3>1
  <2>2. CASE e # c
    <3>1. area'[e] = area[e] /\ reported'[e] = reported[e] /\ batches'[e] = batches[e]
      BY <1>5, <2>2 DEF PipeInv, PipeTypes
    <3> QED
      BY <1>1, <3>1 DEF PipeInv, BatchInv
  <2> QED
    BY <2>1, <2>2
<1>8. BatchInv'
  BY <1>7 DEF BatchInv, Pipe!Empty, Planned, Remains
<1>9. PermitsInv' /\ QueueInv'
  BY <1>1 DEF PipeInv, PermitsInv, QueueInv
<1> QED
  BY <1>6, <1>8, <1>9 DEF PipeInv

LEMMA FinishKeeps ==
    ASSUME PipeInv, NEW c \in Calls, NEW v \in {"ok", "error", "dropped"}, Pipe!Finish(c, v)
    PROVE  PipeInv'
<1>1. /\ pipePc[c] = "writing" /\ (v = "ok" => batches[c] = <<>>)
      /\ pipePc' = [pipePc EXCEPT ![c] = v] /\ permits' = permits + held[c]
      /\ held' = [held EXCEPT ![c] = 0] /\ UNCHANGED <<input, batches, queue, area, reported>>
  BY DEF Pipe!Finish
<1>2. PipeTypes' /\ BatchInv'
  <2>1. v \in CallStates \ {"idle"} /\ pipePc[c] # "idle"
    BY <1>1 DEF CallStates
  <2> QED
    BY <1>1, <2>1, BatchStays
<1>3. QueueInv'
  <2>1. v # "queued"
    OBVIOUS
  <2> QED
    BY <1>1, <2>1, QueueStays
<1>4. PermitsInv'
  <2>1. /\ permits \in Nat /\ held \in [Calls -> Nat] /\ permits + SumOver(held) = PipeCapacity
        /\ \A e \in Calls : pipePc[e] # "writing" => held[e] = 0
    BY DEF PipeInv, PermitsInv
  <2>2. 0 \in Nat
    OBVIOUS
  <2>3. SumOver(held) \in Nat /\ SumOver(held') = (SumOver(held) - held[c]) + 0
    <3>1. held' \in [Calls -> Nat] /\ held'[c] = 0 /\ \A e \in Calls : e # c => held'[e] = held[e]
      BY <1>1, <2>1, <2>2
    <3>2. /\ IsFiniteSet(Calls) /\ held \in [Calls -> Nat] /\ held' \in [Calls -> Nat]
          /\ \A y \in Calls : y # c => held'[y] = held[y]
      BY <2>1, <3>1, PipeConstants
    <3>3. SumOver(held) \in Nat /\ SumOver(held') = (SumOver(held) - held[c]) + held'[c]
      BY <3>2, SumChanged
    <3> QED
      BY <3>1, <3>3
  <2>4. permits + held[c] \in Nat /\ held[c] \in Nat
    BY <2>1
  <2>5. permits' + SumOver(held') = PipeCapacity
    BY <1>1, <2>1, <2>3, <2>4
  <2>6. held' \in [Calls -> Nat] /\ \A e \in Calls : pipePc'[e] # "writing" => held'[e] = 0
    BY <1>1, <2>1 DEF PipeInv, PipeTypes
  <2> QED
    BY <1>1, <2>4, <2>5, <2>6 DEF PermitsInv
<1> QED
  BY <1>2, <1>3, <1>4 DEF PipeInv

LEMMA DropQueuedKeeps ==
    ASSUME PipeInv, NEW c \in Calls, Pipe!DropQueued(c)
    PROVE  PipeInv'
<1>1. /\ pipePc[c] = "queued" /\ pipePc' = [pipePc EXCEPT ![c] = "dropped"]
      /\ UNCHANGED <<input, batches, permits, held, area, reported>>
  BY DEF Pipe!DropQueued
<1>2. PICK k \in DOMAIN queue : queue[k] = c /\ queue' = Pipe!RemoveAt(queue, k)
  BY DEF Pipe!DropQueued
<1>3. PipeTypes' /\ BatchInv'
  <2>1. "dropped" \in CallStates \ {"idle"} /\ "dropped" # "ok" /\ pipePc[c] # "idle"
    BY <1>1 DEF CallStates
  <2> QED
    BY <1>1, <2>1, BatchStays
<1>4. pipePc'[c] = "dropped" /\ \A e \in Calls : e # c => pipePc'[e] = pipePc[e]
  BY <1>1 DEF PipeInv, PipeTypes
<1>5. PermitsInv'
  <2>1. \A e \in Calls : pipePc'[e] # "writing" => pipePc[e] # "writing"
    BY <1>1, <1>4
  <2> QED
    BY <1>1, <2>1 DEF PipeInv, PermitsInv
<1>6. QueueInv'
  <2>1. /\ queue \in Seq(Calls) /\ \A i, j \in DOMAIN queue : queue[i] = queue[j] => i = j
    BY DEF PipeInv, QueueInv
  <2>2. /\ queue' \in Seq(Calls) /\ \A i, j \in DOMAIN queue' : queue'[i] = queue'[j] => i = j
        /\ \A i \in DOMAIN queue' : queue'[i] # queue[k] /\ \E j \in DOMAIN queue : queue[j] = queue'[i]
        /\ \A i \in DOMAIN queue : queue[i] # queue[k] => \E j \in DOMAIN queue' : queue'[j] = queue[i]
    BY <1>2, <2>1, WithoutOne
  <2>3. \A i \in DOMAIN queue : queue[i] \in Calls
    BY <2>1
  <2>4. ASSUME NEW i \in DOMAIN queue' PROVE pipePc'[queue'[i]] = "queued"
    <3>1. PICK j \in DOMAIN queue : queue[j] = queue'[i]
      BY <2>2
    <3>2. queue'[i] # c /\ queue'[i] \in Calls /\ pipePc[queue'[i]] = "queued"
      BY <1>2, <2>2, <2>3, <3>1 DEF PipeInv, QueueInv
    <3> QED
      BY <1>4, <3>2
  <2>5. ASSUME NEW e \in Calls, pipePc'[e] = "queued" PROVE \E j \in DOMAIN queue' : queue'[j] = e
    <3>1. e # c /\ pipePc[e] = "queued"
      BY <1>4, <2>5
    <3>2. PICK i \in DOMAIN queue : queue[i] = e
      BY <3>1 DEF PipeInv, QueueInv
    <3> QED
      BY <1>2, <2>2, <3>1, <3>2
  <2> QED
    BY <2>2, <2>4, <2>5 DEF QueueInv
<1> QED
  BY <1>3, <1>5, <1>6 DEF PipeInv

LEMMA PipeStep == PipeInv /\ [Pipe!Next]_(Pipe!pipeVars) => PipeInv'
<1>1. ASSUME PipeInv, UNCHANGED Pipe!pipeVars PROVE PipeInv'
  BY <1>1 DEF Pipe!pipeVars, PipeInv, PipeTypes, PermitsInv, QueueInv, BatchInv, Planned, Remains,
              Pipe!Empty
<1>2. ASSUME PipeInv, Pipe!Next PROVE PipeInv'
  <2>1. PICK c \in Calls :
            Pipe!Begin(c) \/ Pipe!Proceed(c) \/ Pipe!Finish(c, "dropped") \/ Pipe!DropQueued(c)
    BY <1>2 DEF Pipe!Next
  <2>2. CASE Pipe!Begin(c)
    BY <1>2, <2>2, BeginKeeps
  <2>3. CASE Pipe!Proceed(c)
    <3>1. CASE Pipe!Acquire(c)
      BY <1>2, <3>1, AcquireKeeps
    <3>2. CASE Pipe!Finish(c, "ok") \/ Pipe!Finish(c, "error")
      BY <1>2, <3>2, FinishKeeps
    <3>3. CASE \E n \in Pipe!Units : Pipe!WriteNext(c, n)
      BY <1>2, <3>3, WriteNextKeeps
    <3> QED
      BY <2>3, <3>1, <3>2, <3>3 DEF Pipe!Proceed
  <2>4. CASE Pipe!Finish(c, "dropped")
    BY <1>2, <2>4, FinishKeeps
  <2>5. CASE Pipe!DropQueued(c)
    BY <1>2, <2>5, DropQueuedKeeps
  <2> QED
    BY <2>1, <2>2, <2>3, <2>4, <2>5
<1> QED
  BY <1>1, <1>2

\* What the invariant promises.
LEMMA PipePromises == PipeInv => Pipe!TypeOK /\ Pipe!BatchWritesSegments
<1> SUFFICES ASSUME PipeInv PROVE Pipe!TypeOK /\ Pipe!BatchWritesSegments
  OBVIOUS
<1>1. /\ input \in [Calls -> Inputs] /\ batches \in [Calls -> Seq(Segments)]
      /\ pipePc \in [Calls -> CallStates] /\ area \in [Calls -> Areas] /\ reported \in [Calls -> Nat]
  BY DEF PipeInv, PipeTypes
<1>2. \A c \in Calls : \A i \in DOMAIN batches[c] : batches[c][i].off \in Pipe!Units
  <2> SUFFICES ASSUME NEW c \in Calls, NEW i \in DOMAIN batches[c] PROVE batches[c][i].off \in Pipe!Units
    OBVIOUS
  <2>1. batches[c] \in Seq(Segments)
    BY <1>1
  <2>2. batches[c][i] \in Segments
    BY <2>1
  <2> QED
    BY <2>2, SegmentType
<1>3. permits \in 0..PipeCapacity /\ held \in [Calls -> 0..PipeCapacity]
  <2>1. permits \in Nat /\ held \in [Calls -> Nat] /\ permits + SumOver(held) = PipeCapacity
    BY DEF PipeInv, PermitsInv
  <2>2. PipeCapacity \in Nat /\ IsFiniteSet(Calls)
    BY PipeConstants
  <2>3. ASSUME NEW c \in Calls PROVE SumOver(held) \in Nat /\ SumOver(held) >= held[c]
    BY <2>1, <2>2, SumChanged
  <2>4. SumOver(held) \in Nat
    <3>1. CASE Calls = {}
      <4>1. held = [x \in Calls |-> 0]
        BY <2>1, <3>1
      <4> QED
        BY <2>2, <4>1, SumOfNone
    <3>2. CASE Calls # {}
      BY <2>3, <3>2
    <3> QED
      BY <3>1, <3>2
  <2>5. permits <= PipeCapacity /\ SumOver(held) <= PipeCapacity
    BY <2>1, <2>2, <2>4
  <2>6. \A c \in Calls : held[c] \in Nat /\ held[c] <= PipeCapacity
    BY <2>1, <2>2, <2>3, <2>5
  <2> QED
    BY <2>1, <2>2, <2>5, <2>6
<1>4. Pipe!ToSet(queue) = {c \in Calls : pipePc[c] = "queued"}
  <2>1. /\ \A i \in DOMAIN queue : queue[i] \in Calls /\ pipePc[queue[i]] = "queued"
        /\ \A c \in Calls : pipePc[c] = "queued" => \E i \in DOMAIN queue : queue[i] = c
    BY DEF PipeInv, QueueInv
  <2> QED
    BY <2>1 DEF Pipe!ToSet
<1>5. Pipe!TypeOK
  BY <1>1, <1>2, <1>3, <1>4 DEF Pipe!TypeOK, CallStates
<1>6. ASSUME NEW c \in Calls, pipePc[c] = "ok", reported[c] = Pipe!Total(input[c])
      PROVE  \E order \in Pipe!Orders(input[c]) :
                 area[c] = Pipe!FoldLeft(Pipe!WriteWhole, Pipe!Empty, Pipe!Sorted(input[c], order))
  <2>1. batches[c] = <<>> /\ Planned(input[c], batches[c], area[c], reported[c])
    BY <1>6 DEF PipeInv, BatchInv
  <2>2. PICK order \in Pipe!Orders(input[c]) : Remains(input[c], batches[c], area[c], reported[c], order)
    BY <2>1 DEF Planned
  <2>3. input[c] \in Inputs /\ area[c] \in Areas /\ reported[c] \in Nat
    BY <1>1
  <2>4. reported[c] = SizeOf(input[c])
    BY <1>6, <2>3, InputType, TotalIs
  <2>5. reported[c] + SizeOf(batches[c]) = SizeOf(input[c])
    BY <2>1, <2>3, <2>4, SizeOfNone
  <2>6. Apply(area[c], batches[c]) = Apply(Pipe!Empty, Pipe!Sorted(input[c], order))
    BY <2>2, <2>5 DEF Remains
  <2>7. area[c] = Apply(Pipe!Empty, Pipe!Sorted(input[c], order))
    BY <2>1, <2>3, <2>6, ApplyNone
  <2> QED
    BY <2>7 DEF Apply
<1>7. Pipe!BatchWritesSegments
  BY <1>6 DEF Pipe!BatchWritesSegments
<1> QED
  BY <1>5, <1>7

-----------------------------------------------------------------------------
(* The components side by side: a step of the composition is a step of each *)
(* component, or leaves it alone.                                           *)

LEMMA PartsInit ==
    Init => Ring!Init /\ Port!Init /\ Pool!Init /\ Pipe!Init /\ File!Init /\ Store!Init
BY DEF Init

LEMMA PartsStep ==
    ASSUME [Next]_vars
    PROVE  /\ [Ring!Next]_(Ring!ringVars) /\ [Port!Next]_(Port!portVars)
           /\ [Pool!Next]_(Pool!poolVars) /\ [Pipe!Next]_(Pipe!pipeVars)
           /\ [File!Next]_(File!fileVars) /\ [Store!Next]_(Store!storeVars)
<1>1. CASE UNCHANGED vars
  BY <1>1 DEF vars, ringVars, portVars, poolVars, pipeVars, fileVars, storeVars,
              Ring!ringVars, Port!portVars, Pool!poolVars, Pipe!pipeVars, File!fileVars, Store!storeVars
<1>2. CASE Next
  BY <1>2 DEF Next, Only, Rest, ringVars, portVars, poolVars, pipeVars, fileVars, storeVars,
              Ring!ringVars, Port!portVars, Pool!poolVars, Pipe!pipeVars, File!fileVars, Store!storeVars
<1> QED
  BY <1>1, <1>2

-----------------------------------------------------------------------------
(* The io_uring back end and the snapshot store have their invariants in    *)
(* modules of their own.                                                    *)

RingP == INSTANCE IoUring_proofs
StoreP == INSTANCE SnapshotStore_proofs

LEMMA RingStarts == Ring!Init => RingP!RingInv
<1>1. RingP!RingConstants
  BY StorageAssumption DEF RingP!RingConstants
<1>2. Ring!Init => RingP!Init
  BY DEF Ring!Init, RingP!Init
<1> QED
  BY <1>1, <1>2, RingP!RingInvInit

LEMMA RingStep == RingP!RingInv /\ [Ring!Next]_(Ring!ringVars) => RingP!RingInv'
<1>1. Ring!Next => RingP!Next
  BY DEF Ring!Next, Ring!Initialise, Ring!Call, Ring!Lock, Ring!LowestSet, Ring!TakeBuffer,
         Ring!UseBuffer, Ring!Finish, Ring!Return, Ring!UsedMask, Ring!Push, Ring!Submit,
         Ring!SubmitFails, Ring!WaitInterrupted, Ring!Reap, Ring!Complete, Ring!Step,
         Ring!Interrupted, Ring!queues,
         RingP!Next, RingP!Initialise, RingP!Call, RingP!Lock, RingP!LowestSet, RingP!TakeBuffer,
         RingP!UseBuffer, RingP!Finish, RingP!Return, RingP!UsedMask, RingP!Push, RingP!Submit,
         RingP!SubmitFails, RingP!WaitInterrupted, RingP!Reap, RingP!Complete, RingP!Step,
         RingP!Interrupted, RingP!queues
<1>2. UNCHANGED Ring!ringVars => UNCHANGED RingP!ringVars
  BY DEF Ring!ringVars, RingP!ringVars
<1> QED
  BY <1>1, <1>2, RingP!RingInvStep

LEMMA RingPromises == RingP!RingInv => Ring!OwnCompletion /\ Ring!NoBufferTaken
<1>1. RingP!RingInv => RingP!OwnCompletion
  BY DEF RingP!RingInv, RingP!QuietInv, RingP!OwnCompletion
<1>2. RingP!OwnCompletion => Ring!OwnCompletion
  BY DEF Ring!OwnCompletion, RingP!OwnCompletion
<1>3. RingP!NoBufferTaken => Ring!NoBufferTaken
  BY DEF Ring!NoBufferTaken, RingP!NoBufferTaken, Ring!UsedMask, RingP!UsedMask
<1> QED
  BY <1>1, <1>2, <1>3 DEF RingP!RingInv, RingP!BufferInv

LEMMA StoreStarts == Store!Init => StoreP!StoreInv
<1>1. StoreP!StoreConstants
  BY StorageAssumption DEF StoreP!StoreConstants
<1>2. Store!Init => StoreP!Init
  BY DEF Store!Init, Store!Absent, Store!NoCall, StoreP!Init, StoreP!Absent, StoreP!NoCall
<1> QED
  BY <1>1, <1>2, StoreP!StoreInit

LEMMA StoreSteps == StoreP!StoreInv /\ [Store!Next]_(Store!storeVars) => StoreP!StoreInv'
<1>1. Store!Next => StoreP!Next
  BY DEF Store!Next, Store!Crash, Store!Start, Store!Work, Store!LockProgress, Store!Look, Store!Read,
         Store!LockWrite, Store!WriteTemp, Store!WriteFails, Store!Rename, Store!Remove, Store!Step,
         Store!Return, Store!Snapshot, Store!Absent, Store!Torn, Store!NoCall,
         StoreP!Next, StoreP!Crash, StoreP!Start, StoreP!Work, StoreP!LockProgress, StoreP!Look,
         StoreP!Read, StoreP!LockWrite, StoreP!WriteTemp, StoreP!WriteFails, StoreP!Rename,
         StoreP!Remove, StoreP!Step, StoreP!Return, StoreP!Snapshot, StoreP!Absent, StoreP!Torn,
         StoreP!NoCall
<1>2. UNCHANGED Store!storeVars => UNCHANGED StoreP!storeVars
  BY DEF Store!storeVars, StoreP!storeVars
<1> QED
  BY <1>1, <1>2, StoreP!StoreStep

LEMMA StorePromises == StoreP!StoreInv => Store!ReadsWhole /\ Store!ProgressKept
BY DEF StoreP!StoreInv, StoreP!ReadsWhole, StoreP!ProgressKept, StoreP!Torn,
       Store!ReadsWhole, Store!ProgressKept, Store!Torn

-----------------------------------------------------------------------------
(* The invariant of the composition, and what the storage promises.         *)

StorageInv == RingP!RingInv /\ PortInv /\ PoolInv /\ PipeInv /\ FileInv /\ StoreP!StoreInv

LEMMA StorageInit == Init => StorageInv
BY PartsInit, RingStarts, PortInit, PoolInvInit, PipeInit, FileInit, StoreStarts DEF StorageInv

LEMMA StorageStep == StorageInv /\ [Next]_vars => StorageInv'
BY PartsStep, RingStep, PortStep, PoolInvStep, PipeStep, FileStep, StoreSteps DEF StorageInv

\* Every variable of the storage stays in its range.
THEOREM StorageTypes == Spec => []TypeOK
<1>1. RingP!RingInv => Ring!TypeOK
  BY DEF RingP!RingInv, RingP!TypeOK, Ring!TypeOK
<1>2. StoreP!StoreInv => Store!TypeOK
  <2>1. StoreP!Whole = Store!Whole /\ StoreP!Absent = Store!Absent /\ StoreP!Torn = Store!Torn
    BY DEF StoreP!Whole, StoreP!Absent, StoreP!Torn, Store!Whole, Store!Absent, Store!Torn
  <2> DEFINE some == StoreP!Whole \cup {StoreP!Absent, StoreP!Torn}
             same == Store!Whole \cup {Store!Absent, Store!Torn}
  <2>2. some = same
    BY <2>1
  <2>3. StoreP!TypeOK => Store!TypeOK
    <3> SUFFICES ASSUME StoreP!TypeOK PROVE Store!TypeOK
      OBVIOUS
    <3>1. /\ final \in [Keys -> some] /\ temp \in [Keys -> some] /\ got \in [Clients -> some]
      BY Zenon DEF StoreP!TypeOK
    <3>2. /\ writeLock \in Clients \cup {Nobody} /\ progressLock \in Clients \cup {Nobody}
          /\ storePc \in [Clients -> {"idle", "lock progress", "look", "read", "lock write",
                                      "write", "writing", "rename", "remove"}]
          /\ answerOf \in [Clients -> {"none", "ok", "error", "nothing"}]
          /\ acked \in [Keys -> SUBSET Parts]
          /\ calls \in 0..MaxCalls /\ crashes \in 0..MaxCrashes
      BY Zenon DEF StoreP!TypeOK
    <3>3. /\ final \in [Keys -> same] /\ temp \in [Keys -> same] /\ got \in [Clients -> same]
      BY <2>2, <3>1, Zenon
    <3> QED
      BY <3>2, <3>3, Zenon DEF Store!TypeOK
  <2> QED
    BY <2>3 DEF StoreP!StoreInv
<1>3. StorageInv => TypeOK
  BY <1>1, <1>2, PipePromises DEF StorageInv, PortInv, PoolInv, FileInv, TypeOK
<1> QED
  BY <1>3, StorageInit, StorageStep, PTL DEF Spec

\* A batch that counted every byte as written has left the file as its
\* segments, one by one in the order of their offsets, would have: sorting,
\* merging and the threshold neither lose, move nor repeat a byte, whatever
\* the other calls do, and whichever of them fail or are dropped.
THEOREM BatchesWriteSegments == Spec => []BatchWritesSegments
<1>1. StorageInv => BatchWritesSegments
  BY PipePromises DEF StorageInv, BatchWritesSegments
<1> QED
  BY <1>1, StorageInit, StorageStep, PTL DEF Spec

\* A call that returned Ok was answered by its own completion: a sync of the
\* ring as long as no wait for one was interrupted, a write of the completion
\* port always, although a caller may drop its write and the poller cancels
\* what is left at the end.
THEOREM CompletionsAreOwn == Spec => []OwnCompletion
<1>1. StorageInv => OwnCompletion
  BY RingPromises, PortPromises DEF StorageInv, OwnCompletion
<1> QED
  BY <1>1, StorageInit, StorageStep, PTL DEF Spec

\* Buffers are neither lost nor made: the permits of the pool are those of the
\* buffers that are out, although its counters are separate atomics; and of the
\* fixed buffers of the ring, however many there are, none is ever given out.
THEOREM BuffersAreBalanced == Spec => []BuffersBalance
<1>1. StorageInv => BuffersBalance
  BY RingPromises DEF StorageInv, PoolInv, BuffersBalance
<1> QED
  BY <1>1, StorageInit, StorageStep, PTL DEF Spec

\* The OVERLAPPED and the buffer of a write are not freed before the kernel is
\* done with them, unless they are leaked on purpose at the end.
THEOREM MemoryIsHeld == Spec => []MemoryHeld
<1>1. StorageInv => MemoryHeld
  BY PortPromises DEF StorageInv, MemoryHeld
<1> QED
  BY <1>1, StorageInit, StorageStep, PTL DEF Spec

\* A writer that was told Ok has its data in its region of the file, over short
\* writes and whatever threads of dropped writes land at any time.
THEOREM OkMeansWritten == Spec => []WrittenIsThere
<1>1. StorageInv => WrittenIsThere
  BY OkIsWritten DEF StorageInv, WrittenIsThere
<1> QED
  BY <1>1, StorageInit, StorageStep, PTL DEF Spec

\* What the writers had written when sync was called is durable when it
\* returns.
THEOREM SyncIsDurable == Spec => []SyncCovers
<1>1. StorageInv => SyncCovers
  BY DEF StorageInv, FileInv, FlushInv, SyncCovers
<1> QED
  BY <1>1, StorageInit, StorageStep, PTL DEF Spec

\* Nobody reads half a snapshot, although reads take no lock and the process
\* dies between any two steps.
THEOREM SnapshotsReadWhole == Spec => []ReadsWhole
<1>1. StorageInv => ReadsWhole
  BY StorePromises DEF StorageInv, ReadsWhole
<1> QED
  BY <1>1, StorageInit, StorageStep, PTL DEF Spec

\* A fragment whose update returned Ok is in the snapshot of its task until a
\* save or a removal drops it.
THEOREM SnapshotsKeepProgress == Spec => []ProgressKept
<1>1. StorageInv => ProgressKept
  BY StorePromises DEF StorageInv, ProgressKept
<1> QED
  BY <1>1, StorageInit, StorageStep, PTL DEF Spec
==============================================================================
