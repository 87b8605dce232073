----------------------- MODULE MCServices_grants_proofs -----------------------
(***************************************************************************)
(* Proofs about what a download is granted, and what it reports, for all   *)
(* constants that satisfy ServicesAssumption: a connection of the pool, so *)
(* many bytes a second by the rate limiter, a directory by the             *)
(* configuration, the fragments of its plan; the numbers of the meters.    *)
(* Each has an inductive invariant of its own; at the end they are put     *)
(* together.  Before that, the choice of a source by its weight, which is  *)
(* a fact about any list of sources.                                       *)
(***************************************************************************)
EXTENDS MCServices, DataLemmas, FiniteSetTheorems, WellFoundedInduction, SequenceTheorems, TLAPS

-----------------------------------------------------------------------------
(* The connection pool.                                                     *)

\* What of ServicesAssumption the pool needs: finitely many callers and hosts,
\* and as many identities as a map and its callers can refer to.
LEMMA PoolSizes ==
    /\ IsFiniteSet(Callers) /\ IsFiniteSet(Hosts)
    /\ HostOf \in [Callers -> Hosts]
    /\ None \notin Sems
    /\ IsFiniteSet(Sems) => Cardinality(Hosts) + Cardinality(Callers) <= Cardinality(Sems)
    /\ MaxGlobal \in Nat /\ MaxPerHost \in Nat /\ MaxRequests \in Nat
BY ServicesAssumption

LEMMA PoolCardinality == \A S : Pool!Cardinality(S) = Cardinality(S)
<1> SUFFICES ASSUME NEW S PROVE Pool!Cardinality(S) = Cardinality(S)
  OBVIOUS
<1> QED
  BY DEF Pool!Cardinality, Cardinality

\* The callers with a permit of the semaphore s.
Holders(s) == {c \in Pool!In(Pool!HoldsHost) : sem[c] = s}

\* Whoever waits for a host semaphore or has its permit refers to it.
ReferencesInv == \A c \in Callers : pc[c] \in {"host"} \cup Pool!HoldsHost => sem[c] \in Sems

\* PermitsConserved, with the callers that hold a permit counted here.
Balanced ==
    /\ global + Cardinality(Pool!In(Pool!HoldsGlobal)) = MaxGlobal
    /\ \A s \in Sems : avail[s] + Cardinality(Holders(s)) = MaxPerHost
    /\ active = Cardinality(Pool!In({"cleanup", "held"}))

LEMMA PoolPromises == Balanced <=> Pool!PermitsConserved
BY PoolCardinality DEF Balanced, Pool!PermitsConserved, Holders

PoolInv == Pool!TypeOK /\ Balanced /\ ReferencesInv

PC == {"idle", "global"} \cup Pool!HoldsGlobal \cup Pool!HoldsHost

USE DEF Pool!HoldsGlobal, Pool!HoldsHost, PC

-----------------------------------------------------------------------------
(* Counting callers.                                                        *)

\* Two sets of callers that differ in one caller at most.
LEMMA OneCaller ==
    ASSUME NEW A \in SUBSET Callers, NEW B \in SUBSET Callers,
           NEW c \in Callers, \A d \in Callers \ {c} : d \in A <=> d \in B
    PROVE  /\ Cardinality(A) \in Nat /\ Cardinality(B) \in Nat
           /\ c \in A /\ c \notin B => Cardinality(B) = Cardinality(A) - 1
           /\ c \notin A /\ c \in B => Cardinality(B) = Cardinality(A) + 1
           /\ (c \in A <=> c \in B) => Cardinality(B) = Cardinality(A)
<1>1. IsFiniteSet(A) /\ IsFiniteSet(B)
  BY FS_Subset, PoolSizes
<1>2. Cardinality(A) \in Nat /\ Cardinality(B) \in Nat
  BY <1>1, FS_CardinalityType
<1>3. CASE c \in A /\ c \notin B
  <2>1. B = A \ {c}
    BY <1>3
  <2> QED
    BY <1>1, <1>2, <1>3, <2>1, FS_RemoveElement
<1>4. CASE c \notin A /\ c \in B
  <2>1. B = A \cup {c}
    BY <1>4
  <2> QED
    BY <1>1, <1>2, <1>4, <2>1, FS_AddElement
<1>5. CASE c \in A <=> c \in B
  <2>1. A = B
    BY <1>5
  <2> QED
    BY <1>2, <1>5, <2>1
<1> QED
  BY <1>2, <1>3, <1>4, <1>5

\* While a host has no semaphore, one of the identities is in no one's hands.
LEMMA UnusedExists ==
    ASSUME NEW k \in Hosts, map[k] = None
    PROVE  \E s \in Sems : Pool!Unused(s)
<1> SUFFICES ASSUME \A s \in Sems : ~Pool!Unused(s) PROVE FALSE
  OBVIOUS
<1> DEFINE M == {map[h] : h \in Hosts}
           C == {sem[c] : c \in Callers}
<1>1. IsFiniteSet(M) /\ Cardinality(M) <= Cardinality(Hosts)
  <2> DEFINE m == [h \in Hosts |-> map[h]]
  <2>1. m \in Surjection(Hosts, M)
    BY DEF Surjection
  <2> HIDE DEF m
  <2> QED
    BY <2>1, FS_Surjection, PoolSizes
<1>2. IsFiniteSet(C) /\ Cardinality(C) <= Cardinality(Callers)
  <2> DEFINE m == [c \in Callers |-> sem[c]]
  <2>1. m \in Surjection(Callers, C)
    BY DEF Surjection
  <2> HIDE DEF m
  <2> QED
    BY <2>1, FS_Surjection, PoolSizes
<1>3. None \in M \cup C /\ Sems \subseteq (M \cup C) \ {None}
  BY PoolSizes DEF Pool!Unused
<1> HIDE DEF M, C
<1>4. /\ IsFiniteSet(M \cup C) /\ IsFiniteSet(M \cap C)
      /\ Cardinality(M \cup C) = Cardinality(M) + Cardinality(C) - Cardinality(M \cap C)
  BY <1>1, <1>2, FS_Union, FS_Intersection
<1>5. IsFiniteSet(Sems) /\ Cardinality(Sems) <= Cardinality(M \cup C) - 1
  <2> DEFINE D == (M \cup C) \ {None}
  <2>1. IsFiniteSet(D) /\ Cardinality(D) = Cardinality(M \cup C) - 1
    BY <1>3, <1>4, FS_RemoveElement
  <2>2. Sems \subseteq D
    BY <1>3
  <2> HIDE DEF D
  <2> QED
    BY <2>1, <2>2, FS_Subset
<1>6. /\ Cardinality(M) \in Nat /\ Cardinality(C) \in Nat /\ Cardinality(M \cap C) \in Nat
      /\ Cardinality(M \cup C) \in Nat /\ Cardinality(Sems) \in Nat
      /\ Cardinality(Hosts) \in Nat /\ Cardinality(Callers) \in Nat
  BY <1>1, <1>2, <1>4, <1>5, FS_CardinalityType, PoolSizes
<1> QED
  BY <1>1, <1>2, <1>4, <1>5, <1>6, PoolSizes

-----------------------------------------------------------------------------
(* The step of one caller.                                                  *)

One(b) == IF b THEN 1 ELSE 0

LEMMA OneType == \A b : One(b) \in {0, 1}
BY DEF One

\* What the step of a caller changes in the number of those who stand in
\* pcs, and of those who hold a permit of s.
LEMMA CountStep ==
    ASSUME PoolInv, NEW c \in Callers, pc' \in [Callers -> PC],
           \A d \in Callers \ {c} : pc'[d] = pc[d] /\ sem'[d] = sem[d],
           NEW pcs, NEW s
    PROVE  /\ Cardinality(Pool!In(pcs)) \in Nat /\ Cardinality(Pool!In(pcs)') \in Nat
           /\ Cardinality(Pool!In(pcs)') = Cardinality(Pool!In(pcs)) - One(pc[c] \in pcs) + One(pc'[c] \in pcs)
           /\ Cardinality(Holders(s)) \in Nat /\ Cardinality(Holders(s)') \in Nat
           /\ Cardinality(Holders(s)') = Cardinality(Holders(s))
                  - One(pc[c] \in Pool!HoldsHost /\ sem[c] = s) + One(pc'[c] \in Pool!HoldsHost /\ sem'[c] = s)
<1> DEFINE A == {d \in Callers : pc[d] \in pcs}
           B == {d \in Callers : pc'[d] \in pcs}
           H == {d \in Callers : pc[d] \in Pool!HoldsHost /\ sem[d] = s}
           J == {d \in Callers : pc'[d] \in Pool!HoldsHost /\ sem'[d] = s}
<1>1. Pool!In(pcs) = A /\ Pool!In(pcs)' = B /\ Holders(s) = H /\ Holders(s)' = J
  BY DEF Pool!In, Holders
<1>2. /\ A \in SUBSET Callers /\ B \in SUBSET Callers
      /\ H \in SUBSET Callers /\ J \in SUBSET Callers
  OBVIOUS
<1>3. \A d \in Callers \ {c} : (d \in A <=> d \in B) /\ (d \in H <=> d \in J)
  OBVIOUS
<1>4. /\ c \in A <=> pc[c] \in pcs
      /\ c \in B <=> pc'[c] \in pcs
      /\ c \in H <=> pc[c] \in Pool!HoldsHost /\ sem[c] = s
      /\ c \in J <=> pc'[c] \in Pool!HoldsHost /\ sem'[c] = s
  OBVIOUS
<1> HIDE DEF A, B, H, J
<1>5. /\ Cardinality(A) \in Nat /\ Cardinality(B) \in Nat
      /\ Cardinality(B) = Cardinality(A) - One(c \in A) + One(c \in B)
  BY <1>2, <1>3, OneCaller DEF PoolInv, One
<1>6. /\ Cardinality(H) \in Nat /\ Cardinality(J) \in Nat
      /\ Cardinality(J) = Cardinality(H) - One(c \in H) + One(c \in J)
  BY <1>2, <1>3, OneCaller DEF PoolInv, One
<1> QED
  BY <1>1, <1>4, <1>5, <1>6 DEF One

\* One caller moves, and the variables keep their types.
Moves(c) ==
    /\ pc' \in [Callers -> PC]
    /\ \A d \in Callers \ {c} : pc'[d] = pc[d] /\ sem'[d] = sem[d]
    /\ sem' \in [Callers -> Sems \cup {None}]
    /\ pc'[c] \in {"host"} \cup Pool!HoldsHost => sem'[c] \in Sems
    /\ todo' \in [Callers -> SUBSET Hosts]
    /\ map' \in [Hosts -> Sems \cup {None}]
    /\ requests' \in 0..MaxRequests

\* Each semaphore changes by what the caller takes or gives back.
Balances(c) ==
    /\ global' \in Nat
    /\ global' = global + One(pc[c] \in Pool!HoldsGlobal) - One(pc'[c] \in Pool!HoldsGlobal)
    /\ active' = active - One(pc[c] \in {"cleanup", "held"}) + One(pc'[c] \in {"cleanup", "held"})
    /\ avail' \in [Sems -> Nat]
    /\ \A s \in Sems : avail'[s] = avail[s] + One(pc[c] \in Pool!HoldsHost /\ sem[c] = s)
                                            - One(pc'[c] \in Pool!HoldsHost /\ sem'[c] = s)

\* A step that moves one caller and balances keeps the invariant.
LEMMA CallerStep ==
    ASSUME PoolInv, NEW c \in Callers, Moves(c), Balances(c)
    PROVE  PoolInv'
<1>1. /\ pc \in [Callers -> PC] /\ MaxGlobal \in Nat /\ MaxPerHost \in Nat
      /\ global \in Nat /\ active \in Nat /\ avail \in [Sems -> 0..MaxPerHost]
      /\ global + Cardinality(Pool!In(Pool!HoldsGlobal)) = MaxGlobal
      /\ \A s \in Sems : avail[s] + Cardinality(Holders(s)) = MaxPerHost
      /\ active = Cardinality(Pool!In({"cleanup", "held"}))
  BY PoolSizes DEF PoolInv, Pool!TypeOK, Balanced, Holders
<1>2. /\ pc' \in [Callers -> PC]
      /\ \A d \in Callers \ {c} : pc'[d] = pc[d] /\ sem'[d] = sem[d]
  BY DEF Moves
<1>3. /\ Cardinality(Pool!In(Pool!HoldsGlobal)) \in Nat /\ Cardinality(Pool!In(Pool!HoldsGlobal)') \in Nat
      /\ Cardinality(Pool!In(Pool!HoldsGlobal)') = Cardinality(Pool!In(Pool!HoldsGlobal))
            - One(pc[c] \in Pool!HoldsGlobal) + One(pc'[c] \in Pool!HoldsGlobal)
  BY <1>2, CountStep
<1>4. global' + Cardinality(Pool!In(Pool!HoldsGlobal)') = MaxGlobal /\ global' \in 0..MaxGlobal
  <2>1. One(pc[c] \in Pool!HoldsGlobal) \in {0, 1} /\ One(pc'[c] \in Pool!HoldsGlobal) \in {0, 1}
    BY OneType
  <2> DEFINE a == One(pc[c] \in Pool!HoldsGlobal)
             b == One(pc'[c] \in Pool!HoldsGlobal)
             n == Cardinality(Pool!In(Pool!HoldsGlobal))
             k == Cardinality(Pool!In(Pool!HoldsGlobal)')
  <2>2. /\ a \in {0, 1} /\ b \in {0, 1} /\ n \in Nat /\ k \in Nat
        /\ k = n - a + b /\ global' = global + a - b /\ global + n = MaxGlobal
        /\ global' \in Nat
    BY <1>1, <1>3, <2>1 DEF Balances
  <2> HIDE DEF a, b, n, k
  <2>3. global' + k = MaxGlobal /\ global' \in 0..MaxGlobal
    BY <1>1, <2>2
  <2> QED
    BY <2>3 DEF k
<1>5. /\ Cardinality(Pool!In({"cleanup", "held"})') \in Nat
      /\ Cardinality(Pool!In({"cleanup", "held"})') = Cardinality(Pool!In({"cleanup", "held"}))
            - One(pc[c] \in {"cleanup", "held"}) + One(pc'[c] \in {"cleanup", "held"})
  BY <1>2, CountStep
<1>6. active' = Cardinality(Pool!In({"cleanup", "held"})') /\ active' \in Nat
  BY <1>1, <1>5 DEF Balances
<1>7. ASSUME NEW s \in Sems
      PROVE  avail'[s] + Cardinality(Holders(s)') = MaxPerHost /\ avail'[s] \in 0..MaxPerHost
  <2>1. /\ Cardinality(Holders(s)) \in Nat /\ Cardinality(Holders(s)') \in Nat
        /\ Cardinality(Holders(s)') = Cardinality(Holders(s))
              - One(pc[c] \in Pool!HoldsHost /\ sem[c] = s) + One(pc'[c] \in Pool!HoldsHost /\ sem'[c] = s)
    BY <1>2, CountStep
  <2>2. avail[s] \in Nat /\ avail'[s] \in Nat /\ avail[s] + Cardinality(Holders(s)) = MaxPerHost
    BY <1>1 DEF Balances
  <2> DEFINE a == One(pc[c] \in Pool!HoldsHost /\ sem[c] = s)
             b == One(pc'[c] \in Pool!HoldsHost /\ sem'[c] = s)
             n == Cardinality(Holders(s))
             k == Cardinality(Holders(s)')
  <2>3. /\ a \in {0, 1} /\ b \in {0, 1} /\ n \in Nat /\ k \in Nat
        /\ k = n - a + b /\ avail'[s] = avail[s] + a - b /\ avail[s] + n = MaxPerHost
    BY <2>1, <2>2, OneType DEF Balances
  <2> HIDE DEF a, b, n, k
  <2>4. avail'[s] + k = MaxPerHost /\ avail'[s] \in 0..MaxPerHost
    BY <1>1, <2>2, <2>3
  <2> QED
    BY <2>4 DEF k
<1>8. Pool!TypeOK'
  BY <1>4, <1>6, <1>7 DEF Pool!TypeOK, Moves, Balances
<1>9. ReferencesInv'
  BY <1>2 DEF PoolInv, ReferencesInv, Moves
<1>10. Balanced'
  BY <1>4, <1>6, <1>7 DEF Balanced, Holders
<1> QED
  BY <1>1, <1>8, <1>9, <1>10, PoolSizes DEF PoolInv

-----------------------------------------------------------------------------
(* The invariant.                                                           *)

LEMMA PoolInit == Pool!Init => PoolInv
<1> SUFFICES ASSUME Pool!Init PROVE PoolInv
  OBVIOUS
<1>1. /\ Pool!In(Pool!HoldsGlobal) = {} /\ Pool!In({"cleanup", "held"}) = {}
      /\ \A s \in Sems : {c \in Pool!In(Pool!HoldsHost) : sem[c] = s} = {}
  BY DEF Pool!Init, Pool!In
<1>2. Balanced
  <2>1. /\ Cardinality(Pool!In(Pool!HoldsGlobal)) = 0 /\ Cardinality(Pool!In({"cleanup", "held"})) = 0
        /\ \A s \in Sems : Cardinality({c \in Pool!In(Pool!HoldsHost) : sem[c] = s}) = 0
    BY <1>1, FS_EmptySet
  <2>2. global = MaxGlobal /\ active = 0 /\ \A s \in Sems : avail[s] = MaxPerHost
    BY DEF Pool!Init
  <2> QED
    BY <2>1, <2>2, PoolSizes DEF Balanced, Holders
<1>3. Pool!TypeOK /\ ReferencesInv
  BY PoolSizes DEF Pool!Init, Pool!TypeOK, ReferencesInv
<1> QED
  BY <1>2, <1>3 DEF PoolInv

\* The steps of acquire().
LEMMA AcquireKeeps ==
    ASSUME PoolInv, NEW c \in Callers,
           \/ Pool!Request(c) \/ Pool!GlobalGranted(c) \/ Pool!HostKnown(c) \/ Pool!HostUnknown(c)
           \/ Pool!HostEntered(c) \/ Pool!HostGranted(c) \/ Pool!Counted(c)
    PROVE  PoolInv'
<1>1. /\ pc \in [Callers -> PC] /\ sem \in [Callers -> Sems \cup {None}]
      /\ todo \in [Callers -> SUBSET Hosts] /\ map \in [Hosts -> Sems \cup {None}]
      /\ requests \in 0..MaxRequests /\ MaxRequests \in Nat
      /\ global \in Nat /\ active \in Nat
      /\ avail \in [Sems -> Nat] /\ HostOf[c] \in Hosts
      /\ pc[c] \in {"host"} \cup Pool!HoldsHost => sem[c] \in Sems
  BY PoolSizes DEF PoolInv, Pool!TypeOK, ReferencesInv
<1>2. CASE Pool!Request(c)
  <2>1. Moves(c)
    BY <1>1, <1>2 DEF Moves, Pool!Request, Pool!Goto, Pool!caller
  <2>2. Balances(c)
    BY <1>1, <1>2 DEF Balances, One, Pool!Request, Pool!Goto, Pool!caller
  <2> QED
    BY <2>1, <2>2, CallerStep
<1>3. CASE Pool!GlobalGranted(c)
  <2>1. Moves(c)
    BY <1>1, <1>3 DEF Moves, Pool!GlobalGranted, Pool!Goto, Pool!caller
  <2>2. Balances(c)
    BY <1>1, <1>3 DEF Balances, One, Pool!GlobalGranted, Pool!Goto, Pool!caller
  <2> QED
    BY <2>1, <2>2, CallerStep
<1>4. CASE Pool!HostKnown(c)
  <2>1. Moves(c)
    BY <1>1, <1>4 DEF Moves, Pool!HostKnown, Pool!Goto
  <2>2. Balances(c)
    BY <1>1, <1>4 DEF Balances, One, Pool!HostKnown, Pool!Goto
  <2> QED
    BY <2>1, <2>2, CallerStep
<1>5. CASE Pool!HostUnknown(c)
  <2>1. Moves(c)
    BY <1>1, <1>5 DEF Moves, Pool!HostUnknown, Pool!Goto, Pool!caller
  <2>2. Balances(c)
    BY <1>1, <1>5 DEF Balances, One, Pool!HostUnknown, Pool!Goto, Pool!caller
  <2> QED
    BY <2>1, <2>2, CallerStep
<1>6. CASE Pool!HostEntered(c)
  <2>1. Pool!OrInsert(HostOf[c]) \in Sems
    BY <1>1, UnusedExists DEF PoolInv, Pool!OrInsert
  <2>2. Moves(c)
    BY <1>1, <1>6, <2>1 DEF Moves, Pool!HostEntered, Pool!Goto
  <2>3. Balances(c)
    BY <1>1, <1>6 DEF Balances, One, Pool!HostEntered, Pool!Goto
  <2> QED
    BY <2>2, <2>3, CallerStep
<1>7. CASE Pool!HostGranted(c)
  <2>1. Moves(c)
    BY <1>1, <1>7 DEF Moves, Pool!HostGranted, Pool!Goto, Pool!caller
  <2>2. Balances(c)
    BY <1>1, <1>7 DEF Balances, One, Pool!HostGranted, Pool!Goto, Pool!caller
  <2> QED
    BY <2>1, <2>2, CallerStep
<1>8. CASE Pool!Counted(c)
  <2>1. Moves(c)
    BY <1>1, <1>8 DEF Moves, Pool!Counted, Pool!Goto
  <2>2. Balances(c)
    BY <1>1, <1>8 DEF Balances, One, Pool!Counted, Pool!Goto
  <2> QED
    BY <2>1, <2>2, CallerStep
<1> QED
  BY <1>2, <1>3, <1>4, <1>5, <1>6, <1>7, <1>8

\* The cleanup, the release of a permit, and an abort.
LEMMA ReleaseKeeps ==
    ASSUME PoolInv, NEW c \in Callers,
           \/ \E h \in Hosts : Pool!CleanupVisits(c, h)
           \/ Pool!CleanupEnds(c) \/ Pool!Release(c) \/ Pool!Aborted(c)
    PROVE  PoolInv'
<1>1. /\ pc \in [Callers -> PC] /\ sem \in [Callers -> Sems \cup {None}]
      /\ todo \in [Callers -> SUBSET Hosts] /\ map \in [Hosts -> Sems \cup {None}]
      /\ requests \in 0..MaxRequests
      /\ global \in Nat /\ active \in Nat
      /\ avail \in [Sems -> Nat]
      /\ pc[c] \in {"host"} \cup Pool!HoldsHost => sem[c] \in Sems
  BY PoolSizes DEF PoolInv, Pool!TypeOK, ReferencesInv
<1>2. ASSUME NEW h \in Hosts, Pool!CleanupVisits(c, h) PROVE PoolInv'
  <2>1. Moves(c)
    BY <1>1, <1>2 DEF Moves, Pool!CleanupVisits
  <2>2. Balances(c)
    BY <1>1, <1>2 DEF Balances, One, Pool!CleanupVisits
  <2> QED
    BY <2>1, <2>2, CallerStep
<1>3. CASE Pool!CleanupEnds(c)
  <2>1. Moves(c)
    BY <1>1, <1>3 DEF Moves, Pool!CleanupEnds, Pool!Goto, Pool!caller
  <2>2. Balances(c)
    BY <1>1, <1>3 DEF Balances, One, Pool!CleanupEnds, Pool!Goto, Pool!caller
  <2> QED
    BY <2>1, <2>2, CallerStep
<1>4. CASE Pool!DropCounts(c)
  <2>1. Moves(c)
    BY <1>1, <1>4 DEF Moves, Pool!DropCounts, Pool!Goto, Pool!caller
  <2>2. Balances(c)
    BY <1>1, <1>4 DEF Balances, One, Pool!DropCounts, Pool!Goto, Pool!caller
  <2> QED
    BY <2>1, <2>2, CallerStep
<1>5. CASE Pool!DropGlobal(c)
  <2>1. Moves(c)
    BY <1>1, <1>5 DEF Moves, Pool!DropGlobal, Pool!Goto, Pool!caller
  <2>2. Balances(c)
    BY <1>1, <1>5 DEF Balances, One, Pool!DropGlobal, Pool!Goto, Pool!caller
  <2> QED
    BY <2>1, <2>2, CallerStep
<1>6. CASE Pool!DropHost(c)
  <2>1. Moves(c)
    BY <1>1, <1>6 DEF Moves, Pool!DropHost, Pool!Goto
  <2>2. Balances(c)
    BY <1>1, <1>6 DEF Balances, One, Pool!DropHost, Pool!Goto
  <2> QED
    BY <2>1, <2>2, CallerStep
<1>7. CASE Pool!Aborted(c)
  <2>1. Moves(c)
    BY <1>1, <1>7 DEF Moves, Pool!Aborted
  <2>2. Balances(c)
    BY <1>1, <1>7 DEF Balances, One, Pool!Aborted, Pool!GivenBack
  <2> QED
    BY <2>1, <2>2, CallerStep
<1> QED
  BY <1>2, <1>3, <1>4, <1>5, <1>6, <1>7 DEF Pool!Release

LEMMA PoolStep == PoolInv /\ [Pool!Next]_(Pool!poolVars) => PoolInv'
<1> SUFFICES ASSUME PoolInv, [Pool!Next]_(Pool!poolVars) PROVE PoolInv'
  OBVIOUS
<1>1. CASE UNCHANGED Pool!poolVars
  BY <1>1, PoolSizes DEF Pool!poolVars, Pool!caller, PoolInv, Pool!TypeOK, Balanced,
              Holders, ReferencesInv, Pool!In
<1> QED
  BY <1>1, AcquireKeeps, ReleaseKeeps DEF Pool!Next, Pool!AcquireStep, Pool!Works

-----------------------------------------------------------------------------
(* Cleanup.                                                                 *)

\* A semaphore with a holder has fewer permits than it was made with.
LEMMA HolderMakesBusy ==
    ASSUME PoolInv, NEW c \in Callers, pc[c] \in Pool!HoldsHost
    PROVE  sem[c] \in Sems /\ avail[sem[c]] # MaxPerHost
<1>1. sem[c] \in Sems /\ c \in Holders(sem[c])
  BY DEF PoolInv, ReferencesInv, Holders, Pool!In
<1>2. IsFiniteSet(Holders(sem[c]))
  BY FS_Subset, PoolSizes DEF PoolInv, Holders, Pool!In
<1>3. Cardinality(Holders(sem[c])) \in Nat /\ Cardinality(Holders(sem[c])) # 0
  BY <1>1, <1>2, FS_CardinalityType, FS_EmptySet
<1>4. /\ avail[sem[c]] + Cardinality(Holders(sem[c])) = MaxPerHost
      /\ avail[sem[c]] \in Nat /\ MaxPerHost \in Nat
  BY <1>1, PoolSizes DEF PoolInv, Pool!TypeOK, Balanced, Holders
<1> QED
  BY <1>1, <1>3, <1>4

LEMMA BusyHostIsKept == PoolInv /\ [Pool!Next]_(Pool!poolVars) => Pool!BusyHostStep
<1> SUFFICES ASSUME PoolInv, [Pool!Next]_(Pool!poolVars), NEW c \in Callers,
                    pc[c] \in Pool!HoldsHost, map[HostOf[c]] = sem[c]
             PROVE  map'[HostOf[c]] = sem[c]
  BY DEF Pool!BusyHostStep
<1>1. HostOf[c] \in Hosts /\ map \in [Hosts -> Sems \cup {None}] /\ None \notin Sems
  BY PoolSizes DEF PoolInv, Pool!TypeOK
<1>2. sem[c] \in Sems /\ avail[sem[c]] # MaxPerHost
  BY HolderMakesBusy
<1>3. ASSUME NEW d \in Callers, Pool!HostEntered(d) PROVE map'[HostOf[c]] = sem[c]
  BY <1>1, <1>2, <1>3 DEF Pool!HostEntered, Pool!OrInsert
<1>4. ASSUME NEW d \in Callers, NEW h \in Hosts, Pool!CleanupVisits(d, h)
      PROVE  map'[HostOf[c]] = sem[c]
  BY <1>1, <1>2, <1>4 DEF Pool!CleanupVisits, Pool!Idle
<1>5. CASE map' = map
  BY <1>5
<1> QED
  BY <1>3, <1>4, <1>5
     DEF Pool!Next, Pool!AcquireStep, Pool!Works, Pool!Release, Pool!Request, Pool!GlobalGranted,
         Pool!HostKnown, Pool!HostUnknown, Pool!HostGranted, Pool!Counted, Pool!CleanupEnds,
         Pool!DropCounts, Pool!DropGlobal, Pool!DropHost, Pool!Aborted, Pool!poolVars

HIDE DEF Pool!HoldsGlobal, Pool!HoldsHost, PC

-----------------------------------------------------------------------------
(* The rate limiter.                                                        *)

\* A function that adds up what the calls of a set of payers ask for.
AddsUp(f) ==
    /\ f \in [SUBSET Payers -> Nat] /\ f[{}] = 0
    /\ \A S \in SUBSET Payers : \A p \in S : f[S] = f[S \ {p}] + payer[p].bytes
    /\ \A S, T \in SUBSET Payers : S \subseteq T => f[S] <= f[T]

\* The calls whose bytes are part of the debt and not let through yet.
Charged == {p \in Payers : payer[p].pc \in {"compare", "sleep"}}

\* What a charged call lets pass: its total, or what the rate allows until it wakes.
Bound(p) == IF payer[p].pc = "compare" THEN payer[p].total ELSE (payer[p].until + 1) * rate

\* However many of the charged calls go through next: what was let through then
\* is allowed by now, or one of them waits until it is.
PacedBy(f) ==
    /\ debt = paid + f[Charged]
    /\ ~clamped => \A S \in SUBSET Charged :
                      \/ paid + f[S] <= (clock + 1) * rate
                      \/ \E p \in S : paid + f[S] <= Bound(p)

Calls == [pc : {"idle", "add", "compare", "sleep"}, bytes : Nat, speed : Nat, total : Nat, until : Nat]

\* Before the rate is changed.
SteadyInv ==
    /\ baseline = -1 /\ clock \in Nat /\ debt \in Nat /\ paid \in Nat /\ rate \in Nat \ {0}
    /\ clamped \in BOOLEAN /\ payer \in [Payers -> Calls]
    /\ \A p \in Payers : payer[p].pc \in {"add", "compare"} => payer[p].speed = rate
    /\ \E f \in [SUBSET Payers -> Nat] : AddsUp(f) /\ PacedBy(f)

LimiterInv ==
    /\ "pc" \in DOMAIN update
    /\ update.pc = "never" => SteadyInv

\* Seconds rounds up.
LEMMA WaitIsEnough ==
    ASSUME NEW d \in Nat, NEW s \in Nat \ {0}
    PROVE  Limiter!Seconds(d, s) \in Nat /\ d <= Limiter!Seconds(d, s) * s
<1> DEFINE x == d + s - 1
<1>1. x \in Nat /\ x = (s * (x \div s)) + (x % s) /\ (x % s) \in 0..(s - 1) /\ x \div s \in Nat
  OBVIOUS
<1> QED
  BY <1>1 DEF Limiter!Seconds

LEMMA WaitCovers ==
    ASSUME NEW d \in Nat, NEW s \in Nat \ {0}, NEW n \in Nat, NEW t \in Nat, NEW k \in Nat,
           t <= (n + 1) * s + d, d <= k * s
    PROVE  t <= (n + k + 1) * s
<1>1. (n + k + 1) * s = (n + 1) * s + k * s /\ (n + 1) * s \in Nat /\ k * s \in Nat
  OBVIOUS
<1> DEFINE x == (n + 1) * s
           y == k * s
<1> HIDE DEF x, y
<1> QED
  BY <1>1 DEF x, y

LEMMA LaterAllowsMore ==
    ASSUME NEW s \in Nat, NEW n \in Nat, NEW m \in Nat, n <= m
    PROVE  n * s <= m * s /\ n * s \in Nat /\ m * s \in Nat
<1>1. PICK k \in Nat : m = n + k
  BY m - n \in Nat
<1>2. m * s = n * s + k * s /\ n * s \in Nat /\ k * s \in Nat
  BY <1>1
<1> QED
  BY <1>2

LEMMA LimiterTwo ==
    ASSUME NEW a \in Int, NEW b \in Int
    PROVE  /\ Limiter!Max({a, b}) \in {a, b} /\ a <= Limiter!Max({a, b}) /\ b <= Limiter!Max({a, b})
           /\ Limiter!Min({a, b}) \in {a, b} /\ Limiter!Min({a, b}) <= a /\ Limiter!Min({a, b}) <= b
           /\ a <= b => Limiter!Min({a, b}) = a
BY DEF Limiter!Max, Limiter!Min

LEMMA LimiterInit == Limiter!Init => LimiterInv
<1> SUFFICES ASSUME Limiter!Init PROVE LimiterInv
  OBVIOUS
<1> DEFINE f == [S \in SUBSET Payers |-> 0]
<1>1. /\ payer = [p \in Payers |-> [pc |-> "idle", bytes |-> 0, speed |-> 0, total |-> 0, until |-> 0]]
      /\ clock = 0 /\ baseline = -1 /\ debt = 0 /\ paid = 0 /\ clamped = FALSE /\ rate \in Nat \ {0}
      /\ "pc" \in DOMAIN update
  BY ServicesAssumption DEF Limiter!Init, Limiter!Quiet, Limiter!Call, Limiter!Steady
<1>2. AddsUp(f)
  BY <1>1 DEF AddsUp
<1>3. PacedBy(f)
  <2>1. Charged = {}
    BY <1>1 DEF Charged
  <2>2. 0 <= (clock + 1) * rate
    BY <1>1
  <2> QED
    BY <1>1, <2>1, <2>2 DEF PacedBy
<1>4. f \in [SUBSET Payers -> Nat]
  OBVIOUS
<1> HIDE DEF f
<1>5. payer \in [Payers -> Calls]
  BY <1>1 DEF Calls
<1> QED
  BY <1>1, <1>2, <1>3, <1>4, <1>5 DEF LimiterInv, SteadyInv

\* The sum after the call of p has asked for b bytes, or has returned.
LEMMA AddsUpAnew ==
    ASSUME NEW f \in [SUBSET Payers -> Nat], AddsUp(f), NEW p \in Payers, NEW b \in Nat,
           payer' = [payer EXCEPT ![p] = payer'[p]], payer'[p].bytes = b,
           payer \in [Payers -> Calls]
    PROVE  \E g \in [SUBSET Payers -> Nat] :
              AddsUp(g)' /\ \A S \in SUBSET Payers : p \notin S => g[S] = f[S]
<1> DEFINE g == [S \in SUBSET Payers |-> f[S \ {p}] + IF p \in S THEN b ELSE 0]
<1>1. \A S \in SUBSET Payers : f[S] \in Nat
  OBVIOUS
<1>2. g \in [SUBSET Payers -> Nat]
  BY <1>1
<1>3. \A S \in SUBSET Payers : g[S] = f[S \ {p}] + IF p \in S THEN b ELSE 0
  OBVIOUS
<1> HIDE DEF g
<1>4. \A S \in SUBSET Payers : p \in S => g[S] = f[S \ {p}] + b
  BY <1>3
<1>5. \A q \in Payers : q # p => payer'[q] = payer[q]
  OBVIOUS
<1>a. ASSUME NEW S \in SUBSET Payers, p \notin S PROVE g[S] = f[S]
  <2>1. S \ {p} = S
    BY <1>a
  <2> QED
    BY <1>1, <1>3, <1>a, <2>1
<1>6. g[{}] = 0
  BY <1>a DEF AddsUp
<1>7. ASSUME NEW S \in SUBSET Payers, NEW q \in S
      PROVE  g[S] = g[S \ {q}] + payer'[q].bytes
  <2>1. CASE q = p
    BY <1>4, <1>a, <2>1
  <2>2. CASE q # p /\ p \in S
    <3> DEFINE Z == (S \ {p}) \ {q}
    <3>1. f[S \ {p}] = f[Z] + payer[q].bytes
      BY <2>2 DEF AddsUp
    <3>2. Z = (S \ {q}) \ {p} /\ p \in S \ {q} /\ Z \in SUBSET Payers
      BY <2>2
    <3> HIDE DEF Z
    <3>3. g[S] = f[S \ {p}] + b /\ g[S \ {q}] = f[Z] + b
      BY <1>4, <2>2, <3>2
    <3>4. payer[q].bytes \in Nat /\ payer'[q] = payer[q] /\ f[Z] \in Nat
      BY <1>1, <1>5, <2>2, <3>2 DEF Calls
    <3> QED
      BY <3>1, <3>3, <3>4
  <2>3. CASE q # p /\ p \notin S
    <3>1. g[S] = f[S] /\ g[S \ {q}] = f[S \ {q}]
      BY <1>a, <2>3
    <3>2. payer'[q] = payer[q]
      BY <1>5, <2>3
    <3>3. f[S] = f[S \ {q}] + payer[q].bytes
      BY DEF AddsUp
    <3> QED
      BY <3>1, <3>2, <3>3
  <2> QED
    BY <2>1, <2>2, <2>3
<1>8. ASSUME NEW S \in SUBSET Payers, NEW T \in SUBSET Payers, S \subseteq T
      PROVE  g[S] <= g[T]
  <2>1. f[S \ {p}] <= f[T \ {p}] /\ f[S \ {p}] \in Nat /\ f[T \ {p}] \in Nat
    BY <1>1, <1>8 DEF AddsUp
  <2>2. CASE p \in S
    BY <1>4, <1>8, <2>1, <2>2
  <2>3. CASE p \notin S /\ p \in T
    BY <1>3, <1>4, <2>1, <2>3
  <2>4. CASE p \notin T
    <3>1. p \notin S
      BY <1>8, <2>4
    <3>2. g[S] = f[S \ {p}] + 0 /\ g[T] = f[T \ {p}] + 0
      BY <1>3, <2>4, <3>1
    <3> QED
      BY <2>1, <3>2
  <2> QED
    BY <2>2, <2>3, <2>4
<1>9. AddsUp(g)'
  BY <1>2, <1>6, <1>7, <1>8 DEF AddsUp
<1> QED
  BY <1>2, <1>9, <1>a

\* The steps before the rate is changed.
LEMMA SteadyKeeps ==
    ASSUME SteadyInv, update.pc = "never", update' = update,
           \/ \E p \in Payers : Limiter!PayerStep(p) \/ \E b \in Amounts : Limiter!Pay(p, b)
           \/ Limiter!Tick
    PROVE  SteadyInv'
<1>1. PICK f \in [SUBSET Payers -> Nat] : AddsUp(f) /\ PacedBy(f)
  BY DEF SteadyInv
<1>2. /\ baseline = -1 /\ clock \in Nat /\ debt \in Nat /\ paid \in Nat /\ rate \in Nat \ {0}
      /\ clamped \in BOOLEAN /\ payer \in [Payers -> Calls]
      /\ \A p \in Payers : payer[p].pc \in {"add", "compare"} => payer[p].speed = rate
      /\ Amounts \subseteq Nat /\ MaxWait \in Nat
  BY ServicesAssumption DEF SteadyInv
<1>3. \A p \in Payers : /\ payer[p].bytes \in Nat /\ payer[p].speed \in Nat
                         /\ payer[p].total \in Nat /\ payer[p].until \in Nat
  BY <1>2 DEF Calls
<1>4. \A S \in SUBSET Payers : f[S] \in Nat
  OBVIOUS
<1>5. Charged \in SUBSET Payers
  BY DEF Charged
<1>6. (clock + 1) * rate \in Nat /\ (clock + 2) * rate \in Nat /\ (clock + 1) * rate <= (clock + 2) * rate
  BY <1>2, LaterAllowsMore, clock + 1 \in Nat, clock + 2 \in Nat, clock + 1 <= clock + 2
<1>7. CASE Limiter!Tick
  <2>1. clock' = clock + 1 /\ UNCHANGED <<baseline, debt, rate, payer, update, paid, clamped>>
    BY <1>7 DEF Limiter!Tick
  <2>2. AddsUp(f)' /\ Charged' = Charged /\ \A p \in Payers : Bound(p)' = Bound(p)
    BY <1>1, <2>1 DEF AddsUp, Charged, Bound
  <2>3. (clock' + 1) * rate' = (clock + 2) * rate
    BY <1>2, <2>1
  <2>4. PacedBy(f)'
    <3>1. debt' = paid' + f[Charged']
      BY <1>1, <2>1, <2>2 DEF PacedBy
    <3>2. ASSUME ~clamped', NEW S \in SUBSET Charged, ~(\E p \in S : paid' + f[S] <= Bound(p)')
          PROVE  paid' + f[S] <= (clock' + 1) * rate'
      <4>1. paid + f[S] <= (clock + 1) * rate
        BY <1>1, <1>5, <2>1, <2>2, <3>2 DEF PacedBy
      <4>2. f[S] \in Nat
        BY <1>4, <1>5
      <4> QED
        BY <1>2, <1>6, <2>1, <2>3, <4>1, <4>2
    <3> QED
      BY <2>2, <3>1, <3>2 DEF PacedBy
  <2> QED
    BY <1>2, <2>1, <2>2, <2>4 DEF SteadyInv
<1>8. ASSUME NEW p \in Payers, NEW b \in Amounts, Limiter!Pay(p, b) PROVE SteadyInv'
  <2>1. /\ payer[p].pc = "idle" /\ b \in Nat
        /\ payer' = [payer EXCEPT ![p] = [pc |-> "add", bytes |-> b, speed |-> rate, total |-> 0, until |-> 0]]
        /\ UNCHANGED <<clock, baseline, debt, rate, paid, clamped>>
    BY <1>2, <1>8 DEF Limiter!Pay, Limiter!Call
  <2>2. /\ payer' \in [Payers -> Calls] /\ payer'[p].bytes = b /\ payer'[p].pc = "add" /\ payer'[p].speed = rate
        /\ payer' = [payer EXCEPT ![p] = payer'[p]]
        /\ \A q \in Payers : q # p => payer'[q] = payer[q]
    BY <1>2, <2>1 DEF Calls
  <2>3. PICK g \in [SUBSET Payers -> Nat] :
            AddsUp(g)' /\ \A S \in SUBSET Payers : p \notin S => g[S] = f[S]
    BY <1>1, <1>2, <2>1, <2>2, AddsUpAnew
  <2>4. p \notin Charged /\ Charged' = Charged /\ \A q \in Charged : Bound(q)' = Bound(q)
    BY <2>1, <2>2 DEF Charged, Bound
  <2>5. \A S \in SUBSET Charged : g[S] = f[S]
    BY <1>5, <2>3, <2>4
  <2>6. PacedBy(g)'
    BY <1>1, <2>1, <2>4, <2>5 DEF PacedBy
  <2>7. \A q \in Payers : payer'[q].pc \in {"add", "compare"} => payer'[q].speed = rate'
    BY <1>2, <2>1, <2>2
  <2> QED
    BY <1>2, <2>1, <2>2, <2>3, <2>6, <2>7 DEF SteadyInv
<1>9. ASSUME NEW p \in Payers, Limiter!AddDebt(p) PROVE SteadyInv'
  <2>1. /\ payer[p].pc = "add" /\ debt' = debt + payer[p].bytes
        /\ payer' = [payer EXCEPT ![p] = [pc |-> "compare", bytes |-> @.bytes, speed |-> @.speed,
                                          total |-> debt', until |-> 0]]
        /\ UNCHANGED <<clock, baseline, rate, paid, clamped>>
    BY <1>9 DEF Limiter!AddDebt, Limiter!Call
  <2>2. /\ debt' \in Nat /\ payer' \in [Payers -> Calls]
        /\ \A q \in Payers : q # p => payer'[q] = payer[q]
        /\ \A q \in Payers : payer'[q].bytes = payer[q].bytes
        /\ payer'[p].pc = "compare" /\ payer'[p].total = debt' /\ payer'[p].speed = payer[p].speed
    BY <1>2, <1>3, <2>1 DEF Calls
  <2>3. AddsUp(f)'
    BY <1>1, <2>2 DEF AddsUp
  <2>4. p \notin Charged /\ Charged' = Charged \cup {p} /\ Bound(p)' = debt'
    BY <2>1, <2>2 DEF Charged, Bound
  <2>5. \A q \in Charged : Bound(q)' = Bound(q)
    BY <2>1, <2>2, <2>4 DEF Bound, Charged
  <2>6. debt' = paid' + f[Charged']
    <3>1. Charged' \ {p} = Charged /\ Charged' \in SUBSET Payers /\ p \in Charged'
      BY <1>5, <2>4
    <3>2. f[Charged'] = f[Charged' \ {p}] + payer[p].bytes
      BY <1>1, <3>1 DEF AddsUp
    <3>3. f[Charged'] = f[Charged] + payer[p].bytes
      BY <3>1, <3>2
    <3>4. f[Charged] \in Nat /\ debt = paid + f[Charged]
      BY <1>1, <1>4, <1>5 DEF PacedBy
    <3> QED
      BY <1>2, <1>3, <2>1, <3>3, <3>4
  <2>7. ASSUME ~clamped', NEW S \in SUBSET Charged', ~(\E q \in S : paid' + f[S] <= Bound(q)')
        PROVE  paid' + f[S] <= (clock' + 1) * rate'
    <3>1. CASE p \in S
      <4>1. f[S] <= f[Charged'] /\ f[S] \in Nat /\ f[Charged'] \in Nat
        BY <1>1, <1>4, <1>5, <2>4 DEF AddsUp
      <4>2. paid' + f[S] <= Bound(p)'
        BY <1>2, <2>1, <2>4, <2>6, <4>1
      <4> QED
        BY <2>7, <3>1, <4>2
    <3>2. CASE p \notin S
      <4>1. S \in SUBSET Charged
        BY <2>4, <3>2
      <4> QED
        BY <1>1, <2>1, <2>5, <2>7, <4>1 DEF PacedBy
    <3> QED
      BY <3>1, <3>2
  <2>8. PacedBy(f)'
    BY <2>6, <2>7 DEF PacedBy
  <2>9. \A q \in Payers : payer'[q].pc \in {"add", "compare"} => payer'[q].speed = rate'
    BY <1>2, <2>1, <2>2
  <2> QED
    BY <1>2, <2>1, <2>2, <2>3, <2>8, <2>9 DEF SteadyInv
<1>10. ASSUME NEW p \in Payers, Limiter!Compare(p) PROVE SteadyInv'
  <2> DEFINE allowed == (clock - baseline) * payer[p].speed
             deficit == Limiter!Max({0, payer[p].total - allowed})
             wait == Limiter!Seconds(deficit, payer[p].speed)
             until == clock + Limiter!Min({wait, MaxWait})
  <2>0. payer[p].pc = "compare" /\ payer[p].speed = rate /\ ~Limiter!Overtaken
    BY <1>2, <1>10 DEF Limiter!Compare, Limiter!Overtaken
  <2>1. /\ payer' = [payer EXCEPT ![p] = [pc |-> "sleep", bytes |-> @.bytes, speed |-> 0,
                                          total |-> 0, until |-> until]]
        /\ clamped' = (clamped \/ wait > MaxWait)
        /\ UNCHANGED <<clock, baseline, debt, rate, paid>>
    <3>1. PICK w \in {FALSE} \cup {Limiter!Overtaken} :
            LET late == IF w THEN 0 ELSE deficit
                pause == Limiter!Seconds(late, payer[p].speed)
            IN  /\ payer' = [payer EXCEPT ![p] = Limiter!Call("sleep", @.bytes, 0, 0,
                                                 clock + Limiter!Min({pause, MaxWait}))]
                /\ clamped' = (clamped \/ pause > MaxWait)
                /\ UNCHANGED <<clock, baseline, debt, rate, update, paid>>
      BY <1>10 DEF Limiter!Compare
    <3>2. (IF w THEN 0 ELSE deficit) = deficit
      BY <2>0, <3>1 DEF Limiter!Overtaken
    <3> HIDE DEF deficit
    <3>3. /\ payer' = [payer EXCEPT ![p] = Limiter!Call("sleep", @.bytes, 0, 0, until)]
          /\ clamped' = (clamped \/ wait > MaxWait)
          /\ UNCHANGED <<clock, baseline, debt, rate, paid>>
      BY <3>1, <3>2
    <3> QED
      BY <3>3 DEF Limiter!Call
  <2>2. allowed = (clock + 1) * rate /\ allowed \in Nat
    <3>1. clock - baseline = clock + 1
      BY <1>2
    <3> QED
      BY <1>6, <2>0, <3>1
  <2> HIDE DEF allowed
  <2>3. deficit \in Nat /\ payer[p].total <= allowed + deficit
    <3>1. payer[p].total - allowed \in Int /\ 0 \in Int
      BY <1>3, <2>2
    <3>2. /\ deficit \in {0, payer[p].total - allowed}
          /\ 0 <= deficit /\ payer[p].total - allowed <= deficit
      BY <3>1, LimiterTwo
    <3> HIDE DEF deficit
    <3> QED
      BY <1>3, <2>2, <3>1, <3>2
  <2> HIDE DEF deficit
  <2>4. wait \in Nat /\ deficit <= wait * rate
    BY <1>2, <2>0, <2>3, WaitIsEnough
  <2> HIDE DEF wait
  <2>5. until \in Nat /\ (wait <= MaxWait => until = clock + wait)
    <3>1. wait \in Int /\ MaxWait \in Int
      BY <1>2, <2>4
    <3>2. /\ Limiter!Min({wait, MaxWait}) \in {wait, MaxWait}
          /\ wait <= MaxWait => Limiter!Min({wait, MaxWait}) = wait
      BY <3>1, LimiterTwo
    <3> QED
      BY <1>2, <2>4, <3>2
  <2> HIDE DEF until
  <2>6. ASSUME ~clamped' PROVE payer[p].total <= (until + 1) * rate
    <3>1. ~(wait > MaxWait)
      BY <2>1, <2>6
    <3>2. until = clock + wait
      BY <1>2, <2>4, <2>5, <3>1
    <3>3. payer[p].total <= (clock + 1) * rate + deficit
      BY <2>2, <2>3
    <3>4. payer[p].total <= (clock + wait + 1) * rate
      BY <1>2, <1>3, <2>3, <2>4, <3>3, WaitCovers
    <3> QED
      BY <3>2, <3>4
  <2>7. /\ payer' \in [Payers -> Calls]
        /\ \A q \in Payers : q # p => payer'[q] = payer[q]
        /\ \A q \in Payers : payer'[q].bytes = payer[q].bytes
        /\ payer'[p].pc = "sleep" /\ payer'[p].until = until
    BY <1>2, <1>3, <2>0, <2>1, <2>5 DEF Calls
  <2>8. AddsUp(f)'
    BY <1>1, <2>7 DEF AddsUp
  <2>9. /\ p \in Charged /\ Charged' = Charged
        /\ Bound(p) = payer[p].total /\ Bound(p)' = (until + 1) * rate
    BY <2>0, <2>1, <2>7 DEF Charged, Bound
  <2>10. \A q \in Charged : q # p => Bound(q)' = Bound(q)
    BY <1>5, <2>1, <2>7 DEF Bound
  <2>11. ASSUME ~clamped', NEW S \in SUBSET Charged', ~(\E q \in S : paid' + f[S] <= Bound(q)')
         PROVE  paid' + f[S] <= (clock' + 1) * rate'
    <3>1. ~clamped
      BY <1>2, <2>1, <2>11
    <3>2. Bound(p) <= Bound(p)' /\ Bound(p) \in Nat /\ Bound(p)' \in Nat
      <4>1. (until + 1) * rate \in Nat
        BY <1>2, <2>5, LaterAllowsMore, until + 1 \in Nat
      <4> QED
        BY <1>3, <2>6, <2>9, <2>11, <4>1
    <3>3. f[S] \in Nat
      BY <1>4, <1>5, <2>9
    <3>4. ~(\E q \in S : paid + f[S] <= Bound(q))
      <4> SUFFICES ASSUME NEW q \in S, paid + f[S] <= Bound(q) PROVE FALSE
        OBVIOUS
      <4>1. CASE q = p
        <5>1. paid' + f[S] <= Bound(p)'
          BY <1>2, <2>1, <3>2, <3>3, <4>1
        <5> QED
          BY <2>11, <4>1, <5>1
      <4>2. CASE q # p
        BY <2>1, <2>9, <2>10, <2>11, <4>2
      <4> QED
        BY <4>1, <4>2
    <3> QED
      BY <1>1, <2>1, <2>9, <3>1, <3>4 DEF PacedBy
  <2>12. PacedBy(f)'
    BY <1>1, <2>1, <2>9, <2>11 DEF PacedBy
  <2>13. /\ \A q \in Payers : payer'[q].pc \in {"add", "compare"} => payer'[q].speed = rate'
         /\ clamped' \in BOOLEAN
    BY <1>2, <2>1, <2>7
  <2> QED
    BY <1>2, <2>1, <2>7, <2>8, <2>12, <2>13 DEF SteadyInv
<1>11. ASSUME NEW p \in Payers, Limiter!Wake(p) PROVE SteadyInv'
  <2>1. /\ payer[p].pc = "sleep" /\ clock >= payer[p].until /\ paid' = paid + payer[p].bytes
        /\ payer' = [payer EXCEPT ![p] = [pc |-> "idle", bytes |-> 0, speed |-> 0, total |-> 0, until |-> 0]]
        /\ UNCHANGED <<clock, baseline, debt, rate, clamped>>
    BY <1>11 DEF Limiter!Wake, Limiter!Quiet, Limiter!Call
  <2>2. /\ payer' \in [Payers -> Calls] /\ payer'[p].bytes = 0 /\ payer'[p].pc = "idle"
        /\ payer' = [payer EXCEPT ![p] = payer'[p]] /\ paid' \in Nat
        /\ \A q \in Payers : q # p => payer'[q] = payer[q]
    BY <1>2, <1>3, <2>1 DEF Calls
  <2>3. PICK g \in [SUBSET Payers -> Nat] :
            AddsUp(g)' /\ \A S \in SUBSET Payers : p \notin S => g[S] = f[S]
    BY <1>1, <1>2, <2>1, <2>2, AddsUpAnew
  <2>4. p \in Charged /\ Charged' = Charged \ {p}
    BY <2>1, <2>2 DEF Charged
  <2>5. \A q \in Charged' : Bound(q)' = Bound(q)
    BY <1>5, <2>1, <2>2, <2>4 DEF Bound
  <2>6. ASSUME NEW S \in SUBSET Charged'
        PROVE  paid' + g[S] = paid + f[S \cup {p}] /\ g[S] \in Nat /\ f[S \cup {p}] \in Nat
    <3>1. S \cup {p} \in SUBSET Payers /\ (S \cup {p}) \ {p} = S /\ p \notin S /\ S \in SUBSET Payers
      BY <1>5, <2>4
    <3>2. f[S \cup {p}] = f[(S \cup {p}) \ {p}] + payer[p].bytes
      BY <1>1, <3>1 DEF AddsUp
    <3>3. f[S \cup {p}] = f[S] + payer[p].bytes
      BY <3>1, <3>2
    <3>4. g[S] = f[S] /\ f[S] \in Nat
      BY <1>4, <2>3, <3>1
    <3> QED
      BY <1>2, <1>3, <2>1, <3>3, <3>4
  <2>7. debt' = paid' + g[Charged']
    <3>1. Charged' \cup {p} = Charged
      BY <2>4
    <3>2. paid' + g[Charged'] = paid + f[Charged' \cup {p}]
      BY <2>6
    <3>3. paid' + g[Charged'] = paid + f[Charged]
      BY <3>1, <3>2
    <3> QED
      BY <1>1, <2>1, <3>3 DEF PacedBy
  <2>8. ASSUME ~clamped', NEW S \in SUBSET Charged', ~(\E q \in S : paid' + g[S] <= Bound(q)')
        PROVE  paid' + g[S] <= (clock' + 1) * rate'
    <3>1. S \cup {p} \in SUBSET Charged
      BY <2>4
    <3>2. \/ paid + f[S \cup {p}] <= (clock + 1) * rate
          \/ \E q \in S \cup {p} : paid + f[S \cup {p}] <= Bound(q)
      BY <1>1, <2>1, <2>8, <3>1 DEF PacedBy
    <3>3. paid' + g[S] = paid + f[S \cup {p}] /\ paid + f[S \cup {p}] \in Nat
      <4>1. paid' + g[S] = paid + f[S \cup {p}] /\ f[S \cup {p}] \in Nat
        BY <2>6
      <4> QED
        BY <1>2, <4>1
    <3>4. ASSUME NEW q \in S \cup {p}, paid + f[S \cup {p}] <= Bound(q)
          PROVE  paid + f[S \cup {p}] <= (clock + 1) * rate
      <4>1. q = p
        BY <2>5, <2>8, <3>3, <3>4
      <4>2. Bound(p) = (payer[p].until + 1) * rate
        BY <2>1 DEF Bound
      <4>3. Bound(p) <= (clock + 1) * rate /\ Bound(p) \in Nat
        BY <1>2, <1>3, <2>1, <4>2, LaterAllowsMore, clock + 1 \in Nat, payer[p].until + 1 \in Nat,
           payer[p].until + 1 <= clock + 1
      <4> QED
        BY <1>6, <3>3, <3>4, <4>1, <4>3
    <3> QED
      BY <2>1, <3>2, <3>3, <3>4
  <2>9. PacedBy(g)'
    BY <2>7, <2>8 DEF PacedBy
  <2>10. \A q \in Payers : payer'[q].pc \in {"add", "compare"} => payer'[q].speed = rate'
    BY <1>2, <2>1, <2>2
  <2> QED
    BY <1>2, <2>1, <2>2, <2>3, <2>9, <2>10 DEF SteadyInv
<1> QED
  BY <1>7, <1>8, <1>9, <1>10, <1>11 DEF Limiter!PayerStep

LEMMA LimiterStep == LimiterInv /\ [Limiter!Next]_(Limiter!limiterVars) => LimiterInv'
<1> SUFFICES ASSUME LimiterInv, [Limiter!Next]_(Limiter!limiterVars) PROVE LimiterInv'
  OBVIOUS
<1>1. CASE UNCHANGED Limiter!limiterVars
  <2>1. UNCHANGED <<clock, baseline, debt, rate, payer, update, paid, clamped>>
    BY <1>1 DEF Limiter!limiterVars
  <2>2. Charged' = Charged /\ \A p : Bound(p)' = Bound(p)
    BY <2>1 DEF Charged, Bound
  <2>3. \A f : AddsUp(f) => AddsUp(f)'
    BY <2>1 DEF AddsUp
  <2>4. \A f : PacedBy(f) => PacedBy(f)'
    BY <2>1, <2>2 DEF PacedBy
  <2> QED
    BY <2>1, <2>3, <2>4 DEF LimiterInv, SteadyInv
<1>2. CASE \/ \E p \in Payers : Limiter!PayerStep(p) \/ \E b \in Amounts : Limiter!Pay(p, b)
           \/ Limiter!Tick
  <2>1. update' = update
    BY <1>2 DEF Limiter!PayerStep, Limiter!Pay, Limiter!AddDebt, Limiter!Compare, Limiter!Wake,
                Limiter!Tick
  <2>2. CASE update.pc = "never"
    BY <1>2, <2>1, <2>2, SteadyKeeps DEF LimiterInv
  <2>3. CASE update.pc # "never"
    BY <2>1, <2>3 DEF LimiterInv
  <2> QED
    BY <2>2, <2>3
<1>3. CASE \/ \E r \in Rates : Limiter!UpdateRate(r)
           \/ Limiter!ReadBaseline \/ Limiter!StoreBaseline \/ Limiter!StoreDebt \/ Limiter!StoreRate
  <2>1. "pc" \in DOMAIN update' /\ update'.pc # "never"
    BY <1>3 DEF LimiterInv, Limiter!UpdateRate, Limiter!ReadBaseline, Limiter!StoreBaseline,
                Limiter!StoreDebt, Limiter!StoreRate, Limiter!Steady
  <2> QED
    BY <2>1 DEF LimiterInv
<1> QED
  BY <1>1, <1>2, <1>3 DEF Limiter!Next

\* What has been let through is what PacedBy says of no call.
LEMMA LimiterPromises == LimiterInv => Limiter!Paced
<1> SUFFICES ASSUME LimiterInv, update.pc = "never", ~clamped
             PROVE  paid <= (clock + 1) * rate
  BY DEF Limiter!Paced
<1>1. PICK f \in [SUBSET Payers -> Nat] : AddsUp(f) /\ PacedBy(f)
  BY DEF LimiterInv, SteadyInv
<1>2. f[{}] = 0 /\ paid \in Nat
  BY <1>1 DEF AddsUp, LimiterInv, SteadyInv
<1>3. paid + f[{}] <= (clock + 1) * rate
  BY <1>1 DEF PacedBy
<1> QED
  BY <1>2, <1>3

-----------------------------------------------------------------------------
(* The configuration and the directories.                                   *)

Words == STRING

LEMMA WordsOnDisk ==
    /\ <<>> \in Paths \ Config!Links /\ Paths \cup SaveDirs \subseteq Seq(Words) /\ NoPath \notin Paths
    /\ \A p \in Config!Links : LinkTo[p] \in Seq(Words)
    /\ \A roots \in RootSets : roots \subseteq Seq(Words)
    /\ "nobody" \notin Creators
BY ServicesAssumption DEF Words, Config!Links

LEMMA LeastIsThere ==
    ASSUME NEW A \in SUBSET Nat, A # {}
    PROVE  Config!Min(A) \in A
BY LeastNat DEF Config!Min

LEMMA GreatestIsThere ==
    ASSUME NEW n \in Nat, NEW A \in SUBSET (0..n), A # {}
    PROVE  Config!Max(A) \in A
BY GreatestNat DEF Config!Max

\* The lengths of the links a path goes through.
Through(p) == {n \in 0..Len(p) : SubSeq(p, 1, n) \in Config!Links}

LEMMA PathsGoOn ==
    ASSUME NEW p \in Seq(Words)
    PROVE  /\ Config!Canonical(p) \in Seq(Words)
           /\ Through(p) # {} => Config!Min(Through(p)) \in Through(p)
<1>1. Through(p) # {} => Config!Min(Through(p)) \in Through(p)
  <2>1. Through(p) \in SUBSET Nat
    BY DEF Through
  <2> QED
    BY <2>1, LeastIsThere
<1>2. ASSUME NEW m \in Through(p)
      PROVE  LinkTo[SubSeq(p, 1, m)] \o SubSeq(p, m + 1, Len(p)) \in Seq(Words)
  <2>1. LinkTo[SubSeq(p, 1, m)] \in Seq(Words)
    BY WordsOnDisk DEF Through
  <2>2. SubSeq(p, m + 1, Len(p)) \in Seq(Words)
    BY DEF Through
  <2> QED
    BY <2>1, <2>2
<1> QED
  BY <1>1, <1>2 DEF Config!Canonical, Through

\* What Append leaves of the parts of a path.
LEMMA PartsOfLonger ==
    ASSUME NEW q \in Seq(Words), NEW x \in Words
    PROVE  /\ Append(q, x) \in Seq(Words) /\ Append(q, x) # <<>> /\ Len(Append(q, x)) = Len(q) + 1
           /\ SubSeq(Append(q, x), 1, Len(q) + 1) = Append(q, x)
           /\ \A n \in 0..Len(q) : SubSeq(Append(q, x), 1, n) = SubSeq(q, 1, n)
           /\ \A m \in 0..Len(q) :
                /\ SubSeq(q, m + 1, Len(q)) \in Seq(Words)
                /\ SubSeq(Append(q, x), m + 1, Len(q) + 1) = Append(SubSeq(q, m + 1, Len(q)), x)
<1> DEFINE p == Append(q, x)
<1>1. /\ p \in Seq(Words) /\ p # <<>> /\ Len(p) = Len(q) + 1 /\ Len(q) \in Nat
      /\ \A i \in 1..Len(q) : p[i] = q[i] /\ q[i] \in Words
      /\ p[Len(q) + 1] = x
  BY AppendProperties, LenProperties, ElementOfSeq
<1> HIDE DEF p
<1>2. SubSeq(p, 1, Len(q) + 1) = p
  BY <1>1, SubSeqFull
<1>3. ASSUME NEW n \in 0..Len(q) PROVE SubSeq(p, 1, n) = SubSeq(q, 1, n)
  <2>1. n \in Int /\ 1 \in Int /\ \A i \in 1..n : p[i] \in Words /\ q[i] \in Words /\ p[i] = q[i]
    BY <1>1
  <2>2. /\ SubSeq(p, 1, n) \in Seq(Words) /\ Len(SubSeq(p, 1, n)) = n
        /\ \A i \in 1..n : SubSeq(p, 1, n)[i] = p[i]
    BY <2>1, SubSeqProperties
  <2>3. /\ SubSeq(q, 1, n) \in Seq(Words) /\ Len(SubSeq(q, 1, n)) = n
        /\ \A i \in 1..n : SubSeq(q, 1, n)[i] = q[i]
    BY <2>1, SubSeqProperties
  <2> QED
    BY <2>1, <2>2, <2>3, SeqEqual
<1>4. ASSUME NEW m \in 0..Len(q)
      PROVE  /\ SubSeq(q, m + 1, Len(q)) \in Seq(Words)
             /\ SubSeq(p, m + 1, Len(q) + 1) = Append(SubSeq(q, m + 1, Len(q)), x)
  <2> DEFINE a == SubSeq(p, m + 1, Len(q) + 1)
             b == SubSeq(q, m + 1, Len(q))
  <2>1. /\ m + 1 \in Int /\ Len(q) \in Int /\ Len(q) + 1 \in Int
        /\ \A i \in (m + 1)..Len(q) : q[i] \in Words /\ p[i] = q[i]
        /\ \A i \in (m + 1)..(Len(q) + 1) : p[i] \in Words
    BY <1>1
  <2>2. /\ a \in Seq(Words) /\ Len(a) = Len(q) + 1 - m
        /\ \A i \in 1..(Len(q) + 1 - m) : a[i] = p[m + i]
    BY <2>1, SubSeqProperties
  <2>3. /\ b \in Seq(Words) /\ Len(b) = Len(q) - m
        /\ \A i \in 1..(Len(q) - m) : b[i] = q[m + i]
    BY <2>1, SubSeqProperties
  <2> HIDE DEF a, b
  <2>4. /\ Append(b, x) \in Seq(Words) /\ Len(Append(b, x)) = Len(b) + 1
        /\ \A i \in 1..Len(b) : Append(b, x)[i] = b[i]
        /\ Append(b, x)[Len(b) + 1] = x
    BY <2>3, AppendProperties
  <2>5. ASSUME NEW i \in 1..Len(a) PROVE a[i] = Append(b, x)[i]
    <3>1. CASE i \in 1..Len(b)
      <4>1. m + i \in (m + 1)..Len(q) /\ i \in 1..(Len(q) + 1 - m) /\ i \in 1..(Len(q) - m)
        BY <1>1, <2>3, <3>1
      <4>2. a[i] = p[m + i] /\ p[m + i] = q[m + i] /\ b[i] = q[m + i]
        BY <2>1, <2>2, <2>3, <4>1
      <4> QED
        BY <2>4, <3>1, <4>2
    <3>2. CASE i = Len(b) + 1
      BY <1>1, <2>1, <2>2, <2>3, <2>4, <3>2
    <3> QED
      BY <2>2, <2>3, <3>1, <3>2
  <2>6. a = Append(b, x)
    <3>1. Len(a) = Len(Append(b, x))
      BY <1>1, <2>2, <2>3, <2>4
    <3> QED
      BY <2>2, <2>4, <2>5, <3>1, SeqEqual
  <2> QED
    BY <2>3, <2>6 DEF a, b
<1> QED
  BY <1>1, <1>2, <1>3, <1>4 DEF p

\* A name that is no link leads on from where the links before it lead.
LEMMA NameLeadsOn ==
    ASSUME NEW q \in Seq(Words), NEW x \in Words, Append(q, x) \notin Config!Links
    PROVE  Config!Canonical(Append(q, x)) = Append(Config!Canonical(q), x)
<1> DEFINE p == Append(q, x)
<1>1. /\ p \in Seq(Words) /\ Len(p) = Len(q) + 1 /\ SubSeq(p, 1, Len(p)) = p /\ p \notin Config!Links
      /\ Len(q) \in Nat
  BY PartsOfLonger, LenProperties
<1>2. /\ \A n \in 0..Len(q) : SubSeq(p, 1, n) = SubSeq(q, 1, n)
      /\ \A n \in 0..Len(q) : /\ SubSeq(q, n + 1, Len(q)) \in Seq(Words)
                              /\ SubSeq(p, n + 1, Len(q) + 1) = Append(SubSeq(q, n + 1, Len(q)), x)
  BY PartsOfLonger
<1> HIDE DEF p
<1>3. Through(p) = Through(q)
  <2>1. 0..Len(p) = (0..Len(q)) \cup {Len(p)}
    BY <1>1
  <2> QED
    BY <1>1, <1>2, <2>1 DEF Through
<1>4. CASE Through(q) = {}
  BY <1>3, <1>4 DEF Config!Canonical, Through, p
<1>5. CASE Through(q) # {}
  <2> DEFINE m == Config!Min(Through(q))
             to == LinkTo[SubSeq(q, 1, m)]
             rest == SubSeq(q, m + 1, Len(q))
  <2>1. m \in 0..Len(q) /\ SubSeq(q, 1, m) \in Config!Links
    BY <1>5, PathsGoOn DEF Through
  <2>2. to \in Seq(Words)
    BY <2>1, WordsOnDisk
  <2>3. Config!Canonical(q) = to \o rest
    BY <1>5 DEF Config!Canonical, Through
  <2>4. Config!Canonical(p) = to \o SubSeq(p, m + 1, Len(p))
    <3>1. Config!Canonical(p) = LinkTo[SubSeq(p, 1, m)] \o SubSeq(p, m + 1, Len(p))
      BY <1>3, <1>5 DEF Config!Canonical, Through
    <3>2. SubSeq(p, 1, m) = SubSeq(q, 1, m)
      BY <1>2, <2>1
    <3> QED
      BY <3>1, <3>2
  <2>5. SubSeq(p, m + 1, Len(p)) = Append(rest, x) /\ rest \in Seq(Words)
    BY <1>1, <1>2, <2>1
  <2> HIDE DEF m, to, rest
  <2>6. to \o Append(rest, x) = Append(to \o rest, x)
    <3>1. <<x>> \in Seq(Words)
      OBVIOUS
    <3>2. Append(rest, x) = rest \o <<x>>
      BY <2>5, AppendIsConcat
    <3>3. to \o rest \in Seq(Words)
      BY <2>2, <2>5, ConcatProperties
    <3>4. Append(to \o rest, x) = (to \o rest) \o <<x>>
      BY <3>3, AppendIsConcat
    <3>5. (to \o rest) \o <<x>> = to \o (rest \o <<x>>)
      BY <2>2, <2>5, <3>1, ConcatAssociative
    <3> QED
      BY <3>2, <3>4, <3>5
  <2> QED
    BY <2>3, <2>4, <2>5, <2>6 DEF p
<1> QED
  BY <1>4, <1>5

LEMMA StaysUnder ==
    ASSUME NEW r \in Seq(Words), NEW q \in Seq(Words), NEW x \in Words, Config!IsUnder(q, r)
    PROVE  Config!IsUnder(Append(q, x), r)
<1>1. Len(r) <= Len(q) /\ SubSeq(r, 1, Len(r)) = SubSeq(q, 1, Len(r)) /\ Len(r) \in Nat /\ Len(q) \in Nat
  BY LenProperties DEF Config!IsUnder, Config!IsPrefix
<1>2. SubSeq(Append(q, x), 1, Len(r)) = SubSeq(q, 1, Len(r)) /\ Len(r) <= Len(Append(q, x))
  BY <1>1, PartsOfLonger
<1> QED
  BY <1>1, <1>2 DEF Config!IsUnder, Config!IsPrefix

Configs == [dir : Seq(Words) \cup {NoPath}, roots : RootSets \cup {{}}, faults : SUBSET {"scheduler"}]

\* The panel sends the roots of the configuration that the program has.
PanelInv ==
    /\ config \in Configs /\ config.roots \in RootSets /\ config.dir \in Seq(Words)
    /\ panel \in [pc : {"loading", "unloaded", "ready", "saving"}, base : Configs, sent : Configs]
    /\ panel.pc \in {"ready", "saving"} => panel.base = config
    /\ panel.pc = "saving" => panel.sent.roots = config.roots

Locals ==
    [pc : {"idle", "waits", "enter", "look", "make", "ensure", "check", "build", "refused", "done"},
     asked : Seq(Words) \cup {NoPath}, root : Seq(Words) \cup {NoPath},
     at : Seq(Words) \cup {NoPath}, todo : Seq(Words)]

IsRoot(r) == \E q \in config.roots : r = Config!Canonical(q)

\* A handler under way has a root; where it looks for a name, or is about to
\* make one, the links lead below that root.
HandlerInv(h) ==
    h.pc \notin {"idle", "waits", "refused"} =>
        /\ h.at \in Seq(Words) /\ IsRoot(h.root) /\ h.root \in Seq(Words)
        /\ h.pc = "look" => h.todo # <<>> /\ Config!IsUnder(Config!Canonical(h.at), h.root)
        /\ h.pc = "make" => \E q \in Seq(Words), x \in Words :
                               /\ h.at = Append(q, x)
                               /\ Config!IsUnder(Config!Canonical(q), h.root)
        /\ h.pc \in {"build", "done"} => Config!IsUnder(h.at, h.root)

MadeInv == \A p \in made : \E r \in config.roots : Config!IsPrefix(Config!Canonical(r), p)

DirsInv ==
    /\ <<>> \in dirs /\ PanelInv /\ creator \in [Creators -> Locals]
    /\ (\A c \in Creators : HandlerInv(creator[c])) /\ MadeInv

LEMMA DirsInit == Config!Init => DirsInv
<1> SUFFICES ASSUME Config!Init PROVE DirsInv
  OBVIOUS
<1>1. <<>> \in dirs /\ made = {}
  BY WordsOnDisk DEF Config!Init, WordsOnDisk
<1>2. PICK roots \in RootSets : \E r \in roots : config = [dir |-> r, roots |-> roots, faults |-> {}]
  BY DEF Config!Init
<1>3. PICK r \in roots : config = [dir |-> r, roots |-> roots, faults |-> {}]
  BY <1>2
<1>4. r \in Seq(Words)
  BY <1>3, WordsOnDisk
<1>5. PanelInv
  <2>1. Config!NoConfig \in Configs
    BY DEF Config!NoConfig, Configs
  <2>2. panel = [pc |-> "loading", base |-> Config!NoConfig, sent |-> Config!NoConfig]
    BY DEF Config!Init
  <2> QED
    BY <1>2, <1>3, <1>4, <2>1, <2>2 DEF PanelInv, Configs
<1>6. creator = [c \in Creators |-> Config!Resting] /\ Config!Resting \in Locals /\ Config!Resting.pc = "idle"
  <2>1. <<>> \in Seq(Words)
    OBVIOUS
  <2> QED
    BY <2>1 DEF Config!Init, Config!Resting, Locals
<1>7. creator \in [Creators -> Locals] /\ \A c \in Creators : creator[c].pc = "idle"
  BY <1>6
<1> QED
  BY <1>1, <1>5, <1>7 DEF DirsInv, HandlerInv, MadeInv

\* What the panel does leaves the roots alone.
LEMMA PanelKeeps ==
    ASSUME PanelInv, Config!LoadConfig \/ Config!Save \/ Config!UpdateConfig \/ Config!ConfigRefused
    PROVE  PanelInv' /\ config'.roots = config.roots /\ UNCHANGED <<dirs, creator, made>>
<1> USE DEF PanelInv
<1>0. Config!NoConfig \in Configs
  <2>1. {} \in RootSets \cup {{}} /\ {} \in SUBSET {"scheduler"}
    OBVIOUS
  <2> QED
    BY <2>1 DEF Config!NoConfig, Configs
<1>1. CASE Config!LoadConfig
  <2>1. UNCHANGED <<config, dirs, creator, made>>
    BY <1>1 DEF Config!LoadConfig, Config!panelOnly
  <2>2. \/ panel' = [pc |-> "ready", base |-> config, sent |-> panel.sent]
        \/ panel' = [pc |-> "unloaded", base |-> panel.base, sent |-> panel.sent]
    BY <1>1 DEF Config!LoadConfig
  <2> QED
    BY <2>1, <2>2
<1>2. CASE Config!Save
  <2>1. UNCHANGED <<config, dirs, creator, made>> /\ panel.pc = "ready"
    BY <1>2 DEF Config!Save, Config!panelOnly
  <2>a. PICK dir \in SaveDirs, faults \in {{}, {"scheduler"}} :
            \E new : /\ new = [panel.base EXCEPT !.dir = dir, !.faults = faults]
                     /\ panel' = [panel EXCEPT !.pc = "saving", !.sent = new]
    BY <1>2 DEF Config!Save
  <2>b. PICK new : /\ new = [panel.base EXCEPT !.dir = dir, !.faults = faults]
                   /\ panel' = [panel EXCEPT !.pc = "saving", !.sent = new]
    BY <2>a
  <2>3. new = [dir |-> dir, roots |-> panel.base.roots, faults |-> faults] /\ panel.base.roots \in RootSets \cup {{}}
    <3>1. PICK b \in Configs : b = panel.base /\ new = [b EXCEPT !.dir = dir, !.faults = faults]
      BY <2>b
    <3> HIDE DEF PanelInv
    <3>2. b.roots \in RootSets \cup {{}} /\ b.roots = panel.base.roots
      BY <3>1 DEF Configs
    <3>3. new = [dir |-> dir, roots |-> b.roots, faults |-> faults]
      BY <3>1 DEF Configs
    <3> QED
      BY <3>2, <3>3
  <2>4. dir \in Seq(Words) /\ faults \in SUBSET {"scheduler"}
    BY WordsOnDisk
  <2>5. new \in Configs /\ new.roots = panel.base.roots
    BY <2>3, <2>4 DEF Configs
  <2>6. panel' = [pc |-> "saving", base |-> panel.base, sent |-> new]
    BY <2>b
  <2> QED
    BY <2>1, <2>5, <2>6
<1>3. CASE Config!UpdateConfig
  <2>1. /\ panel.pc = "saving" /\ config' = panel.sent /\ UNCHANGED <<dirs, creator, made>>
        /\ panel' = [pc |-> "ready", base |-> panel.sent, sent |-> Config!NoConfig]
        /\ panel.sent.dir # NoPath
    BY <1>3 DEF Config!UpdateConfig, Config!panelOnly, Config!Accepted
  <2>2. panel.sent \in Configs /\ panel.sent.roots = config.roots
    BY <2>1
  <2>3. panel.sent.dir \in Seq(Words)
    BY <2>1, <2>2 DEF Configs
  <2> QED
    BY <1>0, <2>1, <2>2, <2>3
<1>4. CASE Config!ConfigRefused
  <2>1. /\ UNCHANGED <<config, dirs, creator, made>> /\ panel.pc = "saving"
        /\ panel' = [pc |-> "ready", base |-> panel.base, sent |-> Config!NoConfig]
    BY <1>4 DEF Config!ConfigRefused, Config!panelOnly
  <2> QED
    BY <1>0, <2>1
<1> QED
  BY <1>1, <1>2, <1>3, <1>4

\* A handler goes on, and the others stand where they stood.
LEMMA OneHandler ==
    ASSUME creator \in [Creators -> Locals], \A d \in Creators : HandlerInv(creator[d]),
           config'.roots = config.roots,
           NEW c \in Creators, NEW h \in Locals, HandlerInv(h), creator' = [creator EXCEPT ![c] = h]
    PROVE  creator' \in [Creators -> Locals] /\ \A d \in Creators : HandlerInv(creator[d])'
<1>1. \A r : IsRoot(r) => IsRoot(r)'
  BY DEF IsRoot
<1>2. ASSUME NEW d \in Creators, NEW k, HandlerInv(k), creator'[d] = k PROVE HandlerInv(creator[d])'
  BY <1>1, <1>2 DEF HandlerInv
<1>3. creator'[c] = h /\ \A d \in Creators : d # c => creator'[d] = creator[d]
  OBVIOUS
<1>4. ASSUME NEW d \in Creators PROVE HandlerInv(creator[d])'
  <2>1. CASE d = c
    BY <1>2, <1>3, <2>1
  <2>2. CASE d # c
    <3>1. HandlerInv(creator[d]) /\ creator'[d] = creator[d]
      BY <1>3, <2>2
    <3> QED
      BY <1>2, <3>1
  <2> QED
    BY <2>1, <2>2
<1> QED
  BY <1>4

LEMMA RefusedFits ==
    ASSUME NEW h \in Locals
    PROVE  [h EXCEPT !.pc = "refused"] \in Locals /\ HandlerInv([h EXCEPT !.pc = "refused"])
<1>1. [h EXCEPT !.pc = "refused"] = [pc |-> "refused", asked |-> h.asked, root |-> h.root,
                                      at |-> h.at, todo |-> h.todo]
  BY DEF Locals
<1> QED
  BY <1>1 DEF Locals, HandlerInv

\* What a handler is after it was found fit to go on.
LEMMA EntersFits ==
    ASSUME NEW h \in Locals, HandlerInv(h), h.pc \in {"enter", "ensure"},
           Config!Ensured(h.at, h.root)
    PROVE  Config!NextPart(h) \in Locals /\ HandlerInv(Config!NextPart(h))
<1> DEFINE where == IF h.todo = <<>> THEN "check" ELSE "look"
<1>1. Config!NextPart(h) = [pc |-> where, asked |-> h.asked, root |-> h.root, at |-> h.at, todo |-> h.todo]
  BY DEF Config!NextPart, Locals
<1>2. h.at \in Seq(Words) /\ IsRoot(h.root) /\ h.root \in Seq(Words)
  BY DEF HandlerInv
<1>3. Config!IsUnder(Config!Canonical(h.at), h.root)
  BY DEF Config!Ensured
<1>4. where \in {"check", "look"} /\ (where = "look" => h.todo # <<>>)
  OBVIOUS
<1> HIDE DEF where
<1> QED
  BY <1>1, <1>2, <1>3, <1>4 DEF Locals, HandlerInv

LEMMA LooksFits ==
    ASSUME NEW h \in Locals, HandlerInv(h), h.pc = "look",
           NEW where \in {"ensure", "make"}, NEW k,
           k = [h EXCEPT !.pc = where, !.at = Append(h.at, Head(h.todo)), !.todo = Tail(h.todo)]
    PROVE  k \in Locals /\ HandlerInv(k)
<1>1. /\ h.at \in Seq(Words) /\ IsRoot(h.root) /\ h.root \in Seq(Words)
      /\ h.todo # <<>> /\ Config!IsUnder(Config!Canonical(h.at), h.root)
      /\ h.todo \in Seq(Words)
  BY DEF HandlerInv, Locals
<1>2. Head(h.todo) \in Words /\ Tail(h.todo) \in Seq(Words)
  BY <1>1, HeadTailProperties
<1>3. Append(h.at, Head(h.todo)) \in Seq(Words)
  BY <1>1, <1>2, AppendProperties
<1>4. k = [pc |-> where, asked |-> h.asked, root |-> h.root, at |-> Append(h.at, Head(h.todo)),
           todo |-> Tail(h.todo)]
  BY DEF Locals
<1>5. k \in Locals
  BY <1>2, <1>3, <1>4 DEF Locals
<1>6. \E q \in Seq(Words), x \in Words :
        k.at = Append(q, x) /\ Config!IsUnder(Config!Canonical(q), k.root)
  BY <1>1, <1>2, <1>4
<1>7. k.at \in Seq(Words) /\ k.root = h.root /\ k.pc = where
  BY <1>3, <1>4
<1> QED
  BY <1>1, <1>5, <1>6, <1>7 DEF HandlerInv

\* Where the links of a root lead is a path.
LEMMA RootsArePaths ==
    ASSUME PanelInv, NEW r, IsRoot(r)
    PROVE  r \in Seq(Words)
<1>1. PICK q \in config.roots : r = Config!Canonical(q)
  BY DEF IsRoot
<1>2. q \in Seq(Words)
  BY WordsOnDisk DEF PanelInv
<1> QED
  BY <1>1, <1>2, PathsGoOn

\* The parent of all that is missing is there: `/' always is.
LEMMA AncestorIsThere ==
    ASSUME <<>> \in dirs, NEW p \in Seq(Words)
    PROVE  \E n \in 0..Len(p) : Config!DeepestExisting(p) = SubSeq(p, 1, n)
<1> DEFINE A == {n \in 0..Len(p) : Config!Exists(SubSeq(p, 1, n))}
<1>1. SubSeq(p, 1, 0) = <<>> /\ Len(p) \in Nat
  BY SubSeqEmpty, LenProperties
<1>2. Config!Canonical(<<>>) = <<>>
  <2>1. Len(<<>>) = 0 /\ SubSeq(<<>>, 1, 0) = <<>> /\ 0..0 = {0}
    BY SubSeqEmpty
  <2>2. {n \in 0..0 : SubSeq(<<>>, 1, n) \in Config!Links} = {}
    BY <2>1, WordsOnDisk
  <2> QED
    BY <2>1, <2>2 DEF Config!Canonical
<1>3. 0 \in A
  <2>1. Config!Exists(SubSeq(p, 1, 0))
    BY <1>1, <1>2 DEF Config!Exists
  <2>2. 0 \in 0..Len(p)
    BY <1>1
  <2> QED
    BY <2>1, <2>2
<1>4. Config!Max(A) \in A
  BY <1>1, <1>3, GreatestIsThere
<1> QED
  BY <1>4 DEF Config!DeepestExisting

LEMMA PartOfPath ==
    ASSUME NEW p \in Seq(Words), NEW n \in 0..Len(p)
    PROVE  SubSeq(p, 1, n) \in Seq(Words) /\ SubSeq(p, n + 1, Len(p)) \in Seq(Words)
           /\ Len(SubSeq(p, 1, n)) = n
<1>1. n \in Int /\ 1 \in Int /\ n + 1 \in Int /\ Len(p) \in Int /\ n \in Nat
  BY LenProperties
<1>2. (\A i \in 1..n : p[i] \in Words) /\ \A i \in (n + 1)..Len(p) : p[i] \in Words
  BY <1>1, ElementOfSeq
<1> QED
  BY <1>1, <1>2, SubSeqProperties

LEMMA AuthorizeFits ==
    ASSUME DirsInv, NEW c \in Creators, Config!Authorize(c)
    PROVE  \E h \in Locals : HandlerInv(h) /\ creator' = [creator EXCEPT ![c] = h]
<1>1. /\ <<>> \in dirs /\ PanelInv /\ creator[c] \in Locals /\ config.dir \in Seq(Words)
  BY DEF DirsInv, PanelInv
<1> DEFINE asked == IF creator[c].asked = NoPath THEN config.dir ELSE creator[c].asked
           ancestor == Config!DeepestExisting(asked)
           roots == {Config!Canonical(r) : r \in config.roots}
           over == {r \in roots : Config!IsUnder(Config!Canonical(ancestor), r)}
           rest == SubSeq(asked, Len(ancestor) + 1, Len(asked))
           entered(r) == [pc |-> "enter", asked |-> asked, root |-> r,
                          at |-> Config!Canonical(ancestor), todo |-> rest]
<1>2. \/ Config!Refuse(c)
      \/ \E r \in over : creator' = [creator EXCEPT ![c] = entered(r)]
  BY DEF Config!Authorize, Config!Now
<1>3. asked \in Seq(Words)
  BY <1>1 DEF Locals
<1> HIDE DEF asked
<1>4. ancestor \in Seq(Words) /\ rest \in Seq(Words)
  <2>1. PICK n \in 0..Len(asked) : ancestor = SubSeq(asked, 1, n)
    BY <1>1, <1>3, AncestorIsThere
  <2> QED
    BY <1>3, <2>1, PartOfPath
<1> HIDE DEF ancestor, rest
<1>5. Config!Canonical(ancestor) \in Seq(Words)
  BY <1>4, PathsGoOn
<1>6. CASE Config!Refuse(c)
  BY <1>1, <1>6, RefusedFits DEF Config!Refuse, Config!Now
<1>7. ASSUME NEW r \in over, creator' = [creator EXCEPT ![c] = entered(r)]
      PROVE  entered(r) \in Locals /\ HandlerInv(entered(r))
  <2>1. IsRoot(r)
    BY DEF IsRoot
  <2>2. r \in Seq(Words)
    BY <1>1, <2>1, RootsArePaths
  <2> QED
    BY <1>3, <1>4, <1>5, <2>1, <2>2 DEF Locals, HandlerInv
<1> HIDE DEF entered, over
<1> QED
  BY <1>2, <1>6, <1>7

LEMMA HandlerFits ==
    ASSUME DirsInv, NEW c \in Creators,
           \/ Config!Ask(c) \/ Config!Authorize(c) \/ Config!Enter(c) \/ Config!Look(c)
           \/ Config!Make(c) \/ Config!Check(c) \/ Config!BuildConfig(c)
    PROVE  \E h \in Locals : HandlerInv(h) /\ creator' = [creator EXCEPT ![c] = h]
<1>1. creator[c] \in Locals /\ HandlerInv(creator[c])
  BY DEF DirsInv
<1>2. PICK h \in Locals : h = creator[c]
  BY <1>1
<1>3. HandlerInv(h)
  BY <1>1, <1>2
<1>4. CASE Config!Refuse(c)
  BY <1>1, <1>4, RefusedFits DEF Config!Refuse, Config!Now
<1>5. CASE Config!Ask(c)
  <2>0. PICK p \in Paths \cup {NoPath} :
            \E k : /\ k = [Config!Resting EXCEPT !.pc = "waits", !.asked = p]
                   /\ creator' = [creator EXCEPT ![c] = k]
    BY <1>5 DEF Config!Ask, Config!Now
  <2>1. PICK k : k = [Config!Resting EXCEPT !.pc = "waits", !.asked = p] /\ creator' = [creator EXCEPT ![c] = k]
    BY <2>0
  <2>2. k = [pc |-> "waits", asked |-> p, root |-> NoPath, at |-> NoPath, todo |-> <<>>]
    BY <2>1 DEF Config!Resting
  <2>3. p \in Seq(Words) \cup {NoPath} /\ <<>> \in Seq(Words)
    BY WordsOnDisk
  <2> QED
    BY <2>1, <2>2, <2>3 DEF Locals, HandlerInv
<1>6. CASE Config!Authorize(c)
  BY <1>6, AuthorizeFits
<1>7. CASE Config!Enter(c)
  <2>1. CASE Config!Ensured(h.at, h.root)
    <3>1. h.pc \in {"enter", "ensure"} /\ creator' = [creator EXCEPT ![c] = Config!NextPart(h)]
      BY <1>2, <1>7, <2>1 DEF Config!Enter, Config!Now
    <3> QED
      BY <1>3, <2>1, <3>1, EntersFits
  <2>2. CASE ~Config!Ensured(h.at, h.root)
    <3>1. Config!Refuse(c)
      BY <1>2, <1>7, <2>2 DEF Config!Enter
    <3> QED
      BY <1>4, <3>1
  <2> QED
    BY <2>1, <2>2
<1>8. CASE Config!Look(c)
  <2>1. \E where \in {"ensure", "make"} : \E k :
            /\ k = [h EXCEPT !.pc = where, !.at = Append(h.at, Head(h.todo)), !.todo = Tail(h.todo)]
            /\ creator' = [creator EXCEPT ![c] = k]
    BY <1>2, <1>8 DEF Config!Look, Config!Now
  <2>2. h.pc = "look"
    BY <1>2, <1>8 DEF Config!Look
  <2> QED
    BY <1>3, <2>1, <2>2, LooksFits
<1>9. CASE Config!Make(c)
  <2>1. CASE creator' = [creator EXCEPT ![c] = [creator[c] EXCEPT !.pc = "ensure"]]
    <3>1. PICK k : k = [h EXCEPT !.pc = "ensure"] /\ creator' = [creator EXCEPT ![c] = k]
      BY <1>2, <2>1
    <3>2. k = [pc |-> "ensure", asked |-> h.asked, root |-> h.root, at |-> h.at, todo |-> h.todo]
      BY <3>1 DEF Locals
    <3>3. h.pc = "make"
      BY <1>2, <1>9 DEF Config!Make
    <3>4. k \in Locals
      BY <3>2 DEF Locals
    <3>5. HandlerInv(k)
      BY <1>3, <3>2, <3>3 DEF HandlerInv
    <3> QED
      BY <3>1, <3>4, <3>5
  <2> QED
    BY <1>4, <1>9, <2>1 DEF Config!Make, Config!Now
<1>10. CASE Config!Check(c)
  <2> DEFINE p == Config!Canonical(h.at)
  <2>1. h.pc = "check" /\ h.at \in Seq(Words) /\ IsRoot(h.root) /\ h.root \in Seq(Words)
    BY <1>2, <1>3, <1>10 DEF Config!Check, HandlerInv
  <2>2. p \in Seq(Words)
    BY <2>1, PathsGoOn
  <2> HIDE DEF p
  <2>3. ASSUME NEW k, k = [h EXCEPT !.pc = "build", !.at = p], Config!IsUnder(p, h.root)
        PROVE  k \in Locals /\ HandlerInv(k)
    <3>1. k = [pc |-> "build", asked |-> h.asked, root |-> h.root, at |-> p, todo |-> h.todo]
      BY <2>3 DEF Locals
    <3> QED
      BY <2>1, <2>2, <2>3, <3>1 DEF Locals, HandlerInv
  <2>4. \/ Config!Refuse(c)
        \/ /\ Config!IsUnder(p, h.root)
           /\ \E k : k = [h EXCEPT !.pc = "build", !.at = p] /\ creator' = [creator EXCEPT ![c] = k]
    BY <1>2, <1>10 DEF Config!Check, Config!Now, p
  <2> QED
    BY <1>4, <2>3, <2>4
<1>11. CASE Config!BuildConfig(c)
  <2>1. PICK k : k = [h EXCEPT !.pc = "done"] /\ creator' = [creator EXCEPT ![c] = k]
    BY <1>2, <1>11 DEF Config!BuildConfig, Config!Now
  <2>2. k = [pc |-> "done", asked |-> h.asked, root |-> h.root, at |-> h.at, todo |-> h.todo]
    BY <2>1 DEF Locals
  <2>3. h.pc = "build"
    BY <1>2, <1>11 DEF Config!BuildConfig
  <2>4. k \in Locals
    BY <2>2 DEF Locals
  <2>5. HandlerInv(k)
    BY <1>3, <2>2, <2>3 DEF HandlerInv
  <2> QED
    BY <2>1, <2>4, <2>5
<1> QED
  BY <1>5, <1>6, <1>7, <1>8, <1>9, <1>10, <1>11

\* What is made next is below the root.
LEMMA MakesBelow ==
    ASSUME DirsInv, NEW c \in Creators, Config!Make(c)
    PROVE  MadeInv' /\ <<>> \in dirs'
<1>1. /\ HandlerInv(creator[c]) /\ creator[c].pc = "make" /\ config' = config /\ MadeInv
      /\ <<>> \in dirs
  BY DEF DirsInv, Config!Make, Config!creatorOnly
<1>2. CASE UNCHANGED <<dirs, made>>
  BY <1>1, <1>2 DEF MadeInv
<1>3. CASE /\ creator[c].at \notin Config!Links
           /\ dirs' = dirs \cup {Config!Canonical(creator[c].at)}
           /\ made' = made \cup {Config!Canonical(creator[c].at)}
  <2>1. PICK q \in Seq(Words), x \in Words :
            creator[c].at = Append(q, x) /\ Config!IsUnder(Config!Canonical(q), creator[c].root)
    BY <1>1 DEF HandlerInv
  <2>2. Config!Canonical(creator[c].at) = Append(Config!Canonical(q), x)
    BY <1>3, <2>1, NameLeadsOn
  <2>3. Config!IsUnder(Config!Canonical(creator[c].at), creator[c].root)
    BY <1>1, <2>1, <2>2, PathsGoOn, StaysUnder DEF HandlerInv
  <2>4. \E r \in config.roots : Config!IsPrefix(Config!Canonical(r), Config!Canonical(creator[c].at))
    BY <1>1, <2>3 DEF HandlerInv, IsRoot, Config!IsUnder
  <2> QED
    BY <1>1, <1>3, <2>4 DEF MadeInv
<1> QED
  BY <1>2, <1>3 DEF Config!Make

LEMMA DirsStep == DirsInv /\ [Config!Next]_(Config!configVars) => DirsInv'
<1> SUFFICES ASSUME DirsInv, [Config!Next]_(Config!configVars) PROVE DirsInv'
  OBVIOUS
<1>0. /\ <<>> \in dirs /\ PanelInv /\ creator \in [Creators -> Locals] /\ MadeInv
      /\ \A c \in Creators : HandlerInv(creator[c])
  BY DEF DirsInv
<1>1. ASSUME UNCHANGED <<creator, config>> PROVE \A c \in Creators : HandlerInv(creator[c])'
  BY <1>0, <1>1 DEF HandlerInv, IsRoot
<1>2. CASE UNCHANGED Config!configVars
  <2>1. UNCHANGED <<dirs, config, locked, panel, creator, made>>
    BY <1>2 DEF Config!configVars
  <2> QED
    BY <1>0, <1>1, <2>1 DEF DirsInv, PanelInv, MadeInv
<1>3. CASE Config!LoadConfig \/ Config!Save \/ Config!UpdateConfig \/ Config!ConfigRefused
  <2>1. PanelInv' /\ config'.roots = config.roots /\ UNCHANGED <<dirs, creator, made>>
    BY <1>0, <1>3, PanelKeeps
  <2>2. \A c \in Creators : HandlerInv(creator[c])'
    BY <1>0, <2>1 DEF HandlerInv, IsRoot
  <2>3. MadeInv'
    BY <1>0, <2>1 DEF MadeInv
  <2> QED
    BY <1>0, <2>1, <2>2, <2>3 DEF DirsInv
<1>4. ASSUME NEW c \in Creators,
             \/ Config!Ask(c) \/ Config!Authorize(c) \/ Config!Enter(c) \/ Config!Look(c)
             \/ Config!Make(c) \/ Config!Check(c) \/ Config!BuildConfig(c)
      PROVE  DirsInv'
  <2>1. UNCHANGED <<config, panel>>
    BY <1>4 DEF Config!Ask, Config!Authorize, Config!Enter, Config!Look, Config!Make, Config!Check,
                Config!BuildConfig, Config!creatorOnly
  <2>2. PICK h \in Locals : HandlerInv(h) /\ creator' = [creator EXCEPT ![c] = h]
    BY <1>4, HandlerFits
  <2>3. creator' \in [Creators -> Locals] /\ \A d \in Creators : HandlerInv(creator[d])'
    BY <1>0, <2>1, <2>2, OneHandler
  <2>4. PanelInv'
    BY <1>0, <2>1 DEF PanelInv
  <2>5. <<>> \in dirs' /\ MadeInv'
    <3>1. CASE Config!Make(c)
      BY <3>1, MakesBelow
    <3>2. CASE ~Config!Make(c)
      <4>1. UNCHANGED <<dirs, made>>
        BY <1>4, <3>2 DEF Config!Ask, Config!Authorize, Config!Enter, Config!Look, Config!Check,
                          Config!BuildConfig
      <4> QED
        BY <1>0, <2>1, <4>1 DEF MadeInv
    <3> QED
      BY <3>1, <3>2
  <2> QED
    BY <2>3, <2>4, <2>5 DEF DirsInv
<1>5. CASE Config!DiskChanges
  <2>1. UNCHANGED <<config, locked, panel, creator, made>> /\ <<>> \in dirs'
    BY <1>0, <1>5 DEF Config!DiskChanges
  <2> QED
    BY <1>0, <1>1, <2>1 DEF DirsInv, PanelInv, MadeInv
<1> QED
  BY <1>2, <1>3, <1>4, <1>5 DEF Config!Next

LEMMA DirsPromises == DirsInv => Config!DirsAuthorized
<1> SUFFICES ASSUME DirsInv PROVE Config!DirsAuthorized
  OBVIOUS
<1>1. panel.pc = "ready" => panel.base = config
  BY DEF DirsInv, PanelInv
<1>2. \A p \in made : \E r \in config.roots : Config!IsPrefix(Config!Canonical(r), p)
  BY DEF DirsInv, MadeInv
<1>3. \A c \in Creators : creator[c].pc \in {"build", "done"} =>
          \E r \in config.roots : Config!IsPrefix(Config!Canonical(r), creator[c].at)
  BY DEF DirsInv, HandlerInv, IsRoot, Config!IsUnder
<1> QED
  BY <1>1, <1>2, <1>3 DEF Config!DirsAuthorized

-----------------------------------------------------------------------------
(* The meters.                                                              *)

\* What of ServicesAssumption the meters need.
LEMMA MeterConstants ==
    IsFiniteSet(MeterFrags) /\ FragBytes \in Nat /\ Speeds \subseteq Nat /\ RingSize \in Nat \ {0}
BY ServicesAssumption

\* The place of the i-th last speed.
Slot(w, i) == ((w - 1 - i + 2 * RingSize) % RingSize) + 1

LEMMA Remainders ==
    ASSUME NEW R \in Nat \ {0}, NEW a \in 0..(R - 1)
    PROVE  a % R = a /\ (a + R) % R = a /\ R % R = 0
OBVIOUS

LEMMA SlotIs ==
    ASSUME NEW w \in 1..RingSize, NEW i \in 1..RingSize
    PROVE  Slot(w, i) = IF i < w THEN w - i ELSE w - i + RingSize
<1>1. RingSize \in Nat \ {0}
  BY MeterConstants
<1> DEFINE R == RingSize
           a == IF i < w THEN w - i - 1 ELSE w - i - 1 + R
<1>2. a \in 0..(R - 1)
  BY <1>1
<1>3. w - 1 - i + 2 * R = (IF i < w THEN a + R + R ELSE a + R)
  BY <1>1
<1>4. (a + R) % R = a /\ (a + R + R) % R = a
  <2> HIDE DEF R, a
  <2> QED
    BY <1>1, <1>2 DEF R
<1> QED
  BY <1>1, <1>2, <1>3, <1>4 DEF Slot

LEMMA NextIndex ==
    ASSUME NEW w \in 1..RingSize
    PROVE  (w % RingSize) + 1 = IF w = RingSize THEN 1 ELSE w + 1
<1>1. RingSize \in Nat \ {0}
  BY MeterConstants
<1>2. CASE w = RingSize
  BY <1>1, <1>2, Remainders
<1>3. CASE w # RingSize
  <2>1. w \in 0..(RingSize - 1)
    BY <1>1, <1>3
  <2> QED
    BY <1>1, <1>3, <2>1, Remainders
<1> QED
  BY <1>2, <1>3

\* When the next speed is written, the place of every other one is that of
\* one speed later; and in a full ring the next place is that of the oldest.
LEMMA SlotsMove ==
    ASSUME NEW w \in 1..RingSize
    PROVE  /\ (w % RingSize) + 1 \in 1..RingSize
           /\ Slot((w % RingSize) + 1, 1) = w /\ Slot(w, RingSize) = w
           /\ \A i \in 1..(RingSize - 1) :
                 /\ Slot((w % RingSize) + 1, i + 1) = Slot(w, i)
                 /\ Slot(w, i) \in (1..RingSize) \ {w}
           /\ \A j \in (1..RingSize) \ {w} : \E i \in 1..(RingSize - 1) : Slot(w, i) = j
<1>1. RingSize \in Nat \ {0}
  BY MeterConstants
<1> DEFINE v == (w % RingSize) + 1
<1>2. v = IF w = RingSize THEN 1 ELSE w + 1
  BY NextIndex
<1> HIDE DEF v
<1>3. v \in 1..RingSize
  BY <1>1, <1>2
<1>4. Slot(v, 1) = w
  <2>1. 1 \in 1..RingSize
    BY <1>1
  <2>2. Slot(v, 1) = IF 1 < v THEN v - 1 ELSE v - 1 + RingSize
    BY <1>3, <2>1, SlotIs
  <2> QED
    BY <1>1, <1>2, <2>2
<1>5. Slot(w, RingSize) = w
  <2>1. RingSize \in 1..RingSize
    BY <1>1
  <2>2. Slot(w, RingSize) = IF RingSize < w THEN w - RingSize ELSE w - RingSize + RingSize
    BY <2>1, SlotIs
  <2> QED
    BY <1>1, <2>2
<1>6. ASSUME NEW i \in 1..(RingSize - 1)
      PROVE  Slot(v, i + 1) = Slot(w, i) /\ Slot(w, i) \in (1..RingSize) \ {w}
  <2>1. i \in 1..RingSize /\ i + 1 \in 1..RingSize
    BY <1>1
  <2>2. Slot(v, i + 1) = IF i + 1 < v THEN v - (i + 1) ELSE v - (i + 1) + RingSize
    BY <1>3, <2>1, SlotIs
  <2>3. Slot(w, i) = IF i < w THEN w - i ELSE w - i + RingSize
    BY <2>1, SlotIs
  <2> QED
    BY <1>1, <1>2, <2>1, <2>2, <2>3
<1>7. ASSUME NEW j \in (1..RingSize) \ {w}
      PROVE  \E i \in 1..(RingSize - 1) : Slot(w, i) = j
  <2> DEFINE i == IF j < w THEN w - j ELSE w - j + RingSize
  <2>1. i \in 1..(RingSize - 1) /\ i \in 1..RingSize
    BY <1>1
  <2>2. Slot(w, i) = IF i < w THEN w - i ELSE w - i + RingSize
    <3> HIDE DEF i
    <3> QED
      BY <2>1, SlotIs
  <2>3. Slot(w, i) = j
    BY <1>1, <2>2
  <2> HIDE DEF i
  <2> QED
    BY <2>1, <2>3
<1> QED
  BY <1>3, <1>4, <1>5, <1>6, <1>7 DEF v
-----------------------------------------------------------------------------
(* The ring of speeds and the counts of the fragments.                      *)

RingInv ==
    /\ pushed \in Seq(Nat) /\ Len(pushed) = ringCount
    /\ ringCount \in 0..RingSize /\ writeIndex \in 1..RingSize
    /\ ring \in [1..RingSize -> Nat]
    /\ \A i \in 1..ringCount : ring[Slot(writeIndex, i)] = pushed[i]
    /\ ringSum = SumOver(pushed)
    /\ peak \in Nat /\ \A i \in 1..ringCount : pushed[i] =< peak
    /\ peak = 0 \/ \E i \in 1..ringCount : pushed[i] = peak

ReportType == [frag : MeterFrags, bytes : 0..FragBytes, completed : BOOLEAN]

CountInv ==
    /\ received \in [MeterFrags -> 0..FragBytes] /\ fragBytes \in [MeterFrags -> 0..FragBytes]
    /\ reports \in Seq(ReportType)
    /\ total \in Nat /\ total >= SumOver(fragBytes)

MeterInv == RingInv /\ CountInv

\* An empty ring.
LEMMA RingCleared ==
    ASSUME ring' = [i \in 1..RingSize |-> 0], writeIndex' = 1, ringCount' = 0,
           ringSum' = 0, peak' = 0, pushed' = <<>>
    PROVE  RingInv'
<1>1. pushed' \in Seq(Nat) /\ Len(pushed') = 0 /\ 1 \in 1..RingSize /\ 0 \in 0..RingSize
  BY MeterConstants
<1>2. ring' \in [1..RingSize -> Nat]
  OBVIOUS
<1>3. ringSum' = SumOver(pushed')
  BY EmptySum
<1> QED
  BY <1>1, <1>2, <1>3 DEF RingInv

LEMMA MeterBegins == Meter!Init => MeterInv
<1> SUFFICES ASSUME Meter!Init PROVE MeterInv
  OBVIOUS
<1>1. RingInv
  <2>1. pushed \in Seq(Nat) /\ Len(pushed) = 0 /\ 1 \in 1..RingSize /\ 0 \in 0..RingSize
    BY MeterConstants DEF Meter!Init
  <2>2. ring \in [1..RingSize -> Nat] /\ ringCount = 0 /\ writeIndex = 1 /\ ringSum = 0 /\ peak = 0
    BY DEF Meter!Init
  <2>3. ringSum = SumOver(pushed)
    BY EmptySum DEF Meter!Init
  <2> QED
    BY <2>1, <2>2, <2>3 DEF RingInv
<1>2. CountInv
  <2>1. received \in [MeterFrags -> 0..FragBytes] /\ fragBytes \in [MeterFrags -> 0..FragBytes]
    BY MeterConstants DEF Meter!Init
  <2>2. reports \in Seq(ReportType) /\ total = 0
    BY DEF Meter!Init
  <2>3. SumOver(fragBytes) = 0
    BY SumOfNone, MeterConstants DEF Meter!Init
  <2> QED
    BY <2>1, <2>2, <2>3 DEF CountInv
<1> QED
  BY <1>1, <1>2 DEF MeterInv

\* Max of a set of naturals that has a greatest element.
LEMMA MaxOf ==
    ASSUME NEW S \in SUBSET Nat, NEW m \in S, \A x \in S : x =< m
    PROVE  Meter!Max(S) = m
<1>1. \A x \in S : m >= x
  OBVIOUS
<1>2. Meter!Max(S) \in S /\ \A x \in S : Meter!Max(S) >= x
  BY <1>1 DEF Meter!Max
<1>3. Meter!Max(S) \in Nat /\ m \in Nat /\ Meter!Max(S) >= m /\ Meter!Max(S) =< m
  BY <1>2
<1> QED
  BY <1>3

LEMMA MinOfTwo ==
    ASSUME NEW a \in Nat, NEW b \in Nat
    PROVE  Meter!Min({a, b}) = IF a =< b THEN a ELSE b
<1> DEFINE m == IF a =< b THEN a ELSE b
<1>1. m \in {a, b} /\ \A x \in {a, b} : m =< x
  OBVIOUS
<1>2. Meter!Min({a, b}) \in {a, b} /\ \A x \in {a, b} : Meter!Min({a, b}) =< x
  BY <1>1 DEF Meter!Min
<1> QED
  BY <1>2


LEMMA PushedIs ==
    ASSUME RingInv, NEW v \in Nat
    PROVE  LET n == IF ringCount = RingSize THEN RingSize ELSE ringCount + 1
               p == SubSeq(<<v>> \o pushed, 1, n) IN
           /\ n \in 1..RingSize /\ p \in Seq(Nat) /\ Len(p) = n /\ p[1] = v
           /\ \A i \in 2..n : i - 1 \in 1..ringCount /\ p[i] = pushed[i - 1]
           /\ SumOver(p) =
                (IF ringCount = RingSize THEN ringSum - pushed[RingSize] ELSE ringSum) + v
<1> DEFINE n == IF ringCount = RingSize THEN RingSize ELSE ringCount + 1
           t == <<v>> \o pushed
           p == SubSeq(t, 1, n)
<1>1. RingSize \in Nat \ {0} /\ ringCount \in Nat /\ ringCount =< RingSize /\ pushed \in Seq(Nat) /\ Len(pushed) = ringCount
  BY MeterConstants DEF RingInv
<1>2. n \in 1..RingSize /\ n =< ringCount + 1
  BY <1>1
<1>3. t \in Seq(Nat) /\ Len(t) = ringCount + 1 /\ t[1] = v /\ \A i \in 2..(ringCount + 1) : t[i] = pushed[i - 1]
  BY <1>1
<1>4. SumOver(pushed) \in Nat /\ SumOver(t) = v + SumOver(pushed)
  BY <1>1, SumPrepended
<1> HIDE DEF t
<1>5. p \in Seq(Nat) /\ Len(p) = n /\ \A i \in 1..n : p[i] = t[i]
  <2>1. \A m \in Nat : m =< Len(t) =>
            /\ SubSeq(t, 1, m) \in Seq(Nat) /\ Len(SubSeq(t, 1, m)) = m
            /\ \A k \in 1..m : SubSeq(t, 1, m)[k] = t[k]
    BY <1>3
  <2>2. n \in Nat /\ n =< Len(t)
    BY <1>2, <1>3
  <2> HIDE DEF n
  <2> QED
    BY <2>1, <2>2
<1>6. p[1] = v /\ \A i \in 2..n : i - 1 \in 1..ringCount /\ p[i] = pushed[i - 1]
  BY <1>1, <1>2, <1>3, <1>5
<1>7. ringSum = SumOver(pushed)
  BY DEF RingInv
<1>8. SumOver(p) = (IF ringCount = RingSize THEN ringSum - pushed[RingSize] ELSE ringSum) + v
  <2>1. CASE ringCount = RingSize
    <3>1. t # <<>> /\ Len(t) = RingSize + 1 /\ n = Len(t) - 1
      BY <1>1, <1>3, <2>1
    <3>2. p = SubSeq(t, 1, Len(t) - 1)
      BY <3>1
    <3>3. SumOver(p) = SumOver(t) - t[Len(t)]
      <4> HIDE DEF p
      <4> QED
        BY <1>3, <3>1, <3>2, SumWithoutLast
    <3>4. t[Len(t)] = pushed[RingSize]
      <4>1. RingSize + 1 \in 2..(ringCount + 1) /\ (RingSize + 1) - 1 = RingSize
        BY <1>1, <2>1
      <4> QED
        BY <1>3, <3>1, <4>1
    <3>5. pushed[RingSize] \in Nat
      BY <1>1, <2>1
    <3> HIDE DEF p
    <3> QED
      BY <1>4, <1>7, <2>1, <3>3, <3>4, <3>5
  <2>2. CASE ringCount # RingSize
    <3>1. n = Len(t)
      BY <1>3, <2>2
    <3>2. p = t
      BY <1>3, <3>1
    <3> HIDE DEF p
    <3> QED
      BY <1>4, <1>7, <2>2, <3>2
  <2> QED
    BY <2>1, <2>2
<1> QED
  BY <1>2, <1>5, <1>6, <1>8 DEF t

\* The new peak of a full ring whose oldest speed was the peak is looked for
\* among the others; in all cases it is the greatest of what the ring holds.
LEMMA PushKeeps ==
    ASSUME RingInv, NEW v \in Speeds, Meter!PushSpeed(v)
    PROVE  RingInv'
<1> DEFINE n == IF ringCount = RingSize THEN RingSize ELSE ringCount + 1
           p == SubSeq(<<v>> \o pushed, 1, n)
           w == (writeIndex % RingSize) + 1
<1>1. v \in Nat /\ RingSize \in Nat \ {0} /\ Meter!Full = (ringCount = RingSize)
  BY MeterConstants DEF Meter!Full
<1>2. /\ n \in 1..RingSize /\ p \in Seq(Nat) /\ Len(p) = n /\ p[1] = v
      /\ \A i \in 2..n : i - 1 \in 1..ringCount /\ p[i] = pushed[i - 1]
      /\ SumOver(p) =
            (IF ringCount = RingSize THEN ringSum - pushed[RingSize] ELSE ringSum) + v
  BY <1>1, PushedIs
<1>3. /\ ringCount \in 0..RingSize /\ writeIndex \in 1..RingSize /\ ring \in [1..RingSize -> Nat]
      /\ Len(pushed) = ringCount /\ pushed \in Seq(Nat)
      /\ \A i \in 1..ringCount : ring[Slot(writeIndex, i)] = pushed[i]
      /\ peak \in Nat /\ \A i \in 1..ringCount : pushed[i] =< peak /\ pushed[i] \in Nat
      /\ peak = 0 \/ \E i \in 1..ringCount : pushed[i] = peak
  <2>1. \A i \in 1..ringCount : pushed[i] \in Nat
    BY DEF RingInv
  <2> QED
    BY <2>1 DEF RingInv
<1>4. ringCount' = n /\ ring' = [ring EXCEPT ![writeIndex] = v] /\ writeIndex' = w
  BY <1>1 DEF Meter!PushSpeed
<1>5. pushed' = p
  <2>1. Meter!Min({RingSize, Len(pushed) + 1}) = n
    BY <1>1, <1>3, MinOfTwo
  <2>2. pushed' = SubSeq(<<v>> \o pushed, 1, Meter!Min({RingSize, Len(pushed) + 1}))
    BY DEF Meter!PushSpeed
  <2> QED
    BY <2>1, <2>2
<1>6. ringCount = RingSize => ring[writeIndex] = pushed[RingSize] /\ RingSize \in 1..ringCount
  <2>1. Slot(writeIndex, RingSize) = writeIndex
    BY <1>3, SlotsMove
  <2>2. \A i \in 1..ringCount : ring[Slot(writeIndex, i)] = pushed[i]
    BY <1>3
  <2>3. ASSUME ringCount = RingSize PROVE RingSize \in 1..ringCount
    BY <1>1, <2>3
  <2> QED
    BY <2>1, <2>2, <2>3
<1>7. ringSum' = SumOver(pushed')
  <2>1. ringSum' = (IF ringCount = RingSize THEN ringSum - ring[writeIndex] ELSE ringSum) + v
    BY <1>1 DEF Meter!PushSpeed
  <2> HIDE DEF p, n
  <2> QED
    BY <1>2, <1>5, <1>6, <2>1
<1>8. ring' \in [1..RingSize -> Nat] /\ w \in 1..RingSize
  BY <1>1, <1>3, <1>4, SlotsMove
<1>9. ASSUME NEW i \in 1..n PROVE ring'[Slot(w, i)] = p[i]
  <2>1. CASE i = 1
    BY <1>2, <1>3, <1>4, <2>1, SlotsMove
  <2>2. CASE i # 1
    <3>1. i \in 2..n /\ i - 1 \in 1..(RingSize - 1) /\ (i - 1) + 1 = i
      BY <1>1, <1>2, <2>2
    <3>2. Slot(w, (i - 1) + 1) = Slot(writeIndex, i - 1) /\ Slot(writeIndex, i - 1) \in (1..RingSize) \ {writeIndex}
      BY <1>3, <3>1, SlotsMove
    <3>3. ring'[Slot(w, i)] = ring[Slot(writeIndex, i - 1)]
      <4> HIDE DEF w, n, p
      <4> QED
        BY <1>3, <1>4, <3>1, <3>2
    <3>4. i - 1 \in 1..ringCount /\ p[i] = pushed[i - 1]
      BY <1>2, <3>1
    <3> HIDE DEF w, n, p
    <3> QED
      BY <1>3, <3>3, <3>4
  <2> QED
    BY <2>1, <2>2
<1> DEFINE rest == IF Meter!Full /\ Meter!PeakLeaves THEN Meter!Max(Meter!Others \cup {v}) ELSE peak
<1>10. peak' = Meter!Max({rest, v})
  BY DEF Meter!PushSpeed
\* Whatever stays is at most rest, and rest is one of what stays, the new
\* speed or 0.
<1>11. /\ rest \in Nat /\ \A i \in 2..n : p[i] =< rest
       /\ rest = 0 \/ rest = v \/ \E i \in 2..n : p[i] = rest
  <2>1. CASE ringCount = RingSize /\ Meter!PeakLeaves
    <3> DEFINE S == Meter!Others \cup {v}
    <3>1. \A x \in S : x = v \/ \E i \in 2..n : p[i] = x
      <4> SUFFICES ASSUME NEW j \in (1..RingSize) \ {writeIndex} PROVE \E i \in 2..n : p[i] = ring[j]
        BY DEF Meter!Others
      <4>1. PICK i \in 1..(RingSize - 1) : Slot(writeIndex, i) = j
        BY <1>3, SlotsMove
      <4>2. i \in 1..ringCount /\ i + 1 \in 2..n /\ (i + 1) - 1 = i
        BY <1>1, <2>1
      <4>3. p[i + 1] = pushed[i] /\ pushed[i] = ring[j]
        BY <1>2, <1>3, <4>1, <4>2
      <4> QED
        BY <4>2, <4>3
    <3>2. \A i \in 2..n : p[i] \in S
      <4> SUFFICES ASSUME NEW i \in 2..n PROVE p[i] \in S
        OBVIOUS
      <4>1. i - 1 \in 1..(RingSize - 1) /\ i - 1 \in 1..ringCount /\ p[i] = pushed[i - 1]
        <5>1. n = RingSize
          BY <2>1
        <5> HIDE DEF n, p
        <5>2. i - 1 \in 1..ringCount /\ p[i] = pushed[i - 1]
          BY <1>2
        <5> QED
          BY <1>1, <2>1, <5>1, <5>2
      <4>2. Slot(writeIndex, i - 1) \in (1..RingSize) \ {writeIndex}
        BY <1>3, <4>1, SlotsMove
      <4>3. p[i] = ring[Slot(writeIndex, i - 1)]
        BY <1>3, <4>1
      <4> HIDE DEF p, n
      <4> QED
        BY <4>2, <4>3 DEF Meter!Others
    <3>3. \A i \in 2..n : p[i] \in Nat /\ p[i] =< peak
      BY <1>2, <1>3
    <3> HIDE DEF p, n
    <3>4. S \in SUBSET (0..(peak + v)) /\ S # {}
      <4>1. v \in S
        OBVIOUS
      <4> HIDE DEF S
      <4>2. \A i \in 2..n : p[i] \in 0..(peak + v)
        BY <1>1, <1>3, <3>3
      <4>3. v \in 0..(peak + v)
        BY <1>1, <1>3
      <4>4. \A x \in S : x \in 0..(peak + v)
        BY <3>1, <4>2, <4>3
      <4> QED
        BY <4>1, <4>4
    <3> HIDE DEF S
    <3>5. PICK m \in S : \A x \in S : m >= x
      <4>1. peak + v \in Nat
        BY <1>1, <1>3
      <4> QED
        BY <3>4, <4>1, GreatestNat
    <3>6. Meter!Max(S) = m
      <4>1. S \in SUBSET Nat
        BY <3>4
      <4> QED
        BY <3>5, <4>1, MaxOf
    <3>7. rest = m
      BY <1>1, <2>1, <3>6 DEF S
    <3> QED
      BY <1>1, <3>1, <3>2, <3>3, <3>5, <3>7
  <2>2. CASE ~(ringCount = RingSize /\ Meter!PeakLeaves)
    <3>1. rest = peak
      BY <1>1, <2>2
    <3>2. \A i \in 2..n : p[i] =< peak
      BY <1>2, <1>3
    <3>3. peak = 0 \/ \E i \in 2..n : p[i] = peak
      <4> SUFFICES ASSUME NEW i \in 1..ringCount, pushed[i] = peak PROVE \E k \in 2..n : p[k] = peak
        BY <1>3
      <4>1. i + 1 \in 2..n /\ (i + 1) - 1 = i
        <5>1. CASE ringCount = RingSize
          <6>1. ~(ring[writeIndex] >= peak)
            BY <2>2, <5>1 DEF Meter!PeakLeaves
          <6>2. i # RingSize
            BY <1>3, <1>6, <5>1, <6>1
          <6> QED
            BY <1>1, <5>1, <6>2
        <5>2. CASE ringCount # RingSize
          BY <1>1, <1>3, <5>2
        <5> QED
          BY <5>1, <5>2
      <4>2. p[i + 1] = pushed[i]
        BY <1>2, <4>1
      <4> QED
        BY <4>1, <4>2
    <3> HIDE DEF p, n, rest
    <3> QED
      BY <1>3, <3>1, <3>2, <3>3
  <2> QED
    BY <2>1, <2>2
<1> HIDE DEF rest
<1>12. peak' = IF rest >= v THEN rest ELSE v
  <2> DEFINE m == IF rest >= v THEN rest ELSE v
  <2>1. {rest, v} \in SUBSET Nat /\ m \in {rest, v} /\ \A x \in {rest, v} : x =< m
    BY <1>1, <1>11
  <2> HIDE DEF m
  <2>2. Meter!Max({rest, v}) = m
    BY <2>1, MaxOf
  <2> QED
    BY <1>10, <2>2 DEF m
<1>13. /\ peak' \in Nat /\ \A i \in 1..n : p[i] =< peak'
       /\ peak' = 0 \/ \E i \in 1..n : p[i] = peak'
  <2>1. \A i \in 1..n : i = 1 \/ i \in 2..n
    BY <1>2
  <2>2. 1 \in 1..n /\ \A i \in 2..n : i \in 1..n
    BY <1>2
  <2>3. \A i \in 2..n : p[i] \in Nat
    BY <1>2, <1>3
  <2> HIDE DEF p, n
  <2> QED
    BY <1>1, <1>2, <1>11, <1>12, <2>1, <2>2, <2>3
<1>14. n \in 0..RingSize
  BY <1>1, <1>2
<1> HIDE DEF p, n, w
<1> QED
  BY <1>2, <1>4, <1>5, <1>7, <1>8, <1>9, <1>13, <1>14 DEF RingInv

-----------------------------------------------------------------------------
(* The steps of the meters.                                                 *)

LEMMA SpeedKeeps == RingInv /\ Meter!SpeedStep => RingInv'
<1>1. ASSUME RingInv, Meter!ClearSpeeds PROVE RingInv'
  BY <1>1, RingCleared DEF Meter!ClearSpeeds
<1> QED
  BY <1>1, PushKeeps DEF Meter!SpeedStep

\* A report in the channel is of a fragment and at most of its size.
LEMMA Reported ==
    ASSUME NEW s \in Seq(ReportType), NEW f \in MeterFrags, NEW n \in 0..FragBytes, NEW b \in BOOLEAN
    PROVE  Append(s, Meter!Report(f, n, b)) \in Seq(ReportType)
<1>1. Meter!Report(f, n, b) \in ReportType
  BY DEF Meter!Report, ReportType
<1> QED
  BY <1>1

LEMMA FragmentKeeps ==
    ASSUME CountInv, NEW f \in MeterFrags,
           Meter!WriteBatch(f) \/ Meter!CompleteFragment(f) \/ Meter!RetryFragment(f)
    PROVE  CountInv'
<1>1. FragBytes \in Nat
  BY MeterConstants
<1>2. fragBytes' = fragBytes /\ total' = total
  BY DEF Meter!WriteBatch, Meter!CompleteFragment, Meter!RetryFragment, Meter!readerVars
<1>3. received' \in [MeterFrags -> 0..FragBytes] /\ reports' \in Seq(ReportType)
  <2>1. /\ received \in [MeterFrags -> 0..FragBytes] /\ reports \in Seq(ReportType)
        /\ received[f] \in 0..FragBytes
    BY DEF CountInv
  <2>2. CASE Meter!WriteBatch(f)
    <3>1. received' = [received EXCEPT ![f] = received[f] + 1] /\ received[f] < FragBytes
      BY <2>2 DEF Meter!WriteBatch
    <3>2. received[f] + 1 \in 0..FragBytes
      BY <1>1, <2>1, <3>1
    <3>3. received' \in [MeterFrags -> 0..FragBytes] /\ received'[f] \in 0..FragBytes
      BY <2>1, <3>1, <3>2
    <3>4. reports' = reports \/ reports' = Append(reports, Meter!Report(f, received'[f], FALSE))
      BY <2>2 DEF Meter!WriteBatch
    <3> QED
      BY <2>1, <3>3, <3>4, Reported
  <2>3. CASE Meter!CompleteFragment(f)
    <3>1. received' = received /\ reports' = Append(reports, Meter!Report(f, FragBytes, TRUE))
      BY <2>3 DEF Meter!CompleteFragment
    <3>2. FragBytes \in 0..FragBytes
      BY <1>1
    <3> QED
      BY <2>1, <3>1, <3>2, Reported
  <2>4. CASE Meter!RetryFragment(f)
    <3>1. received' = [received EXCEPT ![f] = 0] /\ reports' = reports /\ 0 \in 0..FragBytes
      BY <1>1, <2>4 DEF Meter!RetryFragment
    <3> QED
      BY <2>1, <3>1
  <2> QED
    BY <2>2, <2>3, <2>4
<1> QED
  BY <1>2, <1>3 DEF CountInv

\* The report that is read replaces what the fragment had; the total grows by
\* the difference and never falls.
LEMMA ReadKeeps == CountInv /\ Meter!ReadReport => CountInv'
<1> SUFFICES ASSUME CountInv, Meter!ReadReport PROVE CountInv'
  OBVIOUS
<1> DEFINE r == Head(reports)
<1>1. FragBytes \in Nat /\ IsFiniteSet(MeterFrags)
  BY MeterConstants
<1>2. /\ fragBytes' = [fragBytes EXCEPT ![r.frag] = r.bytes]
      /\ total' = total + Meter!Difference(r.bytes, fragBytes[r.frag])
      /\ reports' = Tail(reports) /\ reports # <<>> /\ received' = received
  BY DEF Meter!ReadReport, Meter!fragmentVars
<1>3. r \in ReportType /\ reports' \in Seq(ReportType)
  <2>1. \A s \in Seq(ReportType) : s # <<>> => Head(s) \in ReportType /\ Tail(s) \in Seq(ReportType)
    OBVIOUS
  <2> QED
    BY <1>2, <2>1 DEF CountInv
<1> HIDE DEF r
<1>4. r.frag \in MeterFrags /\ r.bytes \in 0..FragBytes
  BY <1>3 DEF ReportType
<1> DEFINE x == r.frag
           v == r.bytes
<1> HIDE DEF x, v
<1>5. x \in MeterFrags /\ v \in 0..FragBytes /\ v \in Nat
  BY <1>1, <1>4 DEF x, v
<1>6. /\ fragBytes' = [fragBytes EXCEPT ![x] = v]
      /\ total' = total + Meter!Difference(v, fragBytes[x])
  BY <1>2 DEF x, v
<1>7. fragBytes \in [MeterFrags -> Nat] /\ fragBytes[x] \in Nat /\ total \in Nat /\ total >= SumOver(fragBytes)
  BY <1>1, <1>5 DEF CountInv
<1>8. /\ SumOver(fragBytes) \in Nat /\ SumOver(fragBytes) >= fragBytes[x]
      /\ SumOver(fragBytes') = (SumOver(fragBytes) - fragBytes[x]) + v
  <2>1. /\ fragBytes' \in [MeterFrags -> Nat] /\ fragBytes'[x] = v
        /\ \A y \in MeterFrags : y # x => fragBytes'[y] = fragBytes[y]
    BY <1>5, <1>6, <1>7
  <2>2. /\ SumOver(fragBytes) \in Nat /\ SumOver(fragBytes) >= fragBytes[x]
        /\ SumOver(fragBytes') = (SumOver(fragBytes) - fragBytes[x]) + fragBytes'[x]
    BY <1>1, <1>5, <1>7, <2>1, SumChanged
  <2> QED
    BY <2>1, <2>2
<1>9. total' = total + (IF v > fragBytes[x] THEN v - fragBytes[x] ELSE 0)
  BY <1>6 DEF Meter!Difference
<1>10. total' \in Nat /\ total' >= SumOver(fragBytes')
  BY <1>5, <1>7, <1>8, <1>9
<1>11. fragBytes' \in [MeterFrags -> 0..FragBytes]
  BY <1>5, <1>6 DEF CountInv
<1> QED
  BY <1>2, <1>3, <1>10, <1>11 DEF CountInv

LEMMA MeterStep == MeterInv /\ [Meter!Next]_(Meter!meterVars) => MeterInv'
<1> SUFFICES ASSUME MeterInv, [Meter!Next]_(Meter!meterVars) PROVE MeterInv'
  OBVIOUS
<1> USE DEF MeterInv
<1>1. ASSUME UNCHANGED Meter!ringVars PROVE RingInv'
  BY <1>1 DEF RingInv, Meter!ringVars
<1>2. ASSUME UNCHANGED <<received, fragBytes, reports, total>> PROVE CountInv'
  BY <1>2 DEF CountInv
<1>3. CASE Meter!MeterStep
  <2>1. UNCHANGED Meter!ringVars
    BY <1>3 DEF Meter!MeterStep, Meter!WriteBatch, Meter!CompleteFragment, Meter!RetryFragment, Meter!ReadReport
  <2>2. CountInv'
    BY <1>3, FragmentKeeps, ReadKeeps DEF Meter!MeterStep
  <2> QED
    BY <1>1, <2>1, <2>2
<1>4. CASE Meter!SpeedStep
  <2>1. UNCHANGED <<received, fragBytes, reports, total>>
    BY <1>4 DEF Meter!SpeedStep, Meter!PushSpeed, Meter!ClearSpeeds, Meter!fragmentVars, Meter!readerVars
  <2>2. RingInv'
    BY <1>4, SpeedKeeps
  <2> QED
    BY <1>2, <2>1, <2>2
<1>5. CASE UNCHANGED Meter!meterVars
  BY <1>1, <1>2, <1>5 DEF Meter!meterVars, Meter!fragmentVars, Meter!readerVars
<1> QED
  BY <1>3, <1>4, <1>5 DEF Meter!Next

LEMMA MeterPromises == MeterInv => Meter!MetersExact
<1> SUFFICES ASSUME MeterInv PROVE Meter!MetersExact
  OBVIOUS
<1>1. RingInv /\ CountInv
  BY DEF MeterInv
<1>2. ringSum = SumOver(pushed) /\ total >= SumOver(fragBytes)
  BY <1>1 DEF RingInv, CountInv
<1>3. peak = Meter!Max({0} \cup Meter!Range(pushed))
  <2> DEFINE S == {0} \cup Meter!Range(pushed)
  <2>1. /\ pushed \in Seq(Nat) /\ Len(pushed) = ringCount /\ peak \in Nat
        /\ \A i \in 1..ringCount : pushed[i] =< peak
        /\ peak = 0 \/ \E i \in 1..ringCount : pushed[i] = peak
    BY <1>1 DEF RingInv
  <2>2. DOMAIN pushed = 1..ringCount /\ \A i \in 1..ringCount : pushed[i] \in Nat
    BY <2>1
  <2>3. S \in SUBSET Nat /\ peak \in S /\ \A x \in S : x =< peak
    BY <2>1, <2>2 DEF Meter!Range
  <2> HIDE DEF S
  <2>4. Meter!Max(S) = peak
    BY <2>3, MaxOf
  <2> QED
    BY <2>4 DEF S
<1>4. [i \in 1..ringCount |-> ring[((writeIndex - 1 - i + 2 * RingSize) % RingSize) + 1]] = pushed
  <2>1. pushed = [i \in 1..ringCount |-> pushed[i]]
    BY <1>1 DEF RingInv
  <2>2. \A i \in 1..ringCount : ring[Slot(writeIndex, i)] = pushed[i]
    BY <1>1 DEF RingInv
  <2>3. \A i \in 1..ringCount :
            ring[((writeIndex - 1 - i + 2 * RingSize) % RingSize) + 1] = ring[Slot(writeIndex, i)]
    BY DEF Slot
  <2> QED
    BY <2>1, <2>2, <2>3
<1>5. ringSum = Meter!FoldSeq(+, 0, pushed)
  BY <1>2 DEF SumOver, FoldFunction, FoldFunctionOnSet, MapThenFoldSet,
              Meter!FoldSeq, Meter!FoldFunction, Meter!FoldFunctionOnSet, Meter!MapThenFoldSet
<1>6. total >= Meter!Bytes
  BY <1>2 DEF SumOver, FoldFunction, FoldFunctionOnSet, MapThenFoldSet, Meter!Bytes,
              Meter!FoldFunction, Meter!FoldFunctionOnSet, Meter!MapThenFoldSet
<1> QED
  BY <1>3, <1>4, <1>5, <1>6 DEF Meter!MetersExact

-----------------------------------------------------------------------------
(* The plan of the fragments: divisions.                                    *)

\* k pieces of d are enough for n, and one less is not.
Pieces(n, d, k) == n <= k * d /\ (k - 1) * d < n

LEMMA OnePieces ==
    ASSUME NEW n \in Int, NEW d \in Nat \ {0}, NEW k \in Int, NEW j \in Int, Pieces(n, d, k), Pieces(n, d, j)
    PROVE  k = j
<1>1. (k - 1) * d < j * d /\ (j - 1) * d < k * d
  BY DEF Pieces
<1>2. k - 1 < j /\ j - 1 < k
  BY <1>1, CancelFactor
<1> QED
  BY <1>2

LEMMA CeilPieces ==
    ASSUME NEW n \in Nat, NEW d \in Nat \ {0}
    PROVE  Plan!CeilDiv(n, d) \in Nat /\ Pieces(n, d, Plan!CeilDiv(n, d))
<1> DEFINE k == (n + d - 1) \div d
<1>1. n + d - 1 \in Nat
  OBVIOUS
<1>2. k \in Nat /\ k * d <= n + d - 1 /\ n + d - 1 < (k + 1) * d
  BY <1>1, Divided
<1>3. (k + 1) * d = (k * d) + d /\ (k - 1) * d = (k * d) - d
  BY <1>2
<1>4. n <= k * d /\ (k - 1) * d < n
  <2> HIDE DEF k
  <2> QED
    BY <1>2, <1>3
<1> QED
  BY <1>2, <1>4 DEF Pieces, Plan!CeilDiv

LEMMA GreaterOf ==
    ASSUME NEW a \in Int, NEW b \in Int
    PROVE  Plan!Max({a, b}) = IF a >= b THEN a ELSE b
<1> DEFINE m == IF a >= b THEN a ELSE b
<1>1. m \in {a, b} /\ \A x \in {a, b} : m >= x
  OBVIOUS
<1>2. Plan!Max({a, b}) \in {a, b} /\ \A x \in {a, b} : Plan!Max({a, b}) >= x
  BY <1>1 DEF Plan!Max
<1> QED
  BY <1>2

LEMMA LesserOf ==
    ASSUME NEW a \in Int, NEW b \in Int
    PROVE  Plan!Min({a, b}) = IF a <= b THEN a ELSE b
<1> DEFINE m == IF a <= b THEN a ELSE b
<1>1. m \in {a, b} /\ \A x \in {a, b} : m <= x
  OBVIOUS
<1>2. Plan!Min({a, b}) \in {a, b} /\ \A x \in {a, b} : Plan!Min({a, b}) <= x
  BY <1>1 DEF Plan!Min
<1> QED
  BY <1>2

LEMMA LeastOfThree ==
    ASSUME NEW a \in Int, NEW b \in Int, NEW c \in Int
    PROVE  Plan!Min({a, b, c}) \in Int /\ Plan!Min({a, b, c}) <= c
<1> DEFINE m == IF a <= b /\ a <= c THEN a ELSE IF b <= c THEN b ELSE c
<1>1. m \in {a, b, c} /\ \A x \in {a, b, c} : m <= x
  OBVIOUS
<1>2. Plan!Min({a, b, c}) \in {a, b, c} /\ \A x \in {a, b, c} : Plan!Min({a, b, c}) <= x
  BY <1>1 DEF Plan!Min
<1> QED
  BY <1>2
-----------------------------------------------------------------------------
(* The fragment plan.                                                       *)

\* What of ServicesAssumption the plan needs.
LEMMA PlanConstants ==
    /\ FileSizes \subseteq Nat /\ Bandwidths \subseteq Nat /\ TargetFragments \in Nat
    /\ MinFragment \in Nat \ {0} /\ MaxFragment \in Nat /\ MinFragment <= MaxFragment
    /\ MaxFragmentCount \in Nat \ {0} /\ MaxConcurrency \in Nat
BY ServicesAssumption

\* The loop, as the equation of a function of the offset, and its solution.
Cuts(size, step, g) ==
    g = [a \in 0..size |->
            IF a = size THEN <<>>
            ELSE LET length == Plan!Min({size - a, step})
                 IN  <<[start |-> a, end |-> a + length - 1]>> \o g[a + length]]

PieceOf(size, step, a, i) ==
    [start |-> a + ((i - 1) * step), end |-> IF a + (i * step) <= size THEN a + (i * step) - 1 ELSE size - 1]
PiecesFrom(size, step, a) == [i \in 1..Plan!CeilDiv(size - a, step) |-> PieceOf(size, step, a, i)]

LEMMA NoPieces ==
    ASSUME NEW size \in Nat, NEW step \in Nat \ {0}
    PROVE  PiecesFrom(size, step, size) = <<>>
<1>1. size - size \in Nat /\ size - size = 0
  OBVIOUS
<1>2. Pieces(0, step, 0)
  BY DEF Pieces
<1>3. Plan!CeilDiv(size - size, step) = 0
  BY <1>1, <1>2, CeilPieces, OnePieces
<1>4. 1..Plan!CeilDiv(size - size, step) = {}
  BY <1>3
<1> QED
  BY <1>4 DEF PiecesFrom

\* The first of the pieces from the offset a on has this length.
IsLength(size, step, a, length) == length = Plan!Min({size - a, step})
Joins(size, step, a, length) ==
    /\ length \in Nat \ {0} /\ a + length \in 0..size
    /\ PiecesFrom(size, step, a) =
           <<[start |-> a, end |-> a + length - 1]>> \o PiecesFrom(size, step, a + length)

LEMMA FirstPiece ==
    ASSUME NEW size \in Nat, NEW step \in Nat \ {0}, NEW a \in 0..size, a # size,
           NEW length, IsLength(size, step, a, length)
    PROVE  Joins(size, step, a, length)
<1>1. size - a \in Nat \ {0} /\ size - a \in Int /\ step \in Int
  OBVIOUS
<1>2. length = IF size - a <= step THEN size - a ELSE step
  BY <1>1, LesserOf DEF IsLength
<1>3. length \in Nat \ {0} /\ a + length \in 0..size /\ size - (a + length) \in Nat
  BY <1>1, <1>2
<1> DEFINE b == a + length
           k == Plan!CeilDiv(size - a, step)
           j == Plan!CeilDiv(size - b, step)
           x == [start |-> a, end |-> a + length - 1]
           s == PiecesFrom(size, step, a)
           t == PiecesFrom(size, step, b)
<1>4. k \in Nat /\ Pieces(size - a, step, k) /\ j \in Nat /\ Pieces(size - b, step, j)
  BY <1>1, <1>3, CeilPieces
<1>5. k = j + 1
  <2>1. CASE size - a <= step
    <3>1. b = size /\ size - b = 0
      BY <1>2, <2>1
    <3>2. Pieces(0, step, 0) /\ Pieces(size - a, step, 1)
      BY <1>1, <2>1 DEF Pieces
    <3>3. j = 0
      BY <1>4, <3>1, <3>2, OnePieces
    <3>4. k = 1
      BY <1>1, <1>4, <3>2, OnePieces
    <3> QED
      BY <3>3, <3>4
  <2>2. CASE ~(size - a <= step)
    <3>1. size - b = (size - a) - step
      BY <1>2, <2>2
    <3>2. (j + 1) * step = (j * step) + step /\ ((j + 1) - 1) * step = (j * step)
          /\ (j - 1) * step = (j * step) - step
      <4> HIDE DEF j
      <4> QED
        BY <1>4
    <3>3. Pieces(size - a, step, j + 1)
      <4> HIDE DEF j, b
      <4> QED
        BY <1>1, <1>4, <3>1, <3>2 DEF Pieces
    <3> QED
      BY <1>1, <1>4, <3>3, OnePieces
  <2> QED
    BY <2>1, <2>2
<1>6. s = [i \in 1..(j + 1) |-> PieceOf(size, step, a, i)] /\ t = [i \in 1..j |-> PieceOf(size, step, b, i)]
  BY <1>5 DEF PiecesFrom
<1>7. PieceOf(size, step, a, 1) = x
  BY <1>1, <1>2 DEF PieceOf
<1>8. ASSUME NEW i \in 1..j PROVE PieceOf(size, step, b, i) = PieceOf(size, step, a, i + 1)
  <2>1. i \in Nat /\ (i + 1) * step = (i * step) + step /\ ((i + 1) - 1) * step = i * step
        /\ (i - 1) * step = (i * step) - step
    BY <1>4
  <2>2. length = step
    <3>1. CASE size - a <= step
      <4>1. Pieces(size - a, step, 1)
        BY <1>1, <3>1 DEF Pieces
      <4>2. k = 1
        BY <1>1, <1>4, <4>1, OnePieces
      <4> QED
        BY <1>4, <1>5, <4>2
    <3> QED
      BY <1>2, <3>1
  <2>3. b = a + step
    BY <2>2
  <2> HIDE DEF b
  <2> QED
    BY <1>1, <1>3, <2>1, <2>3 DEF PieceOf
<1>9. s = <<x>> \o t
  <2> HIDE DEF s, t, x, j, b
  <2>1. j \in Nat
    BY <1>4
  <2>2. Len(t) = j /\ DOMAIN t = 1..j /\ t \in Seq({PieceOf(size, step, b, i) : i \in 1..j})
    BY <1>6, <2>1
  <2>3. <<x>> \in Seq({x}) /\ Len(<<x>>) = 1
    OBVIOUS
  <2>4. <<x>> \o t = [i \in 1..(1 + j) |-> IF i <= 1 THEN <<x>>[i] ELSE t[i - 1]]
    BY <2>1, <2>2, <2>3
  <2>5. ASSUME NEW i \in 1..(j + 1) PROVE s[i] = IF i <= 1 THEN <<x>>[i] ELSE t[i - 1]
    <3>1. CASE i = 1
      BY <1>6, <1>7, <2>1, <3>1
    <3>2. CASE i # 1
      <4>1. i - 1 \in 1..j /\ (i - 1) + 1 = i
        BY <2>1, <3>2
      <4> QED
        BY <1>6, <1>8, <2>1, <3>2, <4>1
    <3> QED
      BY <3>1, <3>2
  <2>6. 1 + j = j + 1
    BY <2>1
  <2> QED
    BY <1>6, <2>4, <2>5, <2>6
<1> QED
  BY <1>3, <1>9 DEF Joins

LEMMA SolutionOfCuts ==
    ASSUME NEW size \in Nat, NEW step \in Nat \ {0}
    PROVE  Cuts(size, step, [a \in 0..size |-> PiecesFrom(size, step, a)])
<1> DEFINE g == [a \in 0..size |-> PiecesFrom(size, step, a)]
<1>1. ASSUME NEW a \in 0..size
      PROVE  g[a] = IF a = size THEN <<>>
                    ELSE LET length == Plan!Min({size - a, step})
                         IN  <<[start |-> a, end |-> a + length - 1]>> \o g[a + length]
  <2>1. CASE a = size
    BY <2>1, NoPieces
  <2>2. CASE a # size
    <3> DEFINE length == Plan!Min({size - a, step})
    <3>1. /\ a + length \in 0..size
          /\ PiecesFrom(size, step, a) =
                 <<[start |-> a, end |-> a + length - 1]>> \o PiecesFrom(size, step, a + length)
      <4>1. IsLength(size, step, a, length)
        BY DEF IsLength
      <4> HIDE DEF g, length
      <4>2. Joins(size, step, a, length)
        BY <2>2, <4>1, FirstPiece
      <4> QED
        BY <4>2 DEF Joins
    <3>2. g[a + length] = PiecesFrom(size, step, a + length) /\ g[a] = PiecesFrom(size, step, a)
      BY <3>1
    <3> QED
      BY <2>2, <3>1, <3>2
  <2> QED
    BY <2>1, <2>2
<1> QED
  BY <1>1 DEF Cuts

LEMMA CutIs ==
    ASSUME NEW size \in Nat, NEW step \in Nat \ {0}
    PROVE  Plan!Cut(size, step) = PiecesFrom(size, step, 0)
<1> DEFINE g == CHOOSE h : Cuts(size, step, h)
           Good == {n \in 0..size : g[size - n] = PiecesFrom(size, step, size - n)}
<1>1. Cuts(size, step, g)
  BY SolutionOfCuts
<1>2. Plan!Cut(size, step) = g[0]
  BY DEF Plan!Cut, Cuts
<1> HIDE DEF g
<1>3. SUFFICES ASSUME (0..size) \ Good # {} PROVE FALSE
  <2>1. size \in 0..size /\ size - size = 0
    OBVIOUS
  <2>2. ASSUME size \in Good PROVE g[0] = PiecesFrom(size, step, 0)
    BY <2>1, <2>2
  <2> QED
    BY <1>2, <2>1, <2>2
<1>4. (0..size) \ Good \in SUBSET Nat
  OBVIOUS
<1>5. PICK n \in (0..size) \ Good : \A m \in (0..size) \ Good : n <= m
  <2> HIDE DEF Good
  <2> QED
    BY <1>3, <1>4, LeastNat
<1> DEFINE a == size - n
<1>6. a \in 0..size /\ g[a] # PiecesFrom(size, step, a)
  BY <1>5
<1>7. g[a] = IF a = size THEN <<>>
             ELSE LET length == Plan!Min({size - a, step})
                  IN  <<[start |-> a, end |-> a + length - 1]>> \o g[a + length]
  <2> HIDE DEF a
  <2> QED
    BY <1>1, <1>6 DEF Cuts
<1>8. CASE a = size
  BY <1>6, <1>7, <1>8, NoPieces
<1>9. CASE a # size
  <2> DEFINE length == Plan!Min({size - a, step})
             b == a + length
  <2>0. Joins(size, step, a, length)
    <3>1. IsLength(size, step, a, length)
      BY DEF IsLength
    <3> HIDE DEF a, length
    <3> QED
      BY <1>6, <1>9, <3>1, FirstPiece
  <2>1. /\ length \in Nat \ {0} /\ b \in 0..size
        /\ PiecesFrom(size, step, a) = <<[start |-> a, end |-> a + length - 1]>> \o PiecesFrom(size, step, b)
    <3> HIDE DEF a
    <3> QED
      BY <2>0 DEF Joins
  <2>2. size - b \in 0..size /\ size - b < n /\ size - (size - b) = b
    <3> HIDE DEF length
    <3> QED
      BY <1>5, <2>1
  <2>3. size - b \in Good
    <3> HIDE DEF b, Good
    <3> QED
      BY <1>5, <2>2
  <2>4. g[b] = PiecesFrom(size, step, b)
    BY <2>2, <2>3
  <2>5. g[a] = <<[start |-> a, end |-> a + length - 1]>> \o g[b]
    BY <1>7, <1>9
  <2> QED
    BY <1>6, <2>1, <2>4, <2>5
<1> QED
  BY <1>8, <1>9

\* The fragments from the offset a on follow each other to the end of the file.
Follow(s, size) ==
    /\ s[1].start = 0 /\ s[Len(s)].end = size - 1
    /\ \A i \in DOMAIN s :
        /\ s[i].start <= s[i].end
        /\ i > 1 => s[i].start = s[i - 1].end + 1

LEMMA PiecesFollow ==
    ASSUME NEW size \in Nat \ {0}, NEW step \in Nat \ {0}
    PROVE  LET s == PiecesFrom(size, step, 0)
           IN  Follow(s, size) /\ Len(s) \in Nat /\ Pieces(size, step, Len(s))
<1> DEFINE s == PiecesFrom(size, step, 0)
           k == Plan!CeilDiv(size - 0, step)
<1>1. k \in Nat /\ Pieces(size, step, k)
  BY CeilPieces
<1>2. k >= 1
  <2>1. 0 * step = 0
    OBVIOUS
  <2> HIDE DEF k
  <2> QED
    BY <1>1, <2>1 DEF Pieces
<1>3. s = [i \in 1..k |-> PieceOf(size, step, 0, i)]
  BY DEF PiecesFrom
<1> HIDE DEF s, k
<1>4. Len(s) = k /\ DOMAIN s = 1..k
  BY <1>1, <1>3
<1>5. ASSUME NEW i \in 1..k
      PROVE  /\ i \in Int /\ (i - 1) * step \in Int /\ i * step = ((i - 1) * step) + step
             /\ (i - 1) * step < size /\ (i < k => i * step < size)
  <2>1. i \in Int /\ (i - 1) * step \in Int /\ i * step = ((i - 1) * step) + step
    BY <1>1
  <2>2. (i - 1) * step <= (k - 1) * step
    <3>1. k - i \in Nat /\ (k - 1) * step = ((i - 1) * step) + ((k - i) * step) /\ (k - i) * step >= 0
      BY <1>1
    <3> QED
      BY <2>1, <3>1
  <2>3. (k - 1) * step < size /\ (k - 1) * step \in Int
    BY <1>1 DEF Pieces
  <2>4. ASSUME i < k PROVE i * step <= (k - 1) * step
    <3>1. k - 1 - i \in Nat /\ (k - 1) * step = (i * step) + ((k - 1 - i) * step) /\ (k - 1 - i) * step >= 0
          /\ i * step \in Int
      BY <1>1, <2>4
    <3> QED
      BY <3>1
  <2> QED
    BY <2>1, <2>2, <2>3, <2>4
<1> DEFINE First(i) == (i - 1) * step
           Final(i) == IF i * step <= size THEN (i * step) - 1 ELSE size - 1
<1>10. \A i \in 1..k : s[i].start = First(i) /\ s[i].end = Final(i)
  <2>1. ASSUME NEW i \in 1..k PROVE s[i].start = First(i) /\ s[i].end = Final(i)
    <3>1. i * step \in Int /\ (i - 1) * step \in Int /\ 0 + (i * step) = i * step /\ 0 + ((i - 1) * step) = (i - 1) * step
      BY <1>1
    <3>2. s[i] = PieceOf(size, step, 0, i)
      BY <1>3
    <3> QED
      BY <3>1, <3>2 DEF PieceOf
  <2> QED
    BY <2>1
<1> HIDE DEF First, Final
<1>6. s[1].start = 0
  <2>1. 1 \in 1..k /\ (1 - 1) * step = 0
    BY <1>1, <1>2
  <2>2. s[1].start = (1 - 1) * step
    BY <1>10, <2>1 DEF First
  <2> QED
    BY <2>1, <2>2
<1>7. s[k].end = size - 1
  <2>1. k \in 1..k /\ k * step >= size /\ k * step \in Int
    BY <1>1, <1>2 DEF Pieces
  <2>2. s[k].end = IF k * step <= size THEN (k * step) - 1 ELSE size - 1
    BY <1>10, <2>1 DEF Final
  <2> QED
    BY <2>1, <2>2
<1>8. ASSUME NEW i \in 1..k
      PROVE  s[i].start <= s[i].end /\ (i > 1 => s[i].start = s[i - 1].end + 1)
  <2>1. s[i].start = (i - 1) * step /\ s[i].end = IF i * step <= size THEN (i * step) - 1 ELSE size - 1
    BY <1>10 DEF First, Final
  <2>2. s[i].start <= s[i].end
    <3>1. (i - 1) * step \in Int /\ i * step = ((i - 1) * step) + step /\ (i - 1) * step < size
      BY <1>5
    <3> QED
      BY <2>1, <3>1
  <2>3. ASSUME i > 1 PROVE s[i].start = s[i - 1].end + 1
    <3> DEFINE j == i - 1
    <3>1. j \in 1..k /\ j < k /\ i = j + 1
      BY <1>1, <2>3
    <3> HIDE DEF j
    <3>2. /\ j * step < size /\ j * step \in Int
          /\ s[j].end = IF j * step <= size THEN (j * step) - 1 ELSE size - 1
      <4>1. j * step < size
        BY <1>5, <3>1
      <4>2. j * step \in Int
        BY <1>1, <3>1
      <4> QED
        BY <1>10, <3>1, <4>1, <4>2 DEF Final
    <3>3. s[j].end = (j * step) - 1
      BY <3>2
    <3>4. s[i].start = j * step
      BY <2>1 DEF j
    <3>5. s[i].start = s[j].end + 1
      BY <3>2, <3>3, <3>4
    <3> QED
      BY <3>5 DEF j
  <2> QED
    BY <2>2, <2>3
<1>9. Follow(s, size) /\ Len(s) \in Nat /\ Pieces(size, step, Len(s))
  BY <1>1, <1>4, <1>6, <1>7, <1>8 DEF Follow
<1> QED
  BY <1>9 DEF s

\* The chosen size of a fragment is never zero, and cuts the file in no more
\* pieces than the limit and one.
LEMMA ClampedFits ==
    ASSUME NEW n \in Nat
    PROVE  Plan!Clamp(n, MinFragment, MaxFragment) \in Nat \ {0}
<1>1. Plan!Min({n, MaxFragment}) \in Nat
  BY PlanConstants, LesserOf
<1>2. MinFragment \in Int /\ MinFragment > 0 /\ \A m \in Nat : m \in Int
  BY PlanConstants
<1>3. Plan!Max({MinFragment, Plan!Min({n, MaxFragment})}) \in Nat \ {0}
  BY <1>1, <1>2, GreaterOf
<1> QED
  BY <1>3 DEF Plan!Clamp

NumbersInv == predicted \in Nat /\ estimate \in Nat /\ fileSize \in Nat

LEMMA SuggestionFits ==
    ASSUME NumbersInv
    PROVE  Plan!SuggestedSize \in Nat \ {0} /\ predicted * Plan!TargetSeconds \in Nat
<1>1. predicted * Plan!TargetSeconds \in Nat
  BY DEF NumbersInv, Plan!TargetSeconds
<1>2. Plan!Clamp(predicted * Plan!TargetSeconds, MinFragment, MaxFragment) \in Nat \ {0}
  BY <1>1, ClampedFits
<1> QED
  BY <1>1, <1>2, PlanConstants DEF Plan!SuggestedSize

LEMMA FragmentSizeFits ==
    ASSUME NumbersInv, NEW size \in Nat
    PROVE  Plan!FragmentSize(size) \in Nat \ {0}
<1>1. TargetFragments \in Int /\ Plan!Max({1, TargetFragments}) \in Nat \ {0}
  BY PlanConstants, GreaterOf
<1>2. size \div Plan!Max({1, TargetFragments}) \in Nat
  BY <1>1, Divided
<1>3. \A n \in Nat : Plan!Widened(n) \in Nat
  <2>1. \A n \in Nat : 2 * n \in Nat /\ 3 * n \in Nat /\ (3 * n) \div 2 \in Nat
    OBVIOUS
  <2> QED
    BY <2>1 DEF Plan!Widened
<1>4. Plan!ComputedSize(size) \in Nat \ {0}
  BY <1>2, <1>3, ClampedFits DEF Plan!ComputedSize
<1> QED
  BY <1>4, SuggestionFits DEF Plan!FragmentSize

LEMMA EffectiveSizeFits ==
    ASSUME NumbersInv, NEW size \in Nat \ {0}
    PROVE  /\ Plan!EffectiveSize(size) \in Nat \ {0}
           /\ \A k \in Nat : Pieces(size, Plan!EffectiveSize(size), k) => k <= MaxFragmentCount + 1
<1> DEFINE f == Plan!FragmentSize(size)
           M == MaxFragmentCount
<1>1. f \in Nat \ {0} /\ M \in Nat \ {0}
  BY FragmentSizeFits, PlanConstants
<1>2. CASE ~(size \div f > M)
  <2>1. Plan!EffectiveSize(size) = f
    BY <1>2 DEF Plan!EffectiveSize
  <2> DEFINE q == size \div f
  <2>2. q \in Nat /\ size < (q + 1) * f /\ q <= M
    <3> HIDE DEF f
    <3> QED
      BY <1>1, <1>2, Divided
  <2> HIDE DEF f, q
  <2>3. ASSUME NEW k \in Nat, Pieces(size, f, k) PROVE k <= M + 1
    <3>1. (k - 1) * f < (q + 1) * f
      <4>1. (k - 1) * f < size /\ (k - 1) * f \in Int /\ (q + 1) * f \in Int
        BY <1>1, <2>2, <2>3 DEF Pieces
      <4> QED
        BY <2>2, <4>1
    <3>2. k - 1 < q + 1
      BY <1>1, <2>2, <3>1, CancelFactor
    <3> QED
      BY <1>1, <2>2, <3>2
  <2> QED
    BY <1>1, <2>1, <2>3
<1>3. CASE size \div f > M
  <2> DEFINE e == Plan!CeilDiv(size, M)
  <2>1. Plan!EffectiveSize(size) = e
    BY <1>3 DEF Plan!EffectiveSize
  <2>2. e \in Nat /\ Pieces(size, M, e)
    BY <1>1, CeilPieces
  <2> HIDE DEF e
  <2>3. size <= e * M /\ e # 0 /\ e * M = M * e
    BY <1>1, <2>2 DEF Pieces
  <2>4. ASSUME NEW k \in Nat, Pieces(size, e, k) PROVE k <= M + 1
    <3>1. (k - 1) * e < M * e
      <4>1. (k - 1) * e < size /\ (k - 1) * e \in Int /\ M * e \in Int
        BY <1>1, <2>2, <2>4 DEF Pieces
      <4> QED
        BY <2>3, <4>1
    <3>2. k - 1 < M
      BY <1>1, <2>2, <2>3, <3>1, CancelFactor
    <3> QED
      BY <1>1, <3>2
  <2> QED
    BY <2>1, <2>2, <2>3, <2>4
<1> QED
  BY <1>2, <1>3

LEMMA PlannedFollow ==
    ASSUME NumbersInv, NEW size \in Nat \ {0}, NEW ranged
    PROVE  Follow(Plan!Planned(size, ranged), size) /\ Len(Plan!Planned(size, ranged)) <= MaxFragmentCount + 1
<1>1. CASE ~ranged
  <2>1. Plan!Planned(size, ranged) = <<[start |-> 0, end |-> size - 1]>>
    BY <1>1 DEF Plan!Planned
  <2>2. MaxFragmentCount \in Nat
    BY PlanConstants
  <2> QED
    BY <2>1, <2>2 DEF Follow
<1>2. CASE ranged
  <2> DEFINE step == Plan!EffectiveSize(size)
             s == PiecesFrom(size, step, 0)
  <2>1. Plan!Planned(size, ranged) = Plan!Cut(size, step)
    BY <1>2 DEF Plan!Planned
  <2>2. step \in Nat \ {0} /\ \A k \in Nat : Pieces(size, step, k) => k <= MaxFragmentCount + 1
    BY EffectiveSizeFits
  <2> HIDE DEF step
  <2>3. Plan!Cut(size, step) = s
    BY <2>2, CutIs
  <2>4. Follow(s, size) /\ Len(s) \in Nat /\ Pieces(size, step, Len(s))
    BY <2>2, PiecesFollow
  <2> HIDE DEF s
  <2>5. Len(s) <= MaxFragmentCount + 1
    BY <2>2, <2>4
  <2> QED
    BY <2>1, <2>3, <2>4, <2>5
<1> QED
  BY <1>1, <1>2

LEMMA ConcurrencyFits ==
    ASSUME NumbersInv, NEW size \in Nat
    PROVE  Plan!SuggestedConcurrency(size) \in 1..Plan!Max({1, MaxConcurrency})
<1> DEFINE s == Plan!SuggestedSize
           t == predicted * Plan!TargetSeconds
           a == t \div s
           b == Plan!CeilDiv(size, s)
           m == Plan!Min({a, b, MaxConcurrency})
           M == Plan!Max({1, MaxConcurrency})
<1>1. s \in Nat \ {0} /\ t \in Nat
  BY SuggestionFits
<1>2. MaxConcurrency \in Nat /\ MaxConcurrency \in Int
  BY PlanConstants
<1>3. M = IF 1 >= MaxConcurrency THEN 1 ELSE MaxConcurrency
  BY <1>2, GreaterOf
<1>4. M \in Nat \ {0} /\ MaxConcurrency <= M
  <2> HIDE DEF M
  <2> QED
    BY <1>2, <1>3
<1>5. a \in Int /\ b \in Int
  <2> HIDE DEF s, t
  <2> QED
    BY <1>1, Divided, CeilPieces
<1>6. m \in Int /\ m <= MaxConcurrency
  <2> HIDE DEF a, b
  <2> QED
    BY <1>2, <1>5, LeastOfThree
<1>7. Plan!Max({1, m}) \in 1..M
  <2> HIDE DEF m, M
  <2>1. Plan!Max({1, m}) = IF 1 >= m THEN 1 ELSE m
    BY <1>6, GreaterOf
  <2> QED
    BY <1>2, <1>4, <1>6, <2>1
<1>8. Plan!SuggestedConcurrency(size) = IF predicted > 0 THEN Plan!Max({1, m}) ELSE M
  BY DEF Plan!SuggestedConcurrency
<1>9. M \in 1..M
  <2> HIDE DEF M
  <2> QED
    BY <1>4
<1> HIDE DEF m, M
<1>10. Plan!SuggestedConcurrency(size) \in 1..M
  BY <1>7, <1>8, <1>9
<1> QED
  BY <1>10 DEF M

\* The plan that was made stays as it is: only records move.
PlanInv == NumbersInv /\ Plan!PlanCovers

LEMMA PlanBegins == Plan!Init => PlanInv
BY DEF Plan!Init, PlanInv, NumbersInv, Plan!PlanCovers

LEMMA PlanStep ==
    ASSUME PlanInv, [Plan!Next]_planVars
    PROVE  PlanInv'
<1>1. NumbersInv /\ Plan!PlanCovers
  BY DEF PlanInv
<1>2. ASSUME UNCHANGED <<predicted, estimate, fileSize, advice, fragments>> PROVE PlanInv'
  BY <1>1, <1>2 DEF PlanInv, NumbersInv, Plan!PlanCovers
<1>3. ASSUME Plan!Observe, fileSize = 0 PROVE PlanInv'
  <2>1. predicted' \in Nat /\ estimate' \in Nat /\ fileSize' = 0
    BY <1>3, PlanConstants DEF Plan!Observe, Plan!Predictions, Plan!Estimates
  <2> QED
    BY <2>1 DEF PlanInv, NumbersInv, Plan!PlanCovers
<1>4. ASSUME NEW size \in FileSizes, NEW ranged, NEW completed, Plan!Plan(size, ranged, completed)
      PROVE  PlanInv'
  <2>1. size \in Nat /\ fileSize' = size /\ predicted' = predicted /\ estimate' = estimate
    BY <1>4, PlanConstants DEF Plan!Plan
  <2>2. fragments' = Plan!Planned(size, ranged) /\ advice'.concurrency = Plan!SuggestedConcurrency(size)
    BY <1>4 DEF Plan!Plan
  <2>3. NumbersInv'
    BY <1>1, <2>1 DEF NumbersInv
  <2>4. ASSUME size > 0 PROVE Follow(fragments', size) /\ Len(fragments') <= MaxFragmentCount + 1
    <3>1. size \in Nat \ {0}
      BY <2>1, <2>4
    <3> QED
      BY <1>1, <2>2, <3>1, PlannedFollow
  <2>5. advice'.concurrency \in 1..Plan!Max({1, MaxConcurrency})
    BY <1>1, <2>1, <2>2, ConcurrencyFits
  <2>6. Plan!PlanCovers'
    BY <2>1, <2>4, <2>5 DEF Plan!PlanCovers, Follow
  <2> QED
    BY <2>3, <2>6 DEF PlanInv
<1>5. ASSUME NEW i, NEW from, NEW to, Plan!Move(i, from, to) PROVE PlanInv'
  BY <1>2, <1>5 DEF Plan!Move
<1>6. ASSUME NEW i, Plan!MarkFailed(i) PROVE PlanInv'
  BY <1>2, <1>6 DEF Plan!MarkFailed
<1> QED
  BY <1>2, <1>3, <1>4, <1>5, <1>6
  DEF Plan!Next, planVars, Plan!StartDownload, Plan!CompleteDownload, Plan!CompleteDownloadFast,
      Plan!VerifyOk, Plan!WriteDone

-----------------------------------------------------------------------------
(* The choice of a source.                                                  *)

Weighed == [key : Keys, weight : Scores]
Weigher == [p \in Nat \X Weighed |-> p[1] + p[2].weight]
Upto(s) == Peers!FoldLeft(LAMBDA sum, x : sum + x.weight, 0, s)

LEMMA WeigherType ==
    /\ Weigher \in [Nat \X Weighed -> Nat]
    /\ \A n \in Nat, x \in Weighed : Weigher[<<n, x>>] = n + x.weight /\ x.weight \in Nat \ {0}
<1>1. \A x \in Weighed : x.weight \in Nat \ {0}
  BY ServicesAssumption DEF Weighed
<1>2. \A p \in Nat \X Weighed : p[1] + p[2].weight \in Nat
  BY <1>1
<1> QED
  BY <1>1, <1>2 DEF Weigher

\* The total of a list of sources, as a fold from the left.
LeftWeighed(g, s, S) == IF S = {} THEN 0 ELSE g[S \ {GreatestOf(S)}] + s[GreatestOf(S)].weight

LEMMA UptoIsIter ==
    ASSUME NEW s
    PROVE  Upto(s) = (CHOOSE g : g = [S \in SUBSET DOMAIN s |-> LeftWeighed(g, s, S)])[DOMAIN s]
BY DEF Upto, Peers!FoldLeft, Peers!MapThenFoldSet, Peers!Max, LeftWeighed, GreatestOf

LEMMA UptoIs ==
    ASSUME NEW s \in Seq(Weighed)
    PROVE  \E h : HasValues(Nat, s, h) /\ IsLeftFold(Weigher, 0, s, h) /\ Upto(s) = h[Len(s)]
<1> DEFINE c == CHOOSE g : g = [S \in SUBSET DOMAIN s |-> LeftWeighed(g, s, S)]
<1>1. Upto(s) = c[DOMAIN s]
  BY UptoIsIter
<1>2. Len(s) \in Nat /\ DOMAIN s = 1..Len(s) /\ \A i \in DOMAIN s : s[i] \in Weighed
  OBVIOUS
<1>3. \A S \in SUBSET DOMAIN s : S # {} => GreatestOf(S) \in DOMAIN s
  BY <1>2, GreatestIsIn
<1>4. PICK g \in [SUBSET DOMAIN s -> Nat] : LeftFolded(Weigher, 0, s, g)
  BY WeigherType, LeftFoldExists
<1>5. ASSUME NEW S \in SUBSET DOMAIN s PROVE g[S] = LeftWeighed(g, s, S)
  <2>1. g[S] = IF S = {} THEN 0 ELSE Weigher[<<g[S \ {GreatestOf(S)}], s[GreatestOf(S)]>>]
    BY <1>4 DEF LeftFolded
  <2>2. S # {} => s[GreatestOf(S)] \in Weighed /\ g[S \ {GreatestOf(S)}] \in Nat
    BY <1>2, <1>3
  <2> QED
    BY <2>1, <2>2, WeigherType DEF LeftWeighed
<1>6. c = [S \in SUBSET DOMAIN s |-> LeftWeighed(c, s, S)]
  <2>1. g = [S \in SUBSET DOMAIN s |-> LeftWeighed(g, s, S)]
    BY <1>5
  <2> QED
    BY <2>1
<1> HIDE DEF c
<1>7. c[{}] = 0
  BY <1>6 DEF LeftWeighed
<1>8. ASSUME NEW S \in SUBSET DOMAIN s, S # {}, c[S \ {GreatestOf(S)}] \in Nat
      PROVE  c[S] = Weigher[<<c[S \ {GreatestOf(S)}], s[GreatestOf(S)]>>]
  <2>1. c[S] = LeftWeighed(c, s, S)
    BY <1>6
  <2>2. s[GreatestOf(S)] \in Weighed
    BY <1>2, <1>3, <1>8
  <2> QED
    BY <1>8, <2>1, <2>2, WeigherType DEF LeftWeighed
<1>9. FoldsWithin(Nat, Weigher, 0, s, c)
  BY <1>7, <1>8 DEF FoldsWithin
<1>10. PICK h : HasValues(Nat, s, h) /\ IsLeftFold(Weigher, 0, s, h) /\ EndsIn(c, s, h)
  BY <1>9, WeigherType, LeftFoldIs
<1> QED
  BY <1>1, <1>10 DEF EndsIn

LEMMA UptoEmpty == Upto(<<>>) = 0
<1>1. <<>> \in Seq(Weighed) /\ Len(<<>>) = 0
  OBVIOUS
<1>2. PICK h : HasValues(Nat, <<>>, h) /\ IsLeftFold(Weigher, 0, <<>>, h) /\ Upto(<<>>) = h[Len(<<>>)]
  BY <1>1, UptoIs
<1> QED
  BY <1>1, <1>2 DEF IsLeftFold

LEMMA UptoAppend ==
    ASSUME NEW s \in Seq(Weighed), NEW x \in Weighed
    PROVE  Upto(s) \in Nat /\ Upto(Append(s, x)) = Upto(s) + x.weight
<1> DEFINE t == Append(s, x)
<1>1. t \in Seq(Weighed) /\ Len(t) = Len(s) + 1 /\ Len(s) \in Nat
  OBVIOUS
<1>2. PICK h : HasValues(Nat, s, h) /\ IsLeftFold(Weigher, 0, s, h) /\ Upto(s) = h[Len(s)]
  BY UptoIs
<1>3. PICK f : HasValues(Nat, t, f) /\ IsLeftFold(Weigher, 0, t, f) /\ Upto(t) = f[Len(t)]
  <2> HIDE DEF t
  <2> QED
    BY <1>1, UptoIs
<1>4. f[Len(s) + 1] = Weigher[<<h[Len(s)], x>>]
  BY <1>2, <1>3, LeftFoldAppend
<1>5. h[Len(s)] \in Nat
  BY <1>1, <1>2 DEF HasValues
<1> HIDE DEF t
<1>6. Upto(t) = Upto(s) + x.weight
  BY <1>1, <1>2, <1>3, <1>4, <1>5, WeigherType
<1> QED
  BY <1>2, <1>5, <1>6 DEF t

\* The cumulative weights of a list go up from zero by the weight of each source.
LEMMA CumulativeIs ==
    ASSUME sources \in Seq(Weighed)
    PROVE  /\ Peers!Cumulative(0) = 0
           /\ \A i \in 1..Len(sources) :
                /\ Peers!Cumulative(i - 1) \in Nat /\ sources[i].weight \in Nat \ {0}
                /\ Peers!Cumulative(i) = Peers!Cumulative(i - 1) + sources[i].weight
<1>1. \A i : Peers!Cumulative(i) = Upto(SubSeq(sources, 1, i))
  BY DEF Peers!Cumulative, Upto
<1>2. SubSeq(sources, 1, 0) = <<>>
  OBVIOUS
<1>3. Peers!Cumulative(0) = 0
  BY <1>1, <1>2, UptoEmpty
<1>4. ASSUME NEW i \in 1..Len(sources)
      PROVE  /\ Peers!Cumulative(i - 1) \in Nat /\ sources[i].weight \in Nat \ {0}
             /\ Peers!Cumulative(i) = Peers!Cumulative(i - 1) + sources[i].weight
  <2> DEFINE s == SubSeq(sources, 1, i - 1)
             x == sources[i]
  <2>1. s \in Seq(Weighed) /\ x \in Weighed
    OBVIOUS
  <2>2. SubSeq(sources, 1, i) = Append(s, x)
    <3> DEFINE t == SubSeq(sources, 1, i)
               u == Append(s, x)
    <3>1. t \in Seq(Weighed) /\ u \in Seq(Weighed) /\ Len(t) = i /\ Len(u) = i /\ i \in Nat
      OBVIOUS
    <3>2. \A j \in 1..i : t[j] = sources[j] /\ u[j] = sources[j]
      OBVIOUS
    <3> HIDE DEF t, u
    <3>3. t = u
      BY <3>1, <3>2, SeqEqual
    <3> QED
      BY <3>3 DEF t, u
  <2> HIDE DEF s, x
  <2>3. Upto(s) \in Nat /\ Upto(Append(s, x)) = Upto(s) + x.weight
    BY <2>1, UptoAppend
  <2>4. Peers!Cumulative(i - 1) = Upto(s) /\ Peers!Cumulative(i) = Upto(Append(s, x))
    BY <1>1, <2>2 DEF s
  <2>5. x.weight \in Nat \ {0}
    BY <2>1, WeigherType
  <2> QED
    BY <2>3, <2>4, <2>5 DEF x
<1> QED
  BY <1>3, <1>4

\* I: the places whose cumulative weight is above the roll.
IsAbove(I, n, h, roll) == I = {j \in 1..n : roll < h[j]}

LEMMA ChosenIs ==
    ASSUME NEW n \in Nat \ {0}, NEW h, NEW w, Rises(n, h, w), NEW roll \in 0..(h[n] - 1), NEW i \in 1..n,
           NEW I, IsAbove(I, n, h, roll)
    PROVE  /\ I # {}
           /\ Peers!Min(I) = i <=> roll \in h[i - 1]..(h[i] - 1)
<1> USE DEF IsAbove
<1>1. \A k \in 0..n : h[k] \in Nat /\ \A j \in 0..k : h[j] <= h[k]
  BY RisesAbove
<1>2. n \in I /\ I \in SUBSET Nat
  BY <1>1
<1>3. Peers!Min(I) \in I /\ \A y \in I : Peers!Min(I) <= y
  <2>1. \E x \in I : \A y \in I : x <= y
    BY <1>2, LeastNat
  <2> QED
    BY <2>1 DEF Peers!Min
<1>4. i - 1 \in 0..n /\ i \in 0..n /\ i \in Nat
  OBVIOUS
<1>5. ASSUME Peers!Min(I) = i PROVE roll \in h[i - 1]..(h[i] - 1)
  <2>1. roll < h[i]
    BY <1>3, <1>5
  <2>2. h[i - 1] <= roll
    <3>1. CASE i = 1
      BY <3>1 DEF Rises
    <3>2. CASE i # 1
      <4>1. i - 1 \in 1..n /\ ~(i <= i - 1)
        BY <3>2
      <4>2. i - 1 \notin I
        BY <1>3, <1>5, <4>1
      <4> QED
        BY <1>1, <1>4, <4>1, <4>2
    <3> QED
      BY <3>1, <3>2
  <2> QED
    BY <1>1, <1>4, <2>1, <2>2
<1>6. ASSUME roll \in h[i - 1]..(h[i] - 1) PROVE Peers!Min(I) = i
  <2>1. h[i - 1] \in Nat /\ h[i] \in Nat /\ h[i - 1] <= roll /\ roll < h[i]
    BY <1>1, <1>4, <1>6
  <2>2. i \in I
    BY <2>1
  <2>3. ASSUME NEW j \in I, j < i PROVE FALSE
    <3>1. j \in 0..(i - 1) /\ roll < h[j] /\ j \in 0..n
      BY <2>3
    <3>2. h[j] <= h[i - 1] /\ h[j] \in Nat
      BY <1>1, <1>4, <3>1
    <3> QED
      BY <2>1, <3>1, <3>2
  <2> QED
    BY <1>2, <1>3, <1>4, <2>2, <2>3
<1> QED
  BY <1>2, <1>5, <1>6

LEMMA PeersCardinality == \A S : Peers!Cardinality(S) = Cardinality(S)
<1> SUFFICES ASSUME NEW S PROVE Peers!Cardinality(S) = Cardinality(S)
  OBVIOUS
<1> QED
  BY DEF Peers!Cardinality, Cardinality

LEMMA RollsOf ==
    ASSUME sources \in Seq(Weighed), sources # <<>>
    PROVE  \A i \in DOMAIN sources :
               Cardinality({roll \in 0..(Peers!Total - 1) : Peers!Chosen(roll) = i}) = sources[i].weight
<1> DEFINE n == Len(sources)
           h == [i \in 0..n |-> Peers!Cumulative(i)]
           w == [i \in 1..n |-> sources[i].weight]
<1>1. n \in Nat \ {0} /\ DOMAIN sources = 1..n
  OBVIOUS
<1>2. \A i \in 0..n : h[i] = Peers!Cumulative(i)
  OBVIOUS
<1>3. \A i \in 1..n : w[i] = sources[i].weight
  OBVIOUS
<1>4. Peers!Total = h[n]
  BY <1>1 DEF Peers!Total
<1>5. Rises(n, h, w)
  <2>1. /\ Peers!Cumulative(0) = 0
        /\ \A i \in 1..n : /\ Peers!Cumulative(i - 1) \in Nat /\ sources[i].weight \in Nat \ {0}
                           /\ Peers!Cumulative(i) = Peers!Cumulative(i - 1) + sources[i].weight
    BY CumulativeIs
  <2> HIDE DEF n, h, w
  <2>2. 0 \in 0..n /\ \A i \in 1..n : i - 1 \in 0..n /\ i \in 0..n
    BY <1>1
  <2> QED
    BY <1>2, <1>3, <2>1, <2>2 DEF Rises
<1>6. ASSUME NEW roll
      PROVE  LET I == {j \in 1..n : roll < h[j]} IN I # {} => Peers!Chosen(roll) = Peers!Min(I)
  <2> DEFINE c == [j \in DOMAIN sources |-> Peers!Cumulative(j)]
             J == {j \in 1..Len(c) : roll < c[j]}
             I == {j \in 1..n : roll < h[j]}
  <2>1. Len(c) = n /\ \A j \in 1..n : c[j] = h[j]
    BY <1>1, <1>2
  <2>2. J = I
    <3> HIDE DEF c, h
    <3> QED
      BY <2>1
  <2>3. Peers!Chosen(roll) =
            IF sources = <<>> THEN 0
            ELSE IF (IF J # {} THEN Peers!Min(J) ELSE 0) = 0 THEN Len(sources)
            ELSE IF J # {} THEN Peers!Min(J) ELSE 0
    BY DEF Peers!Chosen, Peers!SelectInSeq
  <2>4. I \in SUBSET (Nat \ {0})
    OBVIOUS
  <2> HIDE DEF I, J
  <2>5. I # {} => Peers!Min(I) # 0
    <3>1. I # {} => \E x \in I : \A y \in I : x <= y
      BY <2>4, LeastNat
    <3> QED
      BY <2>4, <3>1 DEF Peers!Min
  <2>6. I # {} => Peers!Chosen(roll) = Peers!Min(I)
    BY <2>2, <2>3, <2>5
  <2> QED
    BY <2>6 DEF I
<1> SUFFICES ASSUME NEW i \in 1..n
             PROVE  Cardinality({roll \in 0..(h[n] - 1) : Peers!Chosen(roll) = i}) = w[i]
  BY <1>1, <1>3, <1>4
<1> HIDE DEF n, h, w
<1>7. \A k \in 0..n : h[k] \in Nat /\ \A j \in 0..k : h[j] <= h[k]
  BY <1>1, <1>5, RisesAbove
<1>8. h[n] \in Nat /\ h[i - 1] \in Nat /\ h[i] \in Nat /\ h[i] <= h[n] /\ w[i] \in Nat \ {0} /\ h[i] = h[i - 1] + w[i]
  <2>1. n \in 0..n /\ i \in 0..n /\ i - 1 \in 0..n
    BY <1>1
  <2> QED
    BY <1>5, <1>7, <2>1 DEF Rises
<1>9. ASSUME NEW roll \in 0..(h[n] - 1) PROVE Peers!Chosen(roll) = i <=> roll \in h[i - 1]..(h[i] - 1)
  <2> DEFINE I == {j \in 1..n : roll < h[j]}
  <2>1. I # {} => Peers!Chosen(roll) = Peers!Min(I)
    BY <1>6
  <2>2. IsAbove(I, n, h, roll)
    BY DEF IsAbove
  <2> HIDE DEF I
  <2>4. n \in Nat \ {0} /\ i \in 1..n /\ roll \in 0..(h[n] - 1)
    BY <1>1
  <2>3. I # {} /\ (Peers!Min(I) = i <=> roll \in h[i - 1]..(h[i] - 1))
    BY <1>5, <2>2, <2>4, ChosenIs
  <2> QED
    BY <2>1, <2>3
<1>10. {roll \in 0..(h[n] - 1) : Peers!Chosen(roll) = i} = h[i - 1]..(h[i] - 1)
  BY <1>8, <1>9
<1>11. Cardinality(h[i - 1]..(h[i] - 1)) = w[i]
  <2> DEFINE a == h[i - 1]
             b == h[i] - 1
  <2>1. a \in Int /\ b \in Int /\ ~(a > b) /\ (b - a) + 1 = w[i]
    BY <1>8
  <2> HIDE DEF a, b
  <2>2. Cardinality(a..b) = (b - a) + 1
    BY <2>1, FS_Interval
  <2> QED
    BY <2>1, <2>2 DEF a, b
<1> QED
  BY <1>10, <1>11

\* However a list of sources came about, each is chosen in proportion to its weight.
LEMMA ListByWeight == sources \in Seq(Weighed) => Peers!ChosenByWeight
<1>1. ASSUME sources \in Seq(Weighed) PROVE Peers!ChosenByWeight
  <2>1. CASE sources = <<>>
    BY <2>1, Zenon DEF Peers!ChosenByWeight
  <2>2. CASE sources # <<>>
    <3>1. \A i \in DOMAIN sources :
              Cardinality({roll \in 0..(Peers!Total - 1) : Peers!Chosen(roll) = i}) = sources[i].weight
      BY <1>1, <2>2, RollsOf
    <3> QED
      BY <3>1, PeersCardinality, Zenon DEF Peers!ChosenByWeight
  <2> QED
    BY <2>1, <2>2
<1> QED
  BY <1>1

-----------------------------------------------------------------------------
(* The composition.                                                         *)

\* The part that a behaviour is about stays the same, and takes its steps only.
LEMMA OneGrants ==
    ASSUME [Next]_vars
    PROVE  /\ part' = part
           /\ part = "pool" => [Pool!Next]_(Pool!poolVars)
           /\ part = "limiter" => [Limiter!Next]_(Limiter!limiterVars)
           /\ part = "config" => [Config!Next]_(Config!configVars)
           /\ part = "meter" => [Meter!Next]_(Meter!meterVars)
           /\ part = "plan" => [Plan!Next]_planVars
<1>1. CASE UNCHANGED vars
  BY <1>1 DEF vars, poolVars, Pool!poolVars, Pool!caller, limiterVars, Limiter!limiterVars,
              configVars, Config!configVars, meterVars, Meter!meterVars, Meter!fragmentVars,
              Meter!readerVars, Meter!ringVars, planVars
<1>2. CASE Next
  <2>1. part' = part
    BY <1>2 DEF Next, Only
  <2>2. part = "pool" => Pool!Next
    BY <1>2 DEF Next, Only
  <2>3. part = "limiter" => Limiter!Next
    BY <1>2 DEF Next, Only
  <2>4. part = "config" => Config!Next
    BY <1>2 DEF Next, Only
  <2>5. part = "meter" => Meter!Next
    BY <1>2 DEF Next, Only
  <2>6. part = "plan" => Plan!Next
    BY <1>2 DEF Next, Only
  <2> QED
    BY <2>1, <2>2, <2>3, <2>4, <2>5, <2>6
<1> QED
  BY <1>1, <1>2

\* What is true of each part while it is the one that moves.
PoolKept == part = "pool" => PoolInv
LimiterKept == part = "limiter" => LimiterInv
DirsKept == part = "config" => DirsInv
MeterKept == part = "meter" => MeterInv
PlanKept == part = "plan" => PlanInv

GrantsInv == PoolKept /\ LimiterKept /\ DirsKept /\ MeterKept /\ PlanKept

LEMMA GrantsInit == Init => GrantsInv
<1> SUFFICES ASSUME Init PROVE GrantsInv
  OBVIOUS
<1>1. Pool!Init /\ Limiter!Init /\ Config!Init /\ Meter!Init /\ Plan!Init
  BY DEF Init
<1> QED
  BY <1>1, PoolInit, LimiterInit, DirsInit, MeterBegins, PlanBegins
  DEF GrantsInv, PoolKept, LimiterKept, DirsKept, MeterKept, PlanKept

LEMMA GrantsStep == GrantsInv /\ [Next]_vars => GrantsInv'
<1> SUFFICES ASSUME GrantsInv, [Next]_vars PROVE GrantsInv'
  OBVIOUS
<1>1. PoolKept'
  BY OneGrants, PoolStep DEF GrantsInv, PoolKept
<1>2. LimiterKept'
  BY OneGrants, LimiterStep DEF GrantsInv, LimiterKept
<1>3. DirsKept'
  BY OneGrants, DirsStep DEF GrantsInv, DirsKept
<1>4. MeterKept'
  BY OneGrants, MeterStep DEF GrantsInv, MeterKept
<1>5. PlanKept'
  BY OneGrants, PlanStep DEF GrantsInv, PlanKept
<1> QED
  BY <1>1, <1>2, <1>3, <1>4, <1>5 DEF GrantsInv

\* Global permits, host permits and active_count balance with the callers
\* that hold them, however grants, aborts, releases and cleanups interleave.
THEOREM PoolConserves == Spec => []PermitsConserved
<1>1. GrantsInv => PermitsConserved
  BY PoolPromises DEF GrantsInv, PoolKept, PoolInv, PermitsConserved
<1> QED
  BY <1>1, GrantsInit, GrantsStep, PTL DEF Spec

\* The cleanup of the map never takes the semaphore of a host away from a
\* caller with a permit of it: the next caller of that host waits for the
\* same semaphore.
THEOREM BusyHostsStay == Spec => BusyHostKept
<1>1. GrantsInv /\ [Next]_vars => [part = "pool" => Pool!BusyHostStep]_vars
  BY OneGrants, BusyHostIsKept DEF GrantsInv, PoolKept
<1> QED
  BY <1>1, GrantsInit, GrantsStep, PTL DEF Spec, BusyHostKept

\* The payers of a rate limiter let through no more than the clock and one
\* second allow, until the rate changes or a wait is cut short: acquire() adds
\* to the debt and looks at the clock in two steps, without a lock.
THEOREM PaymentsArePaced == Spec => []Paced
<1>1. GrantsInv => Paced
  BY LimiterPromises DEF GrantsInv, LimiterKept, Paced
<1> QED
  BY <1>1, GrantsInit, GrantsStep, PTL DEF Spec

\* A directory is made, and handed to a download, only under an authorized
\* root, where the links of the path really lead; and the settings panel edits
\* the configuration the program has.  Other programs make and remove
\* directories meanwhile, and no links: those are of the initial state.
THEOREM DirectoriesAreAuthorized == Spec => []DirsAuthorized
<1>1. GrantsInv => DirsAuthorized
  BY DirsPromises DEF GrantsInv, DirsKept, DirsAuthorized
<1> QED
  BY <1>1, GrantsInit, GrantsStep, PTL DEF Spec

\* The sum, the peak and the order that the speed history keeps in passing are
\* those of the speeds pushed last, whatever the size of the ring; and the
\* total of a download is never less than what its fragments have.
THEOREM MetersAreExact == Spec => []MetersExact
<1>1. GrantsInv => MetersExact
  BY MeterPromises DEF GrantsInv, MeterKept, MetersExact
<1> QED
  BY <1>1, GrantsInit, GrantsStep, PTL DEF Spec

\* The fragments of a plan follow each other from the first byte of the file to
\* its last, and are no more than the limit and the remainder, whatever the size,
\* the bandwidths that were sampled and the limits; the recommended concurrency
\* is at least one and no more than the user allows.
THEOREM PlansCoverFiles == Spec => [](part = "plan" => Plan!PlanCovers)
<1>1. GrantsInv => (part = "plan" => Plan!PlanCovers)
  BY DEF GrantsInv, PlanKept, PlanInv
<1> QED
  BY <1>1, GrantsInit, GrantsStep, PTL DEF Spec
=============================================================================
