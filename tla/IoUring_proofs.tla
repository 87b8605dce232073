---------------------------- MODULE IoUring_proofs ----------------------------
(***************************************************************************)
(* Proofs about IoUring, for any set of operations, any number of fixed    *)
(* buffers, any width of the bitmap and any depth of the submission queue. *)
(***************************************************************************)
EXTENDS IoUring, TLAPS

RingConstants ==
    /\ Syncs \subseteq Ops /\ None \notin Ops \cup {"ok", "error", "refused"}
    /\ Width \in Nat \ {0} /\ None \notin 0..Width - 1
    /\ BufferCounts \subseteq Nat \ {0}
    /\ SqDepth \in Nat /\ MaxInterrupts \in Nat

Taken == {"push", "submit", "wait"}
Inside == {"take", "buffer"} \cup Taken
At == {"new", "lock", "done"} \cup Inside

\* The mutex of the ring has one holder, and an engine that is not ready none.
MutexInv ==
    /\ \A o \in Ops : at[o] \in Inside <=> ring = o
    /\ \A o \in Ops : at[o] \in {"new", "lock"} => result[o] = None
    /\ state = "Created" => \A o \in Ops : at[o] \in {"new", "done"}

\* Only syncs come as far as the queues: a read or write has an index past the
\* end of the buffers.
BufferInv ==
    /\ NoBufferTaken
    /\ \A o \in Ops \ Syncs :
           at[o] \notin Taken /\ (at[o] = "buffer" => index[o] \in Nat /\ buffers <= index[o])
    /\ \A o \in Syncs : at[o] \notin {"take", "buffer"} /\ index[o] = None
    /\ \A i \in 1..Len(sq) : sq[i] \in Syncs
    /\ \A i \in 1..Len(cq) : cq[i].op \in Syncs

\* While no call has failed or come back early, what is submitted, in the
\* kernel and completed is of the holder.
QuietInv ==
    interrupts = 0 =>
        /\ sq = <<>> \/ \E o \in Ops : at[o] = "submit" /\ sq = <<o>>
        /\ \/ kernel = {} /\ cq = <<>>
           \/ \E o \in Ops : at[o] = "wait" /\ kernel = {o} /\ cq = <<>>
           \/ \E o \in Ops, r \in {"ok", "error"} :
                  /\ at[o] = "wait" /\ kernel = {} /\ cq = <<[op |-> o, res |-> r]>>
                  /\ r = "ok" => o \in performed
        /\ OwnCompletion

RingInv == RingConstants /\ TypeOK /\ MutexInv /\ BufferInv /\ QuietInv

USE DEF Inside, Taken, At

LEMMA RingInvInit == RingConstants /\ Init => RingInv
<1> SUFFICES ASSUME RingConstants, Init PROVE RingInv
  OBVIOUS
<1>1. TypeOK
  <2>1. index \in [Ops -> (0..Width - 1) \cup {None}] /\ result \in [Ops -> {None, "ok", "error", "refused"}]
    BY DEF Init
  <2>2. poisoned \in BOOLEAN /\ buffers \in BufferCounts \cup {0}
    BY DEF Init
  <2>3. bitmap \subseteq 0..Width - 1 /\ performed \subseteq Ops /\ kernel \subseteq Ops
    BY DEF Init
  <2>4. sq \in Seq(Ops) /\ cq \in Seq([op : Ops, res : {"ok", "error"}])
    BY DEF Init
  <2> QED
    BY <2>1, <2>2, <2>3, <2>4 DEF RingConstants, Init, TypeOK
<1>2. MutexInv
  BY DEF RingConstants, Init, MutexInv
<1>3. BufferInv
  BY DEF RingConstants, Init, BufferInv, NoBufferTaken
<1>4. QuietInv
  BY DEF RingConstants, Init, QuietInv, OwnCompletion
<1> QED
  BY <1>1, <1>2, <1>3, <1>4 DEF RingInv

\* The lowest bit that is set lies past the buffers, or there is none.
LEMMA LowestSetPastEnd ==
    ASSUME RingInv, state # "Created", LowestSet < Width
    PROVE  LowestSet \in bitmap /\ LowestSet \in 0..Width - 1 /\ buffers <= LowestSet
<1>1. bitmap = UsedMask(buffers) /\ Width \in Nat
  BY DEF RingInv, RingConstants, BufferInv, NoBufferTaken
<1>2. bitmap \subseteq 0..Width - 1 /\ bitmap \subseteq Nat
  BY <1>1 DEF UsedMask
<1>3. bitmap # {}
  BY <1>1 DEF LowestSet
<1>4. \E b \in bitmap : \A c \in bitmap : b <= c
  <2>1. buffers \in Nat
    BY DEF RingInv, RingConstants, TypeOK
  <2>2. buffers \in bitmap /\ \A c \in bitmap : buffers <= c
    BY <1>1, <1>3, <2>1 DEF UsedMask
  <2> QED
    BY <2>2
<1>5. LowestSet \in bitmap
  BY <1>3, <1>4 DEF LowestSet
<1> QED
  BY <1>1, <1>5 DEF UsedMask

\* What a call that ends leaves behind.
LEMMA FinishKeeps ==
    ASSUME RingInv, NEW o \in Ops, NEW r \in {"ok", "error"}, Finish(o, r), state' = state,
           at[o] \in Inside \/ (at[o] = "lock" /\ ring = None), state # "Created",
           r = "ok" => o \in Syncs
    PROVE  /\ at' \in [Ops -> At] /\ ring' \in Ops \cup {None}
           /\ result' \in [Ops -> {None, "ok", "error", "refused"}]
           /\ MutexInv'
           /\ \A p \in Ops : at'[p] = at[p] \/ at'[p] = "done"
           /\ \A p \in Ops \ Syncs : result'[p] # "ok"
<1>1. /\ at \in [Ops -> At] /\ result \in [Ops -> {None, "ok", "error", "refused"}]
      /\ ring \in {o, None} /\ None \notin Ops /\ Syncs \subseteq Ops
      /\ \A p \in Ops \ {o} : at[p] \notin Inside
  BY DEF RingInv, RingConstants, TypeOK, MutexInv
<1>2. ring' = None /\ at' = [at EXCEPT ![o] = "done"] /\ result' = [result EXCEPT ![o] = r]
  BY DEF Finish
<1>3. MutexInv'
  BY <1>1, <1>2 DEF RingInv, MutexInv
<1>4. \A p \in Ops \ Syncs : result'[p] # "ok"
  BY <1>1, <1>2 DEF RingInv, BufferInv, NoBufferTaken
<1> QED
  BY <1>1, <1>2, <1>3, <1>4

\* The engine becomes ready, a call begins, and a call takes the mutex.
LEMMA EnterKeeps ==
    ASSUME RingInv, NEW o \in Ops, Call(o) \/ Lock(o)
    PROVE  RingInv'
<1>1. /\ at \in [Ops -> At] /\ result \in [Ops -> {None, "ok", "error", "refused"}]
      /\ None \notin Ops
      /\ UNCHANGED <<state, buffers, poisoned, bitmap, index, queues, interrupts>>
      /\ at[o] \in {"new", "lock"}
  BY DEF RingInv, RingConstants, TypeOK, Call, Lock
<1>0. result[o] = None /\ ring \in Ops \cup {None}
  BY <1>1 DEF RingInv, MutexInv, TypeOK
<1>2. /\ at' \in [Ops -> At] /\ result' \in [Ops -> {None, "ok", "error", "refused"}]
      /\ ring' \in Ops \cup {None}
      /\ \A p \in Ops : \/ at'[p] = at[p] /\ result'[p] = result[p]
                        \/ /\ at[p] \in {"new", "lock"} /\ result'[p] \in {None, "refused", "error"}
                           /\ \/ at'[p] \in {"lock", "done"}
                              \/ at'[p] = "push" /\ p \in Syncs
                              \/ at'[p] = "take" /\ p \notin Syncs
  <2>1. CASE Call(o)
    <3>1. /\ ring' = ring
          /\ \/ at' = [at EXCEPT ![o] = "lock"] /\ result' = result
             \/ at' = [at EXCEPT ![o] = "done"] /\ result' = [result EXCEPT ![o] = "refused"]
      BY <2>1 DEF Call
    <3> QED
      BY <1>0, <1>1, <3>1
  <2>2. CASE Lock(o) /\ poisoned
    <3>1. at' = [at EXCEPT ![o] = "done"] /\ result' = [result EXCEPT ![o] = "error"] /\ ring' = None
      BY <2>2 DEF Lock, Finish
    <3> QED
      BY <1>1, <3>1
  <2>3. CASE Lock(o) /\ ~poisoned
    <3>1. /\ ring' = o /\ result' = result
          /\ \/ o \in Syncs /\ at' = [at EXCEPT ![o] = "push"]
             \/ o \notin Syncs /\ at' = [at EXCEPT ![o] = "take"]
      BY <2>3 DEF Lock
    <3>2. result'[o] = None
      BY <1>0, <3>1
    <3> QED
      BY <1>1, <3>1, <3>2
  <2> QED
    BY <2>1, <2>2, <2>3
<1>3. TypeOK'
  BY <1>1, <1>2 DEF RingInv, TypeOK, queues
<1>4. MutexInv'
  <2>1. CASE Call(o)
    BY <1>1, <2>1 DEF RingInv, MutexInv, Call
  <2>2. CASE Lock(o)
    BY <1>1, <2>2 DEF RingInv, MutexInv, Lock, Finish
  <2> QED
    BY <2>1, <2>2
<1>5. BufferInv'
  <2>1. NoBufferTaken'
    <3>1. \A p \in Ops \ Syncs : result'[p] # "ok"
      BY <1>2 DEF RingInv, RingConstants, BufferInv, NoBufferTaken
    <3> QED
      BY <1>1, <3>1 DEF RingInv, BufferInv, NoBufferTaken, UsedMask, queues
  <2> QED
    BY <1>1, <1>2, <2>1 DEF RingInv, RingConstants, BufferInv, queues
<1>6. QuietInv'
  <2>1. SUFFICES ASSUME interrupts = 0 PROVE QuietInv'
    BY <1>1 DEF QuietInv
  <2>2. \A p \in Ops : at[p] \in Taken => at'[p] = at[p]
    BY <1>2
  <2>3. OwnCompletion'
    <3>1. \A p \in Ops : result'[p] = "ok" => result[p] = "ok"
      BY <1>2 DEF RingInv, RingConstants
    <3> QED
      BY <1>1, <2>1, <3>1 DEF RingInv, QuietInv, OwnCompletion, queues
  <2> QED
    BY <1>1, <2>1, <2>2, <2>3 DEF RingInv, QuietInv, queues
<1> QED
  BY <1>3, <1>4, <1>5, <1>6 DEF RingInv, RingConstants

\* init() fills the bitmap: the bits past the buffers.
LEMMA InitialiseKeeps == RingInv /\ Initialise => RingInv'
<1> SUFFICES ASSUME RingInv, Initialise PROVE RingInv'
  OBVIOUS
<1>1. /\ state = "Created" /\ state' = "Ready" /\ buffers' \in BufferCounts
      /\ bitmap' = UsedMask(buffers')
      /\ UNCHANGED <<at, ring, poisoned, index, queues, result, interrupts>>
  BY DEF Initialise
<1>2. TypeOK'
  BY <1>1 DEF RingInv, TypeOK, UsedMask, queues
<1>3. MutexInv' /\ QuietInv'
  BY <1>1 DEF RingInv, MutexInv, QuietInv, OwnCompletion, queues
<1>4. \A o \in Ops : at[o] \notin Inside
  BY <1>1 DEF RingInv, MutexInv
<1>5. BufferInv'
  <2>1. NoBufferTaken'
    BY <1>1 DEF RingInv, BufferInv, NoBufferTaken, UsedMask, queues
  <2> QED
    BY <1>1, <1>4, <2>1 DEF RingInv, RingConstants, BufferInv, queues
<1> QED
  BY <1>2, <1>3, <1>5 DEF RingInv, RingConstants

\* A read or write asks for a buffer, and panics with the index it gets.
LEMMA TakeKeeps ==
    ASSUME RingInv, NEW o \in Ops, TakeBuffer(o) \/ UseBuffer(o)
    PROVE  RingInv'
<1>1. /\ at \in [Ops -> At] /\ result \in [Ops -> {None, "ok", "error", "refused"}]
      /\ index \in [Ops -> (0..Width - 1) \cup {None}] /\ Width \in Nat
      /\ at[o] \in {"take", "buffer"} /\ state = "Ready" /\ o \notin Syncs
      /\ ring = o /\ None \notin Ops /\ None \notin 0..Width - 1 /\ Syncs \subseteq Ops
      /\ \A p \in Ops \ {o} : at[p] \notin Inside
      /\ UNCHANGED <<buffers, queues, interrupts>>
  BY DEF RingInv, RingConstants, TypeOK, MutexInv, BufferInv, TakeBuffer, UseBuffer
<1>2. /\ at' \in [Ops -> At] /\ ring' \in Ops \cup {None} /\ poisoned' \in BOOLEAN
      /\ result' \in [Ops -> {None, "ok", "error", "refused"}]
      /\ index' \in [Ops -> (0..Width - 1) \cup {None}] /\ bitmap' = bitmap
      /\ state' \in {"Ready", "Aborted"} /\ MutexInv'
      /\ \A p \in Ops \ {o} : at'[p] = at[p] /\ result'[p] = result[p] /\ index'[p] = index[p]
      /\ at'[o] \in {"buffer", "done"} /\ result'[o] # "ok"
      /\ at'[o] = "buffer" => index'[o] \in Nat /\ buffers <= index'[o]
  <2>1. CASE TakeBuffer(o) /\ LowestSet >= Width
    <3>1. Finish(o, "error") /\ UNCHANGED <<bitmap, index, state, poisoned>>
      BY <2>1 DEF TakeBuffer
    <3>2. at' = [at EXCEPT ![o] = "done"] /\ result' = [result EXCEPT ![o] = "error"]
      BY <3>1 DEF Finish
    <3> QED
      BY <1>1, <3>1, <3>2, FinishKeeps DEF RingInv, TypeOK
  <2>2. CASE TakeBuffer(o) /\ ~(LowestSet >= Width)
    <3>1. /\ index' = [index EXCEPT ![o] = LowestSet] /\ bitmap' = bitmap \cup {LowestSet}
          /\ at' = [at EXCEPT ![o] = "buffer"] /\ at[o] = "take"
          /\ UNCHANGED <<ring, result, state, poisoned>>
      BY <2>2 DEF TakeBuffer
    <3>2. LowestSet \in Nat
      <4>1. bitmap = UsedMask(buffers) /\ buffers \in Nat
        <5>1. bitmap = UsedMask(buffers)
          BY <1>1 DEF RingInv, BufferInv, NoBufferTaken
        <5>2. buffers \in BufferCounts \cup {0} /\ BufferCounts \subseteq Nat \ {0}
          BY DEF RingInv, RingConstants, TypeOK
        <5> QED
          BY <5>1, <5>2
      <4>2. CASE bitmap = {}
        BY <1>1, <4>2 DEF LowestSet
      <4>3. CASE bitmap # {}
        <5>1. buffers \in bitmap /\ \A c \in bitmap : buffers <= c
          BY <1>1, <4>1, <4>3 DEF UsedMask
        <5>2. bitmap \subseteq Nat
          BY <4>1 DEF UsedMask
        <5> QED
          BY <4>3, <5>1, <5>2 DEF LowestSet
      <4> QED
        BY <4>2, <4>3
    <3>3. LowestSet \in bitmap /\ LowestSet \in 0..Width - 1 /\ buffers <= LowestSet
      BY <1>1, <2>2, <3>2, LowestSetPastEnd
    <3>4. MutexInv'
      BY <1>1, <3>1 DEF RingInv, MutexInv
    <3>5. result'[o] # "ok"
      BY <1>1, <3>1 DEF RingInv, BufferInv, NoBufferTaken
    <3> QED
      BY <1>1, <3>1, <3>3, <3>4, <3>5 DEF RingInv, TypeOK
  <2>3. CASE UseBuffer(o)
    <3>1. at[o] = "buffer" /\ ~(index[o] < buffers) /\ UNCHANGED <<bitmap, index>>
      <4>1. index[o] \in Nat /\ buffers <= index[o] /\ buffers \in Nat
        BY <1>1, <2>3 DEF RingInv, RingConstants, TypeOK, BufferInv, UseBuffer
      <4> QED
        BY <2>3, <4>1 DEF UseBuffer
    <3>2. CASE Finish(o, "error") /\ poisoned' = TRUE /\ state' = state
      <4>1. at' = [at EXCEPT ![o] = "done"] /\ result' = [result EXCEPT ![o] = "error"]
        BY <3>2 DEF Finish
      <4> QED
        BY <1>1, <3>1, <3>2, <4>1, FinishKeeps
    <3>3. CASE state' = "Aborted" /\ UNCHANGED <<at, ring, poisoned, result>>
      BY <1>1, <3>1, <3>3 DEF RingInv, TypeOK, MutexInv, BufferInv, NoBufferTaken
    <3> QED
      BY <2>3, <3>1, <3>2, <3>3 DEF UseBuffer
  <2> QED
    BY <2>1, <2>2, <2>3
<1>3. TypeOK'
  BY <1>1, <1>2 DEF RingInv, TypeOK, queues
<1>4. BufferInv'
  <2>1. NoBufferTaken'
    BY <1>1, <1>2 DEF RingInv, BufferInv, NoBufferTaken, UsedMask, queues
  <2> QED
    BY <1>1, <1>2, <2>1 DEF RingInv, BufferInv, queues
<1>5. QuietInv'
  <2>1. SUFFICES ASSUME interrupts = 0 PROVE QuietInv'
    BY <1>1 DEF QuietInv
  <2>2. sq = <<>> /\ kernel = {} /\ cq = <<>> /\ OwnCompletion
    BY <1>1, <2>1 DEF RingInv, QuietInv
  <2> QED
    BY <1>1, <1>2, <2>1, <2>2 DEF QuietInv, OwnCompletion, queues
<1> QED
  BY <1>2, <1>3, <1>4, <1>5 DEF RingInv, RingConstants

\* The closure of a sync returns: there is no index to free.
LEMMA ReturnKeeps ==
    ASSUME RingInv, NEW o \in Ops, NEW r \in {"ok", "error"}, at[o] \in Taken, Return(o, r),
           UNCHANGED <<state, buffers, poisoned, index>>, state # "Created"
    PROVE  /\ o \in Syncs /\ Finish(o, r) /\ bitmap' = bitmap
           /\ at' = [at EXCEPT ![o] = "done"] /\ result' = [result EXCEPT ![o] = r]
           /\ at' \in [Ops -> At] /\ ring' \in Ops \cup {None}
           /\ result' \in [Ops -> {None, "ok", "error", "refused"}]
           /\ MutexInv'
           /\ \A p \in Ops \ {o} : at[p] \notin Inside
           /\ \A p \in Ops \ Syncs : result'[p] # "ok"
           /\ \A p \in Ops \ Syncs :
                  at'[p] \notin Taken /\ (at'[p] = "buffer" => index'[p] \in Nat /\ buffers' <= index'[p])
           /\ \A p \in Syncs : at'[p] \notin {"take", "buffer"} /\ index'[p] = None
<1>1. o \in Syncs /\ index[o] = None /\ None \notin bitmap
  BY DEF RingInv, RingConstants, TypeOK, BufferInv
<1>2. Finish(o, r) /\ bitmap' = bitmap
  BY <1>1 DEF Return
<1>3. at' = [at EXCEPT ![o] = "done"] /\ result' = [result EXCEPT ![o] = r]
  BY <1>2 DEF Finish
<1>4. /\ at' \in [Ops -> At] /\ ring' \in Ops \cup {None}
      /\ result' \in [Ops -> {None, "ok", "error", "refused"}]
      /\ MutexInv' /\ \A p \in Ops \ Syncs : result'[p] # "ok"
      /\ \A p \in Ops : at'[p] = at[p] \/ at'[p] = "done"
  BY <1>1, <1>2, FinishKeeps
<1>5. \A p \in Ops \ {o} : at[p] \notin Inside
  BY DEF RingInv, RingConstants, MutexInv
<1>6. /\ \A p \in Ops \ Syncs :
             at'[p] \notin Taken /\ (at'[p] = "buffer" => index'[p] \in Nat /\ buffers' <= index'[p])
      /\ \A p \in Syncs : at'[p] \notin {"take", "buffer"} /\ index'[p] = None
  BY <1>4 DEF RingInv, RingConstants, BufferInv
<1> QED
  BY <1>1, <1>2, <1>3, <1>4, <1>5, <1>6

\* An entry is pushed, and submitted.
LEMMA SubmitKeeps ==
    ASSUME RingInv, NEW o \in Ops, Push(o) \/ Submit(o)
    PROVE  RingInv'
<1>1. /\ at \in [Ops -> At] /\ None \notin Ops /\ sq \in Seq(Ops) /\ o \in Syncs
      /\ at[o] \in {"push", "submit"} /\ ring = o /\ state = "Ready"
      /\ \A p \in Ops \ {o} : at[p] \notin Inside
      /\ UNCHANGED <<state, buffers, poisoned, index, cq, performed, interrupts>>
  BY DEF RingInv, RingConstants, TypeOK, MutexInv, BufferInv, Push, Submit
<1>2. CASE Push(o) /\ Len(sq) < SqDepth
  <2>1. /\ at[o] = "push" /\ at' = [at EXCEPT ![o] = "submit"] /\ sq' = Append(sq, o)
        /\ UNCHANGED <<ring, bitmap, result, kernel>>
    BY <1>2 DEF Push
  <2>2. TypeOK'
    BY <1>1, <2>1 DEF RingInv, TypeOK
  <2>3. MutexInv'
    BY <1>1, <2>1 DEF RingInv, MutexInv
  <2>4. BufferInv'
    <3>1. NoBufferTaken'
      BY <1>1, <2>1 DEF RingInv, BufferInv, NoBufferTaken, UsedMask
    <3>2. \A i \in 1..Len(sq') : sq'[i] \in Syncs
      BY <1>1, <2>1 DEF RingInv, BufferInv
    <3> QED
      BY <1>1, <2>1, <3>1, <3>2 DEF RingInv, BufferInv
  <2>5. QuietInv'
    <3>1. SUFFICES ASSUME interrupts = 0 PROVE QuietInv'
      BY <1>1 DEF QuietInv
    <3>2. sq = <<>> /\ kernel = {} /\ cq = <<>> /\ OwnCompletion
      BY <1>1, <2>1, <3>1 DEF RingInv, QuietInv
    <3>3. sq' = <<o>>
      BY <2>1, <3>2
    <3> QED
      BY <1>1, <2>1, <3>1, <3>2, <3>3 DEF QuietInv, OwnCompletion
  <2> QED
    BY <2>2, <2>3, <2>4, <2>5 DEF RingInv, RingConstants
<1>3. CASE Push(o) /\ ~(Len(sq) < SqDepth)
  <2>1. /\ at[o] = "push" /\ Return(o, "error") /\ UNCHANGED <<sq, kernel>>
    BY <1>3 DEF Push
  <2>2. TypeOK' /\ MutexInv'
    BY <1>1, <2>1, ReturnKeeps DEF RingInv, TypeOK
  <2>3. BufferInv'
    BY <1>1, <2>1, ReturnKeeps DEF RingInv, BufferInv, NoBufferTaken, UsedMask
  <2>4. QuietInv'
    <3>1. SUFFICES ASSUME interrupts = 0 PROVE QuietInv'
      BY <1>1 DEF QuietInv
    <3>2. sq = <<>> /\ kernel = {} /\ cq = <<>> /\ OwnCompletion
      BY <1>1, <2>1, <3>1 DEF RingInv, QuietInv
    <3>3. result' = [result EXCEPT ![o] = "error"] /\ result \in [Ops -> {None, "ok", "error", "refused"}]
      BY <1>1, <2>1, ReturnKeeps DEF RingInv, TypeOK
    <3> QED
      BY <1>1, <2>1, <3>1, <3>2, <3>3 DEF QuietInv, OwnCompletion
  <2> QED
    BY <2>2, <2>3, <2>4 DEF RingInv, RingConstants
<1>4. CASE Submit(o)
  <2>1. /\ at[o] = "submit" /\ at' = [at EXCEPT ![o] = "wait"] /\ sq' = <<>>
        /\ kernel' = kernel \cup {sq[i] : i \in 1..Len(sq)}
        /\ UNCHANGED <<ring, bitmap, result>>
    BY <1>4 DEF Submit
  <2>2. TypeOK'
    BY <1>1, <2>1 DEF RingInv, TypeOK
  <2>3. MutexInv'
    BY <1>1, <2>1 DEF RingInv, MutexInv
  <2>4. BufferInv'
    <3>1. NoBufferTaken'
      BY <1>1, <2>1 DEF RingInv, BufferInv, NoBufferTaken, UsedMask
    <3> QED
      BY <1>1, <2>1, <3>1 DEF RingInv, BufferInv
  <2>5. QuietInv'
    <3>1. SUFFICES ASSUME interrupts = 0 PROVE QuietInv'
      BY <1>1 DEF QuietInv
    <3>2. kernel = {} /\ cq = <<>> /\ OwnCompletion /\ (sq = <<>> \/ sq = <<o>>)
      BY <1>1, <2>1, <3>1 DEF RingInv, QuietInv
    <3>3. kernel' = {} \/ kernel' = {o}
      BY <2>1, <3>2
    <3> QED
      BY <1>1, <2>1, <3>1, <3>2, <3>3 DEF QuietInv, OwnCompletion
  <2> QED
    BY <2>2, <2>3, <2>4, <2>5 DEF RingInv, RingConstants
<1> QED
  BY <1>2, <1>3, <1>4

\* A call that fails or is interrupted returns the ring.
LEMMA InterruptKeeps ==
    ASSUME RingInv, NEW o \in Ops, Interrupted(o)
    PROVE  RingInv'
<1>1. /\ at[o] \in Taken /\ Return(o, "error") /\ interrupts' = interrupts + 1
      /\ interrupts < MaxInterrupts /\ state = "Ready"
      /\ UNCHANGED <<state, buffers, poisoned, index, queues>>
  BY DEF Interrupted, SubmitFails, WaitInterrupted
<1>2. TypeOK' /\ MutexInv'
  <2>1. interrupts' \in 0..MaxInterrupts
    BY <1>1 DEF RingInv, RingConstants, TypeOK
  <2> QED
    BY <1>1, <2>1, ReturnKeeps DEF RingInv, TypeOK, queues
<1>3. BufferInv'
  BY <1>1, ReturnKeeps DEF RingInv, BufferInv, NoBufferTaken, UsedMask, queues
<1>4. QuietInv'
  BY <1>1 DEF RingInv, RingConstants, TypeOK, QuietInv
<1> QED
  BY <1>2, <1>3, <1>4 DEF RingInv, RingConstants

\* A completion is reaped.
LEMMA ReapKeeps ==
    ASSUME RingInv, NEW o \in Ops, Reap(o)
    PROVE  RingInv'
<1> DEFINE C == [op : Ops, res : {"ok", "error"}]
<1>1. /\ at[o] = "wait" /\ cq # <<>> /\ cq' = Tail(cq) /\ Return(o, Head(cq).res)
      /\ cq \in Seq(C) /\ state = "Ready"
      /\ at \in [Ops -> At] /\ result \in [Ops -> {None, "ok", "error", "refused"}]
      /\ UNCHANGED <<state, buffers, poisoned, index, sq, kernel, performed, interrupts>>
  BY DEF Reap, RingInv, TypeOK
<1>2. Head(cq).res \in {"ok", "error"} /\ cq' \in Seq(C)
  <2>1. \A x \in C : x.res \in {"ok", "error"}
    OBVIOUS
  <2> HIDE DEF C
  <2>2. Head(cq) \in C /\ cq' \in Seq(C)
    BY <1>1
  <2> QED
    BY <2>1, <2>2
<1>3. TypeOK' /\ MutexInv'
  BY <1>1, <1>2, ReturnKeeps DEF RingInv, TypeOK
<1>4. BufferInv'
  <2>1. \A i \in 1..Len(cq') : cq'[i].op \in Syncs
    <3>1. \A i \in 1..Len(cq) : cq[i].op \in Syncs
      BY DEF RingInv, BufferInv
    <3> HIDE DEF C
    <3> QED
      BY <1>1, <3>1
  <2>2. NoBufferTaken'
    BY <1>1, <1>2, ReturnKeeps DEF RingInv, BufferInv, NoBufferTaken, UsedMask
  <2>3. /\ \A p \in Ops \ Syncs :
               at'[p] \notin Taken /\ (at'[p] = "buffer" => index'[p] \in Nat /\ buffers' <= index'[p])
        /\ \A p \in Syncs : at'[p] \notin {"take", "buffer"} /\ index'[p] = None
    BY <1>1, <1>2, ReturnKeeps
  <2>4. \A i \in 1..Len(sq') : sq'[i] \in Syncs
    BY <1>1 DEF RingInv, BufferInv
  <2> QED
    BY <2>1, <2>2, <2>3, <2>4 DEF BufferInv
<1>5. QuietInv'
  <2>1. SUFFICES ASSUME interrupts = 0 PROVE QuietInv'
    BY <1>1 DEF QuietInv
  <2>2. \A p \in Ops \ {o} : at[p] \notin Inside
    BY <1>1, <1>2, ReturnKeeps
  <2>3. PICK r \in {"ok", "error"} :
           kernel = {} /\ cq = <<[op |-> o, res |-> r]>> /\ (r = "ok" => o \in performed)
    BY <1>1, <2>1, <2>2 DEF RingInv, QuietInv
  <2>4. sq = <<>> /\ OwnCompletion
    BY <1>1, <2>1, <2>2 DEF RingInv, QuietInv
  <2>5. cq' = <<>> /\ Head(cq).res = r
    BY <1>1, <2>3
  <2>6. result' = [result EXCEPT ![o] = r]
    BY <1>1, <1>2, <2>5, ReturnKeeps
  <2>7. OwnCompletion'
    BY <1>1, <2>1, <2>3, <2>4, <2>6 DEF OwnCompletion
  <2> QED
    BY <1>1, <2>1, <2>3, <2>4, <2>5, <2>7 DEF QuietInv
<1> QED
  BY <1>1, <1>3, <1>4, <1>5 DEF RingInv, RingConstants

\* The kernel ends its work on an entry.
LEMMA CompleteKeeps ==
    ASSUME RingInv, NEW o \in Ops, NEW r \in {"ok", "error"}, Complete(o, r)
    PROVE  RingInv'
<1>1. /\ o \in kernel /\ kernel' = kernel \ {o} /\ cq' = Append(cq, [op |-> o, res |-> r])
      /\ performed' = IF r = "ok" THEN performed \cup {o} ELSE performed
      /\ UNCHANGED <<state, buffers, at, ring, poisoned, bitmap, index, sq, result, interrupts>>
  BY DEF Complete
<1>2. o \in Syncs
  BY <1>1 DEF RingInv, BufferInv, NoBufferTaken
<1>3. MutexInv'
  BY <1>1 DEF RingInv, MutexInv
<1>4. TypeOK'
  <2>1. cq \in Seq([op : Ops, res : {"ok", "error"}]) /\ performed \subseteq Ops
    BY DEF RingInv, TypeOK
  <2>2. [op |-> o, res |-> r] \in [op : Ops, res : {"ok", "error"}]
    OBVIOUS
  <2>3. cq' \in Seq([op : Ops, res : {"ok", "error"}]) /\ performed' \subseteq Ops
    BY <1>1, <2>1, <2>2
  <2> QED
    BY <1>1, <2>3 DEF RingInv, TypeOK
<1>5. BufferInv'
  <2>1. NoBufferTaken'
    BY <1>1 DEF RingInv, BufferInv, NoBufferTaken, UsedMask
  <2>2. \A i \in 1..Len(cq') : cq'[i].op \in Syncs
    <3> DEFINE C == [op : Ops, res : {"ok", "error"}]
    <3>1. cq \in Seq(C) /\ \A i \in 1..Len(cq) : cq[i].op \in Syncs
      BY DEF RingInv, TypeOK, BufferInv
    <3>2. [op |-> o, res |-> r].op \in Syncs /\ [op |-> o, res |-> r] \in C
      BY <1>2
    <3> HIDE DEF C
    <3> QED
      BY <1>1, <3>1, <3>2
  <2> QED
    BY <1>1, <2>1, <2>2 DEF RingInv, BufferInv
<1>6. QuietInv'
  <2>1. SUFFICES ASSUME interrupts = 0 PROVE QuietInv'
    BY <1>1 DEF QuietInv
  <2>2. at[o] = "wait" /\ kernel = {o} /\ cq = <<>> /\ OwnCompletion
    BY <1>1, <2>1 DEF RingInv, QuietInv
  <2>3. \A p \in Ops : at[p] # "submit"
    BY <2>2 DEF RingInv, RingConstants, MutexInv
  <2>4. sq = <<>>
    BY <2>1, <2>3 DEF RingInv, QuietInv
  <2>5. kernel' = {} /\ cq' = <<[op |-> o, res |-> r]>> /\ (r = "ok" => o \in performed')
    BY <1>1, <2>2
  <2>6. OwnCompletion'
    BY <1>1, <2>1, <2>2 DEF OwnCompletion
  <2> QED
    BY <1>1, <2>1, <2>2, <2>4, <2>5, <2>6 DEF QuietInv
<1> QED
  BY <1>1, <1>3, <1>4, <1>5, <1>6 DEF RingInv, RingConstants

LEMMA RingInvStep == RingInv /\ [Next]_ringVars => RingInv'
<1> SUFFICES ASSUME RingInv, [Next]_ringVars PROVE RingInv'
  OBVIOUS
<1>1. CASE UNCHANGED ringVars
  BY <1>1 DEF ringVars, RingInv, RingConstants, TypeOK, MutexInv, BufferInv, NoBufferTaken, UsedMask,
              QuietInv, OwnCompletion
<1> QED
  BY <1>1, InitialiseKeeps, EnterKeeps, TakeKeeps, SubmitKeeps, InterruptKeeps, ReapKeeps,
     CompleteKeeps DEF Next, Step

\* Every variable of the ring keeps its type, the index a read or write is
\* given included: it is one of the bitmap, and not always of a buffer.
THEOREM RingTypeCorrect == RingConstants => (Spec => []TypeOK)
BY RingInvInit, RingInvStep, PTL DEF Spec, RingInv

\* As long as no call of submit_and_wait has failed or come back early, a
\* sync that returned Ok was answered by its own completion.
THEOREM OwnCompletions == RingConstants => (Spec => []OwnCompletion)
<1>1. RingInv => OwnCompletion
  BY DEF RingInv, QuietInv, OwnCompletion
<1> QED
  BY <1>1, RingInvInit, RingInvStep, PTL DEF Spec

\* Whatever the number of fixed buffers and the width of the bitmap, none of
\* the buffers is ever given out: no read or write reaches the kernel or
\* returns Ok.
THEOREM BuffersUnused == RingConstants => (Spec => []NoBufferTaken)
<1>1. RingInv => NoBufferTaken
  BY DEF RingInv, BufferInv
<1> QED
  BY <1>1, RingInvInit, RingInvStep, PTL DEF Spec
=============================================================================
