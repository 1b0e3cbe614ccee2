------------------------ MODULE WritePipelineProofs ------------------------
(***************************************************************************)
(* Proofs about WritePipeline, for any number of users, calls and faults,  *)
(* and any limit of the pipeline.                                          *)
(*                                                                         *)
(* PipelineInv is inductive. The engine's part needs CallsInOrder: batch   *)
(* ids are bounded, so the highest one on disk exists and one more than it *)
(* is new. The stream's part needs StreamFlags: answers to a handshake are *)
(* never refusals, so what is refused or acknowledged is a batch. On top   *)
(* of it OrderInv follows each write from its queue to the wire and back:  *)
(* a caller who has been told of a write that is still pending has the     *)
(* oldest one. Both together map every step to one of PendingWrites. What  *)
(* callers are told agrees with what became of their writes, and a queue   *)
(* that is not empty always has something under way.                       *)
(***************************************************************************)
EXTENDS WritePipeline, SequenceTheorems, WellFoundedInduction, TLAPS

USE MaxWritesAssumption, MaxPendingAssumption, MaxFaultsAssumption

-----------------------------------------------------------------------------
(* Sequences, least and greatest elements *)

LEMMA MinOfTwo ==
    ASSUME NEW a \in Nat, NEW b \in Nat
    PROVE  Min({a, b}) = IF a <= b THEN a ELSE b
<1> DEFINE m == IF a <= b THEN a ELSE b
<1>1. m \in {a, b} /\ \A y \in {a, b} : m =< y
    OBVIOUS
<1>2. \A x \in {a, b} : (\A y \in {a, b} : x =< y) => x = m
    OBVIOUS
<1>3. QED
    BY <1>1, <1>2 DEF Min

LEMMA LeastNatural ==
    ASSUME NEW T, T \subseteq Nat, T # {}
    PROVE  \E x \in T : \A y \in T : ~ (y < x)
<1> DEFINE R == OpToRel(<, Nat)
<1>1. IsWellFoundedOn(R, Nat)
    BY NatLessThanWellFounded
<1>2. R = {ss \in Nat \X Nat : ss[1] < ss[2]}
    BY DEF OpToRel
<1> HIDE DEF R
<1>3. \E x \in T : \A y \in T : <<y, x>> \notin R
    BY <1>1, WFMin
<1>4. QED
    BY <1>2, <1>3

\* A bounded set of naturals has a greatest element.
LEMMA MaxOfBounded ==
    ASSUME NEW T, T \subseteq Nat, T # {},
           NEW b \in Nat, \A x \in T : x <= b
    PROVE  /\ Max(T) \in T
           /\ \A x \in T : x <= Max(T)
<1> DEFINE Bounds == {n \in Nat : \A x \in T : x <= n}
<1>1. PICK m \in Bounds : \A n \in Bounds : ~ (n < m)
    BY LeastNatural
<1>2. m \in T
  <2>1. SUFFICES ASSUME m \notin T
                 PROVE  FALSE
      OBVIOUS
  <2>2. \A x \in T : x < m
      BY <1>1, <2>1
  <2>3. m - 1 \in Bounds
    <3>1. PICK x \in T : TRUE
        OBVIOUS
    <3>2. x \in Nat /\ m \in Nat /\ x < m
        BY <2>2, <3>1
    <3>3. \A y \in T : y \in Nat /\ y < m
        BY <2>2
    <3>4. QED
        BY <3>2, <3>3
  <2>4. QED
      BY <1>1, <2>3
<1>3. \E x \in T : \A y \in T : x >= y
    BY <1>1, <1>2
<1>4. QED
    BY <1>3 DEF Max

\* Two parts of a sequence that follow each other.
LEMMA Adjacent ==
    ASSUME NEW T, NEW s \in Seq(T), NEW m \in 0..Len(s), NEW n \in 0..m
    PROVE  SubSeq(s, 1, n) \o SubSeq(s, n + 1, m) = SubSeq(s, 1, m)
  BY ConcatAdjacentSubSeq

-----------------------------------------------------------------------------
(* The front of a queue *)

\* What PipelineIsFrontOfQueue expects the pipeline to be.
FrontLength(q) == Min({MaxPendingWrites, Len(q)})
FrontOf(q) == SubSeq(q, 1, FrontLength(q))

\* CallbacksBelongToBatches of one queue.
Ascending(q) ==
    \A i, j \in 1..Len(q) :
        i < j => q[i].id < q[j].id /\ q[i].write < q[j].write

LEMMA BatchOfQueue ==
    ASSUME NEW q \in Seq(Batch), NEW i \in 1..Len(q)
    PROVE  q[i] \in Batch /\ q[i].id \in Nat /\ q[i].write \in Writes
<1>1. q[i] \in Batch
    BY ElementOfSeq
<1>2. QED
    BY <1>1 DEF Batch

LEMMA FrontProperties ==
    ASSUME NEW q \in Seq(Batch)
    PROVE  /\ FrontLength(q) \in 0..Len(q)
           /\ FrontLength(q) <= MaxPendingWrites
           /\ Len(q) <= MaxPendingWrites => FrontLength(q) = Len(q)
           /\ Len(q) > MaxPendingWrites => FrontLength(q) = MaxPendingWrites
           /\ FrontOf(q) \in Seq(Batch)
           /\ Len(FrontOf(q)) = FrontLength(q)
           /\ \A i \in 1..FrontLength(q) : FrontOf(q)[i] = q[i]
           /\ FrontOf(q) = <<>> <=> q = <<>>
<1>1. Len(q) \in Nat /\ MaxPendingWrites \in Nat /\ MaxPendingWrites > 0
    OBVIOUS
<1>2. FrontLength(q) = IF MaxPendingWrites <= Len(q) THEN MaxPendingWrites
                                                     ELSE Len(q)
    BY <1>1, MinOfTwo DEF FrontLength
<1>3. FrontLength(q) \in 0..Len(q)
    BY <1>1, <1>2
<1> HIDE DEF FrontLength
<1>4. /\ FrontOf(q) \in Seq(Batch)
      /\ Len(FrontOf(q)) = FrontLength(q)
      /\ \A i \in 1..FrontLength(q) : FrontOf(q)[i] = q[i]
    BY <1>3 DEF FrontOf
<1>5. FrontOf(q) = <<>> <=> q = <<>>
    BY <1>1, <1>2, <1>4
<1>6. QED
    BY <1>1, <1>2, <1>3, <1>4, <1>5

LEMMA BatchesAfterTheFirst ==
    ASSUME NEW q \in Seq(Batch), Ascending(q), NEW n \in 1..Len(q)
    PROVE  BatchesAfter(q, q[n].id) = SubSeq(q, n + 1, Len(q))
<1> DEFINE After(k) == \A i \in 1..Len(q) : i > k <=> q[i].id > q[n].id
<1>1. \A i \in 1..Len(q) : q[i].id \in Nat
    BY BatchOfQueue
<1>2. After(n)
    BY <1>1 DEF Ascending
<1>3. ASSUME NEW k \in 0..Len(q), After(k)
      PROVE  k = n
  <2>1. n <= k
      BY <1>1, <1>3
  <2>2. ASSUME k > n
        PROVE  FALSE
    <3>1. q[k].id > q[n].id
        BY <1>1, <2>2 DEF Ascending
    <3>2. QED
        BY <1>3, <2>2, <3>1
  <2>3. QED
      BY <2>1, <2>2
<1>4. (CHOOSE k \in 0..Len(q) : After(k)) = n
    BY <1>2, <1>3
<1>5. QED
    BY <1>4 DEF BatchesAfter

LEMMA RemovesTheFirst ==
    ASSUME NEW q \in Seq(Batch), Ascending(q), q # <<>>
    PROVE  RemoveMutationBatch(q, q[1].id) = Tail(q)
<1>1. 1 \in 1..Len(q)
  <2>1. Len(q) \in Nat /\ Len(q) # 0
      OBVIOUS
  <2>2. QED
      BY <2>1
<1>2. \A i \in 1..Len(q) : q[i].id = q[1].id => i = 1
  <2>1. \A i \in 1..Len(q) : q[i].id \in Nat
      BY BatchOfQueue
  <2>2. QED
      BY <1>1, <2>1 DEF Ascending
<1>3. (CHOOSE i \in 1..Len(q) : q[i].id = q[1].id) = 1
    BY <1>1, <1>2
<1>4. SubSeq(q, 1, 0) \o SubSeq(q, 2, Len(q)) = Tail(q)
    OBVIOUS
<1>5. RemoveAt(q, 1) = Tail(q)
    BY <1>4 DEF RemoveAt
<1>6. RemoveMutationBatch(q, q[1].id)
          = RemoveAt(q, CHOOSE i \in 1..Len(q) : q[i].id = q[1].id)
    BY DEF RemoveMutationBatch
<1>7. QED
    BY <1>3, <1>5, <1>6

LEMMA FirstOfQueue ==
    ASSUME NEW q \in Seq(Batch), q # <<>>
    PROVE  q[1] \in Batch /\ q[1].write \in Writes /\ 1 \in 1..Len(q)
<1>1. Len(q) \in Nat /\ Len(q) # 0
    OBVIOUS
<1>2. 1 \in 1..Len(q)
    BY <1>1
<1>3. QED
    BY <1>2, BatchOfQueue

LEMMA RestOfQueue ==
    ASSUME NEW q \in Seq(Batch), Ascending(q), q # <<>>
    PROVE  /\ Tail(q) \in Seq(Batch) /\ Ascending(Tail(q))
           /\ Len(Tail(q)) = Len(q) - 1 /\ Len(q) \in Nat /\ 1 \in 1..Len(q)
           /\ \A i \in 1..Len(Tail(q)) :
                 Tail(q)[i] = q[i + 1] /\ i + 1 \in 1..Len(q)
<1> DEFINE p == Tail(q)
<1>1. /\ p \in Seq(Batch) /\ Len(p) = Len(q) - 1
      /\ \A i \in 1..Len(p) : p[i] = q[i + 1]
    BY HeadTailProperties
<1>2. Len(q) \in Nat /\ Len(q) # 0
    OBVIOUS
<1> HIDE DEF p
<1>3. 1 \in 1..Len(q) /\ \A i \in 1..Len(p) : i + 1 \in 1..Len(q)
    BY <1>1, <1>2
<1>4. ASSUME NEW i \in 1..Len(p), NEW j \in 1..Len(p), i < j
      PROVE  p[i].id < p[j].id /\ p[i].write < p[j].write
  <2>1. /\ i + 1 \in 1..Len(q) /\ j + 1 \in 1..Len(q) /\ i + 1 < j + 1
        /\ p[i] = q[i + 1] /\ p[j] = q[j + 1]
      BY <1>1, <1>3, <1>4
  <2>2. q[i + 1].id < q[j + 1].id /\ q[i + 1].write < q[j + 1].write
      BY <2>1 DEF Ascending
  <2>3. QED
      BY <2>1, <2>2
<1>5. Ascending(p)
    BY <1>4 DEF Ascending
<1>6. QED
    BY <1>1, <1>2, <1>3, <1>5 DEF p

(***************************************************************************)
(* Filling a pipeline that is a part of the front yields the front.        *)
(***************************************************************************)
LEMMA FilledIsFront ==
    ASSUME NEW q \in Seq(Batch), Ascending(q), NEW n \in 0..FrontLength(q)
    PROVE  Filled(SubSeq(q, 1, n), q) = FrontOf(q)
<1> DEFINE p == SubSeq(q, 1, n)
           next == SubSeq(q, n + 1, Len(q))
           m == FrontLength(q)
<1>1. /\ m \in 0..Len(q) /\ m <= MaxPendingWrites
      /\ Len(q) <= MaxPendingWrites => m = Len(q)
      /\ Len(q) > MaxPendingWrites => m = MaxPendingWrites
    BY FrontProperties
<1>2. Len(p) = n /\ (p = <<>> <=> n = 0) /\ (n > 0 => Last(p) = q[n])
    BY <1>1 DEF Last
<1>3. (IF p = <<>> THEN q ELSE BatchesAfter(q, Last(p).id)) = next
  <2>1. CASE n = 0
      BY <1>2, <2>1, SubSeqFull
  <2>2. CASE n > 0
    <3>1. n \in 1..Len(q) /\ p # <<>> /\ Last(p) = q[n]
        BY <1>1, <1>2, <2>2
    <3>2. BatchesAfter(q, q[n].id) = next
        BY <3>1, BatchesAfterTheFirst
    <3> HIDE DEF p, next
    <3>3. QED
        BY <3>1, <3>2
  <2>3. n = 0 \/ n > 0
      BY <1>1
  <2> HIDE DEF p, next, m
  <2>4. QED
      BY <2>1, <2>2, <2>3
<1>4. next \in Seq(Batch) /\ Len(next) = Len(q) - n
    BY <1>1
<1>5. Min({MaxPendingWrites - Len(p), Len(next)}) = m - n
    BY <1>1, <1>2, <1>4, MinOfTwo
<1>6. SubSeq(next, 1, m - n) = SubSeq(q, n + 1, m)
    BY <1>1
<1>7. p \o SubSeq(q, n + 1, m) = SubSeq(q, 1, m)
    BY <1>1, Adjacent
<1> HIDE DEF p, next, m
<1>8. Filled(p, q) = SubSeq(q, 1, m)
    BY <1>3, <1>5, <1>6, <1>7 DEF Filled
<1>9. QED
    BY <1>8 DEF p, m, FrontOf

(***************************************************************************)
(* What FillWritePipeline leaves, called with the first n batches of the   *)
(* front of a queue: the whole front, a stream on its way if there is      *)
(* anything to send, and on an open stream what the pipeline gained.       *)
(***************************************************************************)
LEMMA FillStep ==
    ASSUME NEW q \in Seq(Batch), Ascending(q), NEW n \in 0..FrontLength(q),
           NEW state \in StreamStates, NEW handshaken \in BOOLEAN,
           NEW wire \in Seq(Message), NEW timer \in BOOLEAN,
           timer => n = 0 /\ state = "Open" /\ handshaken,
           FillWritePipeline(SubSeq(q, 1, n), q, state, handshaken, wire, timer)
    PROVE  /\ writePipeline' = FrontOf(q)
           /\ streamState' \in StreamStates
           /\ streamState' = "Open" <=> state = "Open"
           /\ FrontOf(q) # <<>> => IsStarted(streamState')
           /\ idleTimer' \in BOOLEAN
           /\ idleTimer' => FrontOf(q) = <<>> /\ state = "Open"
           /\ sent' = IF state = "Open" /\ handshaken
                      THEN wire \o SubSeq(q, n + 1, FrontLength(q))
                      ELSE wire
<1> DEFINE p == SubSeq(q, 1, n)
           m == FrontLength(q)
           added == SubSeq(FrontOf(q), Len(p) + 1, Len(FrontOf(q)))
<1>1. Filled(p, q) = FrontOf(q)
    BY FilledIsFront
<1>2. m \in 0..Len(q) /\ Len(FrontOf(q)) = m
    BY FrontProperties
<1>3. Len(p) = n
    BY <1>2
<1>4. added = SubSeq(q, n + 1, m)
  <2>1. added = SubSeq(SubSeq(q, 1, m), n + 1, m)
      BY <1>2, <1>3 DEF FrontOf
  <2> HIDE DEF added, m, p
  <2>2. m \in Nat /\ n \in Nat /\ n <= m /\ m <= Len(q)
      BY <1>2 DEF m
  <2>3. SubSeq(SubSeq(q, 1, m), n + 1, m) = SubSeq(q, n + 1, m)
      BY <2>2
  <2>4. QED
      BY <2>1, <2>3
<1>5. added = <<>> <=> n = m
  <2>1. SubSeq(q, n + 1, m) \in Seq(Batch) /\ Len(SubSeq(q, n + 1, m)) = m - n
      BY <1>2
  <2> HIDE DEF added, m
  <2>2. QED
      BY <1>2, <1>4, <2>1
<1>6. wire \o <<>> = wire
    BY ConcatEmptySeq
<1>7. n = 0 => added = FrontOf(q)
  <2>1. n = 0 => SubSeq(q, n + 1, m) = SubSeq(q, 1, m)
      OBVIOUS
  <2> HIDE DEF added
  <2>2. QED
      BY <1>4, <2>1 DEF FrontOf
<1>8. /\ writePipeline' = FrontOf(q)
      /\ streamState' = StartIfNeeded(state, FrontOf(q))
      /\ sent' = IF state = "Open" /\ handshaken /\ added # <<>>
                 THEN wire \o added ELSE wire
      /\ idleTimer' = IF FrontOf(q) = <<>> THEN timer \/ state = "Open"
                      ELSE timer /\ ~(state = "Open" /\ handshaken /\ added # <<>>)
  <2> HIDE DEF p, m
  <2>1. QED
      BY <1>1 DEF FillWritePipeline, p
<1> HIDE DEF p, m, added
<1>9. sent' = IF state = "Open" /\ handshaken
              THEN wire \o SubSeq(q, n + 1, m) ELSE wire
    BY <1>4, <1>6, <1>8
<1>10. idleTimer' => FrontOf(q) = <<>> /\ state = "Open"
    BY <1>7, <1>8
<1>11. /\ streamState' \in StreamStates
       /\ streamState' = "Open" <=> state = "Open"
       /\ FrontOf(q) # <<>> => IsStarted(streamState')
    BY <1>8 DEF StartIfNeeded, Start, IsStarted, StreamStates
<1>12. QED
    BY <1>8, <1>9, <1>10, <1>11 DEF m

-----------------------------------------------------------------------------
(* The inductive invariant *)

\* Bounds that keep the highest batch id defined and new writes new.
CallsInOrder ==
    /\ nextBatchId <= calls + 1
    /\ \A u \in Users : \A i \in 1..Len(queue[u]) :
          queue[u][i].id <= calls /\ queue[u][i].write <= calls

\* The flags of the stream, and the one answer a handshake can have.
StreamFlags ==
    /\ handshakeComplete => streamState = "Open"
    /\ idleTimer => handshakeComplete
    /\ \A i \in 1..Len(replies) : replies[i].message = Handshake => replies[i].ok

\* The invariant in three parts: SyncEngine and LocalStore, the stream, and
\* the types of the rest.
EngineInv ==
    /\ currentUser \in Users
    /\ queue \in [Users -> Seq(Batch)]
    /\ nextBatchId \in Nat \ {0}
    /\ callbacks \in SUBSET Callback
    /\ calls \in 0..MaxWrites
    /\ outcome \in [Writes -> {"none", "ok", "rejected"}]
    /\ told \in [Writes -> {"none", "ok", "rejected"}]
    /\ CallsInOrder
    /\ CallbacksBelongToBatches

StreamInv ==
    /\ writePipeline \in Seq(Batch)
    /\ streamState \in StreamStates
    /\ handshakeComplete \in BOOLEAN
    /\ idleTimer \in BOOLEAN
    /\ sent \in Seq(Message)
    /\ replies \in Seq(Reply)
    /\ PipelineIsFrontOfQueue
    /\ WireMatchesPipeline
    /\ StreamFlags

BackendTypeOK ==
    /\ applied \in [Users -> SUBSET Writes]
    /\ appliedSince \in [Writes -> SUBSET Writes]
    /\ faults \in 0..MaxFaults

PipelineInv == EngineInv /\ StreamInv /\ BackendTypeOK

LEMMA PipelineInit == Init => PipelineInv
<1> SUFFICES ASSUME Init
             PROVE  PipelineInv
    OBVIOUS
<1>1. \A u \in Users : queue[u] = <<>> /\ Len(queue[u]) = 0
    BY DEF Init
<1>2. CallsInOrder /\ CallbacksBelongToBatches /\ StreamFlags
    BY <1>1 DEF Init, CallsInOrder, CallbacksBelongToBatches, StreamFlags
<1>3. PipelineIsFrontOfQueue
  <2>1. FrontOf(<<>>) = <<>>
      BY FrontProperties, EmptySeq
  <2>2. QED
      BY <1>1, <2>1
      DEF Init, PipelineIsFrontOfQueue, FrontOf, FrontLength
<1>4. WireMatchesPipeline
    BY DEF Init, WireMatchesPipeline, OnTheWire
<1>5. /\ queue \in [Users -> Seq(Batch)]
      /\ writePipeline \in Seq(Batch)
      /\ sent \in Seq(Message) /\ replies \in Seq(Reply)
    BY EmptySeq DEF Init
<1>6. BackendTypeOK
    BY DEF Init, BackendTypeOK
<1>7. EngineInv
    BY <1>2, <1>5 DEF Init, EngineInv
<1>8. handshakeComplete \in BOOLEAN /\ idleTimer \in BOOLEAN
    BY DEF Init
<1>9. StreamInv
    BY <1>2, <1>3, <1>4, <1>5, <1>8 DEF Init, StreamInv, StreamStates
<1>10. QED
    BY <1>6, <1>7, <1>9 DEF PipelineInv

LEMMA QueueFacts ==
    ASSUME EngineInv, NEW u \in Users
    PROVE  /\ queue[u] \in Seq(Batch)
           /\ Ascending(queue[u])
           /\ \A i \in 1..Len(queue[u]) :
                 /\ queue[u][i] \in Batch
                 /\ queue[u][i].id \in Nat /\ queue[u][i].id <= calls
                 /\ queue[u][i].write \in Nat /\ queue[u][i].write <= calls
<1>1. queue[u] \in Seq(Batch)
    BY DEF EngineInv
<1>2. Ascending(queue[u])
    BY DEF EngineInv, CallbacksBelongToBatches, Ascending
<1>3. QED
    BY <1>1, <1>2, BatchOfQueue DEF EngineInv, CallsInOrder, Writes

(***************************************************************************)
(* The id that is given out after a restart or a user change is greater    *)
(* than every id on disk, whatever queues f are there.                     *)
(***************************************************************************)
NextIdOf(f) == Max({0} \cup UNION {{f[u][i].id : i \in 1..Len(f[u])} : u \in Users}) + 1

LEMMA NextIdIsNew ==
    ASSUME NEW f \in [Users -> Seq(Batch)], NEW n \in Nat,
           \A u \in Users : \A i \in 1..Len(f[u]) : f[u][i].id <= n
    PROVE  /\ NextIdOf(f) \in Nat \ {0}
           /\ NextIdOf(f) <= n + 1
           /\ \A u \in Users : \A i \in 1..Len(f[u]) : f[u][i].id < NextIdOf(f)
<1> DEFINE T == {0} \cup UNION {{f[u][i].id : i \in 1..Len(f[u])} : u \in Users}
<1>1. \A u \in Users : \A i \in 1..Len(f[u]) : f[u][i].id \in Nat
    BY BatchOfQueue
<1>2. \A x \in T : x \in Nat /\ x <= n
    BY <1>1
<1>3. \A u \in Users : \A i \in 1..Len(f[u]) : f[u][i].id \in T
    OBVIOUS
<1>4. 0 \in T
    OBVIOUS
<1>5. NextIdOf(f) = Max(T) + 1
    BY DEF NextIdOf
<1> HIDE DEF T
<1>6. Max(T) \in T /\ \A x \in T : x <= Max(T)
    BY <1>2, <1>4, MaxOfBounded
<1>7. QED
    BY <1>1, <1>2, <1>3, <1>5, <1>6

\* The queues as they are on disk: typed, in order, and bounded by the calls.
DiskOK(f) ==
    /\ f \in [Users -> Seq(Batch)]
    /\ \A u \in Users : Ascending(f[u])
    /\ \A u \in Users : \A i \in 1..Len(f[u]) :
          f[u][i].id <= calls /\ f[u][i].write <= calls

LEMMA QueuesOnDisk == EngineInv => DiskOK(queue)
  BY DEF EngineInv, DiskOK, Ascending, CallsInOrder, CallbacksBelongToBatches

-----------------------------------------------------------------------------
(* SyncEngine and LocalStore *)

\* The batch and the callback of the next call.
NewBatch == [id |-> nextBatchId, write |-> calls + 1]
NewCallback == [user |-> currentUser, id |-> nextBatchId, write |-> calls + 1]

LEMMA WriteEngine ==
    ASSUME EngineInv, WriteMutations
    PROVE  /\ EngineInv'
           /\ currentUser' = currentUser
           /\ NewBatch \in Batch
           /\ queue' = [queue EXCEPT ![currentUser] = Append(@, NewBatch)]
           /\ queue'[currentUser] = Append(queue[currentUser], NewBatch)
           /\ callbacks' = callbacks \cup {NewCallback}
<1> DEFINE q == queue[currentUser]
<1>1. /\ calls \in Nat /\ calls + 1 \in Writes /\ calls' = calls + 1
      /\ calls' \in 0..MaxWrites
      /\ currentUser \in Users /\ currentUser' = currentUser
      /\ nextBatchId \in Nat \ {0} /\ nextBatchId' = nextBatchId + 1
      /\ UNCHANGED <<outcome, told>>
    BY DEF EngineInv, WriteMutations, Writes
<1>2. NewBatch \in Batch /\ NewCallback \in Callback
    BY <1>1 DEF NewBatch, NewCallback, Batch, Callback
<1>3. /\ q \in Seq(Batch)
      /\ \A i \in 1..Len(q) : /\ q[i].id \in Nat /\ q[i].id <= calls
                              /\ q[i].write \in Nat /\ q[i].write <= calls
    BY <1>1, QueueFacts
<1>4. \A i \in 1..Len(q) : q[i].id < nextBatchId
    BY DEF EngineInv, CallbacksBelongToBatches
<1>5. queue' = [queue EXCEPT ![currentUser] = Append(@, NewBatch)]
    BY DEF WriteMutations, NewBatch
<1>6. /\ queue \in [Users -> Seq(Batch)]
      /\ queue' \in [Users -> Seq(Batch)]
      /\ queue'[currentUser] = Append(q, NewBatch)
      /\ \A u \in Users \ {currentUser} : queue'[u] = queue[u]
  <2>1. queue \in [Users -> Seq(Batch)]
      BY DEF EngineInv
  <2>2. Append(q, NewBatch) \in Seq(Batch)
      BY <1>2, <1>3, AppendProperties
  <2>3. QED
      BY <1>1, <1>5, <2>1, <2>2
<1>7. ~ \E c \in callbacks : c.user = currentUser /\ c.id = nextBatchId
  <2>1. ASSUME NEW c \in callbacks, c.user = currentUser, c.id = nextBatchId
        PROVE  FALSE
    <3>1. PICK i \in 1..Len(q) : q[i] = [id |-> c.id, write |-> c.write]
        BY <2>1 DEF EngineInv, CallbacksBelongToBatches
    <3>2. q[i].id = nextBatchId
        BY <2>1, <3>1
    <3>3. QED
        BY <1>1, <1>3, <1>4, <3>2
  <2>2. QED
      BY <2>1
<1>8. callbacks' = callbacks \cup {NewCallback}
    BY <1>7 DEF WriteMutations, NewCallback
<1> DEFINE p == Append(q, NewBatch)
<1>9. /\ Len(p) = Len(q) + 1 /\ Len(q) \in Nat
      /\ \A i \in 1..Len(q) : p[i] = q[i]
      /\ p[Len(q) + 1] = NewBatch
    BY <1>2, <1>3, AppendProperties
<1>10. NewBatch.id = nextBatchId /\ NewBatch.write = calls + 1
    BY DEF NewBatch
<1>11. \A i \in 1..Len(p) : /\ p[i].id <= calls + 1 /\ p[i].id < nextBatchId + 1
                            /\ p[i].write <= calls + 1
    <2>1. nextBatchId <= calls + 1
        BY DEF EngineInv, CallsInOrder
    <2> HIDE DEF p, q
    <2>2. QED
        BY <1>1, <1>3, <1>4, <1>9, <1>10, <2>1
<1>12. Ascending(p)
  <2>1. Ascending(q)
      BY <1>1, QueueFacts
  <2> HIDE DEF p, q
  <2>2. ASSUME NEW i \in 1..Len(p), NEW j \in 1..Len(p), i < j
        PROVE  p[i].id < p[j].id /\ p[i].write < p[j].write
    <3>1. i \in 1..Len(q) /\ p[i] = q[i]
        BY <1>9, <2>2
    <3>2. CASE j \in 1..Len(q)
      <4>1. p[j] = q[j]
          BY <1>9, <3>2
      <4>2. QED
          BY <2>1, <2>2, <3>1, <3>2, <4>1 DEF Ascending
    <3>3. CASE j = Len(q) + 1
      <4>1. p[j].id = nextBatchId /\ p[j].write = calls + 1
          BY <1>9, <1>10, <3>3
      <4>2. /\ q[i].id < nextBatchId
            /\ q[i].write \in Nat /\ q[i].write <= calls
          BY <1>3, <1>4, <3>1
      <4>3. QED
          BY <1>1, <3>1, <4>1, <4>2
    <3>4. QED
        BY <1>9, <3>2, <3>3
  <2>3. QED
      BY <2>2 DEF Ascending
<1>13. queue'[currentUser] = p
    BY <1>6
<1>14. CallsInOrder'
  <2>1. nextBatchId' <= calls' + 1
      BY <1>1 DEF EngineInv, CallsInOrder
  <2>2. ASSUME NEW u \in Users, NEW i \in 1..Len(queue'[u])
        PROVE  queue'[u][i].id <= calls' /\ queue'[u][i].write <= calls'
    <3>1. CASE u = currentUser
        BY <1>1, <1>11, <1>13, <3>1
    <3>2. CASE u # currentUser
        BY <1>1, <1>6, <3>2, QueueFacts
    <3>3. QED
        BY <3>1, <3>2
  <2>3. QED
      BY <2>1, <2>2 DEF CallsInOrder
<1>15. CallbacksBelongToBatches'
  <2>1. \A u \in Users : Ascending(queue'[u])
      BY <1>6, <1>12, <1>13, QueueFacts
  <2>2. \A i \in 1..Len(queue'[currentUser']) :
            queue'[currentUser'][i].id < nextBatchId'
      BY <1>1, <1>11, <1>13
  <2>3. ASSUME NEW c \in callbacks'
        PROVE  \E i \in 1..Len(queue'[c.user]) :
                   queue'[c.user][i] = [id |-> c.id, write |-> c.write]
    <3>1. CASE c = NewCallback
      <4>1. c.user = currentUser /\ NewBatch = [id |-> c.id, write |-> c.write]
          BY <3>1 DEF NewCallback, NewBatch
      <4>2. Len(q) + 1 \in 1..Len(p)
          BY <1>9
      <4>3. QED
          BY <1>9, <1>13, <4>1, <4>2
    <3>2. CASE c \in callbacks
      <4>1. PICK i \in 1..Len(queue[c.user]) :
                     queue[c.user][i] = [id |-> c.id, write |-> c.write]
          BY <3>2 DEF EngineInv, CallbacksBelongToBatches
      <4>2. c.user \in Users
          BY <3>2 DEF EngineInv, Callback
      <4>3. CASE c.user = currentUser
        <5>1. i \in 1..Len(q) /\ q[i] = [id |-> c.id, write |-> c.write]
            BY <4>1, <4>3
        <5>2. i \in 1..Len(p) /\ p[i] = q[i]
            BY <1>9, <5>1
        <5>3. QED
            BY <1>13, <4>3, <5>1, <5>2
      <4>4. CASE c.user # currentUser
          BY <1>6, <4>1, <4>2, <4>4
      <4>5. QED
          BY <4>3, <4>4
    <3>3. QED
        BY <1>8, <3>1, <3>2
  <2>4. QED
      BY <2>1, <2>2, <2>3 DEF CallbacksBelongToBatches, Ascending
<1>16. callbacks' \in SUBSET Callback
    BY <1>2, <1>8 DEF EngineInv
<1>17. nextBatchId' \in Nat \ {0}
    BY <1>1
<1>18. /\ outcome' \in [Writes -> {"none", "ok", "rejected"}]
       /\ told' \in [Writes -> {"none", "ok", "rejected"}]
    BY <1>1 DEF EngineInv
<1>19. EngineInv'
    BY <1>1, <1>6, <1>14, <1>15, <1>16, <1>17, <1>18 DEF EngineInv
<1>20. QED
    BY <1>1, <1>2, <1>5, <1>6, <1>8, <1>19

\* The oldest batch of the current user leaves the disk.
LEMMA FirstRemoved ==
    ASSUME EngineInv, queue[currentUser] # <<>>,
           queue' = [queue EXCEPT ![currentUser] =
               RemoveMutationBatch(@, queue[currentUser][1].id)]
    PROVE  /\ queue' = [queue EXCEPT ![currentUser] = Tail(@)]
           /\ queue'[currentUser] = Tail(queue[currentUser])
           /\ \A u \in Users \ {currentUser} : queue'[u] = queue[u]
           /\ DiskOK(queue')
<1> DEFINE q == queue[currentUser]
           p == Tail(q)
           first == q[1]
<1>1. currentUser \in Users
    BY DEF EngineInv
<1>2. q \in Seq(Batch) /\ Ascending(q)
    BY <1>1, QueueFacts
<1>3. /\ p \in Seq(Batch) /\ Ascending(p)
      /\ Len(p) = Len(q) - 1 /\ Len(q) \in Nat
      /\ \A i \in 1..Len(p) : p[i] = q[i + 1] /\ i + 1 \in 1..Len(q)
    BY <1>2, RestOfQueue
<1>4. /\ queue' = [queue EXCEPT ![currentUser] = Tail(@)]
      /\ queue \in [Users -> Seq(Batch)]
  <2>1. RemoveMutationBatch(q, first.id) = p
      BY <1>2, RemovesTheFirst
  <2>2. queue' = [queue EXCEPT ![currentUser] =
                     RemoveMutationBatch(queue[currentUser], first.id)]
      OBVIOUS
  <2>3. QED
      BY <2>1, <2>2 DEF EngineInv
<1>5. /\ queue' \in [Users -> Seq(Batch)]
      /\ queue'[currentUser] = p
      /\ \A u \in Users \ {currentUser} : queue'[u] = queue[u]
    BY <1>1, <1>3, <1>4
<1> HIDE DEF p, q
<1>6. ASSUME NEW u \in Users, NEW i \in 1..Len(queue'[u])
      PROVE  queue'[u][i].id <= calls /\ queue'[u][i].write <= calls
  <2>1. CASE u = currentUser
      BY <1>1, <1>3, <1>5, <2>1, QueueFacts DEF q
  <2>2. CASE u # currentUser
      BY <1>5, <2>2, QueueFacts
  <2>3. QED
      BY <2>1, <2>2
<1>7. \A u \in Users : Ascending(queue'[u])
    BY <1>3, <1>5, QueueFacts
<1>8. QED
    BY <1>4, <1>5, <1>6, <1>7 DEF DiskOK, p, q

LEMMA ToldTypes ==
    ASSUME EngineInv, NEW id, NEW status \in {"ok", "rejected"}
    PROVE  ToldOf(id, status) \in [Writes -> {"none", "ok", "rejected"}]
  BY DEF EngineInv, ToldOf

LEMMA ResultEngine ==
    ASSUME EngineInv, queue[currentUser] # <<>>, NEW status \in {"ok", "rejected"},
           HandleWriteResult(queue[currentUser][1], status)
    PROVE  /\ EngineInv'
           /\ currentUser' = currentUser
           /\ queue' = [queue EXCEPT ![currentUser] = Tail(@)]
           /\ queue'[currentUser] = Tail(queue[currentUser])
           /\ callbacks' = callbacks \ FoundCallbacks(queue[currentUser][1].id)
<1> DEFINE q == queue[currentUser]
           p == Tail(q)
           first == q[1]
<1>1. /\ currentUser \in Users /\ currentUser' = currentUser
      /\ nextBatchId' = nextBatchId /\ calls' = calls
    BY DEF EngineInv, HandleWriteResult
<1>2. /\ q \in Seq(Batch) /\ Ascending(q)
      /\ \A i \in 1..Len(q) : /\ q[i] \in Batch
                              /\ q[i].id \in Nat /\ q[i].write \in Nat
    BY <1>1, QueueFacts
<1>3. /\ Len(p) = Len(q) - 1 /\ Len(q) \in Nat
      /\ \A i \in 1..Len(p) : p[i] = q[i + 1] /\ i + 1 \in 1..Len(q)
      /\ 1 \in 1..Len(q)
    BY <1>2, RestOfQueue
<1>4. /\ queue' = [queue EXCEPT ![currentUser] = Tail(@)]
      /\ queue'[currentUser] = p
      /\ \A u \in Users \ {currentUser} : queue'[u] = queue[u]
      /\ DiskOK(queue')
    BY FirstRemoved DEF HandleWriteResult
<1>5. callbacks' = callbacks \ FoundCallbacks(first.id)
    BY DEF HandleWriteResult, NotifyUser
<1>6. /\ outcome' \in [Writes -> {"none", "ok", "rejected"}]
      /\ told' \in [Writes -> {"none", "ok", "rejected"}]
  <2>1. outcome' = [outcome EXCEPT ![first.write] = status]
      BY DEF HandleWriteResult
  <2>2. told' = ToldOf(first.id, status)
      BY DEF HandleWriteResult, NotifyUser
  <2>3. QED
      BY <2>1, <2>2, ToldTypes DEF EngineInv
<1> HIDE DEF p, q
<1>7. CallsInOrder'
    BY <1>1, <1>4 DEF EngineInv, CallsInOrder, DiskOK
<1>8. CallbacksBelongToBatches'
  <2>1. \A u \in Users : Ascending(queue'[u])
      BY <1>4 DEF DiskOK
  <2>2. \A i \in 1..Len(queue'[currentUser']) :
            queue'[currentUser'][i].id < nextBatchId'
    <3>1. \A i \in 1..Len(q) : q[i].id < nextBatchId
        BY DEF EngineInv, CallbacksBelongToBatches, q
    <3>2. \A i \in 1..Len(p) : p[i].id < nextBatchId
        BY <1>3, <3>1
    <3>3. QED
        BY <1>1, <1>4, <3>2
  <2>3. ASSUME NEW c \in callbacks'
        PROVE  \E i \in 1..Len(queue'[c.user]) :
                   queue'[c.user][i] = [id |-> c.id, write |-> c.write]
    <3>1. PICK i \in 1..Len(queue[c.user]) :
                   queue[c.user][i] = [id |-> c.id, write |-> c.write]
        BY <1>5, <2>3 DEF EngineInv, CallbacksBelongToBatches
    <3>2. c.user \in Users
        BY <1>5, <2>3 DEF EngineInv, Callback
    <3>3. CASE c.user = currentUser
      <4>1. c.id # first.id
          BY <1>5, <2>3, <3>3 DEF FoundCallbacks
      <4>2. i # 1
          BY <3>1, <3>3, <4>1 DEF q
      <4>3. i - 1 \in 1..Len(p) /\ p[i - 1] = q[i]
          BY <1>3, <3>3, <4>2 DEF q
      <4>4. QED
          BY <1>4, <3>1, <3>3, <4>3 DEF q
    <3>4. CASE c.user # currentUser
        BY <1>4, <3>1, <3>2, <3>4
    <3>5. QED
        BY <3>3, <3>4
  <2>4. QED
      BY <2>1, <2>2, <2>3 DEF CallbacksBelongToBatches, Ascending
<1>9. callbacks' \in SUBSET Callback
    BY <1>5 DEF EngineInv
<1>10. queue' \in [Users -> Seq(Batch)] /\ calls' \in 0..MaxWrites
       /\ nextBatchId' \in Nat \ {0}
    BY <1>1, <1>4 DEF DiskOK, EngineInv
<1>11. EngineInv'
    BY <1>1, <1>6, <1>7, <1>8, <1>9, <1>10 DEF EngineInv
<1>12. QED
    BY <1>1, <1>4, <1>5, <1>11 DEF p, q

(***************************************************************************)
(* A user change and a restart: the queues are as they are on disk, the    *)
(* callbacks may go, and the next id is greater than every id on disk.     *)
(***************************************************************************)
LEMMA OtherUserEngine ==
    ASSUME EngineInv, NEW user \in Users, currentUser' = user,
           \/ nextBatchId' = LoadNextBatchId
           \/ user = currentUser /\ nextBatchId' = nextBatchId,
           queue' = queue, callbacks' = callbacks, UNCHANGED historyVars
    PROVE  EngineInv'
<1>1. UNCHANGED <<calls, outcome, told>> /\ calls \in Nat
    BY DEF historyVars, EngineInv
<1>2. /\ LoadNextBatchId \in Nat \ {0} /\ LoadNextBatchId <= calls + 1
      /\ \A u \in Users : \A i \in 1..Len(queue[u]) :
            queue[u][i].id < LoadNextBatchId
    BY <1>1, QueuesOnDisk, NextIdIsNew DEF DiskOK, LoadNextBatchId, NextIdOf
<1>3. CallsInOrder'
    BY <1>1, <1>2 DEF EngineInv, CallsInOrder
<1>4. \A i \in 1..Len(queue[user]) : queue[user][i].id < nextBatchId'
  <2>1. CASE nextBatchId' = LoadNextBatchId
      BY <1>2, <2>1
  <2>2. CASE user = currentUser /\ nextBatchId' = nextBatchId
      BY <2>2 DEF EngineInv, CallbacksBelongToBatches
  <2>3. QED
      BY <2>1, <2>2
<1>5. CallbacksBelongToBatches'
    BY <1>4 DEF EngineInv, CallbacksBelongToBatches
<1>6. nextBatchId' \in Nat \ {0} /\ callbacks' \in SUBSET Callback
    BY <1>2 DEF EngineInv
<1>7. QED
    BY <1>1, <1>3, <1>5, <1>6 DEF EngineInv

LEMMA RestartedEngine ==
    ASSUME NEW user \in Users, Restarted(user), DiskOK(queue'),
           calls' = calls, calls \in 0..MaxWrites,
           outcome' \in [Writes -> {"none", "ok", "rejected"}],
           told' \in [Writes -> {"none", "ok", "rejected"}]
    PROVE  EngineInv'
<1>1. /\ currentUser' = user /\ callbacks' = {}
      /\ nextBatchId' = LoadNextBatchId'
    BY DEF Restarted
<1>2. /\ queue' \in [Users -> Seq(Batch)] /\ calls \in Nat
      /\ \A u \in Users : Ascending(queue'[u])
      /\ \A u \in Users : \A i \in 1..Len(queue'[u]) :
            queue'[u][i].id <= calls /\ queue'[u][i].write <= calls
    BY DEF DiskOK
<1>3. nextBatchId' = NextIdOf(queue')
    BY <1>1 DEF LoadNextBatchId, NextIdOf
<1>4. /\ nextBatchId' \in Nat \ {0} /\ nextBatchId' <= calls + 1
      /\ \A u \in Users : \A i \in 1..Len(queue'[u]) :
            queue'[u][i].id < nextBatchId'
  <2> DEFINE f == queue'
  <2>1. /\ f \in [Users -> Seq(Batch)]
        /\ \A u \in Users : \A i \in 1..Len(f[u]) : f[u][i].id <= calls
        /\ nextBatchId' = NextIdOf(f)
      BY <1>2, <1>3
  <2> HIDE DEF f
  <2>2. /\ nextBatchId' \in Nat \ {0} /\ nextBatchId' <= calls + 1
        /\ \A u \in Users : \A i \in 1..Len(f[u]) : f[u][i].id < nextBatchId'
      BY <1>2, <2>1, NextIdIsNew
  <2> QED
      BY <2>2 DEF f
<1>5. CallsInOrder'
    BY <1>2, <1>4 DEF CallsInOrder
<1>6. CallbacksBelongToBatches'
    BY <1>1, <1>2, <1>4 DEF CallbacksBelongToBatches, Ascending
<1>7. callbacks' \in SUBSET Callback
    BY <1>1
<1>8. QED
    BY <1>1, <1>2, <1>4, <1>5, <1>6, <1>7 DEF EngineInv

LEMMA SameEngine ==
    ASSUME EngineInv, UNCHANGED <<engineVars, historyVars>>
    PROVE  EngineInv'
  BY DEF EngineInv, engineVars, historyVars, CallsInOrder,
         CallbacksBelongToBatches

-----------------------------------------------------------------------------
(* The stream and the wire *)

Answered(rs) == [i \in 1..Len(rs) |-> rs[i].message]

LEMMA AnsweredProperties ==
    ASSUME NEW rs \in Seq(Reply)
    PROVE  /\ Answered(rs) \in Seq(Message)
           /\ Len(Answered(rs)) = Len(rs)
           /\ \A i \in 1..Len(rs) : /\ rs[i] \in Reply
                                    /\ Answered(rs)[i] = rs[i].message
           /\ Answered(rs) = <<>> <=> rs = <<>>
<1>1. \A i \in 1..Len(rs) : rs[i] \in Reply /\ rs[i].message \in Message
  <2>1. \A i \in 1..Len(rs) : rs[i] \in Reply
      BY ElementOfSeq
  <2>2. QED
      BY <2>1 DEF Reply
<1>2. Len(rs) \in Nat
    OBVIOUS
<1>3. /\ Answered(rs) \in Seq(Message) /\ Len(Answered(rs)) = Len(rs)
      /\ \A i \in 1..Len(rs) : Answered(rs)[i] = rs[i].message
    BY <1>1, <1>2 DEF Answered
<1>4. Answered(rs) = <<>> <=> rs = <<>>
    BY <1>3
<1>5. QED
    BY <1>1, <1>3, <1>4

LEMMA AnsweredTail ==
    ASSUME NEW rs \in Seq(Reply), rs # <<>>
    PROVE  Answered(Tail(rs)) = Tail(Answered(rs))
<1>1. /\ Tail(rs) \in Seq(Reply) /\ Len(Tail(rs)) = Len(rs) - 1
      /\ \A i \in 1..Len(Tail(rs)) : Tail(rs)[i] = rs[i + 1]
    BY HeadTailProperties
<1>2. Answered(rs) \in Seq(Message) /\ Answered(rs) # <<>>
    BY AnsweredProperties
<1>3. /\ Tail(Answered(rs)) \in Seq(Message)
      /\ Len(Tail(Answered(rs))) = Len(rs) - 1
      /\ \A i \in 1..Len(rs) - 1 : Tail(Answered(rs))[i] = Answered(rs)[i + 1]
    BY <1>2, AnsweredProperties, HeadTailProperties
<1>4. /\ Answered(Tail(rs)) \in Seq(Message)
      /\ Len(Answered(Tail(rs))) = Len(rs) - 1
      /\ \A i \in 1..Len(rs) - 1 : Answered(Tail(rs))[i] = Tail(rs)[i].message
    BY <1>1, AnsweredProperties
<1>5. Len(rs) \in Nat
    OBVIOUS
<1>6. \A i \in 1..Len(rs) - 1 : Answered(Tail(rs))[i] = Tail(Answered(rs))[i]
  <2>1. ASSUME NEW i \in 1..Len(rs) - 1
        PROVE  Answered(Tail(rs))[i] = Tail(Answered(rs))[i]
    <3>1. i + 1 \in 1..Len(rs) /\ i \in 1..Len(Tail(rs))
        BY <1>1, <1>5
    <3>2. Answered(rs)[i + 1] = rs[i + 1].message
        BY <3>1, AnsweredProperties
    <3>3. QED
        BY <1>1, <1>3, <1>4, <3>1, <3>2
  <2>2. QED
      BY <2>1
<1>7. QED
    BY <1>3, <1>4, <1>6, SeqEqual

LEMMA AnsweredAppend ==
    ASSUME NEW rs \in Seq(Reply), NEW e \in Reply
    PROVE  Answered(Append(rs, e)) = Append(Answered(rs), e.message)
<1>1. /\ Append(rs, e) \in Seq(Reply)
      /\ Len(Append(rs, e)) = Len(rs) + 1
      /\ \A i \in 1..Len(rs) : Append(rs, e)[i] = rs[i]
      /\ Append(rs, e)[Len(rs) + 1] = e
      /\ Len(rs) \in Nat /\ e.message \in Message
    BY AppendProperties DEF Reply
<1>2. /\ Answered(rs) \in Seq(Message) /\ Len(Answered(rs)) = Len(rs)
      /\ \A i \in 1..Len(rs) : Answered(rs)[i] = rs[i].message
    BY AnsweredProperties
<1>3. /\ Append(Answered(rs), e.message) \in Seq(Message)
      /\ Len(Append(Answered(rs), e.message)) = Len(rs) + 1
      /\ \A i \in 1..Len(rs) :
            Append(Answered(rs), e.message)[i] = Answered(rs)[i]
      /\ Append(Answered(rs), e.message)[Len(rs) + 1] = e.message
    BY <1>1, <1>2, AppendProperties
<1>4. /\ Answered(Append(rs, e)) \in Seq(Message)
      /\ Len(Answered(Append(rs, e))) = Len(rs) + 1
      /\ \A i \in 1..Len(rs) + 1 :
            Answered(Append(rs, e))[i] = Append(rs, e)[i].message
    BY <1>1, AnsweredProperties
<1>5. ASSUME NEW i \in 1..Len(rs) + 1
      PROVE  Answered(Append(rs, e))[i] = Append(Answered(rs), e.message)[i]
  <2>1. i \in 1..Len(rs) \/ i = Len(rs) + 1
      BY <1>1
  <2>2. QED
      BY <1>1, <1>2, <1>3, <1>4, <2>1
<1>6. QED
    BY <1>3, <1>4, <1>5, SeqEqual

LEMMA HeadOfConcat ==
    ASSUME NEW T, NEW s \in Seq(T), NEW t \in Seq(T)
    PROVE  /\ s # <<>> => s \o t # <<>> /\ (s \o t)[1] = s[1]
           /\ s \o t = <<>> => s = <<>> /\ t = <<>>
  OBVIOUS

LEMMA TailOfConcat ==
    ASSUME NEW T, NEW s \in Seq(T), NEW t \in Seq(T), NEW x \in Seq(T), s # <<>>
    PROVE  Tail(s) \o (t \o x) = Tail(s \o t) \o x
<1>1. Tail(s) \in Seq(T)
    BY HeadTailProperties
<1>2. (Tail(s) \o t) \o x = Tail(s) \o (t \o x)
    BY <1>1, ConcatAssociative
<1>3. Tail(s \o t) = Tail(s) \o t
    OBVIOUS
<1>4. QED
    BY <1>2, <1>3

LEMMA BatchIsMessage ==
    /\ \A s \in Seq(Batch) : s \in Seq(Message)
    /\ Handshake \in Message /\ Handshake \notin Batch
    /\ \A m \in Message : m # Handshake => m \in Batch
<1>1. Batch \subseteq Message
    BY DEF Message
<1>2. \A s \in Seq(Batch) : s \in Seq(Message)
    BY <1>1, SeqMonotonic
<1>3. Handshake \notin Batch
    BY DEF Handshake, Batch, Writes
<1>4. QED
    BY <1>2, <1>3 DEF Message

LEMMA WireFacts ==
    ASSUME StreamInv
    PROVE  /\ OnTheWire = Answered(replies) \o sent
           /\ OnTheWire \in Seq(Message)
           /\ Answered(replies) \in Seq(Message) /\ sent \in Seq(Message)
  BY AnsweredProperties, ConcatProperties DEF StreamInv, OnTheWire, Answered

\* The pipeline and the flags that go with it.
LEMMA PipelineFacts ==
    ASSUME EngineInv, StreamInv
    PROVE  LET q == queue[currentUser]
           IN  /\ q \in Seq(Batch) /\ Ascending(q)
               /\ writePipeline = FrontOf(q)
               /\ writePipeline = SubSeq(q, 1, FrontLength(q))
               /\ writePipeline \in Seq(Batch)
               /\ writePipeline = <<>> <=> q = <<>>
               /\ FrontLength(q) \in 0..Len(q)
               /\ idleTimer => /\ writePipeline = <<>> /\ FrontLength(q) = 0
                               /\ streamState = "Open" /\ handshakeComplete
<1> DEFINE q == queue[currentUser]
<1>1. q \in Seq(Batch) /\ Ascending(q)
    BY QueueFacts DEF EngineInv
<1>2. writePipeline = FrontOf(q)
    BY DEF StreamInv, PipelineIsFrontOfQueue, FrontOf, FrontLength
<1>3. /\ writePipeline = SubSeq(q, 1, FrontLength(q))
      /\ writePipeline \in Seq(Batch)
      /\ writePipeline = <<>> <=> q = <<>>
      /\ FrontLength(q) \in 0..Len(q)
      /\ Len(writePipeline) = FrontLength(q)
    BY <1>1, <1>2, FrontProperties DEF FrontOf
<1>4. idleTimer => /\ writePipeline = <<>>
                   /\ streamState = "Open" /\ handshakeComplete
    BY DEF StreamInv, PipelineIsFrontOfQueue, StreamFlags
<1>5. writePipeline = <<>> => Len(writePipeline) = 0
    OBVIOUS
<1>6. QED
    BY <1>1, <1>2, <1>3, <1>4, <1>5

LEMMA WriteStream ==
    ASSUME EngineInv, StreamInv, WriteMutations
    PROVE  StreamInv'
<1> DEFINE q == queue[currentUser]
           p == queue'[currentUser]
           n == FrontLength(q)
           added == SubSeq(p, n + 1, FrontLength(p))
<1>1. /\ q \in Seq(Batch) /\ Ascending(q) /\ n \in 0..Len(q)
      /\ writePipeline = FrontOf(q)
      /\ writePipeline = SubSeq(q, 1, n)
      /\ writePipeline \in Seq(Batch)
      /\ idleTimer => n = 0 /\ streamState = "Open" /\ handshakeComplete
    BY PipelineFacts
<1>2. /\ EngineInv' /\ currentUser' = currentUser /\ currentUser \in Users
      /\ NewBatch \in Batch /\ p = Append(q, NewBatch)
    BY WriteEngine DEF EngineInv
<1>3. p \in Seq(Batch) /\ Ascending(p)
  <2>1. queue' \in [Users -> Seq(Batch)]
      BY <1>2 DEF EngineInv
  <2>2. Ascending(p)
      BY <1>2 DEF EngineInv, CallbacksBelongToBatches, Ascending
  <2>3. QED
      BY <1>2, <2>1, <2>2
<1>4. Len(p) = Len(q) + 1 /\ Len(q) \in Nat /\ p # <<>>
    BY <1>1, <1>2, AppendProperties
<1>5. n \in 0..FrontLength(p) /\ FrontLength(p) \in 0..Len(p)
  <2>1. /\ n <= MaxPendingWrites
        /\ Len(q) <= MaxPendingWrites => n = Len(q)
        /\ Len(q) > MaxPendingWrites => n = MaxPendingWrites
      BY <1>1, FrontProperties
  <2>2. /\ FrontLength(p) \in 0..Len(p)
        /\ Len(p) <= MaxPendingWrites => FrontLength(p) = Len(p)
        /\ Len(p) > MaxPendingWrites => FrontLength(p) = MaxPendingWrites
      BY <1>3, FrontProperties
  <2> HIDE DEF p, q, n
  <2>3. QED
      BY <1>1, <1>4, <2>1, <2>2
<1>6. SubSeq(p, 1, n) = writePipeline
    BY <1>1, <1>2, <1>5
<1>7. UNCHANGED <<handshakeComplete, replies>>
    BY DEF WriteMutations
<1>8. FillWritePipeline(SubSeq(p, 1, n), p, streamState,
                        handshakeComplete, sent, idleTimer)
    BY <1>6 DEF WriteMutations
<1> HIDE DEF p, q, n
<1>9. /\ writePipeline' = FrontOf(p)
      /\ streamState' \in StreamStates
      /\ streamState' = "Open" <=> streamState = "Open"
      /\ FrontOf(p) # <<>> => IsStarted(streamState')
      /\ idleTimer' \in BOOLEAN
      /\ idleTimer' => FrontOf(p) = <<>> /\ streamState = "Open"
      /\ sent' = IF streamState = "Open" /\ handshakeComplete
                 THEN sent \o added ELSE sent
  <2>1. /\ streamState \in StreamStates /\ handshakeComplete \in BOOLEAN
        /\ sent \in Seq(Message) /\ idleTimer \in BOOLEAN
      BY DEF StreamInv
  <2>2. QED
      BY <1>1, <1>3, <1>5, <1>8, <2>1, FillStep
<1>10. FrontOf(p) # <<>> /\ FrontOf(p) \in Seq(Batch)
    BY <1>3, <1>4, FrontProperties
<1>11. added \in Seq(Batch)
    BY <1>3, <1>5
<1> HIDE DEF added
<1>12. added \in Seq(Message) /\ sent' \in Seq(Message)
    BY <1>9, <1>11, BatchIsMessage DEF StreamInv
<1>13. PipelineIsFrontOfQueue'
    BY <1>2, <1>9, <1>10
    DEF PipelineIsFrontOfQueue, FrontOf, FrontLength, p
<1>14. WireMatchesPipeline'
  <2>1. CASE streamState = "Open" /\ handshakeComplete
    <3>1. OnTheWire' = Answered(replies) \o (sent \o added)
        BY <1>7, <1>9, <2>1 DEF OnTheWire, Answered
    <3>2. OnTheWire' = OnTheWire \o added
      <4>1. /\ Answered(replies) \in Seq(Message) /\ sent \in Seq(Message)
            /\ OnTheWire = Answered(replies) \o sent
          BY WireFacts
      <4>2. \A a, b, c \in Seq(Message) : (a \o b) \o c = a \o (b \o c)
          BY ConcatAssociative
      <4>3. (Answered(replies) \o sent) \o added
                = Answered(replies) \o (sent \o added)
          BY <1>12, <4>1, <4>2, Zenon
      <4>4. QED
          BY <3>1, <4>1, <4>3
    <3>3. OnTheWire = writePipeline
        BY <2>1 DEF StreamInv, WireMatchesPipeline
    <3>4. writePipeline \o added = FrontOf(p)
        BY <1>3, <1>5, <1>6, Adjacent DEF added, FrontOf
    <3>5. QED
        BY <1>7, <1>9, <2>1, <3>2, <3>3, <3>4 DEF WireMatchesPipeline
  <2>2. CASE ~(streamState = "Open" /\ handshakeComplete)
    <3>1. OnTheWire' = OnTheWire
        BY <1>7, <1>9, <2>2 DEF OnTheWire
    <3>2. QED
        BY <1>7, <1>9, <2>2, <3>1 DEF StreamInv, WireMatchesPipeline
  <2>3. QED
      BY <2>1, <2>2
<1>15. StreamFlags'
    BY <1>7, <1>9, <1>10 DEF StreamInv, StreamFlags
<1>16. handshakeComplete' \in BOOLEAN /\ replies' \in Seq(Reply)
    BY <1>7 DEF StreamInv
<1>17. QED
    BY <1>9, <1>10, <1>12, <1>13, <1>14, <1>15, <1>16 DEF StreamInv

(***************************************************************************)
(* Filling the pipeline of a stream that is not open: nothing is sent.     *)
(***************************************************************************)
LEMMA ClosedStream ==
    ASSUME NEW q \in Seq(Batch), Ascending(q), queue'[currentUser'] = q,
           NEW n \in 0..FrontLength(q),
           NEW state \in StreamStates \ {"Open"}, NEW handshaken \in BOOLEAN,
           FillWritePipeline(SubSeq(q, 1, n), q, state, handshaken, <<>>, FALSE),
           handshakeComplete' = FALSE, replies' = <<>>
    PROVE  StreamInv'
<1>1. <<>> \in Seq(Message) /\ <<>> \in Seq(Reply)
    BY EmptySeq
<1>2. /\ writePipeline' = FrontOf(q)
      /\ streamState' \in StreamStates
      /\ streamState' = "Open" <=> state = "Open"
      /\ FrontOf(q) # <<>> => IsStarted(streamState')
      /\ idleTimer' \in BOOLEAN
      /\ idleTimer' => FrontOf(q) = <<>> /\ state = "Open"
      /\ sent' = <<>>
  <2> DEFINE timer == FALSE
             wire == <<>>
  <2>1. /\ timer \in BOOLEAN /\ ~timer /\ wire \in Seq(Message)
        /\ FillWritePipeline(SubSeq(q, 1, n), q, state, handshaken, wire, timer)
      BY <1>1
  <2> HIDE DEF timer, wire
  <2>2. state \in StreamStates /\ state # "Open"
      OBVIOUS
  <2>3. /\ writePipeline' = FrontOf(q)
        /\ streamState' \in StreamStates
        /\ streamState' = "Open" <=> state = "Open"
        /\ FrontOf(q) # <<>> => IsStarted(streamState')
        /\ idleTimer' \in BOOLEAN
        /\ idleTimer' => FrontOf(q) = <<>> /\ state = "Open"
        /\ sent' = IF state = "Open" /\ handshaken
                   THEN wire \o SubSeq(q, n + 1, FrontLength(q)) ELSE wire
      BY <2>1, <2>2, FillStep
  <2>4. sent' = <<>>
      BY <2>2, <2>3 DEF wire
  <2>5. QED
      BY <2>3, <2>4
<1>3. FrontOf(q) \in Seq(Batch)
    BY FrontProperties
<1>4. PipelineIsFrontOfQueue'
    BY <1>2 DEF PipelineIsFrontOfQueue, FrontOf, FrontLength
<1>5. OnTheWire' = <<>>
    BY <1>2 DEF OnTheWire
<1>6. WireMatchesPipeline'
    BY <1>2, <1>5 DEF WireMatchesPipeline
<1>7. StreamFlags'
    BY <1>2 DEF StreamFlags
<1>8. QED
    BY <1>1, <1>2, <1>3, <1>4, <1>6, <1>7 DEF StreamInv

\* After the front of the queue and the pipeline is gone, the rest of the
\* pipeline is still the front of the queue.
LEMMA RestOfFront ==
    ASSUME NEW q \in Seq(Batch), Ascending(q), q # <<>>
    PROVE  /\ FrontOf(q) # <<>>
           /\ Head(FrontOf(q)) = q[1]
           /\ Tail(q) \in Seq(Batch) /\ Ascending(Tail(q))
           /\ FrontLength(q) - 1 \in 0..FrontLength(Tail(q))
           /\ Tail(FrontOf(q)) = SubSeq(Tail(q), 1, FrontLength(q) - 1)
<1> DEFINE n == FrontLength(q)
           p == Tail(q)
<1>1. /\ n \in 0..Len(q) /\ n <= MaxPendingWrites
      /\ Len(q) <= MaxPendingWrites => n = Len(q)
      /\ Len(q) > MaxPendingWrites => n = MaxPendingWrites
      /\ FrontOf(q) # <<>> /\ Len(FrontOf(q)) = n
      /\ \A i \in 1..n : FrontOf(q)[i] = q[i]
    BY FrontProperties
<1>2. /\ p \in Seq(Batch) /\ Len(p) = Len(q) - 1
      /\ \A i \in 1..Len(p) : p[i] = q[i + 1]
    BY HeadTailProperties
<1>3. Len(q) \in Nat /\ Len(q) # 0
    OBVIOUS
<1>4. n \in 1..Len(q)
    BY <1>1, <1>3
<1>5. Ascending(p)
    BY RestOfQueue
<1>6. n - 1 \in 0..FrontLength(p)
  <2>1. /\ FrontLength(p) \in 0..Len(p)
        /\ Len(p) <= MaxPendingWrites => FrontLength(p) = Len(p)
        /\ Len(p) > MaxPendingWrites => FrontLength(p) = MaxPendingWrites
      BY <1>2, FrontProperties
  <2> HIDE DEF p, n
  <2>2. QED
      BY <1>1, <1>2, <1>3, <1>4, <2>1
<1>7. Tail(SubSeq(q, 1, n)) = SubSeq(p, 1, n - 1)
  <2> HIDE DEF n
  <2>1. QED
      BY <1>4
<1>8. Head(SubSeq(q, 1, n)) = q[1]
  <2> HIDE DEF n
  <2>1. QED
      BY <1>4
<1>9. QED
    BY <1>1, <1>2, <1>5, <1>6, <1>7, <1>8 DEF FrontOf

LEMMA HandshakeStream ==
    ASSUME EngineInv, StreamInv, replies # <<>>, ~handshakeComplete,
           replies' = Tail(replies), OnWriteStreamHandshakeComplete
    PROVE  StreamInv'
<1>1. /\ writePipeline' = writePipeline /\ streamState' = streamState
      /\ queue' = queue /\ currentUser' = currentUser
      /\ handshakeComplete' = TRUE
      /\ sent' = sent \o writePipeline
      /\ idleTimer' = (idleTimer /\ writePipeline = <<>>)
    BY DEF OnWriteStreamHandshakeComplete, engineVars
<1>2. /\ Answered(replies) \in Seq(Message) /\ sent \in Seq(Message)
      /\ OnTheWire = Answered(replies) \o sent
      /\ Answered(replies) # <<>>
    BY WireFacts, AnsweredProperties DEF StreamInv
<1>3. OnTheWire # <<>>
    BY <1>2
<1>4. streamState = "Open" /\ OnTheWire = <<Handshake>>
    BY <1>3 DEF StreamInv, WireMatchesPipeline
<1>5. sent = <<>> /\ Len(Answered(replies)) = 1
  <2>0. Len(OnTheWire) = 1
      BY <1>4
  <2>1. /\ Len(OnTheWire) = 1
        /\ Len(OnTheWire) = Len(Answered(replies)) + Len(sent)
        /\ Len(Answered(replies)) \in Nat /\ Len(sent) \in Nat
        /\ Len(Answered(replies)) # 0
      BY <1>2, <2>0
  <2>2. Len(sent) = 0 /\ Len(Answered(replies)) = 1
      BY <2>1
  <2>3. QED
      BY <1>2, <2>2
<1>6. Tail(replies) = <<>>
  <2>1. replies \in Seq(Reply) /\ Len(replies) = 1
      BY <1>5, AnsweredProperties DEF StreamInv
  <2>2. QED
      BY <2>1
<1>7. writePipeline \in Seq(Batch) /\ writePipeline \in Seq(Message)
    BY BatchIsMessage DEF StreamInv
<1>8. sent' = writePipeline
    BY <1>1, <1>5, <1>7, ConcatEmptySeq
<1>9. OnTheWire' = writePipeline
  <2>1. OnTheWire' = Answered(replies') \o sent'
      BY DEF OnTheWire, Answered
  <2>2. Answered(<<>>) = <<>>
      BY EmptySeq, AnsweredProperties
  <2>3. QED
      BY <1>6, <1>7, <1>8, <2>1, <2>2, ConcatEmptySeq
<1>10. ~idleTimer
    BY DEF StreamInv, StreamFlags
<1>11. idleTimer' = FALSE
    BY <1>1, <1>10
<1>12. PipelineIsFrontOfQueue'
    BY <1>1, <1>11 DEF StreamInv, PipelineIsFrontOfQueue
<1>13. WireMatchesPipeline'
    BY <1>1, <1>4, <1>9 DEF WireMatchesPipeline
<1>14. StreamFlags'
  <2>1. Len(replies') = 0
      BY <1>6
  <2>2. QED
      BY <1>1, <1>4, <1>11, <2>1 DEF StreamFlags
<1>15. replies' \in Seq(Reply) /\ sent' \in Seq(Message)
    BY <1>6, <1>7, <1>8, EmptySeq
<1>16. handshakeComplete' \in BOOLEAN /\ idleTimer' \in BOOLEAN
    BY <1>1, <1>11
<1>17. QED
    BY <1>1, <1>7, <1>12, <1>13, <1>14, <1>15, <1>16 DEF StreamInv

\* An answer past the handshake is for the oldest batch of the current user,
\* which the pipeline begins with.
LEMMA AnswerForTheFirst ==
    ASSUME EngineInv, StreamInv, replies # <<>>, handshakeComplete
    PROVE  /\ streamState = "Open"
           /\ OnTheWire = writePipeline
           /\ queue[currentUser] # <<>>
           /\ writePipeline # <<>>
           /\ Head(writePipeline) = queue[currentUser][1]
<1>1. /\ queue[currentUser] \in Seq(Batch) /\ Ascending(queue[currentUser])
      /\ writePipeline = FrontOf(queue[currentUser])
      /\ writePipeline = <<>> <=> queue[currentUser] = <<>>
    BY PipelineFacts
<1>2. streamState = "Open" /\ OnTheWire = writePipeline
    BY DEF StreamInv, StreamFlags, WireMatchesPipeline
<1>3. OnTheWire # <<>>
  <2>1. /\ Answered(replies) \in Seq(Message) /\ sent \in Seq(Message)
        /\ OnTheWire = Answered(replies) \o sent
        /\ Answered(replies) # <<>>
      BY WireFacts, AnsweredProperties DEF StreamInv
  <2>2. QED
      BY <2>1
<1>4. QED
    BY <1>1, <1>2, <1>3, RestOfFront

\* A refusal comes only after the handshake.
LEMMA RefusalAfterHandshake ==
    ASSUME StreamInv, replies # <<>>, ~Head(replies).ok
    PROVE  handshakeComplete
<1>1. replies \in Seq(Reply)
    BY DEF StreamInv
<1>2. 1 \in 1..Len(replies) /\ Head(replies) = replies[1]
    BY <1>1
<1>3. replies[1].message # Handshake
    BY <1>2 DEF StreamInv, StreamFlags
<1>4. /\ OnTheWire = Answered(replies) \o sent
      /\ Answered(replies) \in Seq(Message) /\ sent \in Seq(Message)
      /\ Answered(replies)[1] = replies[1].message
      /\ Answered(replies) # <<>>
    BY <1>1, <1>2, WireFacts, AnsweredProperties
<1>5. OnTheWire[1] # Handshake /\ OnTheWire # <<>>
  <2>1. OnTheWire # <<>> /\ OnTheWire[1] = Answered(replies)[1]
      BY <1>4, HeadOfConcat
  <2>2. QED
      BY <1>3, <1>4, <2>1
<1>6. QED
    BY <1>5 DEF StreamInv, WireMatchesPipeline

LEMMA ResultStream ==
    ASSUME EngineInv, StreamInv, replies # <<>>, handshakeComplete,
           replies' = Tail(replies), OnWriteStreamMutationResult
    PROVE  EngineInv' /\ StreamInv'
<1> DEFINE q == queue[currentUser]
           p == Tail(q)
           n == FrontLength(q)
           added == SubSeq(p, (n - 1) + 1, FrontLength(p))
<1>1. /\ q \in Seq(Batch) /\ Ascending(q)
      /\ writePipeline = FrontOf(q)
      /\ writePipeline \in Seq(Batch)
      /\ idleTimer => writePipeline = <<>>
    BY PipelineFacts
<1>2. /\ Answered(replies) \in Seq(Message) /\ sent \in Seq(Message)
      /\ OnTheWire = Answered(replies) \o sent
      /\ Answered(replies) # <<>>
    BY WireFacts, AnsweredProperties DEF StreamInv
<1>3. streamState = "Open" /\ OnTheWire = writePipeline
    BY AnswerForTheFirst
<1>4. writePipeline # <<>> /\ q # <<>>
    BY AnswerForTheFirst
<1>5. /\ Head(writePipeline) = q[1]
      /\ p \in Seq(Batch) /\ Ascending(p)
      /\ n - 1 \in 0..FrontLength(p)
      /\ Tail(writePipeline) = SubSeq(p, 1, n - 1)
    BY <1>1, <1>4, RestOfFront
<1>6. /\ EngineInv' /\ currentUser' = currentUser
      /\ queue'[currentUser] = p
  <2>1. HandleWriteResult(q[1], "ok")
      BY <1>5 DEF OnWriteStreamMutationResult
  <2>2. QED
      BY <1>4, <2>1, ResultEngine
<1>7. /\ FillWritePipeline(SubSeq(p, 1, n - 1), p, streamState,
                           handshakeComplete, sent, idleTimer)
      /\ handshakeComplete' = handshakeComplete
    BY <1>5, <1>6 DEF OnWriteStreamMutationResult
<1> HIDE DEF q, p, n
<1>8. /\ writePipeline' = FrontOf(p)
      /\ streamState' \in StreamStates
      /\ streamState' = "Open" <=> streamState = "Open"
      /\ FrontOf(p) # <<>> => IsStarted(streamState')
      /\ idleTimer' \in BOOLEAN
      /\ idleTimer' => FrontOf(p) = <<>> /\ streamState = "Open"
      /\ sent' = sent \o added
  <2>1. /\ streamState \in StreamStates /\ handshakeComplete \in BOOLEAN
        /\ sent \in Seq(Message) /\ idleTimer \in BOOLEAN
      BY DEF StreamInv
  <2>2. ~idleTimer
      BY <1>1, <1>4
  <2>3. /\ writePipeline' = FrontOf(p)
        /\ streamState' \in StreamStates
        /\ streamState' = "Open" <=> streamState = "Open"
        /\ FrontOf(p) # <<>> => IsStarted(streamState')
        /\ idleTimer' \in BOOLEAN
        /\ idleTimer' => FrontOf(p) = <<>> /\ streamState = "Open"
        /\ sent' = IF streamState = "Open" /\ handshakeComplete
                   THEN sent \o SubSeq(p, (n - 1) + 1, FrontLength(p))
                   ELSE sent
      BY <1>5, <1>7, <2>1, <2>2, FillStep
  <2>4. sent' = sent \o added
      BY <1>3, <2>3
  <2>5. QED
      BY <2>3, <2>4
<1>9. added \in Seq(Batch)
  <2>1. FrontLength(p) \in 0..Len(p)
      BY <1>5, FrontProperties
  <2>2. QED
      BY <1>5, <2>1
<1>10. writePipeline' = SubSeq(p, 1, n - 1) \o added
  <2>1. FrontLength(p) \in 0..Len(p)
      BY <1>5, FrontProperties
  <2>2. QED
      BY <1>5, <1>8, <2>1, Adjacent DEF FrontOf
<1> HIDE DEF added
<1>11. added \in Seq(Message) /\ sent' \in Seq(Message)
    BY <1>2, <1>8, <1>9, BatchIsMessage
<1>12. Answered(replies') = Tail(Answered(replies))
    BY AnsweredTail DEF StreamInv
<1>13. OnTheWire' = Tail(Answered(replies)) \o (sent \o added)
    BY <1>8, <1>12 DEF OnTheWire, Answered
<1>14. OnTheWire' = Tail(writePipeline) \o added
  <2>1. Tail(Answered(replies)) \o (sent \o added)
            = Tail(Answered(replies) \o sent) \o added
    <3> DEFINE a == Answered(replies)
    <3>1. a \in Seq(Message) /\ a # <<>> /\ sent \in Seq(Message)
        BY <1>2
    <3>2. added \in Seq(Message)
        BY <1>11
    <3> HIDE DEF a
    <3>3. Tail(a) \o (sent \o added) = Tail(a \o sent) \o added
        BY <3>1, <3>2, TailOfConcat
    <3>4. QED
        BY <3>3 DEF a
  <2>2. QED
      BY <1>2, <1>3, <1>13, <2>1
<1>15. OnTheWire' = writePipeline'
    BY <1>5, <1>10, <1>14
<1>16. PipelineIsFrontOfQueue'
  <2>1. writePipeline' # <<>> => IsStarted(streamState') /\ ~idleTimer'
      BY <1>8
  <2>2. QED
      BY <1>6, <1>8, <2>1 DEF PipelineIsFrontOfQueue, FrontOf, FrontLength
<1>17. WireMatchesPipeline'
    BY <1>3, <1>7, <1>8, <1>15 DEF WireMatchesPipeline
<1>18. replies' \in Seq(Reply) /\ StreamFlags'
  <2>1. /\ replies \in Seq(Reply)
        /\ \A i \in 1..Len(replies) :
              replies[i].message = Handshake => replies[i].ok
      BY DEF StreamInv, StreamFlags
  <2>2. /\ replies' \in Seq(Reply) /\ Len(replies') = Len(replies) - 1
        /\ \A i \in 1..Len(replies') : replies'[i] = replies[i + 1]
      BY <2>1, HeadTailProperties
  <2>3. \A i \in 1..Len(replies') : i + 1 \in 1..Len(replies)
      BY <2>1, <2>2
  <2>4. \A i \in 1..Len(replies') : replies'[i].message = Handshake
                                        => replies'[i].ok
      BY <2>1, <2>2, <2>3
  <2>5. QED
      BY <1>3, <1>7, <1>8, <2>2, <2>4 DEF StreamFlags
<1>19. handshakeComplete' \in BOOLEAN /\ writePipeline' \in Seq(Batch)
    BY <1>5, <1>7, <1>8, FrontProperties DEF StreamInv
<1>20. StreamInv'
    BY <1>8, <1>11, <1>16, <1>17, <1>18, <1>19 DEF StreamInv
<1>21. QED
    BY <1>6, <1>20

LEMMA RejectStream ==
    ASSUME EngineInv, StreamInv, StreamRejects
    PROVE  /\ queue[currentUser] # <<>>
           /\ Head(writePipeline) = queue[currentUser][1]
           /\ EngineInv' /\ StreamInv'
<1> DEFINE q == queue[currentUser]
           p == Tail(q)
           n == FrontLength(q)
<1>1. /\ q \in Seq(Batch) /\ Ascending(q)
      /\ writePipeline = FrontOf(q)
    BY PipelineFacts
<1>2. writePipeline # <<>> /\ q # <<>> /\ Head(writePipeline) = q[1]
    BY RefusalAfterHandshake, AnswerForTheFirst DEF StreamRejects
<1>3. /\ p \in Seq(Batch) /\ Ascending(p)
      /\ n - 1 \in 0..FrontLength(p)
      /\ Tail(writePipeline) = SubSeq(p, 1, n - 1)
    BY <1>1, <1>2, RestOfFront
<1>4. /\ EngineInv' /\ currentUser' = currentUser
      /\ queue'[currentUser] = p
  <2>1. HandleWriteResult(q[1], "rejected")
      BY <1>2 DEF StreamRejects
  <2>2. QED
      BY <1>2, <2>1, ResultEngine
<1>5. /\ FillWritePipeline(SubSeq(p, 1, n - 1), p, "Initial",
                           handshakeComplete, <<>>, FALSE)
      /\ handshakeComplete' = FALSE /\ replies' = <<>>
    BY <1>3, <1>4 DEF StreamRejects
<1>6. "Initial" \in StreamStates \ {"Open"} /\ handshakeComplete \in BOOLEAN
    BY DEF StreamStates, StreamInv
<1> HIDE DEF q, p, n
<1>7. StreamInv'
    BY <1>3, <1>4, <1>5, <1>6, ClosedStream
<1>8. QED
    BY <1>2, <1>4, <1>7 DEF q

(***************************************************************************)
(* After a user change or a restart the pipeline is filled from nothing.   *)
(***************************************************************************)
LEMMA RefilledStream ==
    ASSUME NEW user \in Users, currentUser' = user,
           queue'[user] \in Seq(Batch), Ascending(queue'[user]),
           NEW state \in StreamStates \ {"Open"},
           FillWritePipeline(<<>>, queue'[user], state, FALSE, <<>>, FALSE),
           handshakeComplete' = FALSE, replies' = <<>>
    PROVE  StreamInv'
<1> DEFINE q == queue'[user]
<1>1. q \in Seq(Batch) /\ Ascending(q) /\ queue'[currentUser'] = q
    OBVIOUS
<1>2. 0 \in 0..FrontLength(q) /\ SubSeq(q, 1, 0) = <<>>
    BY <1>1, FrontProperties
<1>3. FALSE \in BOOLEAN
    OBVIOUS
<1>4. FillWritePipeline(SubSeq(q, 1, 0), q, state, FALSE, <<>>, FALSE)
    BY <1>2
<1> HIDE DEF q
<1>5. QED
    BY <1>1, <1>2, <1>3, <1>4, ClosedStream

LEMMA RestartedStream ==
    ASSUME NEW user \in Users, Restarted(user), DiskOK(queue')
    PROVE  StreamInv'
<1>1. /\ currentUser' = user
      /\ handshakeComplete' = FALSE /\ replies' = <<>>
      /\ FillWritePipeline(<<>>, queue'[user], "Initial", FALSE, <<>>, FALSE)
    BY DEF Restarted
<1>2. queue'[user] \in Seq(Batch) /\ Ascending(queue'[user])
    BY DEF DiskOK
<1>3. "Initial" \in StreamStates \ {"Open"}
    BY DEF StreamStates
<1>4. QED
    BY <1>1, <1>2, <1>3, RefilledStream

\* The stream ends and nothing else happens: the pipeline is kept.
LEMMA EndedStream ==
    ASSUME StreamInv, queue' = queue, currentUser' = currentUser,
           writePipeline' = writePipeline,
           streamState' \in StreamStates \ {"Open"},
           writePipeline # <<>> => IsStarted(streamState'),
           handshakeComplete' = FALSE, idleTimer' = FALSE,
           sent' = <<>>, replies' = <<>>
    PROVE  StreamInv'
<1>1. OnTheWire' = <<>>
    BY DEF OnTheWire
<1>2. WireMatchesPipeline'
    BY <1>1 DEF WireMatchesPipeline
<1>3. PipelineIsFrontOfQueue'
    BY DEF StreamInv, PipelineIsFrontOfQueue
<1>4. StreamFlags'
    BY DEF StreamFlags
<1>5. sent' \in Seq(Message) /\ replies' \in Seq(Reply)
    BY EmptySeq
<1>6. handshakeComplete' \in BOOLEAN /\ idleTimer' \in BOOLEAN
    OBVIOUS
<1>7. QED
    BY <1>2, <1>3, <1>4, <1>5, <1>6 DEF StreamInv

LEMMA OpenedStream ==
    ASSUME StreamInv, ResumeStartWithCredentials
    PROVE  StreamInv'
<1>1. /\ streamState = "Starting" /\ streamState' = "Open"
      /\ sent' = <<Handshake>> /\ replies' = replies
      /\ writePipeline' = writePipeline
      /\ handshakeComplete' = handshakeComplete
      /\ idleTimer' = idleTimer
      /\ queue' = queue /\ currentUser' = currentUser
    BY DEF ResumeStartWithCredentials, engineVars
<1>2. OnTheWire = <<>>
    BY <1>1 DEF StreamInv, WireMatchesPipeline
<1>3. replies = <<>>
  <2>1. /\ OnTheWire = Answered(replies) \o sent
        /\ Answered(replies) \in Seq(Message) /\ sent \in Seq(Message)
      BY WireFacts
  <2>2. Answered(replies) = <<>>
      BY <1>2, <2>1, HeadOfConcat
  <2>3. QED
      BY <2>2, AnsweredProperties DEF StreamInv
<1>4. ~handshakeComplete /\ ~idleTimer
    BY <1>1 DEF StreamInv, StreamFlags
<1>5. <<Handshake>> \in Seq(Message)
    BY BatchIsMessage
<1>6. OnTheWire' = <<Handshake>>
  <2>1. OnTheWire' = Answered(replies') \o sent'
      BY DEF OnTheWire, Answered
  <2>2. Answered(<<>>) = <<>>
      BY EmptySeq, AnsweredProperties
  <2>3. QED
      BY <1>1, <1>3, <1>5, <2>1, <2>2, ConcatEmptySeq
<1>7. WireMatchesPipeline'
    BY <1>1, <1>4, <1>6 DEF WireMatchesPipeline
<1>8. PipelineIsFrontOfQueue'
    BY <1>1, <1>4 DEF StreamInv, PipelineIsFrontOfQueue, IsStarted
<1>9. StreamFlags'
    BY <1>1, <1>4 DEF StreamInv, StreamFlags
<1>10. QED
    BY <1>1, <1>5, <1>7, <1>8, <1>9 DEF StreamInv, StreamStates

\* The backend moves the oldest message to the replies: the wire is the same.
LEMMA AnsweringStream ==
    ASSUME StreamInv, BackendStep
    PROVE  StreamInv'
<1> DEFINE m == Head(sent)
<1>1. /\ sent # <<>> /\ UNCHANGED <<engineVars, writePipeline, streamState,
                                    handshakeComplete, idleTimer>>
      /\ sent' = Tail(sent)
      /\ \E ok \in BOOLEAN : /\ replies' = Append(replies, [message |-> m, ok |-> ok])
                             /\ m = Handshake => ok
    BY DEF BackendStep, BackendGreets, BackendApplies, BackendRefuses,
           BackendIsServing, Answer
<1>2. PICK ok \in BOOLEAN :
          /\ replies' = Append(replies, [message |-> m, ok |-> ok])
          /\ m = Handshake => ok
    BY <1>1
<1>3. /\ sent \in Seq(Message) /\ replies \in Seq(Reply)
      /\ Answered(replies) \in Seq(Message)
      /\ OnTheWire = Answered(replies) \o sent
    BY WireFacts DEF StreamInv
<1>4. m \in Message /\ Tail(sent) \in Seq(Message)
    BY <1>1, <1>3, HeadTailProperties
<1>5. [message |-> m, ok |-> ok] \in Reply
    BY <1>4 DEF Reply
<1> HIDE DEF m
<1>6. Answered(replies') = Append(Answered(replies), m)
    BY <1>2, <1>3, <1>5, AnsweredAppend
<1>7. OnTheWire' = OnTheWire
  <2>1. OnTheWire' = Append(Answered(replies), m) \o Tail(sent)
      BY <1>1, <1>6 DEF OnTheWire, Answered
  <2>2. sent = <<m>> \o Tail(sent)
      BY <1>1, <1>3 DEF m
  <2>3. Append(Answered(replies), m) = Answered(replies) \o <<m>>
      BY <1>3, <1>4, AppendIsConcat
  <2>4. (Answered(replies) \o <<m>>) \o Tail(sent)
            = Answered(replies) \o (<<m>> \o Tail(sent))
    <3>1. <<m>> \in Seq(Message)
        BY <1>4
    <3> DEFINE a == Answered(replies)
               t == Tail(sent)
    <3>2. a \in Seq(Message) /\ t \in Seq(Message)
        BY <1>3, <1>4
    <3> HIDE DEF a, t
    <3>3. (a \o <<m>>) \o t = a \o (<<m>> \o t)
        BY <3>1, <3>2, ConcatAssociative
    <3>4. QED
        BY <3>3 DEF a, t
  <2>5. QED
      BY <1>3, <2>1, <2>2, <2>3, <2>4
<1>8. WireMatchesPipeline'
    BY <1>1, <1>7 DEF StreamInv, WireMatchesPipeline
<1>9. PipelineIsFrontOfQueue'
    BY <1>1 DEF StreamInv, PipelineIsFrontOfQueue, engineVars
<1>10. replies' \in Seq(Reply) /\ StreamFlags'
  <2> DEFINE e == [message |-> m, ok |-> ok]
  <2>1. /\ replies' \in Seq(Reply) /\ Len(replies') = Len(replies) + 1
        /\ \A i \in 1..Len(replies) : replies'[i] = replies[i]
        /\ replies'[Len(replies) + 1] = e
        /\ Len(replies) \in Nat
      BY <1>2, <1>3, <1>5, AppendProperties
  <2>2. e.message = Handshake => e.ok
      BY <1>2
  <2> HIDE DEF e
  <2>3. ASSUME NEW i \in 1..Len(replies')
        PROVE  replies'[i].message = Handshake => replies'[i].ok
    <3>1. i \in 1..Len(replies) \/ i = Len(replies) + 1
        BY <2>1
    <3>2. CASE i \in 1..Len(replies)
        BY <2>1, <3>2 DEF StreamInv, StreamFlags
    <3>3. QED
        BY <2>1, <2>2, <3>1, <3>2
  <2>4. QED
      BY <1>1, <2>1, <2>3 DEF StreamInv, StreamFlags
<1>11. QED
    BY <1>1, <1>4, <1>8, <1>9, <1>10 DEF StreamInv

-----------------------------------------------------------------------------
(* The invariant holds *)

\* The rejection that is on disk is that of the oldest batch.
LEMMA RemovedByRejection ==
    ASSUME EngineInv, StreamInv, NEW user \in Users, DiesBeforeNotifyUser(user)
    PROVE  /\ queue[currentUser] # <<>>
           /\ queue' = [queue EXCEPT ![currentUser] = Tail(@)]
           /\ outcome' = [outcome EXCEPT ![queue[currentUser][1].write] = "rejected"]
           /\ DiskOK(queue')
<1>1. queue[currentUser] # <<>> /\ Head(writePipeline) = queue[currentUser][1]
    BY RefusalAfterHandshake, AnswerForTheFirst DEF DiesBeforeNotifyUser
<1>2. /\ outcome' = [outcome EXCEPT ![queue[currentUser][1].write] = "rejected"]
      /\ queue' = [queue EXCEPT ![currentUser] =
             RemoveMutationBatch(@, queue[currentUser][1].id)]
    BY <1>1 DEF DiesBeforeNotifyUser
<1>3. QED
    BY <1>1, <1>2, FirstRemoved

LEMMA BackendTypes ==
    ASSUME BackendTypeOK, EngineInv, StreamInv, [Next]_vars
    PROVE  BackendTypeOK'
<1> USE DEF BackendTypeOK
<1>1. CASE UNCHANGED backendVars
  <2>1. faults' = faults \/ Fault
      BY DEF Next, WriteMutations, ResumeStartWithCredentials, BackoffElapsed,
             OnStreamRead, StreamFails, StreamRejects, IdleTimeout,
             HandleCredentialChange, Initialize, DiesBeforeAcknowledgeBatch,
             DiesBeforeNotifyUser, Restarted, BackendStep, vars
  <2>2. faults' \in 0..MaxFaults
      BY <2>1 DEF Fault
  <2>3. QED
      BY <1>1, <2>2 DEF backendVars
<1>2. CASE BackendStep /\ BackendApplies
  <2>1. faults' = faults /\ currentUser \in Users
      BY <1>2 DEF BackendStep, EngineInv
  <2>2. Head(sent).write \in Writes
    <3>1. sent \in Seq(Message) /\ sent # <<>> /\ Head(sent) # Handshake
        BY <1>2 DEF StreamInv, BackendApplies, BackendIsServing
    <3>2. Head(sent) \in Batch
        BY <3>1, HeadTailProperties, BatchIsMessage
    <3>3. QED
        BY <3>2 DEF Batch
  <2> DEFINE w == Head(sent).write
  <2>3. /\ applied' = [applied EXCEPT ![currentUser] = @ \cup {w}]
        /\ appliedSince' = [x \in Writes |->
               IF x = w THEN {}
               ELSE IF x \in applied[currentUser]
                    THEN appliedSince[x] \cup {w} ELSE appliedSince[x]]
      BY <1>2 DEF BackendApplies
  <2> HIDE DEF w
  <2>4. w \in Writes
      BY <2>2 DEF w
  <2>5. QED
      BY <2>1, <2>3, <2>4
<1>3. UNCHANGED backendVars \/ (BackendStep /\ BackendApplies)
  <2>1. CASE BackendStep
      BY <2>1 DEF BackendStep, BackendGreets, BackendRefuses
  <2>2. CASE UNCHANGED vars
      BY <2>2 DEF vars
  <2>3. ASSUME NEW user \in Users,
               HandleCredentialChange(user) \/ Restarted(user)
        PROVE  UNCHANGED backendVars
      BY <2>3 DEF HandleCredentialChange, Restarted
  <2>4. CASE WriteMutations
      BY <2>4 DEF WriteMutations
  <2>5. CASE OnStreamRead \/ StreamRejects
      BY <2>5 DEF OnStreamRead, StreamRejects
  <2>6. CASE ResumeStartWithCredentials \/ BackoffElapsed
      BY <2>6 DEF ResumeStartWithCredentials, BackoffElapsed
  <2>7. CASE StreamFails \/ IdleTimeout
      BY <2>7 DEF StreamFails, IdleTimeout
  <2>8. QED
      BY <2>1, <2>2, <2>3, <2>4, <2>5, <2>6, <2>7
      DEF Next, Initialize, DiesBeforeAcknowledgeBatch, DiesBeforeNotifyUser
<1>4. QED
    BY <1>1, <1>2, <1>3

LEMMA EngineAndStreamStep ==
    ASSUME EngineInv, StreamInv, [Next]_vars
    PROVE  EngineInv' /\ StreamInv'
<1>1. CASE WriteMutations
    BY <1>1, WriteEngine, WriteStream
<1>2. CASE ResumeStartWithCredentials
  <2>1. UNCHANGED <<engineVars, historyVars>>
      BY <1>2 DEF ResumeStartWithCredentials
  <2>2. QED
      BY <1>2, <2>1, SameEngine, OpenedStream
<1>3. CASE BackoffElapsed
  <2>1. UNCHANGED <<engineVars, historyVars>>
      BY <1>3 DEF BackoffElapsed
  <2>2. /\ streamState = "Backoff" /\ streamState' = "Starting"
        /\ UNCHANGED <<queue, currentUser, writePipeline, handshakeComplete,
                       idleTimer, sent, replies>>
      BY <1>3 DEF BackoffElapsed, engineVars
  <2>3. OnTheWire' = OnTheWire
      BY <2>2 DEF OnTheWire
  <2>4. StreamInv'
      BY <2>2, <2>3
      DEF StreamInv, PipelineIsFrontOfQueue, WireMatchesPipeline,
          StreamFlags, IsStarted, StreamStates
  <2>5. QED
      BY <2>1, <2>4, SameEngine
<1>4. CASE OnStreamRead
  <2>1. replies # <<>> /\ replies' = Tail(replies)
      BY <1>4 DEF OnStreamRead
  <2>2. CASE handshakeComplete
      BY <1>4, <2>1, <2>2, ResultStream DEF OnStreamRead
  <2>3. CASE ~handshakeComplete
    <3>1. OnWriteStreamHandshakeComplete
        BY <1>4, <2>3 DEF OnStreamRead
    <3>2. UNCHANGED <<engineVars, historyVars>>
        BY <3>1 DEF OnWriteStreamHandshakeComplete
    <3>3. QED
        BY <2>1, <2>3, <3>1, <3>2, SameEngine, HandshakeStream
  <2>4. QED
      BY <2>2, <2>3
<1>5. CASE StreamFails
  <2>1. UNCHANGED <<engineVars, historyVars>>
      BY <1>5 DEF StreamFails
  <2>2. /\ queue' = queue /\ currentUser' = currentUser
        /\ writePipeline' = writePipeline
        /\ streamState' \in StreamStates \ {"Open"}
        /\ writePipeline # <<>> => IsStarted(streamState')
        /\ handshakeComplete' = FALSE /\ idleTimer' = FALSE
        /\ sent' = <<>> /\ replies' = <<>>
      BY <1>5
      DEF StreamFails, engineVars, StartIfNeeded, Start, IsStarted,
          StreamStates
  <2>3. QED
      BY <2>1, <2>2, SameEngine, EndedStream
<1>6. CASE StreamRejects
    BY <1>6, RejectStream
<1>7. CASE IdleTimeout
  <2>1. UNCHANGED <<engineVars, historyVars>>
      BY <1>7 DEF IdleTimeout
  <2>2. writePipeline = <<>>
      BY <1>7 DEF IdleTimeout, StreamInv, PipelineIsFrontOfQueue
  <2>3. /\ queue' = queue /\ currentUser' = currentUser
        /\ writePipeline' = writePipeline
        /\ streamState' \in StreamStates \ {"Open"}
        /\ handshakeComplete' = FALSE /\ idleTimer' = FALSE
        /\ sent' = <<>> /\ replies' = <<>>
      BY <1>7 DEF IdleTimeout, engineVars, StreamStates
  <2>4. QED
      BY <2>1, <2>2, <2>3, SameEngine, EndedStream
<1>8. ASSUME NEW user \in Users, HandleCredentialChange(user)
      PROVE  EngineInv' /\ StreamInv'
  <2> DEFINE state == IF IsStarted(streamState) THEN "Initial" ELSE streamState
  <2>1. /\ currentUser' = user /\ queue' = queue /\ callbacks' = callbacks
        /\ nextBatchId' = IF user = currentUser THEN nextBatchId
                                                ELSE LoadNextBatchId
        /\ UNCHANGED historyVars
        /\ handshakeComplete' = FALSE /\ replies' = <<>>
        /\ FillWritePipeline(<<>>, queue[user], state, FALSE, <<>>, FALSE)
      BY <1>8 DEF HandleCredentialChange
  <2>2. state \in StreamStates \ {"Open"}
      BY DEF StreamInv, StreamStates, IsStarted
  <2> HIDE DEF state
  <2>3. queue'[user] \in Seq(Batch) /\ Ascending(queue'[user])
      BY <2>1, QueueFacts
  <2>4. FillWritePipeline(<<>>, queue'[user], state, FALSE, <<>>, FALSE)
      BY <2>1
  <2>5. StreamInv'
      BY <2>1, <2>2, <2>3, <2>4, RefilledStream
  <2>6. EngineInv'
      BY <2>1, OtherUserEngine
  <2>7. QED
      BY <2>5, <2>6
<1>9. ASSUME NEW user \in Users,
             \/ Initialize(user)
             \/ DiesBeforeAcknowledgeBatch(user)
             \/ DiesBeforeNotifyUser(user)
      PROVE  EngineInv' /\ StreamInv'
  <2>1. Restarted(user)
      BY <1>9 DEF Initialize, DiesBeforeAcknowledgeBatch, DiesBeforeNotifyUser
  <2>2. calls' = calls /\ calls \in 0..MaxWrites
      BY <1>9
      DEF Initialize, DiesBeforeAcknowledgeBatch, DiesBeforeNotifyUser,
          historyVars, EngineInv
  <2>3. /\ outcome' \in [Writes -> {"none", "ok", "rejected"}]
        /\ told' \in [Writes -> {"none", "ok", "rejected"}]
      BY <1>9, ToldTypes
      DEF Initialize, DiesBeforeAcknowledgeBatch, DiesBeforeNotifyUser,
          historyVars, EngineInv
  <2>4. DiskOK(queue')
    <3>1. CASE Initialize(user) \/ DiesBeforeAcknowledgeBatch(user)
      <4>1. queue' = queue
          BY <3>1 DEF Initialize, DiesBeforeAcknowledgeBatch
      <4>2. QED
          BY <4>1, QueuesOnDisk
    <3>2. CASE DiesBeforeNotifyUser(user)
        BY <3>2, RemovedByRejection
    <3>3. QED
        BY <1>9, <3>1, <3>2
  <2>5. QED
      BY <2>1, <2>2, <2>3, <2>4, RestartedEngine, RestartedStream
<1>10. CASE BackendStep
  <2>1. UNCHANGED <<engineVars, historyVars>>
      BY <1>10 DEF BackendStep
  <2>2. QED
      BY <1>10, <2>1, SameEngine, AnsweringStream
<1>11. CASE UNCHANGED vars
  <2>1. UNCHANGED <<engineVars, historyVars, streamVars, replies>>
      BY <1>11 DEF vars
  <2>2. OnTheWire' = OnTheWire
      BY <2>1 DEF OnTheWire, streamVars
  <2>3. StreamInv'
      BY <2>1, <2>2
      DEF StreamInv, PipelineIsFrontOfQueue, WireMatchesPipeline,
          StreamFlags, engineVars, streamVars
  <2>4. QED
      BY <2>1, <2>3, SameEngine
<1>12. QED
    BY <1>1, <1>2, <1>3, <1>4, <1>5, <1>6, <1>7, <1>8, <1>9, <1>10, <1>11
    DEF Next

(***************************************************************************)
(* The inductive invariant holds in every reachable state.                 *)
(***************************************************************************)
THEOREM PipelineInvariant == Spec => []PipelineInv
<1>1. PipelineInv /\ [Next]_vars => PipelineInv'
    BY EngineAndStreamStep, BackendTypes DEF PipelineInv
<1>2. QED
    BY <1>1, PipelineInit, PTL DEF Spec

(***************************************************************************)
(* Every variable keeps its type.                                          *)
(***************************************************************************)
THEOREM PipelineTypeCorrect == Spec => []PipelineTypeOK
<1>1. PipelineInv => PipelineTypeOK
    BY DEF PipelineInv, EngineInv, StreamInv, BackendTypeOK, PipelineTypeOK
<1>2. QED
    BY <1>1, PipelineInvariant, PTL

(***************************************************************************)
(* The pipeline is the front of the current user's queue.                  *)
(***************************************************************************)
THEOREM PipelineFollowsQueue == Spec => []PipelineIsFrontOfQueue
<1>1. PipelineInv => PipelineIsFrontOfQueue
    BY DEF PipelineInv, StreamInv
<1>2. QED
    BY <1>1, PipelineInvariant, PTL

(***************************************************************************)
(* What is on the wire is what the pipeline holds, so that an answer that  *)
(* names nobody is given to the write it is for.                           *)
(***************************************************************************)
THEOREM AnswersFindTheirWrites == Spec => []WireMatchesPipeline
<1>1. PipelineInv => WireMatchesPipeline
    BY DEF PipelineInv, StreamInv
<1>2. QED
    BY <1>1, PipelineInvariant, PTL

(***************************************************************************)
(* A callback is registered only under the id of the batch its call made,  *)
(* although ids are given out again.                                       *)
(***************************************************************************)
THEOREM CallbacksFindTheirBatches == Spec => []CallbacksBelongToBatches
<1>1. PipelineInv => CallbacksBelongToBatches
    BY DEF PipelineInv, EngineInv
<1>2. QED
    BY <1>1, PipelineInvariant, PTL

-----------------------------------------------------------------------------
(* Order *)

\* A write is in one queue only.
WritesAreOwned ==
    \A u, v \in Users : \A i \in 1..Len(queue[u]), j \in 1..Len(queue[v]) :
        queue[u][i].write = queue[v][j].write => u = v

\* Nothing has happened to a call that has not been made.
FutureIsBlank ==
    \A w \in Writes : w > calls =>
        /\ outcome[w] = "none" /\ told[w] = "none"
        /\ \A u \in Users : w \notin applied[u]

\* What is pending is undecided, and what was applied for a user is pending or
\* older than everything that is.
DecidedInOrder ==
    \A u \in Users :
        /\ \A i \in 1..Len(queue[u]) : outcome[queue[u][i].write] = "none"
        /\ \A w \in applied[u] :
              \/ \E i \in 1..Len(queue[u]) : queue[u][i].write = w
              \/ \A i \in 1..Len(queue[u]) : queue[u][i].write > w

\* Only the oldest pending write of a user can have a caller who has been told:
\* the process died before the disk knew.
OnlyTheFirstIsTold ==
    \A u \in Users : \A i \in 1..Len(queue[u]) :
        told[queue[u][i].write] # "none" => i = 1

\* A write whose acknowledgement is on its way was applied, and nothing older
\* since.
AnsweredInOrder ==
    \A i \in 1..Len(replies) :
        replies[i].ok /\ replies[i].message # Handshake =>
            /\ replies[i].message.write \in applied[currentUser]
            /\ \A x \in appliedSince[replies[i].message.write] :
                  x > replies[i].message.write

OrderInv ==
    /\ WritesAreOwned
    /\ FutureIsBlank
    /\ DecidedInOrder
    /\ OnlyTheFirstIsTold
    /\ AnsweredInOrder
    /\ AcknowledgedInOrder

LEMMA OrderInit == Init => OrderInv
<1> SUFFICES ASSUME Init
             PROVE  OrderInv
    OBVIOUS
<1>1. /\ \A u \in Users : Len(queue[u]) = 0 /\ applied[u] = {}
      /\ Len(replies) = 0
      /\ \A w \in Writes : outcome[w] = "none" /\ told[w] = "none"
    BY DEF Init
<1>2. QED
    BY <1>1 DEF OrderInv, WritesAreOwned, FutureIsBlank, DecidedInOrder,
                OnlyTheFirstIsTold, AnsweredInOrder, AcknowledgedInOrder

\* The writes whose callers still wait.
Listening == {c.write : c \in callbacks}

\* NotifyUser reaches the caller of the oldest pending write and no other.
LEMMA CallbackOfFirst ==
    ASSUME PipelineInv, OrderInv, queue[currentUser] # <<>>,
           NEW c \in callbacks
    PROVE  c \in FoundCallbacks(queue[currentUser][1].id)
               <=> c.write = queue[currentUser][1].write
<1> DEFINE q == queue[currentUser]
           w == q[1].write
           id == q[1].id
<1>1. currentUser \in Users
    BY DEF PipelineInv, EngineInv
<1>2. /\ Ascending(q) /\ 1 \in 1..Len(q)
      /\ \A i \in 1..Len(q) : q[i].id \in Nat /\ q[i].write \in Nat
    BY <1>1, QueueFacts, RestOfQueue DEF PipelineInv
<1>3. \A i \in 1..Len(q) : q[i].id = id \/ q[i].write = w => i = 1
  <2>1. ASSUME NEW i \in 1..Len(q), i # 1
        PROVE  q[i].id # id /\ q[i].write # w
    <3>1. 1 < i
        BY <1>2, <2>1
    <3>2. id < q[i].id /\ w < q[i].write
        BY <1>2, <3>1 DEF Ascending
    <3>3. QED
        BY <1>2, <3>2
  <2>2. QED
      BY <2>1
<1>4. PICK i \in 1..Len(queue[c.user]) :
          queue[c.user][i] = [id |-> c.id, write |-> c.write]
    BY DEF PipelineInv, EngineInv, CallbacksBelongToBatches
<1>5. queue[c.user][i].id = c.id /\ queue[c.user][i].write = c.write
    BY <1>4
<1>6. c.user \in Users
    BY DEF PipelineInv, EngineInv, Callback
<1>7. ASSUME c \in FoundCallbacks(id)
      PROVE  c.write = w
  <2>1. c.user = currentUser /\ c.id = id
      BY <1>7 DEF FoundCallbacks
  <2>2. QED
      BY <1>3, <1>5, <2>1
<1>8. ASSUME c.write = w
      PROVE  c \in FoundCallbacks(id)
  <2>1. c.user = currentUser
      BY <1>1, <1>2, <1>5, <1>6, <1>8 DEF OrderInv, WritesAreOwned
  <2>2. c.id = id
      BY <1>3, <1>5, <1>8, <2>1
  <2>3. QED
      BY <2>1, <2>2 DEF FoundCallbacks
<1>9. QED
    BY <1>7, <1>8

LEMMA ToldOfFirst ==
    ASSUME PipelineInv, OrderInv, queue[currentUser] # <<>>,
           NEW status \in {"ok", "rejected"}
    PROVE  LET w == queue[currentUser][1].write
           IN  ToldOf(queue[currentUser][1].id, status)
                   = IF w \in Listening THEN [told EXCEPT ![w] = status] ELSE told
<1> DEFINE w == queue[currentUser][1].write
           found == FoundCallbacks(queue[currentUser][1].id)
           now == ToldOf(queue[currentUser][1].id, status)
<1>1. \A c \in callbacks : c \in found <=> c.write = w
    BY CallbackOfFirst
<1>2. found \subseteq callbacks
    BY DEF FoundCallbacks
<1>3. now = [x \in Writes |-> IF \E c \in found : c.write = x
                              THEN status ELSE told[x]]
    BY DEF ToldOf
<1>4. told = [x \in Writes |-> told[x]]
    BY DEF PipelineInv, EngineInv
<1>5. w \in Writes
  <2>1. queue[currentUser] \in Seq(Batch)
      BY DEF PipelineInv, EngineInv
  <2>2. QED
      BY <2>1, FirstOfQueue
<1> HIDE DEF w, found, now
<1>6. \A x \in Writes : now[x] =
          IF x = w /\ w \in Listening THEN status ELSE told[x]
  <2>1. w \in Listening <=> \E c \in found : c.write = w
      BY <1>1, <1>2 DEF Listening
  <2>2. ASSUME NEW x \in Writes, x # w
        PROVE  ~ \E c \in found : c.write = x
      BY <1>1, <1>2, <2>2
  <2>3. QED
      BY <1>3, <2>1, <2>2
<1>7. CASE w \in Listening
  <2>1. now = [x \in Writes |-> IF x = w THEN status ELSE told[x]]
      BY <1>3, <1>6, <1>7
  <2>2. QED
      BY <1>4, <1>5, <1>7, <2>1 DEF w, now
<1>8. CASE w \notin Listening
  <2>1. now = told
      BY <1>3, <1>4, <1>6, <1>8
  <2>2. QED
      BY <1>8, <2>1 DEF w, now
<1>9. QED
    BY <1>7, <1>8

LEMMA OrderOfCalls ==
    ASSUME PipelineInv, OrderInv, WriteMutations
    PROVE  OrderInv'
<1>1. /\ queue'[currentUser] = Append(queue[currentUser], NewBatch)
      /\ queue' = [queue EXCEPT ![currentUser] = Append(@, NewBatch)]
      /\ currentUser' = currentUser /\ NewBatch \in Batch
    BY WriteEngine DEF PipelineInv
<1>2. /\ calls' = calls + 1 /\ calls \in Nat /\ currentUser \in Users
      /\ UNCHANGED <<replies, outcome, told, applied, appliedSince>>
      /\ calls + 1 \in Writes
    BY DEF WriteMutations, backendVars, PipelineInv, EngineInv, Writes
<1>3. NewBatch.write = calls + 1
    BY DEF NewBatch
<1> DEFINE q == queue[currentUser]
           p == queue'[currentUser]
<1>4. /\ q \in Seq(Batch) /\ Len(q) \in Nat /\ Len(p) = Len(q) + 1
      /\ \A i \in 1..Len(q) : p[i] = q[i]
      /\ p[Len(q) + 1] = NewBatch
    BY <1>1, <1>2, QueueFacts, AppendProperties DEF PipelineInv
<1>5. \A u \in Users \ {currentUser} : queue'[u] = queue[u]
    BY <1>1 DEF PipelineInv, EngineInv
<1>6. \A u \in Users : \A i \in 1..Len(queue[u]) :
          queue[u][i].write \in Nat /\ queue[u][i].write <= calls
    BY QueueFacts DEF PipelineInv
<1> HIDE DEF q, p
\* Every pending write was pending or is the new one.
<1>7. ASSUME NEW u \in Users, NEW i \in 1..Len(queue'[u])
      PROVE  \/ /\ i \in 1..Len(queue[u])
                /\ queue'[u][i] = queue[u][i]
             \/ u = currentUser /\ queue'[u][i].write = calls + 1
  <2>1. CASE u = currentUser
      BY <1>3, <1>4, <2>1 DEF p, q
  <2>2. CASE u # currentUser
      BY <1>5, <2>2
  <2>3. QED
      BY <2>1, <2>2
<1>8. WritesAreOwned'
  <2>1. ASSUME NEW u \in Users, NEW v \in Users,
               NEW i \in 1..Len(queue'[u]), NEW j \in 1..Len(queue'[v]),
               queue'[u][i].write = queue'[v][j].write
        PROVE  u = v
    <3>1. CASE /\ i \in 1..Len(queue[u]) /\ queue'[u][i] = queue[u][i]
               /\ j \in 1..Len(queue[v]) /\ queue'[v][j] = queue[v][j]
        BY <2>1, <3>1 DEF OrderInv, WritesAreOwned
    <3>2. CASE /\ i \in 1..Len(queue[u]) /\ queue'[u][i] = queue[u][i]
               /\ v = currentUser /\ queue'[v][j].write = calls + 1
      <4>1. queue[u][i].write <= calls /\ queue[u][i].write = calls + 1
          BY <1>6, <2>1, <3>2
      <4>2. QED
          BY <1>2, <4>1
    <3>3. CASE /\ j \in 1..Len(queue[v]) /\ queue'[v][j] = queue[v][j]
               /\ u = currentUser /\ queue'[u][i].write = calls + 1
      <4>1. queue[v][j].write <= calls /\ queue[v][j].write = calls + 1
          BY <1>6, <2>1, <3>3
      <4>2. QED
          BY <1>2, <4>1
    <3>4. QED
        BY <1>7, <3>1, <3>2, <3>3
  <2>2. QED
      BY <2>1 DEF WritesAreOwned
<1>9. FutureIsBlank'
    BY <1>2 DEF OrderInv, FutureIsBlank, Writes
<1>10. DecidedInOrder'
  <2>1. ASSUME NEW u \in Users, NEW i \in 1..Len(queue'[u])
        PROVE  outcome'[queue'[u][i].write] = "none"
    <3>1. CASE /\ i \in 1..Len(queue[u]) /\ queue'[u][i] = queue[u][i]
        BY <1>2, <3>1 DEF OrderInv, DecidedInOrder
    <3>2. CASE queue'[u][i].write = calls + 1
        BY <1>2, <3>2 DEF OrderInv, FutureIsBlank
    <3>3. QED
        BY <1>7, <3>1, <3>2
  <2>2. ASSUME NEW u \in Users, NEW w \in applied'[u]
        PROVE  \/ \E i \in 1..Len(queue'[u]) : queue'[u][i].write = w
               \/ \A i \in 1..Len(queue'[u]) : queue'[u][i].write > w
    <3>1. w \in Writes /\ w \in applied[u] /\ w <= calls
      <4>1. w \in applied[u] /\ w \in Writes
          BY <1>2, <2>2 DEF PipelineInv, BackendTypeOK
      <4>2. QED
          BY <1>2, <4>1 DEF OrderInv, FutureIsBlank, Writes
    <3>2. CASE \E i \in 1..Len(queue[u]) : queue[u][i].write = w
      <4>1. PICK i \in 1..Len(queue[u]) : queue[u][i].write = w
          BY <3>2
      <4>2. i \in 1..Len(queue'[u]) /\ queue'[u][i] = queue[u][i]
          BY <1>4, <1>5 DEF p, q
      <4>3. QED
          BY <4>1, <4>2
    <3>3. CASE \A i \in 1..Len(queue[u]) : queue[u][i].write > w
      <4>1. calls + 1 > w
          BY <1>2, <3>1 DEF Writes
      <4>2. QED
          BY <1>7, <3>3, <4>1
    <3>4. QED
        BY <3>1, <3>2, <3>3 DEF OrderInv, DecidedInOrder
  <2>3. QED
      BY <2>1, <2>2 DEF DecidedInOrder
<1>11. OnlyTheFirstIsTold'
  <2>1. ASSUME NEW u \in Users, NEW i \in 1..Len(queue'[u]),
               told'[queue'[u][i].write] # "none"
        PROVE  i = 1
    <3>1. ~(queue'[u][i].write = calls + 1)
        BY <1>2, <2>1 DEF OrderInv, FutureIsBlank
    <3>2. i \in 1..Len(queue[u]) /\ queue'[u][i] = queue[u][i]
        BY <1>7, <3>1
    <3>3. QED
        BY <1>2, <2>1, <3>2 DEF OrderInv, OnlyTheFirstIsTold
  <2>2. QED
      BY <2>1 DEF OnlyTheFirstIsTold
<1>12. AnsweredInOrder' /\ AcknowledgedInOrder'
    BY <1>1, <1>2 DEF OrderInv, AnsweredInOrder, AcknowledgedInOrder
<1>13. QED
    BY <1>8, <1>9, <1>10, <1>11, <1>12 DEF OrderInv

(***************************************************************************)
(* The oldest pending write is decided, as the order wants it if it is     *)
(* acknowledged, and its caller hears of it, or does not.                  *)
(***************************************************************************)
LEMMA OrderOfDecisions ==
    ASSUME PipelineInv, OrderInv, queue[currentUser] # <<>>,
           NEW status \in {"ok", "rejected"},
           queue' = [queue EXCEPT ![currentUser] = Tail(@)],
           calls' = calls,
           outcome' = [outcome EXCEPT ![queue[currentUser][1].write] = status],
           told' \in {told, [told EXCEPT ![queue[currentUser][1].write] = status]},
           UNCHANGED <<applied, appliedSince>>,
           \/ replies' = <<>>
           \/ /\ replies # <<>> /\ replies' = Tail(replies)
              /\ currentUser' = currentUser,
           status = "ok" => \A x \in appliedSince[queue[currentUser][1].write] :
                                x > queue[currentUser][1].write
    PROVE  OrderInv'
<1> DEFINE q == queue[currentUser]
           p == Tail(q)
           first == q[1].write
<1>1. /\ currentUser \in Users /\ queue \in [Users -> Seq(Batch)]
      /\ queue'[currentUser] = p
    BY DEF PipelineInv, EngineInv
<1>2. /\ q \in Seq(Batch) /\ Ascending(q)
      /\ \A i \in 1..Len(q) : q[i].write \in Nat /\ q[i].write <= calls
    BY <1>1, QueueFacts DEF PipelineInv
<1>3. /\ Len(p) = Len(q) - 1 /\ Len(q) \in Nat /\ 1 \in 1..Len(q)
      /\ \A i \in 1..Len(p) : p[i] = q[i + 1] /\ i + 1 \in 1..Len(q)
    BY <1>2, RestOfQueue
<1>4. \A u \in Users \ {currentUser} : queue'[u] = queue[u]
    BY <1>1
<1>5. /\ calls' = calls
      /\ outcome' = [outcome EXCEPT ![first] = status]
      /\ told' \in {told, [told EXCEPT ![first] = status]}
    OBVIOUS
<1>6. first \in Writes
    BY <1>2, <1>3, BatchOfQueue
<1>7. /\ \A w \in Writes : outcome'[w] = IF w = first THEN status ELSE outcome[w]
      /\ \A w \in Writes : \/ told'[w] = told[w]
                           \/ w = first /\ told'[w] = status
      /\ calls \in Nat
    BY <1>5, <1>6 DEF PipelineInv, EngineInv
<1> HIDE DEF p, q, first
<1>8. first \in Nat /\ first <= calls /\ first = q[1].write
    BY <1>2, <1>3 DEF first
\* What is still pending was pending behind it or in another queue.
<1>9. ASSUME NEW u \in Users, NEW i \in 1..Len(queue'[u])
      PROVE  \E j \in 1..Len(queue[u]) : /\ queue'[u][i] = queue[u][j]
                                         /\ queue[u][j].write # first
                                         /\ u = currentUser =>
                                                queue[u][j].write > first
  <2>1. CASE u = currentUser
    <3>1. i + 1 \in 1..Len(q) /\ queue'[u][i] = q[i + 1] /\ 1 < i + 1
        BY <1>1, <1>3, <1>9, <2>1
    <3>2. q[i + 1].write > first /\ q[i + 1].write # first
        BY <1>2, <1>3, <1>8, <3>1 DEF Ascending
    <3>3. QED
        BY <2>1, <3>1, <3>2 DEF q
  <2>2. CASE u # currentUser
    <3>1. queue'[u] = queue[u]
        BY <1>4, <2>2
    <3>2. queue[u][i].write # first
        BY <1>1, <1>3, <1>8, <2>2, <3>1, <1>9
        DEF OrderInv, WritesAreOwned, q
    <3>3. QED
        BY <2>2, <3>1, <3>2, <1>9
  <2>3. QED
      BY <2>1, <2>2
<1>10. WritesAreOwned'
  <2>1. ASSUME NEW u \in Users, NEW v \in Users,
               NEW i \in 1..Len(queue'[u]), NEW j \in 1..Len(queue'[v]),
               queue'[u][i].write = queue'[v][j].write
        PROVE  u = v
    <3>1. PICK k \in 1..Len(queue[u]) : queue'[u][i] = queue[u][k]
        BY <1>9
    <3>2. PICK l \in 1..Len(queue[v]) : queue'[v][j] = queue[v][l]
        BY <1>9
    <3>3. QED
        BY <2>1, <3>1, <3>2 DEF OrderInv, WritesAreOwned
  <2>2. QED
      BY <2>1 DEF WritesAreOwned
<1>11. FutureIsBlank'
  <2>1. ASSUME NEW w \in Writes, w > calls
        PROVE  /\ outcome'[w] = "none" /\ told'[w] = "none"
               /\ \A u \in Users : w \notin applied'[u]
    <3>1. w # first
        BY <1>7, <1>8, <2>1 DEF Writes
    <3>2. QED
        BY <1>7, <2>1, <3>1 DEF OrderInv, FutureIsBlank
  <2>2. QED
      BY <1>5, <2>1 DEF FutureIsBlank
<1>12. DecidedInOrder'
  <2>1. ASSUME NEW u \in Users, NEW i \in 1..Len(queue'[u])
        PROVE  outcome'[queue'[u][i].write] = "none"
    <3>1. PICK j \in 1..Len(queue[u]) : /\ queue'[u][i] = queue[u][j]
                                        /\ queue[u][j].write # first
        BY <1>9
    <3>2. queue[u][j].write \in Writes
        BY BatchOfQueue DEF PipelineInv, EngineInv
    <3>3. outcome[queue[u][j].write] = "none"
        BY DEF OrderInv, DecidedInOrder
    <3>4. QED
        BY <1>7, <3>1, <3>2, <3>3
  <2>2. ASSUME NEW u \in Users, NEW w \in applied'[u]
        PROVE  \/ \E i \in 1..Len(queue'[u]) : queue'[u][i].write = w
               \/ \A i \in 1..Len(queue'[u]) : queue'[u][i].write > w
    <3>1. \/ \E i \in 1..Len(queue[u]) : queue[u][i].write = w
          \/ \A i \in 1..Len(queue[u]) : queue[u][i].write > w
        BY <2>2 DEF OrderInv, DecidedInOrder
    <3>2. CASE \A i \in 1..Len(queue[u]) : queue[u][i].write > w
      <4>1. ASSUME NEW i \in 1..Len(queue'[u])
            PROVE  queue'[u][i].write > w
          BY <1>9, <3>2
      <4>2. QED
          BY <4>1
    <3>3. CASE u # currentUser
        BY <1>4, <3>1, <3>3
    <3>4. CASE u = currentUser /\ \E i \in 1..Len(q) : q[i].write = w
      <4>1. PICK i \in 1..Len(q) : q[i].write = w
          BY <3>4
      <4>2. CASE i = 1
        <5>1. w = first
            BY <1>8, <4>1, <4>2
        <5>2. ASSUME NEW j \in 1..Len(queue'[u])
              PROVE  queue'[u][j].write > w
            BY <1>9, <3>4, <5>1
        <5>3. QED
            BY <5>2
      <4>3. CASE i # 1
        <5>1. i - 1 \in 1..Len(p) /\ p[i - 1] = q[i]
            BY <1>3, <4>3
        <5>2. QED
            BY <1>1, <3>4, <4>1, <5>1
      <4>4. QED
          BY <4>2, <4>3
    <3>5. QED
        BY <3>1, <3>2, <3>3, <3>4 DEF q
  <2>3. QED
      BY <2>1, <2>2 DEF DecidedInOrder
<1>13. AnsweredInOrder'
  <2>1. \A i \in 1..Len(replies') :
            currentUser' = currentUser /\ \E j \in 1..Len(replies) :
                                             replies'[i] = replies[j]
    <3>1. CASE replies' = <<>>
        BY <3>1
    <3>2. CASE /\ replies # <<>> /\ replies' = Tail(replies)
               /\ currentUser' = currentUser
      <4>1. replies \in Seq(Reply) /\ Len(replies) \in Nat
          BY DEF PipelineInv, StreamInv
      <4>2. /\ Len(replies') = Len(replies) - 1
            /\ \A i \in 1..Len(replies') : replies'[i] = replies[i + 1]
          BY <3>2, <4>1, HeadTailProperties
      <4>3. \A i \in 1..Len(replies') : i + 1 \in 1..Len(replies)
          BY <4>1, <4>2
      <4>4. QED
          BY <3>2, <4>2, <4>3
    <3>3. QED
        BY <3>1, <3>2
  <2>2. QED
      BY <2>1 DEF OrderInv, AnsweredInOrder
<1>14. AcknowledgedInOrder'
  <2>1. ASSUME NEW w \in Writes, outcome'[w] = "ok" \/ told'[w] = "ok"
        PROVE  \A x \in appliedSince[w] : x > w
    <3>1. CASE w = first /\ status = "ok"
        BY <3>1 DEF first, q
    <3>2. CASE ~(w = first /\ status = "ok")
      <4>1. outcome[w] = "ok" \/ told[w] = "ok"
          BY <1>7, <2>1, <3>2
      <4>2. QED
          BY <4>1 DEF OrderInv, AcknowledgedInOrder
    <3>3. QED
        BY <3>1, <3>2
  <2>2. QED
      BY <2>1 DEF AcknowledgedInOrder
<1>15. OnlyTheFirstIsTold'
  <2>1. ASSUME NEW u \in Users, NEW i \in 1..Len(queue'[u]),
               told'[queue'[u][i].write] # "none"
        PROVE  i = 1
    <3>1. PICK j \in 1..Len(queue[u]) : /\ queue'[u][i] = queue[u][j]
                                        /\ queue[u][j].write # first
        BY <1>9
    <3>2. queue[u][j].write \in Writes
        BY BatchOfQueue DEF PipelineInv, EngineInv
    <3>3. told[queue[u][j].write] # "none"
        BY <1>7, <2>1, <3>1, <3>2
    <3>4. CASE u = currentUser
      <4>1. j = 1
          BY <3>3 DEF OrderInv, OnlyTheFirstIsTold
      <4>2. QED
          BY <1>8, <3>1, <3>4, <4>1 DEF q
    <3>5. CASE u # currentUser
      <4>1. queue'[u] = queue[u]
          BY <1>4, <3>5
      <4>2. told[queue[u][i].write] # "none"
          BY <3>1, <3>3, <4>1
      <4>3. QED
          BY <4>1, <4>2 DEF OrderInv, OnlyTheFirstIsTold
    <3>6. QED
        BY <3>4, <3>5
  <2>2. QED
      BY <2>1 DEF OnlyTheFirstIsTold
<1>16. QED
    BY <1>10, <1>11, <1>12, <1>13, <1>14, <1>15 DEF OrderInv

\* The same of HandleWriteResult.
LEMMA OrderOfResults ==
    ASSUME PipelineInv, OrderInv, queue[currentUser] # <<>>,
           NEW status \in {"ok", "rejected"},
           HandleWriteResult(queue[currentUser][1], status),
           UNCHANGED <<applied, appliedSince>>,
           replies' \in {<<>>, Tail(replies)}, replies # <<>>,
           status = "ok" => \A x \in appliedSince[queue[currentUser][1].write] :
                                x > queue[currentUser][1].write
    PROVE  OrderInv'
<1> DEFINE first == queue[currentUser][1]
<1>1. /\ currentUser' = currentUser
      /\ queue' = [queue EXCEPT ![currentUser] = Tail(@)]
    BY ResultEngine DEF PipelineInv
<1>2. /\ calls' = calls
      /\ outcome' = [outcome EXCEPT ![first.write] = status]
      /\ told' = ToldOf(first.id, status)
    BY DEF HandleWriteResult, NotifyUser
<1>3. told' \in {told, [told EXCEPT ![first.write] = status]}
    BY <1>2, ToldOfFirst
<1>4. QED
    BY <1>1, <1>2, <1>3, OrderOfDecisions

\* The word alone: the caller of the oldest pending write has been told of a
\* success that is not on disk.
LEMMA OrderOfWords ==
    ASSUME PipelineInv, OrderInv, queue[currentUser] # <<>>,
           UNCHANGED <<queue, calls, outcome, applied, appliedSince>>,
           told' \in {told, [told EXCEPT ![queue[currentUser][1].write] = "ok"]},
           replies' = <<>>,
           \A x \in appliedSince[queue[currentUser][1].write] :
               x > queue[currentUser][1].write
    PROVE  OrderInv'
<1> DEFINE q == queue[currentUser]
           first == q[1].write
<1>1. currentUser \in Users /\ q \in Seq(Batch) /\ Ascending(q)
    BY QueueFacts DEF PipelineInv, EngineInv
<1>2. 1 \in 1..Len(q) /\ first \in Writes
    BY <1>1, FirstOfQueue
<1>3. /\ calls \in Nat /\ first \in Nat /\ first <= calls
      /\ \A i \in 1..Len(q) : q[i].write \in Nat
    BY <1>1, <1>2, QueueFacts DEF PipelineInv, EngineInv
<1>4. \A w \in Writes : \/ told'[w] = told[w]
                        \/ w = first /\ told'[w] = "ok"
    BY <1>2 DEF PipelineInv, EngineInv
<1> HIDE DEF q, first
<1>5. WritesAreOwned' /\ DecidedInOrder' /\ AnsweredInOrder'
    BY DEF OrderInv, WritesAreOwned, DecidedInOrder, AnsweredInOrder
<1>6. FutureIsBlank'
  <2>1. \A w \in Writes : w > calls => w # first /\ told'[w] = "none"
      BY <1>3, <1>4 DEF OrderInv, FutureIsBlank, Writes
  <2>2. QED
      BY <2>1 DEF OrderInv, FutureIsBlank
<1>7. OnlyTheFirstIsTold'
  <2>1. ASSUME NEW u \in Users, NEW i \in 1..Len(queue[u]),
               told'[queue[u][i].write] # "none"
        PROVE  i = 1
    <3>1. queue[u][i].write \in Writes
        BY BatchOfQueue DEF PipelineInv, EngineInv
    <3>2. CASE queue[u][i].write = first
      <4>1. u = currentUser
          BY <1>1, <1>2, <3>2 DEF OrderInv, WritesAreOwned, q, first
      <4>2. CASE 1 < i
        <5>1. q[1].write < q[i].write
            BY <1>1, <1>2, <4>1, <4>2 DEF Ascending, q
        <5>2. QED
            BY <1>3, <3>2, <4>1, <5>1 DEF q, first
      <4>3. QED
          BY <4>2
    <3>3. CASE queue[u][i].write # first
        BY <1>4, <2>1, <3>1, <3>3 DEF OrderInv, OnlyTheFirstIsTold
    <3>4. QED
        BY <3>2, <3>3
  <2>2. QED
      BY <2>1 DEF OnlyTheFirstIsTold
<1>8. AcknowledgedInOrder'
    BY <1>4 DEF OrderInv, AcknowledgedInOrder, first, q
<1>9. QED
    BY <1>5, <1>6, <1>7, <1>8 DEF OrderInv

\* On an open stream the answered messages, and then the next one to be
\* received, are the first batches of the queue.
LEMMA WireIsQueue ==
    ASSUME PipelineInv, streamState = "Open", handshakeComplete
    PROVE  /\ OnTheWire = writePipeline
           /\ \A i \in 1..Len(replies) :
                 /\ i \in 1..Len(queue[currentUser])
                 /\ replies[i].message = queue[currentUser][i]
           /\ sent # <<>> =>
                 /\ Len(replies) + 1 \in 1..Len(queue[currentUser])
                 /\ Head(sent) = queue[currentUser][Len(replies) + 1]
<1> DEFINE q == queue[currentUser]
           a == Answered(replies)
<1>1. OnTheWire = writePipeline
    BY DEF PipelineInv, StreamInv, WireMatchesPipeline
<1>2. /\ q \in Seq(Batch) /\ FrontLength(q) \in 0..Len(q)
      /\ writePipeline = FrontOf(q)
    BY PipelineFacts DEF PipelineInv
<1>3. /\ Len(writePipeline) = FrontLength(q)
      /\ \A i \in 1..FrontLength(q) : writePipeline[i] = q[i]
    BY <1>2, FrontProperties
<1>4. /\ a \in Seq(Message) /\ sent \in Seq(Message)
      /\ OnTheWire = a \o sent
      /\ Len(a) = Len(replies)
      /\ \A i \in 1..Len(replies) : a[i] = replies[i].message
    BY WireFacts, AnsweredProperties DEF PipelineInv, StreamInv
<1> HIDE DEF q, a
<1>5. /\ Len(a \o sent) = Len(a) + Len(sent)
      /\ \A i \in 1..Len(a) + Len(sent) :
            (a \o sent)[i] = IF i <= Len(a) THEN a[i] ELSE sent[i - Len(a)]
      /\ Len(a) \in Nat /\ Len(sent) \in Nat /\ Len(q) \in Nat
  <2>1. a \in Seq(Message) /\ sent \in Seq(Message) /\ q \in Seq(Batch)
      BY <1>2, <1>4
  <2>2. Len(a) \in Nat /\ Len(sent) \in Nat /\ Len(q) \in Nat
      BY <2>1
  <2>3. /\ Len(a \o sent) = Len(a) + Len(sent)
        /\ \A i \in 1..Len(a) + Len(sent) :
              (a \o sent)[i] = IF i <= Len(a) THEN a[i] ELSE sent[i - Len(a)]
      BY <2>1, ConcatProperties
  <2>4. QED
      BY <2>2, <2>3
<1>6. /\ Len(replies) + Len(sent) = FrontLength(q)
      /\ \A i \in 1..Len(replies) + Len(sent) :
            q[i] = IF i <= Len(replies) THEN a[i] ELSE sent[i - Len(replies)]
    BY <1>1, <1>3, <1>4, <1>5
<1>7. ASSUME NEW i \in 1..Len(replies)
      PROVE  i \in 1..Len(q) /\ replies[i].message = q[i]
  <2>1. i \in 1..Len(replies) + Len(sent) /\ i <= Len(replies)
      BY <1>4, <1>5
  <2>2. QED
      BY <1>2, <1>4, <1>6, <2>1
<1>8. ASSUME sent # <<>>
      PROVE  Len(replies) + 1 \in 1..Len(q) /\ Head(sent) = q[Len(replies) + 1]
  <2>1. Len(sent) > 0 /\ Head(sent) = sent[1]
      BY <1>4, <1>8
  <2>2. /\ Len(replies) + 1 \in 1..Len(replies) + Len(sent)
        /\ (Len(replies) + 1) - Len(replies) = 1
      BY <1>4, <1>5, <2>1
  <2>3. QED
      BY <1>2, <1>4, <1>5, <1>6, <2>1, <2>2
<1>9. QED
    BY <1>1, <1>7, <1>8 DEF q

\* A write that is to be served is on an open stream, past its handshake.
LEMMA ServedAfterHandshake ==
    ASSUME PipelineInv, sent # <<>>, Head(sent) # Handshake
    PROVE  streamState = "Open" /\ handshakeComplete
<1>1. /\ OnTheWire = Answered(replies) \o sent
      /\ Answered(replies) \in Seq(Message) /\ sent \in Seq(Message)
    BY WireFacts DEF PipelineInv
<1>2. OnTheWire # <<>>
    BY <1>1, HeadOfConcat
<1>3. OnTheWire # <<Handshake>>
  <2> DEFINE a == Answered(replies)
  <2>1. SUFFICES ASSUME a \o sent = <<Handshake>>
                 PROVE  FALSE
      BY <1>1
  <2>2. a \in Seq(Message) /\ sent \in Seq(Message) /\ sent # <<>>
      BY <1>1
  <2> HIDE DEF a
  <2>3. /\ Len(a) + Len(sent) = 1 /\ Len(a) \in Nat /\ Len(sent) \in Nat
        /\ Len(sent) # 0
    <3>1. Len(a \o sent) = 1
        BY <2>1
    <3>2. QED
        BY <2>2, <3>1
  <2>4. a = <<>> /\ sent = <<Handshake>>
    <3>1. Len(a) = 0
        BY <2>3
    <3>2. a = <<>>
        BY <2>2, <3>1
    <3>3. QED
        BY <2>1, <2>2, <3>2, ConcatEmptySeq
  <2>5. QED
      BY <2>4
<1>4. QED
    BY <1>2, <1>3 DEF PipelineInv, StreamInv, WireMatchesPipeline

\* A success that is read is that of the oldest write of the current user, which
\* the backend has applied, and nothing older since.
LEMMA AnswerIsForTheOldest ==
    ASSUME PipelineInv, OrderInv, replies # <<>>, Head(replies).ok,
           handshakeComplete
    PROVE  LET first == queue[currentUser][1]
           IN  /\ queue[currentUser] # <<>>
               /\ Head(writePipeline) = first
               /\ first.write \in applied[currentUser]
               /\ \A x \in appliedSince[first.write] : x > first.write
<1> DEFINE first == queue[currentUser][1]
<1>1. /\ queue[currentUser] # <<>>
      /\ Head(writePipeline) = first
      /\ streamState = "Open"
    BY AnswerForTheFirst DEF PipelineInv
<1>2. 1 \in 1..Len(replies) /\ Head(replies) = replies[1]
  <2>1. replies \in Seq(Reply) /\ Len(replies) \in Nat
      BY DEF PipelineInv, StreamInv
  <2>2. QED
      BY <2>1
<1>3. replies[1].message = first /\ 1 \in 1..Len(queue[currentUser])
    BY <1>1, <1>2, WireIsQueue
<1>4. first # Handshake
  <2>1. queue[currentUser] \in Seq(Batch)
      BY QueueFacts DEF PipelineInv, EngineInv
  <2>2. QED
      BY <1>3, <2>1, BatchOfQueue, BatchIsMessage
<1>5. /\ first.write \in applied[currentUser]
      /\ \A x \in appliedSince[first.write] : x > first.write
    BY <1>2, <1>3, <1>4 DEF OrderInv, AnsweredInOrder
<1>6. QED
    BY <1>1, <1>5

LEMMA ResultIsForTheOldest ==
    ASSUME PipelineInv, OrderInv, OnStreamRead, handshakeComplete
    PROVE  LET first == queue[currentUser][1]
           IN  /\ queue[currentUser] # <<>>
               /\ replies # <<>> /\ replies' = Tail(replies)
               /\ UNCHANGED <<applied, appliedSince>>
               /\ HandleWriteResult(first, "ok")
               /\ first.write \in applied[currentUser]
               /\ \A x \in appliedSince[first.write] : x > first.write
  BY AnswerIsForTheOldest
  DEF OnStreamRead, OnWriteStreamMutationResult, backendVars

(***************************************************************************)
(* The backend applies a write after the older ones whose answers are on   *)
(* their way.                                                              *)
(***************************************************************************)
LEMMA OrderOfApplies ==
    ASSUME PipelineInv, OrderInv, BackendStep, BackendApplies
    PROVE  OrderInv'
<1> DEFINE q == queue[currentUser]
           n == Len(replies)
           w == Head(sent).write
           e == [message |-> Head(sent), ok |-> TRUE]
<1>1. /\ queue' = queue /\ currentUser' = currentUser /\ currentUser \in Users
      /\ UNCHANGED <<calls, outcome, told>>
      /\ sent # <<>> /\ Head(sent) # Handshake
      /\ replies' = Append(replies, e)
      /\ applied' = [applied EXCEPT ![currentUser] = @ \cup {w}]
      /\ appliedSince' = [x \in Writes |->
             IF x = w THEN {}
             ELSE IF x \in applied[currentUser]
                  THEN appliedSince[x] \cup {w} ELSE appliedSince[x]]
    BY DEF BackendStep, BackendApplies, BackendIsServing, Answer, engineVars,
           historyVars, PipelineInv, EngineInv
<1>2. streamState = "Open" /\ handshakeComplete
    BY <1>1, ServedAfterHandshake
<1>3. /\ q \in Seq(Batch) /\ Ascending(q)
      /\ n + 1 \in 1..Len(q) /\ Head(sent) = q[n + 1]
      /\ \A i \in 1..n : i \in 1..Len(q) /\ replies[i].message = q[i]
    BY <1>1, <1>2, QueueFacts, WireIsQueue DEF PipelineInv
<1>4. w = q[n + 1].write /\ w \in Writes /\ w \in Nat /\ w <= calls
    BY <1>1, <1>3, BatchOfQueue, QueueFacts DEF PipelineInv
<1> HIDE DEF q, w
<1>5. applied'[currentUser] = applied[currentUser] \cup {w}
      /\ \A u \in Users \ {currentUser} : applied'[u] = applied[u]
    BY <1>1 DEF PipelineInv, BackendTypeOK
<1>6. \A x \in Writes : appliedSince'[x] =
          IF x = w THEN {}
          ELSE IF x \in applied[currentUser]
               THEN appliedSince[x] \cup {w} ELSE appliedSince[x]
    BY <1>1
<1>7. WritesAreOwned'
    BY <1>1 DEF OrderInv, WritesAreOwned
<1>8. FutureIsBlank'
  <2>1. ASSUME NEW x \in Writes, x > calls
        PROVE  /\ outcome'[x] = "none" /\ told'[x] = "none"
               /\ \A u \in Users : x \notin applied'[u]
    <3>1. x # w
        BY <1>4, <2>1 DEF PipelineInv, EngineInv, Writes
    <3>2. QED
        BY <1>1, <1>5, <2>1, <3>1 DEF OrderInv, FutureIsBlank
  <2>2. QED
      BY <1>1, <2>1 DEF FutureIsBlank
<1>9. DecidedInOrder'
  <2>1. ASSUME NEW u \in Users, NEW x \in applied'[u]
        PROVE  \/ \E i \in 1..Len(queue[u]) : queue[u][i].write = x
               \/ \A i \in 1..Len(queue[u]) : queue[u][i].write > x
    <3>1. CASE u = currentUser /\ x = w
        BY <1>3, <1>4, <3>1 DEF q
    <3>2. CASE x \in applied[u]
        BY <3>2 DEF OrderInv, DecidedInOrder
    <3>3. QED
        BY <1>5, <2>1, <3>1, <3>2
  <2>2. QED
      BY <1>1, <2>1 DEF OrderInv, DecidedInOrder
<1>10. AnsweredInOrder'
  <2>1. /\ Len(replies') = n + 1 /\ n \in Nat
        /\ \A i \in 1..n : replies'[i] = replies[i]
        /\ replies'[n + 1] = e
    <3>1. Head(sent) \in Message
        BY <1>1, HeadTailProperties DEF PipelineInv, StreamInv
    <3>2. e \in Reply
        BY <3>1 DEF Reply
    <3>3. replies \in Seq(Reply)
        BY DEF PipelineInv, StreamInv
    <3> HIDE DEF e
    <3>4. QED
        BY <1>1, <3>2, <3>3, AppendProperties
  <2>2. e.message.write = w
      BY DEF w
  <2> HIDE DEF e, n
  <2>3. ASSUME NEW i \in 1..n, replies[i].ok, replies[i].message # Handshake
        PROVE  /\ replies[i].message.write \in applied'[currentUser]
               /\ \A x \in appliedSince'[replies[i].message.write] :
                     x > replies[i].message.write
    <3> DEFINE v == replies[i].message.write
    <3>1. v = q[i].write /\ v \in Writes /\ v < w
      <4>1. i \in 1..Len(q) /\ replies[i].message = q[i]
          BY <1>3, <2>3 DEF n
      <4>2. i < n + 1 /\ n + 1 \in 1..Len(q)
          BY <1>3, <2>1
      <4>3. QED
          BY <1>3, <1>4, <4>1, <4>2, BatchOfQueue DEF Ascending
    <3>2. v \in applied[currentUser] /\ \A x \in appliedSince[v] : x > v
        BY <2>3 DEF OrderInv, AnsweredInOrder, n
    <3> HIDE DEF v
    <3>3. v # w
        BY <1>4, <3>1
    <3>4. \A x \in appliedSince'[v] : x > v
      <4>1. appliedSince'[v] = appliedSince[v] \cup {w}
          BY <1>6, <3>1, <3>2, <3>3
      <4>2. w > v
          BY <3>1
      <4>3. QED
          BY <3>2, <4>1, <4>2
    <3>5. QED
        BY <1>5, <3>2, <3>4 DEF v
  <2>4. w \in applied'[currentUser] /\ \A x \in appliedSince'[w] : x > w
      BY <1>4, <1>5, <1>6
  <2>5. ASSUME NEW i \in 1..Len(replies'),
               replies'[i].ok, replies'[i].message # Handshake
        PROVE  /\ replies'[i].message.write \in applied'[currentUser]
               /\ \A x \in appliedSince'[replies'[i].message.write] :
                     x > replies'[i].message.write
    <3>1. i \in 1..n \/ i = n + 1
        BY <2>1
    <3>2. CASE i \in 1..n
        BY <2>1, <2>3, <2>5, <3>2
    <3>3. CASE i = n + 1
        BY <2>1, <2>2, <2>4, <3>3
    <3>4. QED
        BY <3>1, <3>2, <3>3
  <2>6. QED
      BY <1>1, <2>5 DEF AnsweredInOrder
<1>11. AcknowledgedInOrder'
  <2>1. ASSUME NEW x \in Writes, outcome[x] = "ok" \/ told[x] = "ok"
        PROVE  \A y \in appliedSince'[x] : y > x
    <3>1. \A y \in appliedSince[x] : y > x
        BY <2>1 DEF OrderInv, AcknowledgedInOrder
    <3>2. CASE x # w /\ x \in applied[currentUser]
      <4>1. ASSUME \E i \in 1..Len(q) : q[i].write = x
            PROVE  w > x
        <5>1. PICK i \in 1..Len(q) : q[i].write = x
            BY <4>1
        <5>2. outcome[x] = "none"
            BY <1>1, <5>1 DEF OrderInv, DecidedInOrder, q
        <5>3. i = 1
            BY <1>1, <2>1, <5>1, <5>2 DEF OrderInv, OnlyTheFirstIsTold, q
        <5>4. 1 < n + 1
          <6>1. n + 1 # 1
              BY <1>4, <3>2, <5>1, <5>3
          <6>2. QED
              BY <1>3, <6>1
        <5>5. QED
            BY <1>3, <1>4, <5>1, <5>3, <5>4 DEF Ascending
      <4>2. ASSUME \A i \in 1..Len(q) : q[i].write > x
            PROVE  w > x
          BY <1>3, <1>4, <4>2
      <4>3. w > x
        <5>1. \/ \E i \in 1..Len(q) : q[i].write = x
              \/ \A i \in 1..Len(q) : q[i].write > x
            BY <1>1, <3>2 DEF OrderInv, DecidedInOrder, q
        <5>2. QED
            BY <4>1, <4>2, <5>1
      <4>4. appliedSince'[x] = appliedSince[x] \cup {w}
          BY <1>6, <3>2
      <4>5. QED
          BY <3>1, <4>3, <4>4
    <3>3. CASE ~(x # w /\ x \in applied[currentUser])
        BY <1>6, <3>1, <3>3
    <3>4. QED
        BY <3>2, <3>3
  <2>2. QED
      BY <1>1, <2>1 DEF AcknowledgedInOrder
<1>12. OnlyTheFirstIsTold'
    BY <1>1 DEF OrderInv, OnlyTheFirstIsTold
<1>13. QED
    BY <1>7, <1>8, <1>9, <1>10, <1>11, <1>12 DEF OrderInv

\* The other steps decide nothing and acknowledge nothing.
LEMMA OrderElsewhere ==
    ASSUME OrderInv,
           UNCHANGED <<queue, calls, outcome, told, applied, appliedSince>>,
           \A i \in 1..Len(replies') :
               replies'[i].ok /\ replies'[i].message # Handshake =>
                   /\ currentUser' = currentUser
                   /\ \E j \in 1..Len(replies) : replies'[i] = replies[j]
    PROVE  OrderInv'
<1>1. AnsweredInOrder'
    BY DEF OrderInv, AnsweredInOrder
<1>2. WritesAreOwned' /\ FutureIsBlank' /\ DecidedInOrder' /\ OnlyTheFirstIsTold'
    BY DEF OrderInv, WritesAreOwned, FutureIsBlank, DecidedInOrder,
           OnlyTheFirstIsTold
<1>3. AcknowledgedInOrder'
    BY DEF OrderInv, AcknowledgedInOrder
<1>4. QED
    BY <1>1, <1>2, <1>3 DEF OrderInv

LEMMA OrderStep ==
    ASSUME PipelineInv, OrderInv, [Next]_vars
    PROVE  OrderInv'
<1>1. CASE WriteMutations
    BY <1>1, OrderOfCalls
<1>2. CASE ResumeStartWithCredentials \/ BackoffElapsed
    BY <1>2, OrderElsewhere
    DEF ResumeStartWithCredentials, BackoffElapsed, engineVars, backendVars,
        historyVars
<1>3. CASE StreamFails \/ IdleTimeout
  <2>1. /\ UNCHANGED <<queue, calls, outcome, told, applied, appliedSince>>
        /\ replies' = <<>>
      BY <1>3 DEF StreamFails, IdleTimeout, engineVars, backendVars, historyVars
  <2>2. QED
      BY <2>1, OrderElsewhere
<1>4. ASSUME NEW user \in Users,
             HandleCredentialChange(user) \/ Initialize(user)
      PROVE  OrderInv'
  <2>1. /\ UNCHANGED <<queue, calls, outcome, told, applied, appliedSince>>
        /\ replies' = <<>>
      BY <1>4
      DEF HandleCredentialChange, Initialize, Restarted, backendVars, historyVars
  <2>2. QED
      BY <2>1, OrderElsewhere
<1>5. CASE OnStreamRead
  <2>1. /\ replies # <<>> /\ replies' = Tail(replies) /\ Head(replies).ok
        /\ UNCHANGED <<applied, appliedSince>>
      BY <1>5 DEF OnStreamRead, backendVars
  <2>2. /\ replies \in Seq(Reply) /\ Len(replies) \in Nat
        /\ Len(replies') = Len(replies) - 1
        /\ \A i \in 1..Len(replies') : replies'[i] = replies[i + 1]
        /\ 1 \in 1..Len(replies) /\ Head(replies) = replies[1]
    <3>1. replies \in Seq(Reply) /\ Len(replies) \in Nat
        BY DEF PipelineInv, StreamInv
    <3>2. /\ Len(replies') = Len(replies) - 1
          /\ \A i \in 1..Len(replies') : replies'[i] = replies[i + 1]
        BY <2>1, <3>1, HeadTailProperties
    <3>3. 1 \in 1..Len(replies) /\ Head(replies) = replies[1]
        BY <2>1, <3>1
    <3>4. QED
        BY <3>1, <3>2, <3>3
  <2>3. CASE ~handshakeComplete
    <3>1. UNCHANGED <<queue, currentUser, calls, outcome, told>>
        BY <1>5, <2>3
        DEF OnStreamRead, OnWriteStreamHandshakeComplete, engineVars,
            historyVars
    <3>2. \A i \in 1..Len(replies') : i + 1 \in 1..Len(replies)
        BY <2>2
    <3>3. \A i \in 1..Len(replies') :
              \E j \in 1..Len(replies) : replies'[i] = replies[j]
        BY <2>2, <3>2
    <3>4. QED
        BY <2>1, <3>1, <3>3, OrderElsewhere
  <2>4. CASE handshakeComplete
      BY <1>5, <2>4, ResultIsForTheOldest, OrderOfResults
  <2>5. QED
      BY <2>3, <2>4
<1>6. CASE StreamRejects
  <2>1. /\ queue[currentUser] # <<>>
        /\ Head(writePipeline) = queue[currentUser][1]
      BY <1>6, RejectStream DEF PipelineInv
  <2>2. /\ HandleWriteResult(queue[currentUser][1], "rejected")
        /\ replies # <<>> /\ replies' = <<>>
        /\ UNCHANGED <<applied, appliedSince>>
      BY <1>6, <2>1 DEF StreamRejects, backendVars
  <2>3. QED
      BY <2>1, <2>2, OrderOfResults
<1>7. CASE BackendStep
  <2>1. CASE BackendApplies
      BY <1>7, <2>1, OrderOfApplies
  <2>2. ASSUME NEW ok \in BOOLEAN, Answer(ok), UNCHANGED backendVars,
               ok => Head(sent) = Handshake
        PROVE  OrderInv'
    <3>1. UNCHANGED <<queue, currentUser, calls, outcome, told, applied, appliedSince>>
        BY <1>7, <2>2 DEF BackendStep, engineVars, historyVars, backendVars
    <3> DEFINE e == [message |-> Head(sent), ok |-> ok]
    <3>2. e.message = Head(sent) /\ e.ok = ok /\ replies' = Append(replies, e)
        BY <2>2 DEF Answer
    <3>3. sent # <<>> /\ sent \in Seq(Message) /\ replies \in Seq(Reply)
        BY <1>7
        DEF BackendStep, BackendGreets, BackendApplies, BackendRefuses,
            BackendIsServing, PipelineInv, StreamInv
    <3>4. Head(sent) \in Message
        BY <3>3, HeadTailProperties
    <3>5. e \in Reply
        BY <3>4 DEF Reply
    <3> HIDE DEF e
    <3>6. /\ Len(replies') = Len(replies) + 1 /\ Len(replies) \in Nat
          /\ \A i \in 1..Len(replies) : replies'[i] = replies[i]
          /\ replies'[Len(replies) + 1] = e
        BY <3>2, <3>3, <3>5, AppendProperties
    <3>7. ASSUME NEW i \in 1..Len(replies'),
                 replies'[i].ok, replies'[i].message # Handshake
          PROVE  \E j \in 1..Len(replies) : replies'[i] = replies[j]
      <4>1. i \in 1..Len(replies) \/ i = Len(replies) + 1
          BY <3>6
      <4>2. i # Len(replies) + 1
          BY <2>2, <3>2, <3>6, <3>7
      <4>3. QED
          BY <3>6, <4>1, <4>2
    <3>8. QED
        BY <3>1, <3>7, OrderElsewhere
  <2>3. QED
      BY <1>7, <2>1, <2>2 DEF BackendStep, BackendGreets, BackendRefuses
<1>8. CASE UNCHANGED vars
  <2>1. UNCHANGED <<queue, currentUser, calls, outcome, told, applied, appliedSince,
                    replies>>
      BY <1>8 DEF vars, engineVars, backendVars, historyVars
  <2>2. QED
      BY <2>1, OrderElsewhere
<1>9. ASSUME NEW user \in Users, DiesBeforeAcknowledgeBatch(user)
      PROVE  OrderInv'
  <2>1. /\ replies # <<>> /\ Head(replies).ok /\ handshakeComplete
        /\ told' = ToldOf(Head(writePipeline).id, "ok")
        /\ UNCHANGED <<queue, calls, outcome, applied, appliedSince>>
        /\ replies' = <<>>
      BY <1>9 DEF DiesBeforeAcknowledgeBatch, Restarted, backendVars
  <2>2. /\ queue[currentUser] # <<>>
        /\ Head(writePipeline) = queue[currentUser][1]
        /\ \A x \in appliedSince[queue[currentUser][1].write] :
              x > queue[currentUser][1].write
      BY <2>1, AnswerIsForTheOldest
  <2>3. told' \in {told, [told EXCEPT ![queue[currentUser][1].write] = "ok"]}
      BY <2>1, <2>2, ToldOfFirst
  <2>4. QED
      BY <2>1, <2>2, <2>3, OrderOfWords
<1>10. ASSUME NEW user \in Users, DiesBeforeNotifyUser(user)
       PROVE  OrderInv'
  <2>1. /\ queue[currentUser] # <<>>
        /\ queue' = [queue EXCEPT ![currentUser] = Tail(@)]
        /\ outcome' = [outcome EXCEPT ![queue[currentUser][1].write] = "rejected"]
      BY <1>10, RemovedByRejection DEF PipelineInv
  <2>2. UNCHANGED <<calls, told, applied, appliedSince>> /\ replies' = <<>>
      BY <1>10 DEF DiesBeforeNotifyUser, Restarted, backendVars
  <2>3. QED
      BY <2>1, <2>2, OrderOfDecisions
<1>11. QED
    BY <1>1, <1>2, <1>3, <1>4, <1>5, <1>6, <1>7, <1>8, <1>9, <1>10 DEF Next

LEMMA OrderInvariant == Spec => []OrderInv
  BY OrderInit, OrderStep, PipelineInvariant, PTL DEF Spec

(***************************************************************************)
(* Over an acknowledged write only later writes are ever applied.          *)
(***************************************************************************)
THEOREM OrderOfAcknowledgements == Spec => []AcknowledgedInOrder
<1>1. OrderInv => AcknowledgedInOrder
    BY DEF OrderInv
<1>2. QED
    BY <1>1, OrderInvariant, PTL

-----------------------------------------------------------------------------
(* The promise to the callers *)

\* The mapping to PendingWrites: the calls in a queue and those the backend has
\* applied.
WritesOf(q) == [i \in 1..Len(q) |-> q[i].write]
Pending == [u \in Users |-> WritesOf(queue[u])]
AppliedWrites == UNION {applied[u] : u \in Users}

LEMMA WritesOfProperties ==
    ASSUME NEW q \in Seq(Batch)
    PROVE  /\ WritesOf(q) \in Seq(Writes)
           /\ Len(WritesOf(q)) = Len(q) /\ Len(q) \in Nat
           /\ \A i \in 1..Len(q) : WritesOf(q)[i] = q[i].write
           /\ WritesOf(q) = <<>> <=> q = <<>>
<1>1. Len(q) \in Nat /\ \A i \in 1..Len(q) : q[i].write \in Writes
    BY BatchOfQueue
<1>2. /\ WritesOf(q) \in Seq(Writes) /\ Len(WritesOf(q)) = Len(q)
      /\ \A i \in 1..Len(q) : WritesOf(q)[i] = q[i].write
    BY <1>1 DEF WritesOf
<1>3. WritesOf(q) = <<>> <=> q = <<>>
    BY <1>2
<1>4. QED
    BY <1>1, <1>2, <1>3

LEMMA WritesOfTail ==
    ASSUME NEW q \in Seq(Batch), q # <<>>
    PROVE  /\ WritesOf(Tail(q)) = Tail(WritesOf(q))
           /\ Head(WritesOf(q)) = q[1].write
           /\ 1 \in 1..Len(q)
<1> DEFINE s == WritesOf(q)
<1>1. /\ Tail(q) \in Seq(Batch) /\ Len(Tail(q)) = Len(q) - 1
      /\ \A i \in 1..Len(Tail(q)) : Tail(q)[i] = q[i + 1]
    BY HeadTailProperties
<1>2. /\ s \in Seq(Writes) /\ Len(s) = Len(q) /\ Len(q) \in Nat /\ s # <<>>
      /\ \A i \in 1..Len(q) : s[i] = q[i].write
    BY WritesOfProperties
<1>3. /\ WritesOf(Tail(q)) \in Seq(Writes)
      /\ Len(WritesOf(Tail(q))) = Len(q) - 1
      /\ \A i \in 1..Len(q) - 1 : WritesOf(Tail(q))[i] = Tail(q)[i].write
    BY <1>1, WritesOfProperties
<1> HIDE DEF s
<1>4. /\ Tail(s) \in Seq(Writes) /\ Len(Tail(s)) = Len(s) - 1
      /\ \A i \in 1..Len(Tail(s)) : Tail(s)[i] = s[i + 1]
      /\ Head(s) = s[1]
    BY <1>2, HeadTailProperties
<1>5. ASSUME NEW i \in 1..Len(q) - 1
      PROVE  WritesOf(Tail(q))[i] = Tail(s)[i]
  <2>1. i + 1 \in 1..Len(q) /\ i \in 1..Len(Tail(q)) /\ i \in 1..Len(Tail(s))
      BY <1>1, <1>2, <1>4
  <2>2. s[i + 1] = q[i + 1].write
      BY <1>2, <2>1
  <2>3. QED
      BY <1>1, <1>3, <1>4, <2>1, <2>2
<1>6. WritesOf(Tail(q)) = Tail(s)
    BY <1>2, <1>3, <1>4, <1>5, SeqEqual
<1>7. 1 \in 1..Len(q)
  <2>1. Len(q) # 0
      OBVIOUS
  <2>2. QED
      BY <1>2, <2>1
<1>8. QED
    BY <1>2, <1>4, <1>6, <1>7 DEF s

LEMMA WritesOfAppend ==
    ASSUME NEW q \in Seq(Batch), NEW b \in Batch
    PROVE  WritesOf(Append(q, b)) = Append(WritesOf(q), b.write)
<1> DEFINE s == WritesOf(q)
<1>1. /\ Append(q, b) \in Seq(Batch) /\ Len(Append(q, b)) = Len(q) + 1
      /\ \A i \in 1..Len(q) : Append(q, b)[i] = q[i]
      /\ Append(q, b)[Len(q) + 1] = b
      /\ b.write \in Writes
    BY AppendProperties DEF Batch
<1>2. /\ s \in Seq(Writes) /\ Len(s) = Len(q) /\ Len(q) \in Nat
      /\ \A i \in 1..Len(q) : s[i] = q[i].write
    BY WritesOfProperties
<1>3. /\ WritesOf(Append(q, b)) \in Seq(Writes)
      /\ Len(WritesOf(Append(q, b))) = Len(q) + 1
      /\ \A i \in 1..Len(q) + 1 :
            WritesOf(Append(q, b))[i] = Append(q, b)[i].write
    BY <1>1, WritesOfProperties
<1> HIDE DEF s
<1>4. /\ Append(s, b.write) \in Seq(Writes)
      /\ Len(Append(s, b.write)) = Len(q) + 1
      /\ \A i \in 1..Len(q) : Append(s, b.write)[i] = s[i]
      /\ Append(s, b.write)[Len(q) + 1] = b.write
    BY <1>1, <1>2, AppendProperties
<1>5. ASSUME NEW i \in 1..Len(q) + 1
      PROVE  WritesOf(Append(q, b))[i] = Append(s, b.write)[i]
  <2>1. i \in 1..Len(q) \/ i = Len(q) + 1
      BY <1>2
  <2>2. QED
      BY <1>1, <1>2, <1>3, <1>4, <2>1
<1>6. WritesOf(Append(q, b)) = Append(s, b.write)
    BY <1>3, <1>4, <1>5, SeqEqual
<1>7. QED
    BY <1>6 DEF s

LEMMA PromiseInit == Init => Promise!Init
<1> SUFFICES ASSUME Init
             PROVE  Promise!Init
    OBVIOUS
<1>1. Pending = [u \in Users |-> <<>>]
  <2>1. \A u \in Users : WritesOf(queue[u]) = <<>>
      BY DEF Init, WritesOf
  <2>2. QED
      BY <2>1 DEF Pending
<1>2. AppliedWrites = {} /\ Listening = {}
    BY DEF Init, AppliedWrites, Listening
<1>3. QED
    BY <1>1, <1>2
    DEF Init, Promise!Init, Pending, WritesOf, AppliedWrites, Listening

\* A call: the write is new, and its caller begins to wait.
LEMMA CallIsIssued ==
    ASSUME PipelineInv, OrderInv, WriteMutations
    PROVE  Promise!Next
<1>1. /\ queue' = [queue EXCEPT ![currentUser] = Append(@, NewBatch)]
      /\ currentUser' = currentUser /\ NewBatch \in Batch
      /\ callbacks' = callbacks \cup {NewCallback}
    BY WriteEngine DEF PipelineInv
<1>2. /\ calls + 1 \in Writes /\ calls \in Nat /\ currentUser \in Users
      /\ UNCHANGED <<outcome, told, applied>>
      /\ queue \in [Users -> Seq(Batch)]
    BY DEF WriteMutations, backendVars, PipelineInv, EngineInv, Writes
<1> PICK w \in Writes : w = calls + 1
    BY <1>2
<1>3. w = calls + 1 /\ NewBatch.write = w /\ NewCallback.write = w
    BY DEF NewBatch, NewCallback
<1>4. Listening' = Listening \cup {w}
    BY <1>1, <1>3 DEF Listening
<1>5. Pending' = [Pending EXCEPT ![currentUser] = Append(@, w)]
  <2>1. WritesOf(queue'[currentUser]) = Append(WritesOf(queue[currentUser]), w)
      BY <1>1, <1>2, <1>3, WritesOfAppend
  <2>2. \A u \in Users \ {currentUser} : queue'[u] = queue[u]
      BY <1>1, <1>2
  <2>3. QED
      BY <1>2, <2>1, <2>2 DEF Pending
<1>6. ASSUME NEW u \in Users, NEW i \in 1..Len(Pending[u])
      PROVE  Pending[u][i] # w
  <2>1. Pending[u] = WritesOf(queue[u]) /\ queue[u] \in Seq(Batch)
      BY <1>2 DEF Pending
  <2>2. i \in 1..Len(queue[u]) /\ Pending[u][i] = queue[u][i].write
      BY <1>6, <2>1, WritesOfProperties
  <2>3. QED
      BY <1>2, <1>3, <2>2, QueueFacts DEF PipelineInv
<1>7. outcome[w] = "none"
    BY <1>2, <1>3 DEF OrderInv, FutureIsBlank, Writes
<1>8. AppliedWrites' = AppliedWrites
    BY <1>2 DEF AppliedWrites
<1>9. Promise!Issue(w)
    BY <1>1, <1>2, <1>4, <1>5, <1>6, <1>7, <1>8
    DEF Promise!Issue, Promise!IsPending, Pending, WritesOf, Listening,
        AppliedWrites
<1>10. QED
    BY <1>9 DEF Promise!Next

\* The oldest pending write, and what is pending when it has left the disk.
LEMMA FirstIsPending ==
    ASSUME PipelineInv, queue[currentUser] # <<>>
    PROVE  /\ Pending[currentUser] # <<>>
           /\ Head(Pending[currentUser]) = queue[currentUser][1].write
           /\ queue[currentUser][1].write \in Writes
           /\ queue' = [queue EXCEPT ![currentUser] = Tail(@)]
                  => Pending' = [Pending EXCEPT ![currentUser] = Tail(@)]
           /\ queue' = queue => Pending' = Pending
<1> DEFINE q == queue[currentUser]
<1>1. currentUser \in Users /\ queue \in [Users -> Seq(Batch)]
    BY DEF PipelineInv, EngineInv
<1>2. Pending[currentUser] = WritesOf(q) /\ q \in Seq(Batch)
    BY <1>1 DEF Pending
<1>3. /\ WritesOf(q) # <<>> /\ Head(WritesOf(q)) = q[1].write
      /\ WritesOf(Tail(q)) = Tail(WritesOf(q))
      /\ q[1].write \in Writes
    BY <1>2, WritesOfProperties, WritesOfTail, FirstOfQueue
<1>4. ASSUME queue' = [queue EXCEPT ![currentUser] = Tail(@)]
      PROVE  Pending' = [Pending EXCEPT ![currentUser] = Tail(@)]
  <2>1. /\ queue'[currentUser] = Tail(q)
        /\ \A u \in Users \ {currentUser} : queue'[u] = queue[u]
      BY <1>1, <1>4
  <2> HIDE DEF q
  <2>2. QED
      BY <1>1, <1>2, <1>3, <2>1 DEF Pending, q
<1>5. queue' = queue => Pending' = Pending
    BY DEF Pending, WritesOf
<1>6. QED
    BY <1>2, <1>3, <1>4, <1>5

\* A result decides the oldest write, and reaches the caller of that write and
\* no other.
LEMMA ResultDecides ==
    ASSUME PipelineInv, OrderInv, queue[currentUser] # <<>>,
           NEW status \in {"ok", "rejected"},
           HandleWriteResult(queue[currentUser][1], status),
           applied' = applied,
           status = "ok" =>
               queue[currentUser][1].write \in applied[currentUser]
    PROVE  Promise!Next
<1> DEFINE w == queue[currentUser][1].write
           id == queue[currentUser][1].id
<1>1. /\ currentUser \in Users /\ currentUser' = currentUser
      /\ queue' = [queue EXCEPT ![currentUser] = Tail(@)]
      /\ callbacks' = callbacks \ FoundCallbacks(id)
    BY ResultEngine DEF PipelineInv, EngineInv
<1>2. told' = ToldOf(id, status) /\ outcome' = [outcome EXCEPT ![w] = status]
    BY DEF HandleWriteResult, NotifyUser
<1>3. told' = IF w \in Listening THEN [told EXCEPT ![w] = status] ELSE told
    BY <1>2, ToldOfFirst
<1>4. \A c \in callbacks : c \in FoundCallbacks(id) <=> c.write = w
    BY CallbackOfFirst
<1>5. /\ Pending[currentUser] # <<>> /\ Head(Pending[currentUser]) = w
      /\ Pending' = [Pending EXCEPT ![currentUser] = Tail(@)]
    BY <1>1, FirstIsPending
<1>6. status = "ok" => w \in AppliedWrites
    BY <1>1 DEF AppliedWrites
<1>7. AppliedWrites' = AppliedWrites
    BY DEF AppliedWrites
<1> HIDE DEF w, id
<1>8. Listening' = Listening \ {w}
    BY <1>1, <1>4 DEF Listening
<1>9. Promise!Decide(status)
    BY <1>1, <1>2, <1>3, <1>5, <1>6, <1>7, <1>8
    DEF Promise!Decide, Pending, WritesOf, Listening, AppliedWrites
<1>10. QED
    BY <1>9 DEF Promise!Next

\* The process dies after the word and before the disk: the oldest write, which
\* was applied, stays pending.
LEMMA WordBeforeDisk ==
    ASSUME PipelineInv, PipelineInv', OrderInv,
           NEW user \in Users, DiesBeforeAcknowledgeBatch(user)
    PROVE  Promise!Next
<1> DEFINE w == queue[currentUser][1].write
<1>1. /\ replies # <<>> /\ Head(replies).ok /\ handshakeComplete
      /\ told' = ToldOf(Head(writePipeline).id, "ok")
      /\ UNCHANGED <<queue, outcome, applied>>
      /\ callbacks' = {}
    BY DEF DiesBeforeAcknowledgeBatch, Restarted, backendVars
<1>2. /\ queue[currentUser] # <<>>
      /\ Head(writePipeline) = queue[currentUser][1]
      /\ w \in applied[currentUser]
    BY <1>1, AnswerIsForTheOldest
<1>3. told' = IF w \in Listening THEN [told EXCEPT ![w] = "ok"] ELSE told
    BY <1>1, <1>2, ToldOfFirst
<1>4. /\ Pending[currentUser] # <<>> /\ Head(Pending[currentUser]) = w
      /\ Pending' = Pending
    BY <1>1, <1>2, FirstIsPending
<1>5. currentUser \in Users /\ currentUser' \in Users
    BY DEF PipelineInv, EngineInv
<1>6. w \in AppliedWrites /\ AppliedWrites' = AppliedWrites
    BY <1>1, <1>2, <1>5 DEF AppliedWrites
<1>7. Listening' = {}
    BY <1>1 DEF Listening
<1> HIDE DEF w
<1>8. Promise!DieBeforeSuccess
    BY <1>1, <1>3, <1>4, <1>5, <1>6, <1>7
    DEF Promise!DieBeforeSuccess, Pending, WritesOf, Listening, AppliedWrites
<1>9. QED
    BY <1>8 DEF Promise!Next

\* The process dies after the disk and before the word: the oldest write is
\* rejected, and nobody hears of it.
LEMMA DiskBeforeWord ==
    ASSUME PipelineInv, PipelineInv', NEW user \in Users, DiesBeforeNotifyUser(user)
    PROVE  Promise!Next
<1> DEFINE w == queue[currentUser][1].write
<1>1. /\ queue[currentUser] # <<>>
      /\ queue' = [queue EXCEPT ![currentUser] = Tail(@)]
      /\ outcome' = [outcome EXCEPT ![w] = "rejected"]
    BY RemovedByRejection DEF PipelineInv
<1>2. UNCHANGED <<told, applied>> /\ callbacks' = {}
    BY DEF DiesBeforeNotifyUser, Restarted, backendVars
<1>3. /\ Pending[currentUser] # <<>> /\ Head(Pending[currentUser]) = w
      /\ Pending' = [Pending EXCEPT ![currentUser] = Tail(@)]
    BY <1>1, FirstIsPending
<1>4. currentUser \in Users /\ currentUser' \in Users
    BY DEF PipelineInv, EngineInv
<1>5. AppliedWrites' = AppliedWrites /\ Listening' = {}
    BY <1>2 DEF AppliedWrites, Listening
<1> HIDE DEF w
<1>6. Promise!DieAfterRejection
    BY <1>1, <1>2, <1>3, <1>4, <1>5
    DEF Promise!DieAfterRejection, Pending, WritesOf, Listening, AppliedWrites
<1>7. QED
    BY <1>6 DEF Promise!Next

\* What the backend applies is pending.
LEMMA ApplyIsAllowed ==
    ASSUME PipelineInv, BackendStep, BackendApplies
    PROVE  Promise!Next
<1> DEFINE q == queue[currentUser]
           w == Head(sent).write
           i == Len(replies) + 1
<1>1. /\ UNCHANGED <<queue, currentUser, callbacks, outcome, told>>
      /\ currentUser \in Users
      /\ sent # <<>> /\ Head(sent) # Handshake
      /\ applied \in [Users -> SUBSET Writes]
      /\ applied' = [applied EXCEPT ![currentUser] = @ \cup {w}]
    BY DEF BackendStep, BackendApplies, BackendIsServing, engineVars,
           historyVars, PipelineInv, EngineInv, BackendTypeOK
<1>2. i \in 1..Len(q) /\ w = q[i].write
    BY <1>1, ServedAfterHandshake, WireIsQueue
<1>3. Pending[currentUser] = WritesOf(q) /\ q \in Seq(Batch)
    BY <1>1, QueueFacts DEF Pending, PipelineInv
<1> HIDE DEF q, w, i
<1>4. i \in 1..Len(Pending[currentUser]) /\ Pending[currentUser][i] = w
    BY <1>2, <1>3, WritesOfProperties
<1>5. AppliedWrites' = AppliedWrites \cup {w}
  <2>1. applied'[currentUser] = applied[currentUser] \cup {w}
      BY <1>1
  <2>2. \A u \in Users \ {currentUser} : applied'[u] = applied[u]
      BY <1>1
  <2>3. QED
      BY <1>1, <2>1, <2>2 DEF AppliedWrites
<1>6. Pending' = Pending /\ Listening' = Listening
    BY <1>1 DEF Pending, WritesOf, Listening
<1>7. Promise!Apply
    BY <1>1, <1>4, <1>5, <1>6
    DEF Promise!Apply, Pending, WritesOf, Listening, AppliedWrites
<1>8. QED
    BY <1>7 DEF Promise!Next

\* A step that touches neither the queues nor the outcomes.
LEMMA PromiseElsewhere ==
    ASSUME EngineInv', UNCHANGED <<queue, applied, outcome, told>>,
           \/ callbacks' = callbacks
           \/ callbacks' = {}
    PROVE  [Promise!Next]_(Promise!vars)
<1>1. Pending' = Pending /\ AppliedWrites' = AppliedWrites
    BY DEF Pending, WritesOf, AppliedWrites
<1>2. currentUser' \in Users
    BY DEF EngineInv
<1>3. CASE callbacks' = callbacks
  <2>1. Listening' = Listening
      BY <1>3 DEF Listening
  <2>2. Promise!ChangeUser
      BY <1>1, <1>2, <2>1
      DEF Promise!ChangeUser, Pending, WritesOf, Listening, AppliedWrites
  <2>3. QED
      BY <2>2 DEF Promise!Next
<1>4. CASE callbacks' = {}
  <2>1. Listening' = {}
      BY <1>4 DEF Listening
  <2>2. Promise!Restart
      BY <1>1, <1>2, <2>1
      DEF Promise!Restart, Pending, WritesOf, Listening, AppliedWrites
  <2>3. QED
      BY <2>2 DEF Promise!Next
<1>5. QED
    BY <1>3, <1>4

LEMMA PromiseStep ==
    ASSUME PipelineInv, PipelineInv', OrderInv, [Next]_vars
    PROVE  [Promise!Next]_(Promise!vars)
<1>1. EngineInv'
    BY DEF PipelineInv
<1>2. CASE WriteMutations
    BY <1>2, CallIsIssued
<1>3. CASE ResumeStartWithCredentials \/ BackoffElapsed \/ StreamFails \/ IdleTimeout
    BY <1>1, <1>3, PromiseElsewhere
    DEF ResumeStartWithCredentials, BackoffElapsed, StreamFails, IdleTimeout,
        engineVars, backendVars, historyVars
<1>4. ASSUME NEW user \in Users,
             HandleCredentialChange(user) \/ Initialize(user)
      PROVE  [Promise!Next]_(Promise!vars)
    BY <1>1, <1>4, PromiseElsewhere
    DEF HandleCredentialChange, Initialize, Restarted, backendVars, historyVars
<1>5. CASE OnStreamRead
  <2>1. CASE handshakeComplete
      BY <1>5, <2>1, ResultIsForTheOldest, ResultDecides
  <2>2. CASE ~handshakeComplete
      BY <1>1, <1>5, <2>2, PromiseElsewhere
      DEF OnStreamRead, OnWriteStreamHandshakeComplete, engineVars,
          backendVars, historyVars
  <2>3. QED
      BY <2>1, <2>2
<1>6. CASE StreamRejects
  <2>1. /\ queue[currentUser] # <<>>
        /\ Head(writePipeline) = queue[currentUser][1]
      BY <1>6, RejectStream DEF PipelineInv
  <2>2. /\ HandleWriteResult(queue[currentUser][1], "rejected")
        /\ applied' = applied
      BY <1>6, <2>1 DEF StreamRejects, backendVars
  <2>3. QED
      BY <2>1, <2>2, ResultDecides
<1>7. CASE BackendStep
  <2>1. CASE BackendApplies
      BY <1>7, <2>1, ApplyIsAllowed
  <2>2. CASE BackendGreets \/ BackendRefuses
      BY <1>1, <1>7, <2>2, PromiseElsewhere
      DEF BackendStep, BackendGreets, BackendRefuses, engineVars, backendVars,
          historyVars
  <2>3. QED
      BY <1>7, <2>1, <2>2 DEF BackendStep
<1>8. CASE UNCHANGED vars
    BY <1>1, <1>8, PromiseElsewhere
    DEF vars, engineVars, backendVars, historyVars
<1>9. ASSUME NEW user \in Users,
             DiesBeforeAcknowledgeBatch(user) \/ DiesBeforeNotifyUser(user)
      PROVE  Promise!Next
    BY <1>9, WordBeforeDisk, DiskBeforeWord
<1>10. QED
    BY <1>2, <1>3, <1>4, <1>5, <1>6, <1>7, <1>8, <1>9 DEF Next

(***************************************************************************)
(* The pipeline, with its retries, refusals, user changes and restarts,    *)
(* keeps the promise of PendingWrites: the fate of each call is decided    *)
(* once, in the order of the calls, acknowledged only if it was applied,   *)
(* and told to its own caller or to nobody. The word and the decision come *)
(* together unless the process dies between them: then a caller may have   *)
(* been told of the success of a write that is applied and still pending.  *)
(***************************************************************************)
THEOREM PipelineKeepsThePromise == Spec => PromiseKept
<1>1. Init => Promise!Init
    BY PromiseInit
<1>2. PipelineInv /\ PipelineInv' /\ OrderInv /\ [Next]_vars
          => [Promise!Next]_(Promise!vars)
    BY PromiseStep
<1>3. QED
    BY <1>1, <1>2, PipelineInvariant, OrderInvariant, PTL
    DEF Spec, PromiseKept, Promise!Spec

-----------------------------------------------------------------------------
(* What the callers hear *)

\* The oldest pending write of the current user is still undecided.
LEMMA OldestIsUndecided ==
    ASSUME PipelineInv, OrderInv, Pending[currentUser] # <<>>
    PROVE  /\ Head(Pending[currentUser]) \in Writes
           /\ outcome[Head(Pending[currentUser])] = "none"
<1> DEFINE q == queue[currentUser]
<1>1. /\ currentUser \in Users /\ q \in Seq(Batch)
      /\ Pending[currentUser] = WritesOf(q)
    BY QueueFacts DEF PipelineInv, EngineInv, Pending
<1>2. q # <<>> /\ 1 \in 1..Len(q) /\ Head(WritesOf(q)) = q[1].write
    BY <1>1, WritesOfProperties, WritesOfTail
<1>3. q[1].write \in Writes
    BY <1>1, <1>2, BatchOfQueue
<1>4. outcome[q[1].write] = "none"
    BY <1>1, <1>2 DEF OrderInv, DecidedInOrder
<1>5. QED
    BY <1>1, <1>2, <1>3, <1>4

\* A write that somebody's queue holds.
Awaits(w) == \E u \in Users : \E i \in 1..Len(Pending[u]) : Pending[u][i] = w

(***************************************************************************)
(* The completion of setData and updateData is called only with the truth: *)
(* with success for a write that the backend has applied, with an error    *)
(* for one that was rejected. A success is told before it is on disk: if   *)
(* the process dies in between, the write, though applied, is still        *)
(* pending and is sent again, and may then be rejected, which its caller   *)
(* does not hear of.                                                       *)
(***************************************************************************)
CallersHearTheTruth ==
    \A w \in Writes :
        /\ "ok" \in {told[w], outcome[w]} => w \in AppliedWrites
        /\ told[w] = "rejected" => outcome[w] = "rejected"
        /\ told[w] = "ok" /\ outcome[w] = "none" => Awaits(w)

\* With it: whoever waits has not been told, and what is pending is undecided.
TruthInv ==
    /\ CallersHearTheTruth
    /\ \A w \in Listening : told[w] = "none"

\* What was decided or told stays so.
FateKept(w) ==
    /\ outcome[w] # "none" => outcome'[w] = outcome[w]
    /\ told[w] # "none" => told'[w] = told[w]

\* When the oldest pending write leaves the disk, the others stay.
LEMMA OthersAwait ==
    ASSUME PipelineInv, Pending[currentUser] # <<>>,
           Pending' = [Pending EXCEPT ![currentUser] = Tail(@)],
           NEW x, x # Head(Pending[currentUser]), Awaits(x)
    PROVE  Awaits(x)'
<1>1. PICK u \in Users : \E i \in 1..Len(Pending[u]) : Pending[u][i] = x
    BY DEF Awaits
<1>2. PICK i \in 1..Len(Pending[u]) : Pending[u][i] = x
    BY <1>1
<1>3. Pending = [v \in Users |-> Pending[v]] /\ currentUser \in Users
    BY DEF Pending, PipelineInv, EngineInv
<1>4. Pending[currentUser] \in Seq(Writes)
    BY <1>3, WritesOfProperties DEF Pending, PipelineInv, EngineInv
<1>5. CASE u # currentUser
  <2>1. Pending'[u] = Pending[u]
      BY <1>3, <1>5
  <2>2. QED
      BY <1>2, <2>1 DEF Awaits
<1>6. CASE u = currentUser
  <2> DEFINE p == Pending[currentUser]
  <2>1. Pending'[u] = Tail(p)
      BY <1>3, <1>6
  <2>2. p \in Seq(Writes) /\ p # <<>> /\ i \in 1..Len(p) /\ p[i] = x
      BY <1>2, <1>4, <1>6
  <2>3. Head(p) # x
      OBVIOUS
  <2> HIDE DEF p
  <2>4. /\ Len(Tail(p)) = Len(p) - 1 /\ Len(p) \in Nat
        /\ \A k \in 1..Len(Tail(p)) : Tail(p)[k] = p[k + 1]
      BY <2>2, HeadTailProperties
  <2>5. i # 1
      BY <2>2, <2>3
  <2>6. i - 1 \in 1..Len(Tail(p)) /\ Tail(p)[i - 1] = x
      BY <2>2, <2>4, <2>5
  <2>7. QED
      BY <2>1, <2>6 DEF Awaits
<1>7. QED
    BY <1>5, <1>6

\* A call leaves what is pending where it is.
LEMMA OthersAwaitCalls ==
    ASSUME PipelineInv, NEW w \in Writes,
           Pending' = [Pending EXCEPT ![currentUser] = Append(@, w)]
    PROVE  \A x : Awaits(x) => Awaits(x)'
<1> SUFFICES ASSUME NEW x, Awaits(x)
             PROVE  Awaits(x)'
    OBVIOUS
<1>1. PICK u \in Users : \E i \in 1..Len(Pending[u]) : Pending[u][i] = x
    BY DEF Awaits
<1>2. PICK i \in 1..Len(Pending[u]) : Pending[u][i] = x
    BY <1>1
<1>3. Pending = [v \in Users |-> Pending[v]] /\ currentUser \in Users
    BY DEF Pending, PipelineInv, EngineInv
<1>4. Pending[u] \in Seq(Writes)
    BY WritesOfProperties DEF Pending, PipelineInv, EngineInv
<1>5. Pending'[u] = Pending[u] \/ Pending'[u] = Append(Pending[u], w)
    BY <1>3
<1> HIDE DEF Pending
<1>6. i \in 1..Len(Pending'[u]) /\ Pending'[u][i] = x
    BY <1>2, <1>4, <1>5, AppendProperties
<1>7. QED
    BY <1>6 DEF Awaits

LEMMA TruthStep ==
    ASSUME PipelineInv, PipelineInv', OrderInv, TruthInv, [Next]_vars
    PROVE  TruthInv' /\ \A w \in Writes : FateKept(w)
<1> DEFINE first == Head(Pending[currentUser])
<1>1. [Promise!Next]_(Promise!vars)
    BY PromiseStep
<1>2. /\ outcome \in [Writes -> {"none", "ok", "rejected"}]
      /\ told \in [Writes -> {"none", "ok", "rejected"}]
    BY DEF PipelineInv, EngineInv
<1>3. Pending[currentUser] # <<>> => first \in Writes /\ outcome[first] = "none"
    BY OldestIsUndecided
<1>4. Listening \subseteq Writes
    BY DEF Listening, PipelineInv, EngineInv, Callback
\* Nothing is decided and nobody is told.
<1>5. ASSUME UNCHANGED <<outcome, told>>, AppliedWrites \subseteq AppliedWrites',
             \A x : Awaits(x) => Awaits(x)',
             \A x \in Listening' : x \in Listening \/ told[x] = "none"
      PROVE  TruthInv' /\ \A w \in Writes : FateKept(w)
  <2>1. CallersHearTheTruth'
      BY <1>5 DEF TruthInv, CallersHearTheTruth
  <2>2. \A x \in Listening' : told'[x] = "none"
      BY <1>5 DEF TruthInv
  <2>3. \A w \in Writes : FateKept(w)
      BY <1>5 DEF FateKept
  <2>4. QED
      BY <2>1, <2>2, <2>3 DEF TruthInv
<1>6. ASSUME NEW w \in Writes, Promise!Issue(w)
      PROVE  TruthInv' /\ \A x \in Writes : FateKept(x)
  <2>1. /\ ~Awaits(w) /\ outcome[w] = "none"
        /\ Pending' = [Pending EXCEPT ![currentUser] = Append(@, w)]
        /\ Listening' = Listening \cup {w}
        /\ UNCHANGED <<outcome, told>> /\ AppliedWrites' = AppliedWrites
      BY <1>6
      DEF Promise!Issue, Promise!IsPending, Awaits, Pending, WritesOf,
          Listening, AppliedWrites
  <2>2. told[w] = "none"
      BY <1>2, <2>1 DEF TruthInv, CallersHearTheTruth
  <2>3. \A x : Awaits(x) => Awaits(x)'
      BY <2>1, OthersAwaitCalls
  <2>4. QED
      BY <1>5, <2>1, <2>2, <2>3
<1>7. CASE Promise!Apply
  <2>1. /\ UNCHANGED <<outcome, told>> /\ AppliedWrites \subseteq AppliedWrites'
        /\ Pending' = Pending /\ Listening' = Listening
      BY <1>7
      DEF Promise!Apply, Pending, WritesOf, Listening, AppliedWrites
  <2>2. QED
      BY <1>5, <2>1 DEF Awaits
<1>8. CASE Promise!ChangeUser \/ Promise!Restart \/ UNCHANGED Promise!vars
  <2>1. /\ UNCHANGED <<outcome, told>> /\ AppliedWrites' = AppliedWrites
        /\ Pending' = Pending /\ Listening' \subseteq Listening
      BY <1>8
      DEF Promise!ChangeUser, Promise!Restart, Promise!vars, Pending, WritesOf,
          Listening, AppliedWrites
  <2>2. QED
      BY <1>5, <2>1 DEF Awaits
\* The oldest pending write is decided, and its caller told of it or not.
<1>9. ASSUME NEW status \in {"ok", "rejected"}, Pending[currentUser] # <<>>,
             status = "ok" => first \in AppliedWrites,
             outcome' = [outcome EXCEPT ![first] = status],
             \/ told' = told
             \/ first \in Listening /\ told' = [told EXCEPT ![first] = status],
             Listening' \subseteq Listening \ {first},
             Pending' = [Pending EXCEPT ![currentUser] = Tail(@)],
             AppliedWrites' = AppliedWrites
      PROVE  TruthInv' /\ \A w \in Writes : FateKept(w)
  <2>1. first \in Writes /\ outcome[first] = "none"
      BY <1>3, <1>9
  <2>2. /\ outcome'[first] = status
        /\ \/ told'[first] = told[first]
           \/ told[first] = "none" /\ told'[first] = status
      BY <1>2, <1>9, <2>1 DEF TruthInv
  <2>3. ASSUME NEW x \in Writes, x # first
        PROVE  outcome'[x] = outcome[x] /\ told'[x] = told[x]
      BY <1>2, <1>9, <2>3
  <2>4. ASSUME NEW x \in Writes, x # first, Awaits(x)
        PROVE  Awaits(x)'
      BY <1>9, <2>4, OthersAwait
  <2> HIDE DEF first
  <2>5. ASSUME NEW x \in Writes
        PROVE  /\ "ok" \in {told'[x], outcome'[x]} => x \in AppliedWrites'
               /\ told'[x] = "rejected" => outcome'[x] = "rejected"
               /\ told'[x] = "ok" /\ outcome'[x] = "none" => Awaits(x)'
    <3>1. CASE x = first
        BY <1>9, <2>1, <2>2, <3>1 DEF TruthInv, CallersHearTheTruth
    <3>2. CASE x # first
        BY <1>9, <2>3, <2>4, <3>2 DEF TruthInv, CallersHearTheTruth
    <3>3. QED
        BY <3>1, <3>2
  <2>6. \A x \in Listening' : told'[x] = "none"
      BY <1>4, <1>9, <2>3 DEF TruthInv
  <2>7. ASSUME NEW x \in Writes
        PROVE  FateKept(x)
    <3>1. CASE x = first
        BY <2>1, <2>2, <3>1 DEF FateKept
    <3>2. CASE x # first
        BY <2>3, <3>2 DEF FateKept
    <3>3. QED
        BY <3>1, <3>2
  <2>8. CallersHearTheTruth'
      BY <2>5 DEF CallersHearTheTruth
  <2>9. QED
      BY <2>6, <2>7, <2>8 DEF TruthInv
<1>10. ASSUME NEW status \in {"ok", "rejected"}, Promise!Decide(status)
       PROVE  TruthInv' /\ \A w \in Writes : FateKept(w)
  <2>1. /\ Pending[currentUser] # <<>>
        /\ status = "ok" => first \in AppliedWrites
        /\ outcome' = [outcome EXCEPT ![first] = status]
        /\ told' = IF first \in Listening
                   THEN [told EXCEPT ![first] = status] ELSE told
        /\ Listening' = Listening \ {first}
        /\ Pending' = [Pending EXCEPT ![currentUser] = Tail(@)]
        /\ AppliedWrites' = AppliedWrites
      BY <1>10
      DEF Promise!Decide, Pending, WritesOf, Listening, AppliedWrites
  <2> HIDE DEF first
  <2>2. QED
      BY <1>9, <2>1
<1>11. CASE Promise!DieAfterRejection
  <2>1. /\ Pending[currentUser] # <<>>
        /\ outcome' = [outcome EXCEPT ![first] = "rejected"]
        /\ told' = told
        /\ Listening' = {}
        /\ Pending' = [Pending EXCEPT ![currentUser] = Tail(@)]
        /\ AppliedWrites' = AppliedWrites
      BY <1>11
      DEF Promise!DieAfterRejection, Pending, WritesOf, Listening, AppliedWrites
  <2> HIDE DEF first
  <2>2. QED
      BY <1>9, <2>1
\* The caller is told, and the write stays pending.
<1>12. CASE Promise!DieBeforeSuccess
  <2>1. /\ Pending[currentUser] # <<>> /\ first \in AppliedWrites
        /\ told' = IF first \in Listening
                   THEN [told EXCEPT ![first] = "ok"] ELSE told
        /\ Listening' = {} /\ outcome' = outcome
        /\ Pending' = Pending /\ AppliedWrites' = AppliedWrites
      BY <1>12
      DEF Promise!DieBeforeSuccess, Pending, WritesOf, Listening, AppliedWrites
  <2>2. first \in Writes /\ Awaits(first)
    <3>1. first \in Writes /\ currentUser \in Users
        BY <1>3, <2>1 DEF PipelineInv, EngineInv
    <3>2. Pending[currentUser] \in Seq(Writes)
        BY <3>1, WritesOfProperties DEF Pending, PipelineInv, EngineInv
    <3>3. 1 \in 1..Len(Pending[currentUser]) /\ Pending[currentUser][1] = first
        BY <2>1, <3>2
    <3>4. QED
        BY <3>1, <3>3 DEF Awaits
  <2>3. \A x : Awaits(x)' <=> Awaits(x)
      BY <2>1 DEF Awaits
  <2> HIDE DEF first
  <2>4. ASSUME NEW x \in Writes
        PROVE  \/ told'[x] = told[x]
               \/ x = first /\ told[x] = "none" /\ told'[x] = "ok"
      BY <1>2, <2>1, <2>2 DEF TruthInv
  <2>5. ASSUME NEW x \in Writes
        PROVE  /\ "ok" \in {told'[x], outcome'[x]} => x \in AppliedWrites'
               /\ told'[x] = "rejected" => outcome'[x] = "rejected"
               /\ told'[x] = "ok" /\ outcome'[x] = "none" => Awaits(x)'
               /\ FateKept(x)
    <3>1. CASE told'[x] = told[x]
        BY <2>1, <2>3, <3>1 DEF TruthInv, CallersHearTheTruth, FateKept
    <3>2. CASE x = first /\ told[x] = "none" /\ told'[x] = "ok"
        BY <2>1, <2>2, <2>3, <3>2 DEF FateKept
    <3>3. QED
        BY <2>4, <3>1, <3>2
  <2>6. CallersHearTheTruth'
      BY <2>5 DEF CallersHearTheTruth
  <2>7. QED
      BY <2>1, <2>5, <2>6 DEF TruthInv
<1> HIDE DEF first
<1>13. QED
    BY <1>1, <1>6, <1>7, <1>8, <1>10, <1>11, <1>12 DEF Promise!Next

LEMMA TruthInvariant == Spec => []TruthInv
<1>1. Init => TruthInv
    BY DEF Init, TruthInv, CallersHearTheTruth, Listening
<1>2. PipelineInv /\ PipelineInv' /\ OrderInv /\ TruthInv /\ [Next]_vars
          => TruthInv'
    BY TruthStep
<1> QED
    BY <1>1, <1>2, PipelineInvariant, OrderInvariant, PTL DEF Spec

(***************************************************************************)
(* The completions of setData and updateData tell the truth                *)
(* (HandleSuccessfulWrite, HandleRejectedWrite).                           *)
(***************************************************************************)
THEOREM CallersAreToldTheTruth == Spec => []CallersHearTheTruth
<1>1. TruthInv => CallersHearTheTruth
    BY DEF TruthInv
<1> QED
    BY <1>1, TruthInvariant, PTL

(***************************************************************************)
(* A fate is final: over lost acknowledgements, resends, ids given out     *)
(* again and restarts no write leaves the disk twice, and no completion is *)
(* called twice, not even when the process dies between the two and the    *)
(* write is sent again.                                                    *)
(***************************************************************************)
FatesAreFinal ==
    [][\A w \in Writes :
          /\ outcome[w] # "none" => outcome'[w] = outcome[w]
          /\ told[w] # "none" => told'[w] = told[w]
      ]_<<outcome, told>>

THEOREM DecidedOnce == Spec => FatesAreFinal
<1> DEFINE Final == \A w \in Writes :
               /\ outcome[w] # "none" => outcome'[w] = outcome[w]
               /\ told[w] # "none" => told'[w] = told[w]
<1>1. ASSUME PipelineInv, PipelineInv', OrderInv, TruthInv, [Next]_vars
      PROVE  Final
    BY <1>1, TruthStep DEF FateKept
<1>2. PipelineInv /\ PipelineInv' /\ OrderInv /\ TruthInv /\ [Next]_vars
          => [Final]_<<outcome, told>>
    BY <1>1
<1> HIDE DEF Final
<1>3. Spec => [][Final]_<<outcome, told>>
    BY <1>2, PipelineInvariant, OrderInvariant, TruthInvariant, PTL DEF Spec
<1> QED
    BY <1>3 DEF FatesAreFinal, Final

(***************************************************************************)
(* While a write of the current user is pending, something that is bound   *)
(* to come is on its way: the token of a stream that starts, the end of a  *)
(* backoff, an answer the client has not read, or a message to a backend   *)
(* that serves. No refusal, lost stream, user change or restart leaves the *)
(* client waiting for nothing: the part of WritesSettle that is not about  *)
(* fairness.                                                               *)
(***************************************************************************)
PendingWritesMove ==
    queue[currentUser] # <<>> =>
        \/ streamState \in {"Starting", "Backoff"}
        \/ replies # <<>>
        \/ sent # <<>> /\ BackendIsServing

THEOREM NobodyWaitsForNothing == Spec => []PendingWritesMove
<1>1. ASSUME PipelineInv, queue[currentUser] # <<>>,
             streamState \notin {"Starting", "Backoff"}, replies = <<>>
      PROVE  sent # <<>> /\ BackendIsServing
  <2>1. writePipeline # <<>> /\ streamState = "Open"
      BY <1>1, PipelineFacts
      DEF PipelineInv, StreamInv, PipelineIsFrontOfQueue, IsStarted
  <2>2. OnTheWire # <<>>
      BY <1>1, <2>1 DEF PipelineInv, StreamInv, WireMatchesPipeline
  <2>3. /\ OnTheWire = Answered(replies) \o sent
        /\ Answered(replies) = <<>> /\ sent \in Seq(Message)
      BY <1>1, WireFacts, AnsweredProperties DEF PipelineInv, StreamInv
  <2>4. sent # <<>>
      BY <2>2, <2>3
  <2> QED
      BY <1>1, <2>4 DEF BackendIsServing
<1>2. PipelineInv => PendingWritesMove
    BY <1>1 DEF PendingWritesMove
<1> QED
    BY <1>2, PipelineInvariant, PTL

=============================================================================
