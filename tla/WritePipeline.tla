--------------------------- MODULE WritePipeline ---------------------------
(***************************************************************************)
(* How the Firestore client gets the app's writes to the backend: the      *)
(* mutation queues on disk (LocalStore, LevelDbMutationQueue), the         *)
(* callbacks of SyncEngine, the write pipeline of RemoteStore and the      *)
(* write stream (Stream, WriteStream) with its handshake, errors, backoff, *)
(* idle timeout and restarts.                                              *)
(*                                                                         *)
(* Everything the client does runs on one serial queue (AsyncQueue), so    *)
(* one task of that queue is one action. The wire has two ends: sent holds *)
(* the messages the backend has not received yet, replies those it has     *)
(* answered and the client has not read. gRPC keeps both in order and      *)
(* hands over the messages of a stream before its final status. A stream   *)
(* that ends loses what is on the wire. How the stream gets its token is   *)
(* the subject of module StreamCredentials.                                *)
(***************************************************************************)
EXTENDS Naturals, Sequences, SequencesExt, FiniteSetsExt

CONSTANTS
    Users,              \* Firebase users, and "nobody signed in"
    MaxWrites,          \* bound: calls of setData and updateData
    MaxPendingWrites,   \* kMaxPendingWrites, 10 in the code
    MaxFaults           \* bound: lost connections, idle timeouts, user
                        \* changes and deaths of the process

ASSUME MaxWritesAssumption == MaxWrites \in Nat
ASSUME MaxPendingAssumption == MaxPendingWrites \in Nat \ {0}
ASSUME MaxFaultsAssumption == MaxFaults \in Nat

VARIABLES
    \* SyncEngine and LocalStore
    currentUser,        \* current_user_
    queue,              \* the mutation batches of each user, on disk
    nextBatchId,        \* next_batch_id_ of the current mutation queue
    callbacks,          \* mutation_callbacks_
    \* RemoteStore, WriteStream and its gRPC stream
    writePipeline,      \* write_pipeline_
    streamState,        \* state_
    handshakeComplete,  \* handshake_complete_
    idleTimer,          \* idleness_timer_ is set
    sent, replies,      \* the wire
    \* the backend: writes it has applied for each user, and for each of them
    \* the writes of the same user applied since it last was
    applied, appliedSince,
    \* history: calls so far, the fate of each write, and what its caller heard
    calls, outcome, told,
    faults

engineVars == <<currentUser, queue, nextBatchId, callbacks>>
streamVars == <<writePipeline, streamState, handshakeComplete, idleTimer, sent>>
backendVars == <<applied, appliedSince>>
historyVars == <<calls, outcome, told>>
vars == <<engineVars, streamVars, replies, backendVars, historyVars, faults>>

Writes == 1..MaxWrites

\* A mutation batch; write is the call it came from.
Batch == [id: Nat, write: Writes]

\* The first message of a stream.
Handshake == [id |-> 0, write |-> 0]

Message == Batch \cup {Handshake}

\* A result, or the permanent error that ends the stream.
Reply == [message: Message, ok: BOOLEAN]

\* The callback of write, registered under its user and batch id.
Callback == [user: Users, id: Nat, write: Writes]

StreamStates == {"Initial", "Starting", "Open", "Error", "Backoff"}

(***************************************************************************)
(* The type of every variable.                                             *)
(***************************************************************************)
PipelineTypeOK ==
    /\ currentUser \in Users
    /\ queue \in [Users -> Seq(Batch)]
    /\ nextBatchId \in Nat \ {0}
    /\ callbacks \in SUBSET Callback
    /\ writePipeline \in Seq(Batch)
    /\ streamState \in StreamStates
    /\ handshakeComplete \in BOOLEAN
    /\ idleTimer \in BOOLEAN
    /\ sent \in Seq(Message)
    /\ replies \in Seq(Reply)
    /\ applied \in [Users -> SUBSET Writes]
    /\ appliedSince \in [Writes -> SUBSET Writes]
    /\ calls \in 0..MaxWrites
    /\ outcome \in [Writes -> {"none", "ok", "rejected"}]
    /\ told \in [Writes -> {"none", "ok", "rejected"}]
    /\ faults \in 0..MaxFaults

Init ==
    /\ currentUser \in Users
    /\ queue = [u \in Users |-> <<>>]
    /\ nextBatchId = 1
    /\ callbacks = {}
    /\ writePipeline = <<>>
    /\ streamState = "Initial"
    /\ handshakeComplete = FALSE
    /\ idleTimer = FALSE
    /\ sent = <<>>
    /\ replies = <<>>
    /\ applied = [u \in Users |-> {}]
    /\ appliedSince = [w \in Writes |-> {}]
    /\ calls = 0
    /\ outcome = [w \in Writes |-> "none"]
    /\ told = [w \in Writes |-> "none"]
    /\ faults = 0

Fault == faults < MaxFaults /\ faults' = faults + 1

-----------------------------------------------------------------------------
(* The mutation queue *)

\* Mutant of LoadNextBatchId: the ids of pending batches are given out again.
CountFromOne == 1

\* One more than the highest batch id on disk, of any user.
LoadNextBatchId ==
    Max({0} \cup UNION {{queue[u][i].id : i \in 1..Len(queue[u])} : u \in Users}) + 1

\* The batches of queue q with an id greater than id. Ids ascend.
BatchesAfter(q, id) ==
    LET k == CHOOSE k \in 0..Len(q) :
                 \A i \in 1..Len(q) : i > k <=> q[i].id > id
    IN  SubSeq(q, k + 1, Len(q))

\* Queue q without batch id.
RemoveMutationBatch(q, id) ==
    RemoveAt(q, CHOOSE i \in 1..Len(q) : q[i].id = id)

-----------------------------------------------------------------------------
(* RemoteStore and Stream *)

IsStarted(state) == state \in {"Starting", "Open", "Backoff"}

\* Stream::Start: after an error only once the backoff has elapsed.
Start(state) == IF state = "Error" THEN "Backoff" ELSE "Starting"

\* The state after "if (ShouldStartWriteStream()) StartWriteStream()".
StartIfNeeded(state, pipeline) ==
    IF ~IsStarted(state) /\ pipeline # <<>> THEN Start(state) ELSE state

\* The pipeline after the loop of FillWritePipeline over queue q.
Filled(pipeline, q) ==
    LET next == IF pipeline = <<>> THEN q
                ELSE BatchesAfter(q, Last(pipeline).id)
        free == MaxPendingWrites - Len(pipeline)
    IN  pipeline \o SubSeq(next, 1, Min({free, Len(next)}))

\* Mutant of FillWritePipeline: a new batch does not wait for the handshake.
WriteBeforeHandshake(pipeline, q, state, handshaken, wire, timer) ==
    LET filled == Filled(pipeline, q)
        added == SubSeq(filled, Len(pipeline) + 1, Len(filled))
        writes == state = "Open" /\ added # <<>>
    IN  /\ writePipeline' = filled
        /\ streamState' = StartIfNeeded(state, filled)
        /\ sent' = IF writes THEN wire \o added ELSE wire
        /\ idleTimer' = IF filled = <<>> THEN timer \/ state = "Open"
                        ELSE timer /\ ~writes

\* FillWritePipeline with the given pipeline, queue, stream state and messages
\* on the wire. A batch is written to the stream only after the handshake;
\* any write to the stream cancels the idle timer.
FillWritePipeline(pipeline, q, state, handshaken, wire, timer) ==
    LET filled == Filled(pipeline, q)
        added == SubSeq(filled, Len(pipeline) + 1, Len(filled))
        writes == state = "Open" /\ handshaken /\ added # <<>>
    IN  /\ writePipeline' = filled
        /\ streamState' = StartIfNeeded(state, filled)
        /\ sent' = IF writes THEN wire \o added ELSE wire
        /\ idleTimer' = IF filled = <<>> THEN timer \/ state = "Open"
                        ELSE timer /\ ~writes

-----------------------------------------------------------------------------
(* SyncEngine: the callbacks *)

\* The callback registered for batch id by the current user.
FoundCallbacks(id) == {c \in callbacks : c.user = currentUser /\ c.id = id}

\* What the callers have been told once that callback has got the status.
ToldOf(id, status) ==
    [w \in Writes |-> IF \E c \in FoundCallbacks(id) : c.write = w
                      THEN status ELSE told[w]]

\* NotifyUser: the callback gets the status (it is put on the main queue,
\* which runs it by itself) and is forgotten.
NotifyUser(id, status) ==
    /\ told' = ToldOf(id, status)
    /\ callbacks' = callbacks \ FoundCallbacks(id)

\* HandleSuccessfulWrite and HandleRejectedWrite, when nothing interrupts them:
\* the caller hears of it and the batch leaves the disk. The first does it in
\* this order, the second in the other: see DiesBeforeAcknowledgeBatch and
\* DiesBeforeNotifyUser.
HandleWriteResult(batch, status) ==
    /\ NotifyUser(batch.id, status)
    /\ outcome' = [outcome EXCEPT ![batch.write] = status]
    /\ queue' = [queue EXCEPT ![currentUser] =
           RemoveMutationBatch(@, batch.id)]
    /\ UNCHANGED <<currentUser, nextBatchId, calls>>

\* WriteMutations: on disk first, then the pipeline. insert does not replace
\* a callback that is registered under the same key.
WriteMutations ==
    /\ calls < MaxWrites
    /\ calls' = calls + 1
    /\ LET batch == [id |-> nextBatchId, write |-> calls + 1]
           callback == [user |-> currentUser, id |-> nextBatchId,
                        write |-> calls + 1]
           taken == \E c \in callbacks :
                       c.user = currentUser /\ c.id = nextBatchId
       IN  /\ queue' = [queue EXCEPT ![currentUser] = Append(@, batch)]
           /\ callbacks' = IF taken THEN callbacks
                           ELSE callbacks \cup {callback}
    /\ nextBatchId' = nextBatchId + 1
    /\ FillWritePipeline(writePipeline, queue'[currentUser], streamState,
                         handshakeComplete, sent, idleTimer)
    /\ UNCHANGED <<currentUser, handshakeComplete, replies, backendVars,
                   outcome, told, faults>>

-----------------------------------------------------------------------------
(* The write stream *)

\* The token has arrived: the gRPC stream is created, open at once, and its
\* first message is the handshake.
ResumeStartWithCredentials ==
    /\ streamState = "Starting"
    /\ streamState' = "Open"
    /\ sent' = <<Handshake>>
    /\ UNCHANGED <<engineVars, writePipeline, handshakeComplete, idleTimer,
                   replies, backendVars, historyVars, faults>>

\* BackoffAndTryRestarting: the delay has elapsed.
BackoffElapsed ==
    /\ streamState = "Backoff"
    /\ streamState' = "Starting"
    /\ UNCHANGED <<engineVars, writePipeline, handshakeComplete, idleTimer,
                   sent, replies, backendVars, historyVars, faults>>

\* Mutant of OnWriteStreamHandshakeComplete: only the oldest write is sent.
SendFirstOnHandshake ==
    /\ handshakeComplete' = TRUE
    /\ sent' = sent \o SubSeq(writePipeline, 1, 1)
    /\ idleTimer' = (idleTimer /\ writePipeline = <<>>)
    /\ UNCHANGED <<engineVars, writePipeline, streamState, historyVars>>

\* The whole pipeline is sent, again if it was on an earlier stream.
OnWriteStreamHandshakeComplete ==
    /\ handshakeComplete' = TRUE
    /\ sent' = sent \o writePipeline
    /\ idleTimer' = (idleTimer /\ writePipeline = <<>>)
    /\ UNCHANGED <<engineVars, writePipeline, streamState, historyVars>>

\* A result belongs to the front of the pipeline; nothing in it says so.
OnWriteStreamMutationResult ==
    /\ HandleWriteResult(Head(writePipeline), "ok")
    /\ FillWritePipeline(Tail(writePipeline), queue'[currentUser], streamState,
                         handshakeComplete, sent, idleTimer)
    /\ UNCHANGED handshakeComplete

\* OnStreamRead, NotifyStreamResponse: the first response of a stream is the
\* handshake's.
OnStreamRead ==
    /\ replies # <<>>
    /\ Head(replies).ok
    /\ replies' = Tail(replies)
    /\ IF handshakeComplete THEN OnWriteStreamMutationResult
                            ELSE OnWriteStreamHandshakeComplete
    /\ UNCHANGED <<backendVars, faults>>

\* Close with a transient error: no token, no connection, a lost connection,
\* or any error before the handshake. The pipeline is kept.
StreamFails ==
    /\ IsStarted(streamState) /\ streamState # "Backoff"
    /\ Fault
    /\ streamState' = StartIfNeeded("Error", writePipeline)
    /\ handshakeComplete' = FALSE
    /\ idleTimer' = FALSE
    /\ sent' = <<>>
    /\ replies' = <<>>
    /\ UNCHANGED <<engineVars, writePipeline, backendVars, historyVars>>

\* Mutant of StreamRejects: the refused write stays where it is.
RefusedWriteRetried ==
    /\ replies # <<>>
    /\ ~Head(replies).ok
    /\ replies' = <<>>
    /\ handshakeComplete' = FALSE
    /\ streamState' = StartIfNeeded("Error", writePipeline)
    /\ idleTimer' = FALSE
    /\ sent' = <<>>
    /\ UNCHANGED <<engineVars, writePipeline, historyVars, backendVars, faults>>

\* Close with a permanent error after the handshake: HandleWriteError drops the
\* front of the pipeline, inhibits the backoff and refills the pipeline, which
\* may start the stream again. The flag of the handshake is reset last, but
\* the new stream is not open yet, so nothing is written to it.
StreamRejects ==
    /\ replies # <<>>
    /\ ~Head(replies).ok
    /\ replies' = <<>>
    /\ handshakeComplete' = FALSE
    /\ HandleWriteResult(Head(writePipeline), "rejected")
    /\ FillWritePipeline(Tail(writePipeline), queue'[currentUser], "Initial",
                         handshakeComplete, <<>>, FALSE)
    /\ UNCHANGED <<backendVars, faults>>

\* The idle timer fires: Stop.
IdleTimeout ==
    /\ idleTimer
    /\ Fault
    /\ streamState' = "Initial"
    /\ handshakeComplete' = FALSE
    /\ idleTimer' = FALSE
    /\ sent' = <<>>
    /\ replies' = <<>>
    /\ UNCHANGED <<engineVars, writePipeline, backendVars, historyVars>>

\* Mutant of HandleCredentialChange: the pipeline survives the user change.
PipelineKept(user) ==
    /\ Fault
    /\ currentUser' = user
    /\ nextBatchId' = IF user = currentUser THEN nextBatchId
                                            ELSE LoadNextBatchId
    /\ handshakeComplete' = FALSE
    /\ replies' = <<>>
    /\ FillWritePipeline(writePipeline, queue[user],
           IF IsStarted(streamState) THEN "Initial" ELSE streamState,
           FALSE, <<>>, FALSE)
    /\ UNCHANGED <<queue, callbacks, backendVars, historyVars>>

\* HandleCredentialChange of SyncEngine, LocalStore and RemoteStore: another
\* user's queue, a new stream, and a pipeline filled from the start. A stream
\* that is not started is not closed: one in error still backs off.
HandleCredentialChange(user) ==
    /\ Fault
    /\ currentUser' = user
    /\ nextBatchId' = IF user = currentUser THEN nextBatchId
                                            ELSE LoadNextBatchId
    /\ handshakeComplete' = FALSE
    /\ replies' = <<>>
    /\ FillWritePipeline(<<>>, queue[user],
           IF IsStarted(streamState) THEN "Initial" ELSE streamState,
           FALSE, <<>>, FALSE)
    /\ UNCHANGED <<queue, callbacks, backendVars, historyVars>>

\* The process has died and comes back with the user the keychain has: the
\* queues are on disk, as the last step left them; the callbacks, the pipeline
\* and the stream are gone.
Restarted(user) ==
    /\ Fault
    /\ currentUser' = user
    /\ nextBatchId' = LoadNextBatchId'
    /\ callbacks' = {}
    /\ handshakeComplete' = FALSE
    /\ replies' = <<>>
    /\ FillWritePipeline(<<>>, queue'[user], "Initial", FALSE, <<>>, FALSE)
    /\ UNCHANGED backendVars

\* The process dies between two tasks of the worker queue.
Initialize(user) ==
    /\ UNCHANGED <<queue, historyVars>>
    /\ Restarted(user)

\* It dies in HandleSuccessfulWrite, between NotifyUser and AcknowledgeBatch:
\* the caller has been told, and the batch is on disk as if nothing had come.
DiesBeforeAcknowledgeBatch(user) ==
    /\ replies # <<>>
    /\ Head(replies).ok
    /\ handshakeComplete
    /\ told' = ToldOf(Head(writePipeline).id, "ok")
    /\ UNCHANGED <<queue, calls, outcome>>
    /\ Restarted(user)

\* Mutant of DiesBeforeNotifyUser: the caller was called back first.
DiesAfterNotifyUser(user) ==
    /\ replies # <<>>
    /\ ~Head(replies).ok
    /\ told' = ToldOf(Head(writePipeline).id, "rejected")
    /\ UNCHANGED <<queue, calls, outcome>>
    /\ Restarted(user)

\* It dies in HandleRejectedWrite, between RejectBatch and NotifyUser: the
\* batch has left the disk, and its caller never hears of it.
DiesBeforeNotifyUser(user) ==
    /\ replies # <<>>
    /\ ~Head(replies).ok
    /\ LET batch == Head(writePipeline)
       IN  /\ outcome' = [outcome EXCEPT ![batch.write] = "rejected"]
           /\ queue' = [queue EXCEPT ![currentUser] =
                  RemoveMutationBatch(@, batch.id)]
    /\ UNCHANGED <<calls, told>>
    /\ Restarted(user)

-----------------------------------------------------------------------------
(* The backend: it serves the messages of a stream in order, and stops     *)
(* serving a stream after refusing a write on it.                          *)

Answer(ok) ==
    /\ replies' = Append(replies, [message |-> Head(sent), ok |-> ok])
    /\ sent' = Tail(sent)

BackendIsServing == sent # <<>> /\ \A i \in 1..Len(replies) : replies[i].ok

BackendGreets ==
    /\ BackendIsServing
    /\ Head(sent) = Handshake
    /\ Answer(TRUE)
    /\ UNCHANGED backendVars

BackendApplies ==
    /\ BackendIsServing
    /\ Head(sent) # Handshake
    /\ LET w == Head(sent).write
       IN  /\ applied' = [applied EXCEPT ![currentUser] = @ \cup {w}]
           /\ appliedSince' = [x \in Writes |->
                  IF x = w THEN {}
                  ELSE IF x \in applied[currentUser]
                       THEN appliedSince[x] \cup {w} ELSE appliedSince[x]]
    /\ Answer(TRUE)

BackendRefuses ==
    /\ BackendIsServing
    /\ Head(sent) # Handshake
    /\ Answer(FALSE)
    /\ UNCHANGED backendVars

BackendStep ==
    /\ BackendGreets \/ BackendApplies \/ BackendRefuses
    /\ UNCHANGED <<engineVars, writePipeline, streamState, handshakeComplete,
                   idleTimer, historyVars, faults>>

-----------------------------------------------------------------------------

Next ==
    \/ WriteMutations
    \/ ResumeStartWithCredentials
    \/ BackoffElapsed
    \/ OnStreamRead
    \/ StreamFails
    \/ StreamRejects
    \/ IdleTimeout
    \/ \E user \in Users : \/ HandleCredentialChange(user)
                          \/ Initialize(user)
                          \/ DiesBeforeAcknowledgeBatch(user)
                          \/ DiesBeforeNotifyUser(user)
    \/ BackendStep

Spec == Init /\ [][Next]_vars

\* The worker queue runs its tasks and timers, tokens arrive, and a backend
\* that is connected answers. Faults are bounded: these hold once they stop.
Fairness ==
    /\ WF_vars(ResumeStartWithCredentials)
    /\ WF_vars(BackoffElapsed)
    /\ WF_vars(OnStreamRead)
    /\ WF_vars(StreamRejects)
    /\ WF_vars(BackendStep)

FairSpec == Spec /\ Fairness

-----------------------------------------------------------------------------
(* Properties *)

\* The messages the backend has answered, or will receive, in order.
OnTheWire == [i \in 1..Len(replies) |-> replies[i].message] \o sent

(***************************************************************************)
(* The pipeline is always the front of the current user's queue, as long   *)
(* as the queue or the limit of the pipeline allows, and the stream is on  *)
(* its way whenever the pipeline is not empty: no write is left behind by  *)
(* an error, a refusal, a user change or a restart, and none is sent for   *)
(* another user.                                                           *)
(***************************************************************************)
PipelineIsFrontOfQueue ==
    /\ writePipeline = SubSeq(queue[currentUser], 1,
           Min({MaxPendingWrites, Len(queue[currentUser])}))
    /\ writePipeline # <<>> => IsStarted(streamState) /\ ~idleTimer

(***************************************************************************)
(* A response carries no name: OnWriteStreamMutationResult and             *)
(* HandleWriteError give it to the front of the pipeline ("should be       *)
(* correlated to the first write in our write pipeline"). That is right    *)
(* because the wire of a stream past its handshake holds exactly the       *)
(* pipeline, whatever was resent, refused or lost before; until then it    *)
(* holds the handshake alone.                                              *)
(***************************************************************************)
WireMatchesPipeline ==
    OnTheWire = CASE streamState # "Open" -> <<>>
                  [] streamState = "Open" /\ handshakeComplete -> writePipeline
                  [] OTHER -> <<Handshake>>

(***************************************************************************)
(* Batch ids are given out again once their batches are gone, after a      *)
(* restart and after each user change. Still the ids of the pending        *)
(* batches of a user ascend in the order of the calls, and a callback is   *)
(* registered only under the id of the batch its call made.                *)
(***************************************************************************)
CallbacksBelongToBatches ==
    /\ \A u \in Users : \A i, j \in 1..Len(queue[u]) :
          i < j => /\ queue[u][i].id < queue[u][j].id
                   /\ queue[u][i].write < queue[u][j].write
    /\ \A i \in 1..Len(queue[currentUser]) :
          queue[currentUser][i].id < nextBatchId
    /\ \A c \in callbacks : \E i \in 1..Len(queue[c.user]) :
          queue[c.user][i] = [id |-> c.id, write |-> c.write]

(***************************************************************************)
(* Resending after a lost acknowledgement may apply an older write after a *)
(* newer one for a moment. Once a write is acknowledged, or its caller is  *)
(* told so, it was applied after all earlier writes of its user, and only  *)
(* later writes of its user have been applied, or ever will be, over it:   *)
(* even if the process dies before the acknowledgement is on disk, and the *)
(* write is sent again.                                                    *)
(***************************************************************************)
AcknowledgedInOrder ==
    \A w \in Writes :
        (outcome[w] = "ok" \/ told[w] = "ok") => \A x \in appliedSince[w] : x > w

(***************************************************************************)
(* A write that is pending is decided, or its user is not the current one. *)
(***************************************************************************)
WritesSettle ==
    \A u \in Users : \A w \in Writes :
        (\E i \in 1..Len(queue[u]) : queue[u][i].write = w) ~>
            (outcome[w] # "none" \/ currentUser # u)

(***************************************************************************)
(* The pipeline keeps Firestore's promise to the callers (PendingWrites).  *)
(***************************************************************************)
Promise == INSTANCE PendingWrites WITH
    pending <- [u \in Users |->
                   [i \in 1..Len(queue[u]) |-> queue[u][i].write]],
    applied <- UNION {applied[u] : u \in Users},
    listening <- {c.write : c \in callbacks}

PromiseKept == Promise!Spec

=============================================================================
