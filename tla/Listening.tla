----------------------------- MODULE Listening -----------------------------
(***************************************************************************)
(* How the Firestore client keeps the listeners of one query informed: the *)
(* multiplexing of EventManager and QueryListener, the view of SyncEngine, *)
(* the target, the watch stream and the aggregator of RemoteStore, and the *)
(* heuristics of OnlineStateTracker. The feed and the profile screen       *)
(* listen to the same query, all posts, so they share one view and one     *)
(* target.                                                                 *)
(*                                                                         *)
(* All of it runs on the serial worker queue: one task is one action. The  *)
(* result of the query is abstracted to a version, 0 when there are no     *)
(* posts. A target keeps its id when it is given up and listened to again  *)
(* (AllocateTarget), so answers meant for an earlier listen can arrive     *)
(* during a later one; outstanding_responses_ is there to tell them apart. *)
(* Not modelled: limbo documents, existence filters, and the app's own     *)
(* pending writes, which the view overlays on the delivered documents:     *)
(* they come and go with a write, its rejection and a change of user.      *)
(***************************************************************************)
EXTENDS Integers, Sequences, FiniteSets

CONSTANTS
    MaxListens,     \* bound: calls of addSnapshotListener
    Nothing, Failed,\* what a listener may have heard besides a version
    MaxVersion,     \* bound: changes of the posts at the backend
    MaxFaults       \* bound: lost connections, idle timeouts, user changes

ASSUME HeardAssumption ==
    Nothing \notin Nat /\ Failed \notin Nat /\ Nothing # Failed
ASSUME BoundsAssumption ==
    MaxListens \in Nat /\ MaxVersion \in Nat /\ MaxFaults \in Nat

VARIABLES
    \* EventManager and its QueryListeners
    listeners,      \* queries_: the listeners of the query
    raised,         \* those with raised_initial_event_
    heard,          \* the last event given to each listener
    \* SyncEngine and LocalStore
    viewed,         \* query_views_by_query_ has the query
    synced,         \* sync_state_ of its view: not from cache
    cache,          \* version of the documents in the local cache
    \* RemoteStore and WatchStream
    listening,      \* listen_targets_ has the target
    streamState,    \* state_
    idleTimer,      \* idleness_timer_ is set
    \* WatchChangeAggregator
    outstanding,    \* outstanding_responses_ of the target
    current,        \* current_ of the target
    pendingDocs,    \* pending_document_updates_, 0 when there are none
    \* OnlineStateTracker
    onlineState,    \* state_
    failures,       \* watch_stream_failures_
    onlineTimer,    \* online_state_timer_ is set
    \* the wire and the backend
    requests, responses,
    permitted,      \* the rules let this stream's user read the posts
    watching,       \* the backend sends changes on this stream
    version,        \* of the posts at the backend
    \* history: calls of addSnapshotListener, the version when the query was
    \* first listened to, and when the backend last added the target
    listens, listenedAt, addedAt,
    faults

managerVars == <<listeners, raised, heard>>
engineVars == <<viewed, synced, cache>>
streamVars == <<listening, streamState, idleTimer>>
targetVars == <<outstanding, current, pendingDocs>>
onlineVars == <<onlineState, failures, onlineTimer>>
wireVars == <<requests, responses>>
backendVars == <<permitted, watching, version, addedAt>>
vars == <<managerVars, engineVars, streamVars, targetVars, onlineVars,
          wireVars, backendVars, listens, listenedAt, faults>>

Listeners == 1..MaxListens

Versions == 0..MaxVersion

\* Messages to the client; docs of a change: the version it brings.
Plain(kind) == [kind |-> kind, docs |-> 0]
Change(docs) == [kind |-> "change", docs |-> docs]
Response == [kind: {"added", "removed", "rejected", "change", "snapshot"},
             docs: Versions]

StreamStates == {"Initial", "Starting", "Open", "Error", "Backoff"}

(***************************************************************************)
(* The type of every variable.                                             *)
(***************************************************************************)
ListeningTypeOK ==
    /\ listeners \in SUBSET Listeners
    /\ raised \in SUBSET listeners
    /\ heard \in [Listeners -> Versions \cup {Nothing, Failed}]
    /\ viewed \in BOOLEAN /\ synced \in BOOLEAN
    /\ cache \in Versions
    /\ listening \in BOOLEAN /\ idleTimer \in BOOLEAN
    /\ streamState \in StreamStates
    /\ outstanding \in Int
    /\ current \in BOOLEAN
    /\ pendingDocs \in Versions
    /\ onlineState \in {"Unknown", "Online", "Offline"}
    /\ failures \in Nat
    /\ onlineTimer \in BOOLEAN
    /\ requests \in Seq({"watch", "unwatch"})
    /\ responses \in Seq(Response)
    /\ permitted \in BOOLEAN /\ watching \in BOOLEAN
    /\ version \in Versions
    /\ listens \in 0..MaxListens
    /\ listenedAt \in Versions /\ addedAt \in Versions
    /\ faults \in 0..MaxFaults

Init ==
    /\ listeners = {} /\ raised = {}
    /\ heard = [l \in Listeners |-> Nothing]
    /\ viewed = FALSE /\ synced = FALSE
    /\ cache = 0
    /\ listening = FALSE /\ idleTimer = FALSE
    /\ streamState = "Initial"
    /\ outstanding = 0 /\ current = FALSE /\ pendingDocs = 0
    /\ onlineState = "Unknown" /\ failures = 0 /\ onlineTimer = FALSE
    /\ requests = <<>> /\ responses = <<>>
    /\ permitted = TRUE /\ watching = FALSE
    /\ version \in {0, MaxVersion \div 2}
    /\ listens = 0 /\ listenedAt = 0 /\ addedAt = 0
    /\ faults = 0

Fault == faults < MaxFaults /\ faults' = faults + 1

-----------------------------------------------------------------------------
(* QueryListener *)

\* Without documents the first event waits until they are known to be all, or
\* until the client is offline.
ShouldRaiseInitialEvent(docs, isSynced, online) ==
    isSynced \/ docs # 0 \/ online = "Offline"

\* The listeners ls after the view has become docs and isSynced, in the given
\* online state: a first event, or one for changed documents. Changes of the
\* metadata alone are not asked for (includeMetadataChanges:NO).
Notify(ls, docs, isSynced, online) ==
    LET hearing == {l \in ls : IF l \in raised THEN docs # cache
                    ELSE ShouldRaiseInitialEvent(docs, isSynced, online)}
    IN  /\ raised' = (raised \cap ls) \cup hearing
        /\ heard' = [l \in Listeners |->
                        IF l \in hearing THEN docs ELSE heard[l]]

-----------------------------------------------------------------------------
(* OnlineStateTracker *)

UpdateState(state) ==
    /\ onlineState' = state
    /\ failures' = 0
    /\ onlineTimer' = FALSE

\* Only the first attempt sets the timer.
HandleWatchStreamStart ==
    /\ onlineState' = IF failures = 0 THEN "Unknown" ELSE onlineState
    /\ onlineTimer' = (onlineTimer \/ failures = 0)
    /\ UNCHANGED failures

\* HandleWatchStreamFailure and, as the stream is still needed,
\* HandleWatchStreamStart. One failure is enough (kMaxWatchStreamFailures).
RetryAfterFailure ==
    /\ onlineState' = IF onlineState = "Online" THEN "Unknown" ELSE "Offline"
    /\ failures' = IF onlineState = "Online" THEN 0 ELSE failures + 1
    /\ onlineTimer' = (onlineState = "Online")

\* Mutant of HandleOnlineStateChange: the view changes and no listener is told.
StateChangeNotRaised(online) ==
    /\ synced' = (synced /\ online # "Offline")
    /\ UNCHANGED <<managerVars, viewed, cache>>

\* The view after a change of the online state: offline it is from cache.
HandleOnlineStateChange(online) ==
    /\ synced' = (synced /\ online # "Offline")
    /\ Notify(listeners, cache, synced', online)
    /\ UNCHANGED <<listeners, viewed, cache>>

-----------------------------------------------------------------------------
(* RemoteStore: targets *)

IsStarted(state) == state \in {"Starting", "Open", "Backoff"}

\* Stream::Start: after an error only once the backoff has elapsed.
Start(state) == IF state = "Error" THEN "Backoff" ELSE "Starting"

\* SendWatchRequest and SendUnwatchRequest; any write cancels the idle timer.
Send(request) ==
    /\ requests' = Append(requests, request)
    /\ outstanding' = outstanding + 1

\* Listen of RemoteStore. A stream that is not open yet sends it later.
Listen ==
    /\ listening' = TRUE
    /\ UNCHANGED <<current, pendingDocs, responses>>
    /\ \/ /\ ~IsStarted(streamState)
          /\ streamState' = Start(streamState)
          /\ HandleWatchStreamStart
          /\ UNCHANGED <<requests, outstanding, idleTimer>>
       \/ /\ IsStarted(streamState) /\ streamState # "Open"
          /\ UNCHANGED <<streamState, onlineVars, requests, outstanding,
                         idleTimer>>
       \/ /\ streamState = "Open"
          /\ Send("watch")
          /\ idleTimer' = FALSE
          /\ UNCHANGED <<streamState, onlineVars>>

\* StopListening of RemoteStore. Without listens nothing can confirm that a
\* stream which is not open is healthy.
StopListening ==
    /\ listening' = FALSE
    /\ UNCHANGED <<streamState, current, pendingDocs, responses>>
    /\ IF streamState = "Open"
       THEN /\ Send("unwatch")
            /\ idleTimer' = TRUE
            /\ UNCHANGED onlineVars
       ELSE /\ UpdateState("Unknown")
            /\ UNCHANGED <<requests, outstanding, idleTimer>>

-----------------------------------------------------------------------------
(* EventManager *)

\* A new listener is given the view there is; the first one makes SyncEngine
\* compute it from the local cache and listen.
AddQueryListener(l) ==
    /\ listens < MaxListens /\ l = listens + 1
    /\ listens' = l
    /\ listeners' = listeners \cup {l}
    /\ viewed' = TRUE
    /\ UNCHANGED <<cache, backendVars, faults>>
    /\ IF listeners = {}
       THEN /\ synced' = FALSE
            /\ Notify({l}, cache, FALSE, onlineState)
            /\ Listen
            /\ listenedAt' = version
       ELSE /\ Notify(listeners \cup {l}, cache, synced, onlineState)
            /\ UNCHANGED <<synced, streamVars, targetVars, onlineVars,
                           wireVars, listenedAt>>

\* Mutant of RemoveQueryListener: the documents go with the last listener.
DocumentsGoWithListener(l) ==
    /\ listeners' = listeners \ {l}
    /\ raised' = raised \ {l}
    /\ cache' = IF listeners = {l} THEN 0 ELSE cache
    /\ UNCHANGED <<heard, backendVars, listens, listenedAt, faults>>
    /\ IF listeners = {l}
       THEN viewed' = FALSE /\ synced' = FALSE /\ StopListening
       ELSE UNCHANGED <<viewed, synced, streamVars, targetVars, onlineVars,
                        wireVars>>

\* The last listener ends the listen. A listener that has been given an error
\* is not in the list any more.
RemoveQueryListener(l) ==
    /\ listeners' = listeners \ {l}
    /\ raised' = raised \ {l}
    /\ UNCHANGED <<heard, cache, backendVars, listens, listenedAt, faults>>
    /\ IF listeners = {l}
       THEN /\ viewed' = FALSE
            /\ synced' = FALSE
            /\ StopListening
       ELSE UNCHANGED <<viewed, synced, streamVars, targetVars, onlineVars,
                        wireVars>>

-----------------------------------------------------------------------------
(* The watch stream *)

\* The aggregator and the wire of a stream that is not open.
Disconnected ==
    /\ outstanding' = 0 /\ current' = FALSE /\ pendingDocs' = 0
    /\ requests' = <<>> /\ responses' = <<>>
    /\ watching' = FALSE

\* The token has arrived: the stream is open and sends the listen there is.
ResumeStartWithCredentials ==
    /\ streamState = "Starting"
    /\ streamState' = "Open"
    /\ requests' = IF listening THEN <<"watch">> ELSE <<>>
    /\ outstanding' = IF listening THEN 1 ELSE 0
    /\ permitted' \in BOOLEAN
    /\ UNCHANGED <<managerVars, engineVars, listening, idleTimer, current,
                   pendingDocs, onlineVars, responses, watching, version,
                   addedAt, listens, listenedAt, faults>>

BackoffElapsed ==
    /\ streamState = "Backoff"
    /\ streamState' = "Starting"
    /\ UNCHANGED <<managerVars, engineVars, listening, idleTimer, targetVars,
                   onlineVars, wireVars, backendVars, listens, listenedAt, faults>>

\* No token, no connection, or a lost one. The stream is started again while
\* there is a listen.
StreamFails ==
    /\ streamState \in {"Starting", "Open"}
    /\ Fault
    /\ Disconnected
    /\ idleTimer' = FALSE
    /\ streamState' = IF listening THEN "Backoff" ELSE "Error"
    /\ IF listening THEN RetryAfterFailure ELSE UpdateState("Unknown")
    /\ HandleOnlineStateChange(onlineState')
    /\ UNCHANGED <<listening, permitted, version, addedAt, listens, listenedAt>>

\* Mutant of IdleTimeout: the stream is closed and the state kept.
IdleStaysOnline ==
    /\ idleTimer
    /\ Fault
    /\ Disconnected
    /\ idleTimer' = FALSE
    /\ streamState' = "Initial"
    /\ UNCHANGED <<managerVars, engineVars, onlineVars, listening, permitted,
                   version, addedAt, listens, listenedAt>>

\* Nothing has been written to the stream for a minute: Stop.
IdleTimeout ==
    /\ idleTimer
    /\ Fault
    /\ Disconnected
    /\ idleTimer' = FALSE
    /\ streamState' = "Initial"
    /\ UpdateState("Unknown")
    /\ HandleOnlineStateChange("Unknown")
    /\ UNCHANGED <<listening, permitted, version, addedAt, listens, listenedAt>>

\* RemoteStore's part of a change of user: both streams are torn down and
\* created again. SyncEngine's part before it (sync_engine.cc 247-255) only
\* exchanges the pending writes the view overlays, and no delivered document.
HandleCredentialChange ==
    /\ Fault
    /\ Disconnected
    /\ idleTimer' = FALSE
    /\ streamState' = CASE listening -> IF IsStarted(streamState)
                                        THEN "Starting" ELSE Start(streamState)
                        [] OTHER -> IF IsStarted(streamState)
                                    THEN "Initial" ELSE streamState
    /\ onlineState' = "Unknown"
    /\ failures' = 0
    /\ onlineTimer' = listening
    /\ HandleOnlineStateChange("Unknown")
    /\ UNCHANGED <<listening, permitted, version, addedAt, listens, listenedAt>>

\* No answer for ten seconds (kOnlineStateTimeout).
OnlineStateTimeout ==
    /\ onlineTimer
    /\ onlineTimer' = FALSE
    /\ onlineState' = "Offline"
    /\ HandleOnlineStateChange("Offline")
    /\ UNCHANGED <<failures, streamVars, targetVars, wireVars, backendVars,
                   listens, listenedAt, faults>>

-----------------------------------------------------------------------------
(* OnWatchStreamChange: any message means the client is online *)

Read(kind) ==
    /\ responses # <<>>
    /\ Head(responses).kind = kind
    /\ responses' = Tail(responses)
    /\ UpdateState("Online")
    /\ UNCHANGED <<requests, backendVars, listens, listenedAt, faults>>

\* Mutant of IsActiveTarget: answers that are still due are not looked at.
ListenedTo == listening

\* The target has no request that is still to be answered.
IsActiveTarget == listening /\ outstanding = 0

TargetAdded ==
    /\ Read("added")
    /\ outstanding' = outstanding - 1
    /\ HandleOnlineStateChange("Online")
    /\ UNCHANGED <<streamVars, current, pendingDocs>>

\* Mutant of TargetRemoved: RecordTargetResponse is not called.
RemovalNotRecorded ==
    /\ Read("removed")
    /\ current' = (current /\ outstanding # 1)
    /\ HandleOnlineStateChange("Online")
    /\ UNCHANGED <<streamVars, outstanding, pendingDocs>>

\* The state of the target goes with the last answer.
TargetRemoved ==
    /\ Read("removed")
    /\ outstanding' = outstanding - 1
    /\ current' = (current /\ outstanding # 1)
    /\ HandleOnlineStateChange("Online")
    /\ UNCHANGED <<streamVars, pendingDocs>>

\* Mutant of TargetRejected: ProcessTargetError leaves listen_targets_ alone.
RejectedListenStays ==
    /\ Read("rejected")
    /\ viewed' = FALSE /\ synced' = FALSE
    /\ listeners' = {} /\ raised' = {}
    /\ heard' = [l \in Listeners |-> IF l \in listeners THEN Failed ELSE heard[l]]
    /\ UNCHANGED <<cache, streamVars, targetVars>>

\* ProcessTargetError, HandleRejectedListen: all listeners are given the error
\* and forgotten. Nothing marks the stream idle.
TargetRejected ==
    /\ Read("rejected")
    /\ UNCHANGED <<cache, streamState, idleTimer, pendingDocs>>
    /\ IF listening
       THEN /\ listening' = FALSE
            /\ outstanding' = 0 /\ current' = FALSE
            /\ viewed' = FALSE /\ synced' = FALSE
            /\ listeners' = {} /\ raised' = {}
            /\ heard' = [l \in Listeners |->
                            IF l \in listeners THEN Failed ELSE heard[l]]
       ELSE UNCHANGED <<listening, outstanding, current, viewed, synced,
                        managerVars>>

\* Documents and CURRENT, ignored when they are for an earlier listen.
TargetChanged ==
    /\ Read("change")
    /\ IF IsActiveTarget
       THEN /\ pendingDocs' = Head(responses).docs
            /\ current' = TRUE
       ELSE UNCHANGED <<pendingDocs, current>>
    /\ HandleOnlineStateChange("Online")
    /\ UNCHANGED <<streamVars, outstanding>>

\* RaiseWatchSnapshot, ApplyRemoteEvent: documents are kept whatever became
\* of the target; only an active one brings the view up to date.
RaiseWatchSnapshot ==
    /\ Read("snapshot")
    /\ LET docs == IF pendingDocs = 0 THEN cache ELSE pendingDocs
           isSynced == IF IsActiveTarget THEN current ELSE synced
       IN  /\ cache' = docs
           /\ synced' = isSynced
           /\ Notify(listeners, docs, isSynced, "Online")
    /\ pendingDocs' = 0
    /\ UNCHANGED <<listeners, viewed, streamVars, outstanding, current>>

OnWatchStreamChange ==
    \/ TargetAdded
    \/ TargetRemoved
    \/ TargetRejected
    \/ TargetChanged
    \/ RaiseWatchSnapshot

-----------------------------------------------------------------------------
(* The backend answers every request, in order. Whether the user may read  *)
(* the posts does not change during a stream.                              *)

BackendAnswers ==
    /\ requests # <<>>
    /\ requests' = Tail(requests)
    /\ watching' = (Head(requests) = "watch" /\ permitted)
    /\ addedAt' = IF watching' THEN version ELSE addedAt
    /\ responses' = responses \o
           CASE Head(requests) = "unwatch" -> <<Plain("removed")>>
             [] watching' -> <<Plain("added"), Change(version),
                               Plain("snapshot")>>
             [] OTHER -> <<Plain("rejected")>>
    /\ UNCHANGED <<managerVars, engineVars, streamVars, targetVars, onlineVars,
                   permitted, version, listens, listenedAt, faults>>

\* Somebody posts, and a target that is watched is told.
PostsChange ==
    /\ version < MaxVersion
    /\ version' = version + 1
    /\ responses' = IF watching
                    THEN responses \o <<Change(version'), Plain("snapshot")>>
                    ELSE responses
    /\ UNCHANGED <<managerVars, engineVars, streamVars, targetVars, onlineVars,
                   requests, permitted, watching, addedAt, listens, listenedAt, faults>>

Backend == BackendAnswers \/ PostsChange

-----------------------------------------------------------------------------

Engine ==
    \/ ResumeStartWithCredentials
    \/ BackoffElapsed
    \/ StreamFails
    \/ IdleTimeout
    \/ HandleCredentialChange
    \/ OnlineStateTimeout
    \/ OnWatchStreamChange

Next ==
    \/ \E l \in Listeners :
          \/ AddQueryListener(l)
          \/ l \in listeners /\ RemoveQueryListener(l)
    \/ Engine
    \/ Backend

Spec == Init /\ [][Next]_vars

\* The worker queue runs its tasks and timers, and tokens arrive.
ClientFairness ==
    /\ WF_vars(ResumeStartWithCredentials)
    /\ WF_vars(BackoffElapsed)
    /\ WF_vars(OnWatchStreamChange)
    /\ WF_vars(OnlineStateTimeout)

ClientFairSpec == Spec /\ ClientFairness

-----------------------------------------------------------------------------
(* Properties *)

(***************************************************************************)
(* EventManager, SyncEngine and RemoteStore each keep their own record of  *)
(* what is listened to. The three agree whatever order listeners come, go  *)
(* and are rejected in ("We already listen to query", "Trying to stop      *)
(* listening to a query not found", "target not currently watched"), and   *)
(* a listen always has a stream on its way that nothing marks idle.        *)
(***************************************************************************)
ListensAgree ==
    /\ viewed = (listeners # {})
    /\ listening = (listeners # {})
    /\ listening => IsStarted(streamState) /\ ~idleTimer
    /\ synced => viewed

(***************************************************************************)
(* outstanding_responses_ counts the answers that are still due on this    *)
(* stream, so a target is active only when nothing on the wire belongs to  *)
(* an earlier listen. It does not hold on a stream whose listens are       *)
(* rejected: a rejection forgets the requests sent after the rejected one. *)
(***************************************************************************)
Due == {i \in 1..Len(responses) : responses[i].kind \in {"added", "removed"}}

OutstandingMatchesWire ==
    /\ permitted => outstanding = Len(requests) + Cardinality(Due)
    /\ streamState # "Open" => outstanding = 0 /\ requests = <<>> /\ responses = <<>>
    /\ streamState = "Open" => LET last == Len(requests)
       IN  IF last = 0 THEN permitted => watching = listening
                       ELSE (requests[last] = "watch") = listening \/ ~permitted

(***************************************************************************)
(* A view that is not from cache contains everything the backend had when  *)
(* the query was first listened to, also when answers meant for an earlier *)
(* listen, on the same stream and with the same target id, come later.     *)
(***************************************************************************)
SyncedMeansCaughtUp == synced => cache >= listenedAt

(***************************************************************************)
(* On an open stream nothing is lost for good: once every request has been *)
(* answered and every message read, each listener has heard exactly the    *)
(* posts the backend holds, however often the query was given up and       *)
(* listened to again on that stream, and whatever changed meanwhile.       *)
(***************************************************************************)
AllAnswered ==
    listening /\ permitted /\ streamState = "Open" /\ requests = <<>>

QuietStreamIsUpToDate ==
    AllAnswered /\ responses = <<>> =>
        \A l \in listeners : l \in raised /\ heard[l] = version

(***************************************************************************)
(* Every listener that has heard anything has heard the documents the view *)
(* now has; one that has not heard yet has nothing to hear: no documents,  *)
(* not known to be all, and a client that is not offline. No order of view *)
(* changes, online state changes and late listeners misses a first event.  *)
(***************************************************************************)
ListenersSeeTheView ==
    /\ \A l \in raised : heard[l] = cache
    /\ \A l \in listeners \ raised :
          heard[l] = Nothing /\ ~ShouldRaiseInitialEvent(cache, synced, onlineState)

(***************************************************************************)
(* What OnlineStateTracker asserts: the timer is set only in state Unknown *)
(* and before any failure, it is not set when a stream starts, and once    *)
(* online there is neither a timer nor a count of failures. The client     *)
(* thinks it is online only on an open stream.                             *)
(***************************************************************************)
OnlineStateSound ==
    /\ onlineTimer => /\ onlineState = "Unknown"
                      /\ failures = 0
                      /\ IsStarted(streamState)
    /\ onlineState = "Online" => /\ failures = 0
                                 /\ streamState = "Open"

(***************************************************************************)
(* What remote_event.h says of a target that is marked current: the        *)
(* backend "has sent us all changes up to the point at which the target    *)
(* was added".                                                             *)
(***************************************************************************)
CurrentMeansCaughtUp ==
    IsActiveTarget /\ current => cache >= addedAt \/ pendingDocs >= addedAt

(***************************************************************************)
(* What online_state_tracker.cc (44-46) says of a client that is trying to *)
(* connect: when the timeout elapses it considers itself offline, even if  *)
(* the attempt neither succeeds nor fails.                                 *)
(***************************************************************************)
OfflineWithinTimeout ==
    listening ~> (~listening \/ onlineState # "Unknown")

=============================================================================
