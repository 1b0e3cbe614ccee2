-------------------------- MODULE ListeningProofs --------------------------
(***************************************************************************)
(* Proofs about Listening, for any number of listeners, changes of the     *)
(* posts, faults, and any length of the wire.                              *)
(*                                                                         *)
(* ListeningInv is about the client alone: what is listened to, what the   *)
(* listeners have heard, and the online state. WireInv adds what is on its *)
(* way: which answers are due, and that documents read after the last of   *)
(* them are new enough for the present listen. NewestInv follows the       *)
(* newest posts from the wire over the target to the view.                 *)
(***************************************************************************)
EXTENDS Listening, FiniteSetTheorems, TLAPS

\* Only an open stream carries anything.
WireNeedsStream ==
    streamState # "Open" =>
        requests = <<>> /\ responses = <<>> /\ ~watching

\* addSnapshotListener numbers its listeners, and one that does not exist yet
\* has heard nothing.
ListenersAreNumbered ==
    /\ listeners \subseteq 1..listens
    /\ \A l \in Listeners : l > listens => heard[l] = Nothing

\* The part of the invariant about listeners and their view.
ViewInv ==
    /\ listeners \in SUBSET Listeners
    /\ raised \in SUBSET listeners
    /\ heard \in [Listeners -> Versions \cup {Nothing, Failed}]
    /\ viewed \in BOOLEAN /\ synced \in BOOLEAN
    /\ cache \in Versions
    /\ listens \in 0..MaxListens
    /\ viewed = (listeners # {})
    /\ synced => viewed
    /\ ListenersSeeTheView
    /\ ListenersAreNumbered

\* The part about the stream and what travels on it.
StreamInv ==
    /\ listening \in BOOLEAN /\ idleTimer \in BOOLEAN
    /\ streamState \in StreamStates
    /\ listening => IsStarted(streamState) /\ ~idleTimer
    /\ idleTimer => streamState = "Open"
    /\ OnlineStateSound
    /\ WireNeedsStream

\* The types of what the two parts leave out.
TargetInv ==
    /\ outstanding \in Int /\ current \in BOOLEAN
    /\ pendingDocs \in Versions
    /\ onlineState \in {"Unknown", "Online", "Offline"}
    /\ failures \in Nat /\ onlineTimer \in BOOLEAN
    /\ requests \in Seq({"watch", "unwatch"})
    /\ responses \in Seq(Response)
    /\ permitted \in BOOLEAN /\ watching \in BOOLEAN
    /\ version \in Versions
    /\ listenedAt \in Versions /\ addedAt \in Versions
    /\ faults \in 0..MaxFaults

ListeningInv ==
    /\ ViewInv
    /\ StreamInv
    /\ TargetInv
    /\ listening = viewed

LEMMA ListeningInvImplies ==
    ASSUME ListeningInv
    PROVE  ListeningTypeOK /\ ListensAgree /\ ListenersSeeTheView /\ OnlineStateSound
  BY DEF ListeningInv, ViewInv, StreamInv, TargetInv, ListeningTypeOK, ListensAgree

LEMMA ListeningInitially == ASSUME Init PROVE ListeningInv
<1>1. ViewInv
  <2>1. heard \in [Listeners -> Versions \cup {Nothing, Failed}]
      BY DEF Init
  <2>2. cache \in Versions /\ listens \in 0..MaxListens
      BY BoundsAssumption DEF Init, Versions
  <2>3. ListenersSeeTheView /\ ListenersAreNumbered
      BY DEF Init, ListenersSeeTheView, ListenersAreNumbered
  <2> QED
      BY <2>1, <2>2, <2>3 DEF Init, ViewInv
<1>2. StreamInv
    BY DEF Init, StreamInv, StreamStates, OnlineStateSound, WireNeedsStream
<1>3. TargetInv
  <2>1. requests \in Seq({"watch", "unwatch"}) /\ responses \in Seq(Response)
      BY DEF Init
  <2>2. version \in Versions
      BY BoundsAssumption DEF Init, Versions
  <2>3. /\ pendingDocs \in Versions
        /\ listenedAt \in Versions /\ addedAt \in Versions
        /\ faults \in 0..MaxFaults
      BY BoundsAssumption DEF Init, Versions
  <2>4. outstanding \in Int /\ failures \in Nat
      BY DEF Init
  <2>5. /\ current \in BOOLEAN /\ onlineTimer \in BOOLEAN
        /\ permitted \in BOOLEAN /\ watching \in BOOLEAN
        /\ onlineState \in {"Unknown", "Online", "Offline"}
      BY Zenon DEF Init
  <2> QED
      BY <2>1, <2>2, <2>3, <2>4, <2>5 DEF TargetInv
<1> QED
    BY <1>1, <1>2, <1>3 DEF Init, ListeningInv

-----------------------------------------------------------------------------
(* What is told to the listeners *)

\* Notify makes ListenersSeeTheView true of the view it tells the listeners.
LEMMA NotifyTells ==
    ASSUME ViewInv,
           NEW ls \in SUBSET Listeners, NEW docs \in Versions,
           NEW isSynced \in BOOLEAN, NEW online,
           Notify(ls, docs, isSynced, online),
           \A l \in ls : l \in listeners \/ heard[l] = Nothing
    PROVE  /\ raised' \in SUBSET ls
           /\ heard' \in [Listeners -> Versions \cup {Nothing, Failed}]
           /\ \A l \in raised' : heard'[l] = docs
           /\ \A l \in ls \ raised' :
                 heard'[l] = Nothing /\ ~ShouldRaiseInitialEvent(docs, isSynced, online)
           /\ \A l \in Listeners \ ls : heard'[l] = heard[l]
  BY DEF ViewInv, ListenersSeeTheView, Notify

LEMMA StateChangeTold ==
    ASSUME ViewInv, HandleOnlineStateChange(onlineState'), listens' = listens
    PROVE  ViewInv' /\ UNCHANGED <<listeners, viewed, cache>>
<1> USE DEF HandleOnlineStateChange
<1>1. synced' \in BOOLEAN /\ listeners \in SUBSET Listeners /\ cache \in Versions
    BY DEF ViewInv
<1>2. /\ raised' \in SUBSET listeners
      /\ heard' \in [Listeners -> Versions \cup {Nothing, Failed}]
      /\ \A l \in raised' : heard'[l] = cache
      /\ \A l \in listeners \ raised' :
            /\ heard'[l] = Nothing
            /\ ~ShouldRaiseInitialEvent(cache, synced', onlineState')
      /\ \A l \in Listeners \ listeners : heard'[l] = heard[l]
    BY <1>1, NotifyTells
<1>3. ListenersSeeTheView'
    BY <1>2 DEF ListenersSeeTheView, ShouldRaiseInitialEvent
<1>4. ListenersAreNumbered'
    BY <1>2 DEF ListenersAreNumbered, ViewInv, Listeners
<1> QED
    BY <1>1, <1>2, <1>3, <1>4 DEF ViewInv

\* A step that leaves listeners and view alone, and can only make a client that
\* is offline forget it, keeps their part of the invariant.
LEMMA ViewUntouched ==
    ASSUME ViewInv, UNCHANGED <<managerVars, engineVars, listens>>,
           onlineState' \in {onlineState, "Unknown"}
    PROVE  ViewInv'
  BY DEF ViewInv, managerVars, engineVars, ListenersSeeTheView,
         ListenersAreNumbered, ShouldRaiseInitialEvent, Listeners

-----------------------------------------------------------------------------
(* Listeners come and go *)

\* Without a stream nothing is outstanding on the wire, so starting one leaves
\* the wire as it is.
LEMMA ListenStarts ==
    ASSUME StreamInv, TargetInv, Listen, UNCHANGED <<backendVars, faults>>,
           listenedAt' \in Versions
    PROVE  /\ StreamInv' /\ TargetInv'
           /\ listening'
           /\ onlineState' \in {onlineState, "Unknown"}
<1> USE DEF Listen, backendVars
<1>1. CASE ~IsStarted(streamState)
  <2>1. /\ streamState' = Start(streamState)
        /\ HandleWatchStreamStart
        /\ UNCHANGED <<requests, outstanding, idleTimer>>
      BY <1>1 DEF IsStarted
  <2>2. streamState' \in {"Backoff", "Starting"}
      BY <2>1 DEF Start
  <2>3. TargetInv' /\ onlineState' \in {onlineState, "Unknown"}
      BY <2>1 DEF TargetInv, HandleWatchStreamStart
  <2>4. OnlineStateSound'
      BY <1>1, <2>1, <2>2 DEF TargetInv, StreamInv, HandleWatchStreamStart,
         OnlineStateSound, IsStarted
  <2>5. streamState # "Open" /\ ~listening
      BY <1>1 DEF StreamInv, IsStarted
  <2>6. idleTimer' = FALSE
      BY <2>1, <2>5 DEF StreamInv
  <2>7. WireNeedsStream'
      BY <2>1, <2>5 DEF StreamInv, WireNeedsStream
  <2> QED
      BY <2>1, <2>2, <2>3, <2>4, <2>6, <2>7 DEF StreamInv, StreamStates, IsStarted
<1>2. CASE IsStarted(streamState) /\ streamState # "Open"
  <2>1. UNCHANGED <<streamState, onlineVars, requests, outstanding, idleTimer>>
      BY <1>2
  <2> QED
      BY <1>2, <2>1 DEF StreamInv, TargetInv, onlineVars, IsStarted,
         OnlineStateSound, WireNeedsStream
<1>3. CASE streamState = "Open"
  <2>1. /\ Send("watch") /\ idleTimer' = FALSE
        /\ UNCHANGED <<streamState, onlineVars>>
      BY <1>3 DEF IsStarted
  <2>2. TargetInv'
      BY <2>1 DEF TargetInv, Send, onlineVars
  <2> QED
      BY <1>3, <2>1, <2>2 DEF StreamInv, onlineVars, IsStarted, OnlineStateSound,
         WireNeedsStream
<1> QED
    BY <1>1, <1>2, <1>3

LEMMA AddQueryListenerSafe ==
    ASSUME ListeningInv, NEW l \in Listeners, AddQueryListener(l)
    PROVE  ListeningInv'
<1> USE DEF ListeningInv
<1>1. /\ l \notin listeners /\ heard[l] = Nothing
      /\ listens' \in 0..MaxListens
      /\ listeners' = listeners \cup {l} /\ listeners' \in SUBSET Listeners
      /\ UNCHANGED <<cache, backendVars, faults>> /\ viewed' = TRUE
    BY BoundsAssumption
    DEF AddQueryListener, ViewInv, ListenersAreNumbered, Listeners
<1>2. /\ synced' \in BOOLEAN
      /\ Notify(listeners', cache, synced', onlineState)
      /\ StreamInv' /\ TargetInv' /\ listening' = TRUE
      /\ onlineState' \in {onlineState, "Unknown"}
  <2>1. CASE listeners = {}
    <3>1. /\ synced' = FALSE /\ Notify({l}, cache, FALSE, onlineState)
          /\ Listen /\ listenedAt' = version
        BY <2>1 DEF AddQueryListener
    <3>2. /\ StreamInv' /\ TargetInv' /\ listening' = TRUE
          /\ onlineState' \in {onlineState, "Unknown"}
        BY <1>1, <3>1, ListenStarts DEF TargetInv, backendVars, Listen
    <3> QED
        BY <1>1, <2>1, <3>1, <3>2
  <2>2. CASE listeners # {}
    <3>1. /\ Notify(listeners \cup {l}, cache, synced, onlineState)
          /\ UNCHANGED <<synced, streamVars, targetVars, onlineVars, wireVars,
                         listenedAt>>
        BY <2>2 DEF AddQueryListener
    <3>2. StreamInv' /\ TargetInv'
        BY <1>1, <3>1 DEF StreamInv, TargetInv, streamVars, targetVars,
           onlineVars, wireVars, backendVars, OnlineStateSound, WireNeedsStream
    <3> QED
        BY <1>1, <2>2, <3>1, <3>2 DEF ViewInv, streamVars, onlineVars
  <2> QED
      BY <2>1, <2>2
<1>3. /\ raised' \in SUBSET listeners'
      /\ heard' \in [Listeners -> Versions \cup {Nothing, Failed}]
      /\ \A k \in raised' : heard'[k] = cache
      /\ \A k \in listeners' \ raised' :
            /\ heard'[k] = Nothing
            /\ ~ShouldRaiseInitialEvent(cache, synced', onlineState)
      /\ \A k \in Listeners \ listeners' : heard'[k] = heard[k]
  <2>1. cache \in Versions /\ \A k \in listeners' : k \in listeners \/ heard[k] = Nothing
      BY <1>1 DEF ViewInv
  <2>2. ViewInv /\ listeners' \in SUBSET Listeners
      BY <1>1
  <2>3. synced' \in BOOLEAN /\ Notify(listeners', cache, synced', onlineState)
      BY <1>2
  <2> HIDE DEF ListeningInv
  <2> QED
      BY <2>1, <2>2, <2>3 DEF Notify, ViewInv, ListenersSeeTheView
<1>4. ListenersSeeTheView'
    BY <1>1, <1>2, <1>3 DEF ListenersSeeTheView, ShouldRaiseInitialEvent
<1>5. ListenersAreNumbered'
    BY <1>1, <1>3 DEF AddQueryListener, ListenersAreNumbered, ViewInv, Listeners
<1> QED
    BY <1>1, <1>2, <1>3, <1>4, <1>5 DEF ViewInv

LEMMA RemoveQueryListenerSafe ==
    ASSUME ListeningInv, NEW l \in listeners, RemoveQueryListener(l)
    PROVE  ListeningInv'
<1> USE DEF ListeningInv
<1>1. CASE listeners = {l}
  <2>1. /\ listeners' = {} /\ raised' = {} /\ viewed' = FALSE /\ synced' = FALSE
        /\ StopListening
        /\ UNCHANGED <<heard, cache, backendVars, listens, listenedAt, faults>>
      BY <1>1 DEF RemoveQueryListener, ViewInv
  <2>2. ViewInv'
      BY <2>1 DEF ViewInv, ListenersSeeTheView, ListenersAreNumbered
  <2>3. StreamInv' /\ TargetInv'
    <3>1. CASE streamState = "Open"
      <4>1. /\ Send("unwatch") /\ idleTimer' = TRUE /\ UNCHANGED onlineVars
            /\ listening' = FALSE
            /\ UNCHANGED <<streamState, current, pendingDocs, responses>>
          BY <2>1, <3>1 DEF StopListening
      <4>2. TargetInv'
          BY <2>1, <4>1 DEF TargetInv, Send, backendVars, onlineVars
      <4> QED
          BY <2>1, <3>1, <4>1, <4>2 DEF StreamInv, onlineVars, IsStarted,
             OnlineStateSound, WireNeedsStream
    <3>2. CASE streamState # "Open"
      <4>1. /\ UpdateState("Unknown") /\ listening' = FALSE
            /\ UNCHANGED <<requests, outstanding, idleTimer, streamState, current,
                           pendingDocs, responses>>
          BY <2>1, <3>2 DEF StopListening
      <4>2. TargetInv'
          BY <2>1, <4>1 DEF TargetInv, UpdateState, backendVars
      <4> QED
          BY <2>1, <3>2, <4>1, <4>2 DEF StreamInv, UpdateState, backendVars,
             OnlineStateSound, WireNeedsStream, IsStarted
    <3> QED
        BY <3>1, <3>2
  <2> QED
      BY <2>1, <2>2, <2>3 DEF StopListening
<1>2. CASE listeners # {l}
  <2>1. /\ UNCHANGED <<viewed, synced, streamVars, targetVars, onlineVars,
                       wireVars>>
        /\ listeners' = listeners \ {l} /\ raised' = raised \ {l}
        /\ listeners' # {}
        /\ UNCHANGED <<heard, cache, backendVars, listens, listenedAt, faults>>
      BY <1>2 DEF RemoveQueryListener
  <2>2. ViewInv'
      BY <2>1 DEF ViewInv, ListenersSeeTheView, ListenersAreNumbered, onlineVars,
         ShouldRaiseInitialEvent
  <2>3. StreamInv' /\ TargetInv'
      BY <2>1 DEF StreamInv, TargetInv, streamVars, targetVars, onlineVars,
         wireVars, backendVars, OnlineStateSound, WireNeedsStream
  <2> QED
      BY <2>1, <2>2, <2>3 DEF streamVars
<1> QED
    BY <1>1, <1>2

-----------------------------------------------------------------------------
(* The stream *)

LEMMA ResumeStartSafe ==
    ASSUME ListeningInv, ResumeStartWithCredentials
    PROVE  ListeningInv'
<1> USE DEF ListeningInv, ResumeStartWithCredentials
<1>1. ViewInv'
    BY ViewUntouched DEF onlineVars
<1>2. StreamInv'
    BY DEF StreamInv, IsStarted, StreamStates, onlineVars, OnlineStateSound,
       WireNeedsStream
<1>3. requests' \in Seq({"watch", "unwatch"})
  <2>1. <<>> \in Seq({"watch", "unwatch"}) /\ <<"watch">> \in Seq({"watch", "unwatch"})
      OBVIOUS
  <2>2. requests' = <<>> \/ requests' = <<"watch">>
      BY Zenon
  <2> QED
      BY <2>1, <2>2, Zenon
<1>4. outstanding' \in Int
    OBVIOUS
<1>5. TargetInv'
    BY <1>3, <1>4 DEF TargetInv, onlineVars
<1> QED
    BY <1>1, <1>2, <1>5 DEF engineVars

LEMMA BackoffElapsedSafe ==
    ASSUME ListeningInv, BackoffElapsed
    PROVE  ListeningInv'
<1> USE DEF ListeningInv, BackoffElapsed
<1>1. ViewInv'
    BY ViewUntouched DEF onlineVars
<1>2. StreamInv'
    BY DEF StreamInv, IsStarted, StreamStates, onlineVars, wireVars, backendVars,
       OnlineStateSound, WireNeedsStream
<1>3. TargetInv'
    BY DEF TargetInv, targetVars, onlineVars, wireVars, backendVars
<1> QED
    BY <1>1, <1>2, <1>3 DEF engineVars

\* A stream that goes away takes the wire with it: what is left to show is
\* that the new state of the stream fits the listen there is.
LEMMA DisconnectedSafe ==
    ASSUME ListeningInv, Disconnected, Fault, idleTimer' = FALSE,
           HandleOnlineStateChange(onlineState'),
           UNCHANGED <<listening, permitted, version, addedAt, listens, listenedAt>>,
           onlineState' \in {"Unknown", "Offline"},
           failures' \in Nat, onlineTimer' \in BOOLEAN,
           streamState' \in StreamStates \ {"Open"},
           listening => IsStarted(streamState'),
           onlineTimer' => onlineState' = "Unknown" /\ failures' = 0 /\ listening
    PROVE  ListeningInv'
<1>1. ViewInv' /\ UNCHANGED <<listeners, viewed, cache>>
    BY StateChangeTold DEF ListeningInv
<1>2. OnlineStateSound' /\ WireNeedsStream'
    BY DEF OnlineStateSound, WireNeedsStream, Disconnected
<1>3. StreamInv'
    BY <1>2 DEF ListeningInv, StreamInv, StreamStates, IsStarted
<1>4. requests' \in Seq({"watch", "unwatch"}) /\ responses' \in Seq(Response)
    BY DEF Disconnected
<1>5. /\ outstanding' \in Int /\ pendingDocs' \in Versions
      /\ current' = FALSE /\ watching' = FALSE
    BY BoundsAssumption DEF Disconnected, Versions
<1>6. faults' \in 0..MaxFaults
    BY BoundsAssumption DEF Fault, ListeningInv, TargetInv
<1>7. TargetInv'
    BY <1>4, <1>5, <1>6 DEF ListeningInv, TargetInv
<1> QED
    BY <1>1, <1>3, <1>7 DEF ListeningInv

LEMMA StreamFailsSafe ==
    ASSUME ListeningInv, StreamFails
    PROVE  ListeningInv'
<1>1. /\ onlineState' \in {"Unknown", "Offline"} /\ failures' \in Nat
      /\ onlineTimer' => onlineState' = "Unknown" /\ failures' = 0 /\ listening
      /\ onlineTimer' \in BOOLEAN
  <2>1. CASE listening
    <3>1. RetryAfterFailure /\ failures \in Nat
        BY <2>1 DEF StreamFails, ListeningInv, TargetInv
    <3>2. CASE onlineState = "Online"
      <4>1. onlineState' = "Unknown" /\ failures' = 0 /\ onlineTimer' = TRUE
          BY <3>1, <3>2, Zenon DEF RetryAfterFailure
      <4> QED
          BY <2>1, <4>1
    <3>3. CASE onlineState # "Online"
      <4>1. /\ onlineState' = "Offline" /\ failures' = failures + 1
            /\ onlineTimer' = FALSE
          BY <3>1, <3>3, Zenon DEF RetryAfterFailure
      <4>2. failures' \in Nat
          BY <3>1, <4>1
      <4> QED
          BY <4>1, <4>2, Zenon
    <3> QED
        BY <3>2, <3>3
  <2>2. CASE ~listening
    <3>1. IF listening THEN RetryAfterFailure ELSE UpdateState("Unknown")
        BY Zenon DEF StreamFails
    <3>2. onlineState' = "Unknown" /\ failures' = 0 /\ onlineTimer' = FALSE
        BY <2>2, <3>1, Zenon DEF UpdateState
    <3> QED
        BY <3>2
  <2> QED
      BY <2>1, <2>2
<1>2. /\ streamState' \in StreamStates \ {"Open"}
      /\ listening => IsStarted(streamState')
    BY DEF StreamFails, StreamStates, IsStarted
<1> QED
    BY <1>1, <1>2, DisconnectedSafe DEF StreamFails

LEMMA IdleTimeoutSafe ==
    ASSUME ListeningInv, IdleTimeout
    PROVE  ListeningInv'
<1>1. /\ onlineState' = "Unknown" /\ failures' = 0 /\ onlineTimer' = FALSE
      /\ streamState' \in StreamStates \ {"Open"}
    BY DEF IdleTimeout, UpdateState, StreamStates
<1>2. ~listening
    BY DEF IdleTimeout, ListeningInv, StreamInv
<1>3. HandleOnlineStateChange(onlineState')
    BY <1>1 DEF IdleTimeout
<1> QED
    BY <1>1, <1>2, <1>3, DisconnectedSafe DEF IdleTimeout

LEMMA HandleCredentialChangeSafe ==
    ASSUME ListeningInv, HandleCredentialChange
    PROVE  ListeningInv'
<1>1. /\ streamState' \in StreamStates \ {"Open"}
      /\ listening => IsStarted(streamState')
  <2>1. streamState \in StreamStates
      BY DEF ListeningInv, StreamInv
  <2>2. CASE listening
    <3>1. streamState' = IF IsStarted(streamState) THEN "Starting" ELSE Start(streamState)
        BY <2>2 DEF HandleCredentialChange
    <3> QED
        BY <3>1 DEF StreamStates, IsStarted, Start
  <2>3. CASE ~listening
    <3>1. streamState' = IF IsStarted(streamState) THEN "Initial" ELSE streamState
        BY <2>3 DEF HandleCredentialChange
    <3> QED
        BY <2>1, <2>3, <3>1 DEF StreamStates, IsStarted
  <2> QED
      BY <2>2, <2>3
<1>2. /\ onlineState' = "Unknown" /\ failures' = 0 /\ onlineTimer' = listening
    BY DEF HandleCredentialChange
<1>3. HandleOnlineStateChange(onlineState')
    BY <1>2 DEF HandleCredentialChange
<1>4. /\ onlineState' \in {"Unknown", "Offline"} /\ failures' \in Nat
      /\ onlineTimer' => onlineState' = "Unknown" /\ failures' = 0 /\ listening
    BY <1>2
<1>5. onlineTimer' \in BOOLEAN
    BY <1>2, Zenon DEF ListeningInv, StreamInv
<1> QED
    BY <1>1, <1>3, <1>4, <1>5, DisconnectedSafe DEF HandleCredentialChange

LEMMA OnlineStateTimeoutSafe ==
    ASSUME ListeningInv, OnlineStateTimeout
    PROVE  ListeningInv'
<1>1. /\ onlineState' = "Offline" /\ onlineTimer' = FALSE
      /\ UNCHANGED <<failures, streamVars, targetVars, wireVars, backendVars,
                     listens, listenedAt, faults>>
    BY DEF OnlineStateTimeout
<1>2. HandleOnlineStateChange(onlineState')
    BY <1>1 DEF OnlineStateTimeout
<1>3. ViewInv' /\ UNCHANGED viewed
    BY <1>1, <1>2, StateChangeTold DEF ListeningInv
<1>4. StreamInv'
    BY <1>1 DEF ListeningInv, StreamInv, streamVars, wireVars, backendVars,
       OnlineStateSound, WireNeedsStream
<1>5. TargetInv'
    BY <1>1 DEF ListeningInv, TargetInv, targetVars, wireVars, backendVars
<1> QED
    BY <1>1, <1>3, <1>4, <1>5 DEF ListeningInv, streamVars

-----------------------------------------------------------------------------
(* Messages *)

LEMMA ReadNeedsStream ==
    ASSUME ListeningInv, NEW kind, Read(kind)
    PROVE  /\ streamState = "Open"
           /\ Head(responses) \in Response
           /\ responses' \in Seq(Response)
           /\ onlineState' = "Online" /\ failures' = 0 /\ onlineTimer' = FALSE
<1>1. responses \in Seq(Response) /\ responses # <<>>
    BY DEF Read, ListeningInv, TargetInv
<1>2. Head(responses) \in Response /\ Tail(responses) \in Seq(Response)
    BY <1>1
<1>3. streamState = "Open"
    BY <1>1 DEF ListeningInv, StreamInv, WireNeedsStream
<1> QED
    BY <1>2, <1>3 DEF Read, UpdateState

LEMMA ReadSafe ==
    ASSUME ListeningInv, NEW kind, Read(kind), ViewInv',
           UNCHANGED <<streamState, idleTimer>>,
           listening' = viewed', listening' => listening,
           outstanding' \in Int, current' \in BOOLEAN, pendingDocs' \in Versions
    PROVE  ListeningInv'
<1>1. /\ streamState = "Open" /\ responses' \in Seq(Response)
      /\ onlineState' = "Online" /\ failures' = 0 /\ onlineTimer' = FALSE
    BY ReadNeedsStream
<1>2. UNCHANGED <<requests, backendVars, listens, listenedAt, faults>>
    BY DEF Read
<1>3. OnlineStateSound' /\ WireNeedsStream'
    BY <1>1 DEF OnlineStateSound, WireNeedsStream
<1>4. StreamInv'
  <2>1. listening' \in BOOLEAN
      BY DEF ViewInv
  <2> QED
      BY <1>1, <1>3, <2>1 DEF ListeningInv, StreamInv, IsStarted
<1>5. TargetInv'
    BY <1>1, <1>2 DEF ListeningInv, TargetInv, backendVars
<1> QED
    BY <1>4, <1>5 DEF ListeningInv

LEMMA TargetAddedSafe == ASSUME ListeningInv, TargetAdded PROVE ListeningInv'
<1>1. Read("added") /\ HandleOnlineStateChange(onlineState')
    BY ReadNeedsStream DEF TargetAdded
<1>2. ViewInv' /\ UNCHANGED viewed
    BY <1>1, StateChangeTold DEF ListeningInv, Read
<1>3. /\ outstanding' \in Int /\ current' \in BOOLEAN /\ pendingDocs' \in Versions
      /\ listening' = listening /\ listening = viewed
    BY DEF TargetAdded, ListeningInv, TargetInv, streamVars
<1> QED
    BY <1>1, <1>2, <1>3, ReadSafe DEF TargetAdded, streamVars

LEMMA TargetRemovedSafe == ASSUME ListeningInv, TargetRemoved PROVE ListeningInv'
<1>1. Read("removed") /\ HandleOnlineStateChange(onlineState')
    BY ReadNeedsStream DEF TargetRemoved
<1>2. ViewInv' /\ UNCHANGED viewed
    BY <1>1, StateChangeTold DEF ListeningInv, Read
<1>3. /\ outstanding' \in Int /\ pendingDocs' \in Versions
      /\ listening' = listening /\ listening = viewed
    BY DEF TargetRemoved, ListeningInv, TargetInv, streamVars
<1>4. current' \in BOOLEAN
    BY Zenon DEF TargetRemoved
<1> QED
    BY <1>1, <1>2, <1>3, <1>4, ReadSafe DEF TargetRemoved, streamVars

LEMMA TargetChangedSafe == ASSUME ListeningInv, TargetChanged PROVE ListeningInv'
<1>1. Read("change") /\ HandleOnlineStateChange(onlineState')
    BY ReadNeedsStream DEF TargetChanged
<1>2. ViewInv' /\ UNCHANGED viewed
    BY <1>1, StateChangeTold DEF ListeningInv, Read
<1>3. Head(responses).docs \in Versions
    BY <1>1, ReadNeedsStream DEF Response
<1>4. /\ outstanding' \in Int
      /\ listening' = listening /\ listening = viewed
    BY DEF TargetChanged, ListeningInv, TargetInv, streamVars
<1>5. pendingDocs' \in Versions /\ current' \in BOOLEAN
    BY <1>3 DEF TargetChanged, ListeningInv, TargetInv
<1> QED
    BY <1>1, <1>2, <1>4, <1>5, ReadSafe DEF TargetChanged, streamVars

LEMMA TargetRejectedSafe == ASSUME ListeningInv, TargetRejected PROVE ListeningInv'
<1>1. /\ Read("rejected")
      /\ UNCHANGED <<cache, streamState, idleTimer, pendingDocs>>
    BY DEF TargetRejected
<1>2. pendingDocs' \in Versions /\ listens' = listens
    BY <1>1 DEF ListeningInv, TargetInv, Read
<1>3. CASE listening
  <2>1. /\ listening' = FALSE /\ outstanding' = 0 /\ current' = FALSE
        /\ viewed' = FALSE /\ synced' = FALSE
        /\ listeners' = {} /\ raised' = {}
        /\ heard' = [l \in Listeners |-> IF l \in listeners THEN Failed ELSE heard[l]]
      BY <1>3 DEF TargetRejected
  <2>2. /\ heard' \in [Listeners -> Versions \cup {Nothing, Failed}]
        /\ \A l \in Listeners : l > listens => heard'[l] = Nothing
      BY <2>1 DEF ListeningInv, ViewInv, ListenersAreNumbered, Listeners
  <2>3. ListenersSeeTheView' /\ ListenersAreNumbered'
      BY <1>2, <2>1, <2>2 DEF ListenersSeeTheView, ListenersAreNumbered, Listeners
  <2>4. ViewInv'
      BY <1>1, <1>2, <2>1, <2>2, <2>3 DEF ListeningInv, ViewInv
  <2>5. outstanding' \in Int
      BY <2>1
  <2>6. current' \in BOOLEAN /\ listening' = viewed' /\ ~listening'
      BY <2>1, Zenon
  <2> QED
      BY <1>1, <1>2, <2>4, <2>5, <2>6, ReadSafe
<1>4. CASE ~listening
  <2>1. UNCHANGED <<listening, outstanding, current, viewed, synced, managerVars>>
      BY <1>4 DEF TargetRejected
  <2>2. listeners = {} /\ listening = viewed
      BY <1>4 DEF ListeningInv, ViewInv
  <2>3. ListenersSeeTheView' /\ ListenersAreNumbered'
      BY <1>1, <1>2, <2>1, <2>2
      DEF ListeningInv, ViewInv, ListenersSeeTheView, ListenersAreNumbered,
          managerVars, Listeners
  <2>4. ViewInv'
      BY <1>1, <1>2, <2>1, <2>3 DEF ListeningInv, ViewInv, managerVars
  <2>5. outstanding' \in Int /\ current' \in BOOLEAN
      BY <2>1 DEF ListeningInv, TargetInv
  <2> QED
      BY <1>1, <1>2, <2>1, <2>2, <2>4, <2>5, ReadSafe
<1> QED
    BY <1>3, <1>4

LEMMA RaiseWatchSnapshotSafe ==
    ASSUME ListeningInv, RaiseWatchSnapshot
    PROVE  ListeningInv'
<1> DEFINE docs == IF pendingDocs = 0 THEN cache ELSE pendingDocs
           isSynced == IF IsActiveTarget THEN current ELSE synced
<1>1. /\ Read("snapshot")
      /\ cache' = docs /\ synced' = isSynced /\ pendingDocs' = 0
      /\ Notify(listeners, docs, isSynced, "Online")
      /\ UNCHANGED <<listeners, viewed, streamVars, outstanding, current>>
    BY DEF RaiseWatchSnapshot
<1>2. /\ docs \in Versions /\ isSynced \in BOOLEAN /\ listens' = listens
      /\ isSynced => viewed
    BY <1>1 DEF ListeningInv, ViewInv, TargetInv, IsActiveTarget, Read
<1>3. onlineState' = "Online"
    BY <1>1, ReadNeedsStream
<1> HIDE DEF docs, isSynced
<1>4. /\ raised' \in SUBSET listeners
      /\ heard' \in [Listeners -> Versions \cup {Nothing, Failed}]
      /\ \A l \in raised' : heard'[l] = docs
      /\ \A l \in listeners \ raised' :
            heard'[l] = Nothing /\ ~ShouldRaiseInitialEvent(docs, isSynced, "Online")
      /\ \A l \in Listeners \ listeners : heard'[l] = heard[l]
    BY <1>1, <1>2, NotifyTells DEF ListeningInv, ViewInv
<1>5. ListenersSeeTheView' /\ ListenersAreNumbered'
    BY <1>1, <1>2, <1>3, <1>4
    DEF ListenersSeeTheView, ShouldRaiseInitialEvent, ListenersAreNumbered,
        ListeningInv, ViewInv, Listeners
<1>6. ViewInv'
    BY <1>1, <1>2, <1>4, <1>5 DEF ListeningInv, ViewInv
<1>7. /\ outstanding' \in Int /\ current' \in BOOLEAN /\ pendingDocs' \in Versions
      /\ listening' = listening /\ listening = viewed
    BY <1>1, BoundsAssumption DEF ListeningInv, TargetInv, streamVars, Versions
<1> QED
    BY <1>1, <1>6, <1>7, ReadSafe DEF streamVars

-----------------------------------------------------------------------------
(* The backend *)

LEMMA BackendSafe == ASSUME ListeningInv, Backend PROVE ListeningInv'
<1>0. UNCHANGED <<managerVars, engineVars, streamVars, targetVars, onlineVars,
                  permitted, listens, listenedAt, faults>>
    BY DEF Backend, BackendAnswers, PostsChange
<1>1. /\ requests' \in Seq({"watch", "unwatch"}) /\ responses' \in Seq(Response)
      /\ watching' \in BOOLEAN /\ version' \in Versions /\ addedAt' \in Versions
      /\ \/ streamState = "Open"
         \/ responses' = responses /\ requests' = requests /\ ~watching'
  <2>1. CASE BackendAnswers
    <3>1. /\ requests \in Seq({"watch", "unwatch"}) /\ requests # <<>>
          /\ responses \in Seq(Response) /\ streamState = "Open"
          /\ version \in Versions /\ addedAt \in Versions
        BY <2>1 DEF BackendAnswers, ListeningInv, StreamInv, TargetInv, WireNeedsStream
    <3>2. requests' \in Seq({"watch", "unwatch"})
        BY <2>1, <3>1 DEF BackendAnswers
    <3>3. /\ Plain("removed") \in Response /\ Plain("added") \in Response
          /\ Plain("snapshot") \in Response /\ Plain("rejected") \in Response
          /\ Change(version) \in Response
        BY <3>1, BoundsAssumption DEF Plain, Change, Response, Versions
    <3>4. /\ <<Plain("removed")>> \in Seq(Response)
          /\ <<Plain("added"), Change(version), Plain("snapshot")>> \in Seq(Response)
          /\ <<Plain("rejected")>> \in Seq(Response)
        BY <3>3
    <3>5. responses' \in Seq(Response)
      <4>1. \/ responses' = responses \o <<Plain("removed")>>
            \/ responses' = responses \o <<Plain("added"), Change(version),
                                           Plain("snapshot")>>
            \/ responses' = responses \o <<Plain("rejected")>>
        <5>1. CASE Head(requests) = "unwatch"
            BY <2>1, <5>1 DEF BackendAnswers
        <5>2. CASE Head(requests) # "unwatch" /\ watching'
            BY <2>1, <5>2, Zenon DEF BackendAnswers
        <5>3. CASE Head(requests) # "unwatch" /\ ~watching'
            BY <2>1, <5>3, Zenon DEF BackendAnswers
        <5> QED
            BY <5>1, <5>2, <5>3
      <4>2. PICK more \in Seq(Response) : responses' = responses \o more
          BY <3>4, <4>1, Zenon
      <4>3. responses \in Seq(Response)
          BY <3>1
      <4> QED
          BY <4>2, <4>3
    <3>6. watching' \in BOOLEAN
        BY <2>1, Zenon DEF BackendAnswers
    <3>7. addedAt' \in Versions /\ version' \in Versions
        BY <2>1, <3>1 DEF BackendAnswers
    <3> QED
        BY <3>1, <3>2, <3>5, <3>6, <3>7, Zenon
  <2>2. CASE PostsChange
    <3>1. /\ version' \in Versions /\ responses \in Seq(Response)
          /\ requests \in Seq({"watch", "unwatch"})
          /\ watching \in BOOLEAN /\ addedAt \in Versions
        BY <2>2, BoundsAssumption DEF PostsChange, ListeningInv, TargetInv, Versions
    <3>2. Plain("snapshot") \in Response /\ Change(version') \in Response
        BY <3>1, BoundsAssumption DEF Plain, Change, Response, Versions
    <3>3. CASE watching
      <4>1. responses' = responses \o <<Change(version'), Plain("snapshot")>>
          BY <2>2, <3>3 DEF PostsChange
      <4>2. responses' \in Seq(Response)
          BY <3>1, <3>2, <4>1
      <4>3. streamState = "Open"
          BY <3>3 DEF ListeningInv, StreamInv, WireNeedsStream
      <4>4. requests' = requests /\ watching' = watching /\ addedAt' = addedAt
          BY <2>2 DEF PostsChange
      <4> QED
          BY <3>1, <4>2, <4>3, <4>4, Zenon
    <3>4. CASE ~watching
        BY <2>2, <3>1, <3>4 DEF PostsChange
    <3> QED
        BY <3>3, <3>4
  <2> QED
      BY <2>1, <2>2 DEF Backend
<1>2. ViewInv'
    BY <1>0, <1>1, ViewUntouched DEF ListeningInv, onlineVars
<1>3. StreamInv'
    BY <1>0, <1>1 DEF ListeningInv, StreamInv, streamVars, onlineVars, OnlineStateSound,
       WireNeedsStream
<1>4. TargetInv'
    BY <1>0, <1>1 DEF ListeningInv, TargetInv, targetVars, onlineVars
<1> QED
    BY <1>0, <1>1, <1>2, <1>3, <1>4 DEF ListeningInv, streamVars, engineVars

-----------------------------------------------------------------------------
(* The theorems *)

LEMMA ListeningStep ==
    ASSUME ListeningInv, [Next]_vars
    PROVE  ListeningInv'
<1>1. CASE \E l \in Listeners : AddQueryListener(l)
    BY <1>1, AddQueryListenerSafe
<1>2. CASE \E l \in Listeners : l \in listeners /\ RemoveQueryListener(l)
    BY <1>2, RemoveQueryListenerSafe
<1>3. CASE Engine
  <2>1. CASE OnWatchStreamChange
      BY <2>1, TargetAddedSafe, TargetRemovedSafe, TargetRejectedSafe,
         TargetChangedSafe, RaiseWatchSnapshotSafe DEF OnWatchStreamChange
  <2> QED
      BY <1>3, <2>1, ResumeStartSafe, BackoffElapsedSafe, StreamFailsSafe,
         IdleTimeoutSafe, HandleCredentialChangeSafe, OnlineStateTimeoutSafe
      DEF Engine
<1>4. CASE Backend
    BY <1>4, BackendSafe
<1>5. CASE UNCHANGED vars
  <2>1. ViewInv'
      BY <1>5, ViewUntouched DEF ListeningInv, vars, onlineVars
  <2> QED
      BY <1>5, <2>1 DEF ListeningInv, StreamInv, TargetInv, OnlineStateSound,
         WireNeedsStream, vars, engineVars, streamVars, targetVars, onlineVars,
         wireVars, backendVars
<1> QED
    BY <1>1, <1>2, <1>3, <1>4, <1>5 DEF Next

THEOREM ListeningInvariant == Spec => []ListeningInv
  BY ListeningInitially, ListeningStep, PTL DEF Spec

(***************************************************************************)
(* Every variable of the client keeps its type.                            *)
(***************************************************************************)
THEOREM ListeningIsTyped == Spec => []ListeningTypeOK
  BY ListeningInvariant, ListeningInvImplies, PTL

(***************************************************************************)
(* EventManager, SyncEngine and RemoteStore agree on what is listened to,  *)
(* and a listen has a stream on its way, whatever the order of listeners,  *)
(* rejections, failures and user changes.                                  *)
(***************************************************************************)
THEOREM RecordsOfListensAgree == Spec => []ListensAgree
  BY ListeningInvariant, ListeningInvImplies, PTL

(***************************************************************************)
(* No listener misses its first event or a change of the documents.        *)
(***************************************************************************)
THEOREM ListenersAreInformed == Spec => []ListenersSeeTheView
  BY ListeningInvariant, ListeningInvImplies, PTL

(***************************************************************************)
(* The assertions of OnlineStateTracker hold: its timer is never set twice *)
(* or in a state other than Unknown.                                       *)
(***************************************************************************)
THEOREM OnlineStateIsSound == Spec => []OnlineStateSound
  BY ListeningInvariant, ListeningInvImplies, PTL

-----------------------------------------------------------------------------
(* The wire of an open stream *)

\* A stream of a user who may not read the posts carries no documents, one of
\* a user who may carries no rejection.
AnswersFitUser ==
    /\ permitted => \A i \in 1..Len(responses) : responses[i].kind # "rejected"
    /\ ~permitted => ~watching /\ \A i \in 1..Len(responses) :
                                     responses[i].kind \notin {"change", "snapshot"}

\* Every change is followed by its snapshot, and between reading the two the
\* documents are pending.
ChangesInPairs ==
    /\ \A i \in 1..Len(responses) :
          /\ responses[i].kind = "change" =>
                i < Len(responses) /\ responses[i + 1].kind = "snapshot"
          /\ responses[i].kind = "snapshot" /\ i > 1 =>
                responses[i - 1].kind = "change"
    /\ pendingDocs # 0 => responses # <<>> /\ responses[1].kind = "snapshot"

\* Documents travel in the order in which they were written.
VersionsGrow ==
    /\ cache <= version /\ pendingDocs <= version /\ listenedAt <= version
    /\ pendingDocs # 0 => cache <= pendingDocs
    /\ \A i \in 1..Len(responses) : responses[i].kind = "change" =>
          /\ cache <= responses[i].docs /\ responses[i].docs <= version
          /\ pendingDocs <= responses[i].docs
          /\ \A j \in i..Len(responses) : responses[j].kind = "change" =>
                responses[i].docs <= responses[j].docs

IsDue(message) == message.kind \in {"added", "removed"}

\* Once every request is answered, changes after the last answer are new
\* enough for the present listen; an active target has only read such.
AnswersAreNew ==
    /\ listening /\ requests = <<>> =>
          \A i \in 1..Len(responses) :
              /\ responses[i].kind = "change"
              /\ \A j \in (i + 1)..Len(responses) : ~IsDue(responses[j])
              => responses[i].docs >= listenedAt
    /\ IsActiveTarget /\ responses # <<>> /\ responses[1].kind = "snapshot"
          => pendingDocs >= listenedAt

WireInv ==
    /\ OutstandingMatchesWire
    /\ AnswersFitUser
    /\ ChangesInPairs
    /\ VersionsGrow
    /\ AnswersAreNew
    /\ SyncedMeansCaughtUp

-----------------------------------------------------------------------------
(* Answers that are due *)

DueIn(q) == {i \in 1..Len(q) : IsDue(q[i])}

LEMMA DueIsCounted ==
    ASSUME NEW q \in Seq(Response)
    PROVE  IsFiniteSet(DueIn(q)) /\ Cardinality(DueIn(q)) \in Nat
<1>1. IsFiniteSet(1..Len(q))
    BY FS_Interval
<1>2. DueIn(q) \in SUBSET (1..Len(q))
    BY DEF DueIn
<1> QED
    BY <1>1, <1>2, FS_Subset, FS_CardinalityType

\* At most the first of the messages that join a queue is an answer.
LEMMA DueJoin ==
    ASSUME NEW q \in Seq(Response), NEW p \in Seq(Response), NEW due \in BOOLEAN,
           Len(p) > Len(q),
           \A i \in 1..Len(q) : p[i] = q[i],
           \A i \in (Len(q) + 1)..Len(p) : IsDue(p[i]) <=> due /\ i = Len(q) + 1
    PROVE  Cardinality(DueIn(p)) = Cardinality(DueIn(q)) + (IF due THEN 1 ELSE 0)
<1>1. Len(q) \in Nat /\ Len(p) \in Nat
    OBVIOUS
<1>2. 1..Len(p) = 1..Len(q) \cup (Len(q) + 1)..Len(p)
    BY <1>1
<1>3. Len(q) + 1 \notin DueIn(q)
    BY <1>1 DEF DueIn
<1>4. IsFiniteSet(DueIn(q)) /\ Cardinality(DueIn(q)) \in Nat
    BY DueIsCounted
<1>5. CASE due
  <2>1. DueIn(p) = DueIn(q) \cup {Len(q) + 1}
      BY <1>1, <1>2, <1>5 DEF DueIn
  <2>2. Cardinality(DueIn(q) \cup {Len(q) + 1}) = Cardinality(DueIn(q)) + 1
      BY <1>3, <1>4, FS_AddElement
  <2> QED
      BY <1>5, <2>1, <2>2
<1>6. CASE ~due
  <2>1. DueIn(p) = DueIn(q)
      BY <1>1, <1>2, <1>6 DEF DueIn
  <2> QED
      BY <1>4, <1>6, <2>1
<1> QED
    BY <1>5, <1>6

LEMMA DueTail ==
    ASSUME NEW q \in Seq(Response), q # <<>>
    PROVE  Cardinality(DueIn(q)) =
               Cardinality(DueIn(Tail(q))) + (IF IsDue(q[1]) THEN 1 ELSE 0)
<1>1. /\ Tail(q) \in Seq(Response) /\ Len(q) = Len(Tail(q)) + 1
      /\ Len(Tail(q)) \in Nat
      /\ \A i \in 1..Len(Tail(q)) : Tail(q)[i] = q[i + 1]
    OBVIOUS
<1> DEFINE later == DueIn(q) \ {1}
           f == [i \in DueIn(Tail(q)) |-> i + 1]
<1>2. \A i \in DueIn(Tail(q)) : i \in Nat /\ i + 1 \in later
    BY <1>1 DEF DueIn
<1>3. \A j \in later : j - 1 \in DueIn(Tail(q)) /\ (j - 1) + 1 = j
    BY <1>1 DEF DueIn
<1>4. f \in Bijection(DueIn(Tail(q)), later)
  <2>1. f \in [DueIn(Tail(q)) -> later]
      BY <1>2
  <2>2. \A i, j \in DueIn(Tail(q)) : f[i] = f[j] => i = j
      BY <1>2
  <2>3. \A j \in later : \E i \in DueIn(Tail(q)) : f[i] = j
      BY <1>3
  <2>4. DOMAIN f = DueIn(Tail(q))
      OBVIOUS
  <2> HIDE DEF f, later
  <2> QED
      BY <2>1, <2>2, <2>3, <2>4 DEF Bijection, Injection, Surjection, IsInjective
<1>5. IsFiniteSet(DueIn(Tail(q))) /\ IsFiniteSet(DueIn(q))
    BY <1>1, DueIsCounted
<1>6. Cardinality(later) = Cardinality(DueIn(Tail(q)))
    BY <1>4, <1>5, FS_Bijection DEF ExistsBijection
<1>7. Cardinality(later) =
          IF 1 \in DueIn(q) THEN Cardinality(DueIn(q)) - 1 ELSE Cardinality(DueIn(q))
    BY <1>5, FS_RemoveElement
<1>8. 1 \in DueIn(q) <=> IsDue(q[1])
    BY <1>1 DEF DueIn
<1>9. Cardinality(DueIn(q)) \in Nat
    BY DueIsCounted
<1> HIDE DEF later
<1> QED
    BY <1>6, <1>7, <1>8, <1>9

LEMMA DueEmpty == DueIn(<<>>) = {} /\ Cardinality({}) = 0
<1>1. Len(<<>>) = 0
    OBVIOUS
<1> QED
    BY <1>1, FS_EmptySet DEF DueIn

LEMMA NothingDue ==
    ASSUME NEW q \in Seq(Response), Cardinality(DueIn(q)) = 0
    PROVE  \A i \in 1..Len(q) : ~IsDue(q[i])
<1>1. IsFiniteSet(DueIn(q))
    BY DueIsCounted
<1>2. DueIn(q) = {}
    BY <1>1, FS_EmptySet
<1> QED
    BY <1>2 DEF DueIn

\* The number that outstanding_responses_ counts.
LEMMA DueDef == Due = DueIn(responses)
  BY DEF Due, DueIn, IsDue

-----------------------------------------------------------------------------
(* Steps and the wire *)

LEMMA TargetTypes ==
    ASSUME ListeningInv
    PROVE  /\ responses \in Seq(Response) /\ requests \in Seq({"watch", "unwatch"})
           /\ outstanding \in Int
           /\ Len(responses) \in Nat /\ Len(requests) \in Nat
           /\ cache \in Nat /\ pendingDocs \in Nat /\ version \in Nat
           /\ listenedAt \in Nat
           /\ \A i \in 1..Len(responses) :
                 responses[i] \in Response /\ responses[i].docs \in Nat
           /\ MaxVersion \in Nat
<1>1. /\ responses \in Seq(Response) /\ requests \in Seq({"watch", "unwatch"})
      /\ outstanding \in Int /\ MaxVersion \in Nat
    BY BoundsAssumption DEF ListeningInv, TargetInv
<1>2. /\ cache \in Nat /\ pendingDocs \in Nat /\ version \in Nat
      /\ listenedAt \in Nat
    BY <1>1 DEF ListeningInv, ViewInv, TargetInv, Versions
<1>3. \A i \in 1..Len(responses) : responses[i] \in Response
    BY <1>1
<1>4. \A r \in Response : r.docs \in Nat
    BY <1>1 DEF Response, Versions
<1> QED
    BY <1>1, <1>2, <1>3, <1>4

\* A stream that is not open has nothing on its wire.
LEMMA NoWire ==
    ASSUME streamState' # "Open", requests' = <<>>, responses' = <<>>,
           outstanding' = 0, pendingDocs' = 0, ~watching',
           cache' \in Nat, version' \in Nat, listenedAt' \in Nat,
           cache' <= version', listenedAt' <= version',
           SyncedMeansCaughtUp'
    PROVE  WireInv'
<1>1. Len(requests') = 0 /\ Len(responses') = 0 /\ 1..Len(responses') = {}
    OBVIOUS
<1>2. Cardinality(Due') = 0
  <2>1. Due' = {}
      BY <1>1 DEF Due
  <2> QED
      BY <2>1, FS_EmptySet
<1>3. OutstandingMatchesWire'
    BY <1>1, <1>2 DEF OutstandingMatchesWire
<1>4. AnswersFitUser' /\ ChangesInPairs' /\ VersionsGrow' /\ AnswersAreNew'
    BY <1>1 DEF AnswersFitUser, ChangesInPairs, VersionsGrow, AnswersAreNew
<1> QED
    BY <1>3, <1>4 DEF WireInv

\* What is true of a stream that is not open before the step.
LEMMA WireIsEmpty ==
    ASSUME ListeningInv, WireInv, streamState # "Open"
    PROVE  /\ requests = <<>> /\ responses = <<>> /\ outstanding = 0
           /\ pendingDocs = 0 /\ ~watching
  BY DEF ListeningInv, StreamInv, WireNeedsStream, WireInv, ChangesInPairs,
         OutstandingMatchesWire

\* A step that leaves the wire and the target alone.
LEMMA WireUntouched ==
    ASSUME WireInv,
           UNCHANGED <<wireVars, permitted, watching, version, listenedAt,
                       targetVars, cache, listening>>,
           (streamState' = "Open") = (streamState = "Open"),
           synced' => synced
    PROVE  WireInv'
<1>1. OutstandingMatchesWire'
    BY DEF WireInv, OutstandingMatchesWire, Due, wireVars, targetVars
<1>2. AnswersFitUser' /\ ChangesInPairs' /\ VersionsGrow' /\ AnswersAreNew'
    BY DEF WireInv, AnswersFitUser, ChangesInPairs, VersionsGrow, AnswersAreNew,
           IsActiveTarget, wireVars, targetVars
<1> QED
    BY <1>1, <1>2 DEF WireInv, SyncedMeansCaughtUp

\* A request joins the wire: nothing can be active until it is answered.
LEMMA SendWire ==
    ASSUME ListeningInv, WireInv, streamState = "Open", streamState' = "Open",
           NEW r \in {"watch", "unwatch"}, Send(r), listening' = (r = "watch"),
           UNCHANGED <<responses, permitted, watching, version, cache, pendingDocs>>,
           listenedAt' \in {listenedAt, version}, ~synced'
    PROVE  WireInv'
<1>1. /\ Len(requests') = Len(requests) + 1 /\ Len(requests) \in Nat
      /\ requests'[Len(requests) + 1] = r /\ requests' # <<>>
      /\ outstanding' = outstanding + 1 /\ outstanding \in Int
    BY TargetTypes DEF Send
<1>2. Due' = Due /\ Cardinality(Due) \in Nat
    BY TargetTypes, DueIsCounted, DueDef DEF Due
<1>3. OutstandingMatchesWire'
    BY <1>1, <1>2 DEF WireInv, OutstandingMatchesWire
<1>4. permitted => outstanding' # 0
    BY <1>1, <1>2 DEF WireInv, OutstandingMatchesWire
<1>5. AnswersFitUser' /\ ChangesInPairs'
    BY DEF WireInv, AnswersFitUser, ChangesInPairs
<1>6. VersionsGrow'
    BY TargetTypes DEF WireInv, VersionsGrow
<1>7. AnswersAreNew'
  <2>1. ~permitted => \A i \in 1..Len(responses) : responses[i].kind # "snapshot"
      BY DEF WireInv, AnswersFitUser
  <2>2. responses # <<>> => 1 \in 1..Len(responses)
      BY TargetTypes
  <2> QED
      BY <1>1, <1>4, <2>1, <2>2 DEF AnswersAreNew, IsActiveTarget
<1> QED
    BY <1>3, <1>5, <1>6, <1>7 DEF WireInv, SyncedMeansCaughtUp

LEMMA AddQueryListenerWire ==
    ASSUME ListeningInv, WireInv, NEW l \in Listeners, AddQueryListener(l)
    PROVE  WireInv'
<1>1. UNCHANGED <<cache, backendVars>>
    BY DEF AddQueryListener
<1>2. CASE listeners # {}
  <2>1. UNCHANGED <<synced, streamVars, targetVars, onlineVars, wireVars, listenedAt>>
      BY <1>2 DEF AddQueryListener
  <2> QED
      BY <1>1, <2>1, WireUntouched DEF streamVars, backendVars
<1>3. CASE listeners = {}
  <2>1. /\ synced' = FALSE /\ listenedAt' = version /\ Listen
      BY <1>3 DEF AddQueryListener
  <2>2. CASE streamState = "Open"
    <3>1. /\ Send("watch") /\ listening' = TRUE
          /\ UNCHANGED <<streamState, pendingDocs, responses>>
        BY <2>1, <2>2 DEF Listen, IsStarted
    <3> QED
        BY <1>1, <2>1, <2>2, <3>1, SendWire DEF backendVars
  <2>3. CASE streamState # "Open"
    <3>1. /\ UNCHANGED <<requests, outstanding, pendingDocs, responses>>
          /\ streamState' # "Open"
        BY <2>1, <2>3 DEF Listen, IsStarted, Start
    <3>2. /\ requests = <<>> /\ responses = <<>> /\ outstanding = 0
          /\ pendingDocs = 0 /\ ~watching
        BY <2>3, WireIsEmpty
    <3>3. cache <= version /\ version <= version
        BY TargetTypes DEF WireInv, VersionsGrow
    <3> QED
        BY <1>1, <2>1, <3>1, <3>2, <3>3, NoWire, TargetTypes
        DEF backendVars, SyncedMeansCaughtUp
  <2> QED
      BY <2>2, <2>3
<1> QED
    BY <1>2, <1>3

LEMMA RemoveQueryListenerWire ==
    ASSUME ListeningInv, WireInv, NEW l \in listeners, RemoveQueryListener(l)
    PROVE  WireInv'
<1>1. UNCHANGED <<cache, backendVars, listenedAt>>
    BY DEF RemoveQueryListener
<1>2. CASE listeners # {l}
  <2>1. UNCHANGED <<synced, streamVars, targetVars, onlineVars, wireVars>>
      BY <1>2 DEF RemoveQueryListener
  <2> QED
      BY <1>1, <2>1, WireUntouched DEF streamVars, backendVars
<1>3. CASE listeners = {l}
  <2>1. synced' = FALSE /\ StopListening
      BY <1>3 DEF RemoveQueryListener
  <2>2. CASE streamState = "Open"
    <3>1. /\ Send("unwatch") /\ listening' = FALSE
          /\ UNCHANGED <<streamState, pendingDocs, responses>>
        BY <2>1, <2>2 DEF StopListening
    <3> QED
        BY <1>1, <2>1, <2>2, <3>1, SendWire DEF backendVars
  <2>3. CASE streamState # "Open"
    <3>1. UNCHANGED <<requests, outstanding, pendingDocs, responses, streamState>>
        BY <2>1, <2>3 DEF StopListening
    <3>2. /\ requests = <<>> /\ responses = <<>> /\ outstanding = 0
          /\ pendingDocs = 0 /\ ~watching
        BY <2>3, WireIsEmpty
    <3>3. cache <= version /\ listenedAt <= version
        BY DEF WireInv, VersionsGrow
    <3> QED
        BY <1>1, <2>1, <2>3, <3>1, <3>2, <3>3, NoWire, TargetTypes
        DEF backendVars, SyncedMeansCaughtUp
  <2> QED
      BY <2>2, <2>3
<1> QED
    BY <1>2, <1>3

\* The stream goes away, or has not come yet.
LEMMA DisconnectWire ==
    ASSUME ListeningInv, WireInv, StreamFails \/ IdleTimeout \/ HandleCredentialChange
    PROVE  WireInv'
<1>1. /\ Disconnected /\ UNCHANGED <<version, listenedAt, cache>>
      /\ synced' => synced
    BY DEF StreamFails, IdleTimeout, HandleCredentialChange, HandleOnlineStateChange
<1>2. streamState' # "Open"
    BY StreamFailsSafe, IdleTimeoutSafe DEF StreamFails, IdleTimeout,
       HandleCredentialChange, IsStarted, Start
<1>3. cache <= version /\ listenedAt <= version
    BY DEF WireInv, VersionsGrow
<1>4. SyncedMeansCaughtUp'
    BY <1>1 DEF WireInv, SyncedMeansCaughtUp
<1> QED
    BY <1>1, <1>2, <1>3, <1>4, NoWire, TargetTypes DEF Disconnected

LEMMA ResumeStartWire ==
    ASSUME ListeningInv, WireInv, ResumeStartWithCredentials
    PROVE  WireInv'
<1>1. /\ streamState' = "Open"
      /\ \/ listening /\ requests' = <<"watch">> /\ outstanding' = 1
         \/ ~listening /\ requests' = <<>> /\ outstanding' = 0
      /\ UNCHANGED <<engineVars, listening, pendingDocs, responses, watching, version,
                     listenedAt>>
    BY DEF ResumeStartWithCredentials
<1>2. responses = <<>> /\ pendingDocs = 0 /\ ~watching
    BY WireIsEmpty DEF ResumeStartWithCredentials
<1>3. Len(responses') = 0 /\ 1..Len(responses') = {} /\ Cardinality(Due') = 0
  <2>1. Len(responses') = 0
      BY <1>1, <1>2
  <2>2. Due' = {} /\ 1..Len(responses') = {}
      BY <2>1 DEF Due
  <2> QED
      BY <2>1, <2>2, FS_EmptySet
<1>4. OutstandingMatchesWire'
  <2>1. CASE listening
    <3>1. Len(requests') = 1 /\ requests'[1] = "watch" /\ outstanding' = 1
        BY <1>1, <2>1
    <3>2. listening' = TRUE
        BY <1>1, <2>1 DEF ListeningInv, StreamInv
    <3>3. permitted' => outstanding' = Len(requests') + Cardinality(Due')
        BY <1>3, <3>1
    <3>4. (requests'[Len(requests')] = "watch") = listening'
        BY <3>1, <3>2
    <3>5. Len(requests') # 0 /\ streamState' = "Open"
        BY <1>1, <3>1
    <3> QED
        BY <3>3, <3>4, <3>5, Zenon DEF OutstandingMatchesWire
  <2>2. CASE ~listening
    <3>1. Len(requests') = 0
        BY <1>1, <2>2
    <3>2. listening \in BOOLEAN /\ watching \in BOOLEAN
        BY DEF ListeningInv, StreamInv, TargetInv
    <3>3. watching' = listening'
        BY <1>1, <1>2, <2>2, <3>2
    <3> QED
        BY <1>1, <1>3, <2>2, <3>1, <3>3 DEF OutstandingMatchesWire
  <2> QED
      BY <2>1, <2>2
<1>5. AnswersFitUser' /\ ChangesInPairs' /\ AnswersAreNew'
    BY <1>1, <1>2, <1>3 DEF AnswersFitUser, ChangesInPairs, AnswersAreNew
<1>6. VersionsGrow'
    BY <1>1, <1>2, <1>3 DEF engineVars, WireInv, VersionsGrow
<1> QED
    BY <1>1, <1>4, <1>5, <1>6 DEF WireInv, SyncedMeansCaughtUp, engineVars

-----------------------------------------------------------------------------
(* Messages and the wire *)

\* The rest of the wire moves up.
LEMMA ReadMoves ==
    ASSUME ListeningInv, NEW kind, Read(kind)
    PROVE  /\ responses # <<>> /\ 1 \in 1..Len(responses)
           /\ Head(responses) = responses[1] /\ responses[1].kind = kind
           /\ Len(responses') \in Nat /\ Len(responses) = Len(responses') + 1
           /\ \A i \in 1..Len(responses') :
                 responses'[i] = responses[i + 1] /\ i + 1 \in 1..Len(responses)
           /\ UNCHANGED <<requests, permitted, watching, version, listenedAt>>
           /\ Cardinality(Due') \in Nat
           /\ Cardinality(Due) =
                  Cardinality(Due') + (IF kind \in {"added", "removed"} THEN 1 ELSE 0)
<1>1. /\ responses \in Seq(Response) /\ responses # <<>>
      /\ responses' = Tail(responses) /\ Head(responses).kind = kind
      /\ UNCHANGED <<requests, backendVars, listenedAt>>
    BY TargetTypes DEF Read
<1>2. /\ 1 \in 1..Len(responses) /\ Head(responses) = responses[1]
      /\ responses' \in Seq(Response)
      /\ Len(responses') \in Nat /\ Len(responses) = Len(responses') + 1
      /\ \A i \in 1..Len(responses') :
            responses'[i] = responses[i + 1] /\ i + 1 \in 1..Len(responses)
    BY <1>1
<1>3. Due' = DueIn(responses') /\ Due = DueIn(responses)
    BY DEF Due, DueIn, IsDue
<1>4. Cardinality(DueIn(responses')) \in Nat
    BY <1>2, DueIsCounted
<1>5. Cardinality(DueIn(responses)) =
          Cardinality(DueIn(responses')) + (IF IsDue(responses[1]) THEN 1 ELSE 0)
    BY <1>1, DueTail
<1>6. IsDue(responses[1]) <=> kind \in {"added", "removed"}
    BY <1>1, <1>2 DEF IsDue
<1> QED
    BY <1>1, <1>2, <1>3, <1>4, <1>5, <1>6 DEF backendVars

\* What stays true of the rest of the wire.
LEMMA ReadKeeps ==
    ASSUME ListeningInv, WireInv, NEW kind, Read(kind), listening' => listening
    PROVE  /\ AnswersFitUser'
           /\ \A i \in 1..Len(responses') :
                 /\ responses'[i].kind = "change" =>
                       i < Len(responses') /\ responses'[i + 1].kind = "snapshot"
                 /\ responses'[i].kind = "snapshot" /\ i > 1 =>
                       responses'[i - 1].kind = "change"
           /\ responses' # <<>> => (responses'[1].kind = "snapshot" <=> kind = "change")
           /\ kind = "change" => responses' # <<>>
           /\ \A i \in 1..Len(responses') : responses'[i].kind = "change" =>
                 /\ cache <= responses'[i].docs /\ responses'[i].docs <= version
                 /\ pendingDocs <= responses'[i].docs
                 /\ kind = "change" => responses[1].docs <= responses'[i].docs
                 /\ \A j \in i..Len(responses') : responses'[j].kind = "change" =>
                       responses'[i].docs <= responses'[j].docs
           /\ listening' /\ requests' = <<>> =>
                 \A i \in 1..Len(responses') :
                    /\ responses'[i].kind = "change"
                    /\ \A j \in (i + 1)..Len(responses') : ~IsDue(responses'[j])
                    => responses'[i].docs >= listenedAt'
<1> DEFINE q == responses'
           n == Len(q)
<1>1. /\ 1 \in 1..Len(responses) /\ responses[1].kind = kind
      /\ n \in Nat /\ Len(responses) = n + 1
      /\ \A i \in 1..n : q[i] = responses[i + 1] /\ i + 1 \in 1..Len(responses)
      /\ UNCHANGED <<requests, permitted, watching, version, listenedAt>>
    BY ReadMoves
<1>2. q # <<>> <=> 1 \in 1..n
  <2>1. q \in Seq(Response)
      BY TargetTypes DEF Read
  <2> QED
      BY <2>1
<1> HIDE DEF q, n
<1>3. AnswersFitUser'
    BY <1>1 DEF WireInv, AnswersFitUser, q, n
<1>4. \A i \in 1..n :
          /\ q[i].kind = "change" => i < n /\ q[i + 1].kind = "snapshot"
          /\ q[i].kind = "snapshot" /\ i > 1 => q[i - 1].kind = "change"
  <2>1. ASSUME NEW i \in 1..n, q[i].kind = "change"
        PROVE  i < n /\ q[i + 1].kind = "snapshot"
    <3>1. i + 1 < n + 1 /\ responses[i + 1 + 1].kind = "snapshot"
        BY <1>1, <2>1 DEF WireInv, ChangesInPairs
    <3>2. i + 1 \in 1..n
        BY <1>1, <3>1
    <3> QED
        BY <1>1, <3>1, <3>2
  <2>2. ASSUME NEW i \in 1..n, q[i].kind = "snapshot", i > 1
        PROVE  q[i - 1].kind = "change"
    <3>1. i + 1 > 1 /\ responses[i + 1 - 1].kind = "change"
        BY <1>1, <2>2 DEF WireInv, ChangesInPairs
    <3>2. i - 1 \in 1..n /\ i - 1 + 1 = i /\ i + 1 - 1 = i
        BY <1>1, <2>2
    <3> QED
        BY <1>1, <3>1, <3>2
  <2> QED
      BY <2>1, <2>2
<1>5. /\ 1 \in 1..n => (q[1].kind = "snapshot" <=> kind = "change")
      /\ kind = "change" => 1 \in 1..n
  <2>1. ASSUME 1 \in 1..n, q[1].kind = "snapshot" PROVE kind = "change"
    <3>1. q[1] = responses[2] /\ 2 \in 1..Len(responses)
        BY <1>1, <2>1
    <3>2. responses[2 - 1].kind = "change"
        BY <2>1, <3>1 DEF WireInv, ChangesInPairs
    <3> QED
        BY <1>1, <3>2
  <2>2. ASSUME kind = "change" PROVE 1 \in 1..n /\ q[1].kind = "snapshot"
    <3>1. 1 < Len(responses) /\ responses[1 + 1].kind = "snapshot"
        BY <1>1, <2>2 DEF WireInv, ChangesInPairs
    <3> QED
        BY <1>1, <3>1
  <2> QED
      BY <2>1, <2>2
<1>6. ASSUME NEW i \in 1..n, q[i].kind = "change"
      PROVE  /\ cache <= q[i].docs /\ q[i].docs <= version
             /\ pendingDocs <= q[i].docs
             /\ kind = "change" => responses[1].docs <= q[i].docs
             /\ \A j \in i..n : q[j].kind = "change" => q[i].docs <= q[j].docs
  <2>1. /\ i + 1 \in 1..Len(responses) /\ q[i] = responses[i + 1]
        /\ \A j \in i..n : j + 1 \in (i + 1)..Len(responses) /\ q[j] = responses[j + 1]
      BY <1>1
  <2>2. /\ cache <= q[i].docs /\ q[i].docs <= version /\ pendingDocs <= q[i].docs
        /\ \A j \in (i + 1)..Len(responses) : responses[j].kind = "change" =>
              q[i].docs <= responses[j].docs
      BY <1>6, <2>1 DEF WireInv, VersionsGrow
  <2>3. kind = "change" => responses[1].docs <= q[i].docs
    <3>1. i + 1 \in 1..Len(responses)
        BY <2>1
    <3> QED
        BY <1>1, <1>6, <2>1, <3>1 DEF WireInv, VersionsGrow
  <2> QED
      BY <2>1, <2>2, <2>3
<1>7. ASSUME listening', requests' = <<>>, NEW i \in 1..n, q[i].kind = "change",
             \A j \in (i + 1)..n : ~IsDue(q[j])
      PROVE  q[i].docs >= listenedAt
  <2>1. i + 1 \in 1..Len(responses) /\ responses[i + 1] = q[i]
      BY <1>1
  <2>2. ASSUME NEW j \in (i + 1 + 1)..Len(responses) PROVE ~IsDue(responses[j])
    <3>1. j - 1 \in (i + 1)..n /\ j - 1 \in 1..n /\ j - 1 + 1 = j
        BY <1>1
    <3> QED
        BY <1>1, <1>7, <3>1
  <2> QED
      BY <1>1, <1>7, <2>1, <2>2 DEF WireInv, AnswersAreNew
<1> QED
    BY <1>1, <1>2, <1>3, <1>4, <1>5, <1>6, <1>7 DEF q, n

\* Reading an answer or a rejection.
LEMMA AnswerRead ==
    ASSUME ListeningInv, WireInv, NEW kind \in {"added", "removed", "rejected"},
           Read(kind), UNCHANGED <<pendingDocs, cache, streamState>>, synced' => synced,
           listening' => listening,
           permitted => /\ kind # "rejected" => outstanding' = outstanding - 1
                                                /\ listening' = listening
    PROVE  WireInv'
<1>1. /\ 1 \in 1..Len(responses) /\ responses[1].kind = kind
      /\ UNCHANGED <<requests, permitted, watching, version, listenedAt>>
      /\ Cardinality(Due') \in Nat
      /\ Cardinality(Due) =
             Cardinality(Due') + (IF kind \in {"added", "removed"} THEN 1 ELSE 0)
    BY ReadMoves
<1>2. permitted => kind # "rejected"
    BY <1>1 DEF WireInv, AnswersFitUser
<1>3. streamState = "Open"
    BY ReadNeedsStream
<1>4. permitted => outstanding' = Len(requests') + Cardinality(Due')
  <2>1. ASSUME permitted PROVE outstanding' = Len(requests) + Cardinality(Due')
    <3>1. outstanding' = outstanding - 1
        BY <1>2, <2>1
    <3>2. outstanding = Len(requests) + Cardinality(Due)
        BY <2>1 DEF WireInv, OutstandingMatchesWire
    <3>3. Cardinality(Due) = Cardinality(Due') + 1
        BY <1>1, <1>2, <2>1
    <3>4. Len(requests) \in Nat
        BY TargetTypes
    <3> QED
        BY <1>1, <3>1, <3>2, <3>3, <3>4
  <2> QED
      BY <1>1, <2>1
<1>5. OutstandingMatchesWire'
    BY <1>1, <1>2, <1>3, <1>4 DEF WireInv, OutstandingMatchesWire
<1>6. pendingDocs = 0
    BY <1>1 DEF WireInv, ChangesInPairs
<1>7. responses' # <<>> => responses'[1].kind # "snapshot"
    BY ReadKeeps
<1>8. AnswersFitUser' /\ ChangesInPairs' /\ VersionsGrow' /\ AnswersAreNew'
  <2>1. AnswersFitUser'
      BY ReadKeeps
  <2>2. ChangesInPairs'
      BY <1>6, ReadKeeps DEF ChangesInPairs
  <2>3. VersionsGrow'
      BY <1>1, ReadKeeps DEF WireInv, VersionsGrow
  <2>4. AnswersAreNew'
      BY <1>1, <1>7, ReadKeeps DEF AnswersAreNew
  <2> QED
      BY <2>1, <2>2, <2>3, <2>4
<1> QED
    BY <1>1, <1>5, <1>8 DEF WireInv, SyncedMeansCaughtUp

LEMMA TargetAnswersWire ==
    ASSUME ListeningInv, WireInv, TargetAdded \/ TargetRemoved \/ TargetRejected
    PROVE  WireInv'
<1>1. CASE TargetAdded
  <2>1. /\ Read("added") /\ outstanding' = outstanding - 1
        /\ UNCHANGED <<pendingDocs, cache, streamState, listening>>
        /\ synced' => synced
      BY <1>1 DEF TargetAdded, HandleOnlineStateChange, streamVars
  <2> QED
      BY <2>1, AnswerRead
<1>2. CASE TargetRemoved
  <2>1. /\ Read("removed") /\ outstanding' = outstanding - 1
        /\ UNCHANGED <<pendingDocs, cache, streamState, listening>>
        /\ synced' => synced
      BY <1>2 DEF TargetRemoved, HandleOnlineStateChange, streamVars
  <2> QED
      BY <2>1, AnswerRead
<1>3. CASE TargetRejected
  <2>1. /\ Read("rejected")
        /\ UNCHANGED <<pendingDocs, cache, streamState>>
        /\ synced' => synced
        /\ listening' => listening
      BY <1>3 DEF TargetRejected
  <2>2. ~permitted
      BY <2>1, ReadMoves DEF WireInv, AnswersFitUser
  <2> QED
      BY <2>1, <2>2, AnswerRead
<1> QED
    BY <1>1, <1>2, <1>3

\* Documents for an active target are new enough for its listen, because all
\* answers have been read.
LEMMA TargetChangedWire ==
    ASSUME ListeningInv, WireInv, TargetChanged
    PROVE  WireInv'
<1>1. /\ Read("change")
      /\ UNCHANGED <<outstanding, cache, streamState, listening>>
      /\ synced' => synced
      /\ \/ IsActiveTarget /\ pendingDocs' = Head(responses).docs
         \/ ~IsActiveTarget /\ pendingDocs' = pendingDocs
    BY DEF TargetChanged, HandleOnlineStateChange, streamVars
<1>2. /\ 1 \in 1..Len(responses) /\ responses[1].kind = "change"
      /\ Head(responses) = responses[1]
      /\ UNCHANGED <<requests, permitted, watching, version, listenedAt>>
      /\ Cardinality(Due') = Cardinality(Due)
  <2>1. "change" \notin {"added", "removed"}
      OBVIOUS
  <2> QED
      BY <1>1, <2>1, ReadMoves
<1>3. streamState = "Open"
    BY <1>1, ReadNeedsStream
<1>4. OutstandingMatchesWire'
    BY <1>1, <1>2, <1>3 DEF WireInv, OutstandingMatchesWire
<1>5. permitted
    BY <1>2 DEF WireInv, AnswersFitUser
<1>6. pendingDocs' \in {0, responses[1].docs}
    BY <1>1, <1>2 DEF WireInv, ChangesInPairs
<1>7. /\ cache <= responses[1].docs /\ responses[1].docs <= version
      /\ responses[1].docs \in Nat
    BY <1>2, TargetTypes DEF WireInv, VersionsGrow
<1>8. IsActiveTarget => responses[1].docs >= listenedAt
  <2>1. ASSUME IsActiveTarget PROVE responses[1].docs >= listenedAt
    <3>1. listening /\ outstanding = Len(requests) + Cardinality(DueIn(responses))
        BY <1>5, <2>1, DueDef DEF WireInv, OutstandingMatchesWire, IsActiveTarget
    <3>2. Len(requests) = 0 /\ Cardinality(DueIn(responses)) = 0
        BY <2>1, <3>1, TargetTypes, DueIsCounted DEF IsActiveTarget
    <3>3. requests = <<>> /\ \A i \in 1..Len(responses) : ~IsDue(responses[i])
        BY <3>2, NothingDue, TargetTypes
    <3>4. \A j \in (1 + 1)..Len(responses) : ~IsDue(responses[j])
        BY <3>3, TargetTypes
    <3> QED
        BY <1>2, <3>1, <3>3, <3>4 DEF WireInv, AnswersAreNew
  <2> QED
      BY <2>1
<1>9. IsActiveTarget' = IsActiveTarget
    BY <1>1 DEF IsActiveTarget
<1>10. AnswersFitUser'
    BY <1>1, ReadKeeps
<1>11. ChangesInPairs'
    BY <1>1, ReadKeeps DEF ChangesInPairs
<1>12. VersionsGrow'
    BY <1>1, <1>2, <1>6, <1>7, ReadKeeps, TargetTypes DEF WireInv, VersionsGrow
<1>13. AnswersAreNew'
    BY <1>1, <1>2, <1>8, <1>9, ReadKeeps DEF AnswersAreNew
<1> QED
    BY <1>1, <1>2, <1>4, <1>10, <1>11, <1>12, <1>13 DEF WireInv, SyncedMeansCaughtUp

LEMMA RaiseWatchSnapshotWire ==
    ASSUME ListeningInv, WireInv, RaiseWatchSnapshot
    PROVE  WireInv'
<1>1. /\ Read("snapshot")
      /\ UNCHANGED <<outstanding, streamState, listening>>
      /\ pendingDocs' = 0
      /\ cache' = IF pendingDocs = 0 THEN cache ELSE pendingDocs
      /\ synced' = IF IsActiveTarget THEN current ELSE synced
    BY DEF RaiseWatchSnapshot, streamVars
<1>2. /\ 1 \in 1..Len(responses) /\ responses[1].kind = "snapshot" /\ responses # <<>>
      /\ UNCHANGED <<requests, permitted, watching, version, listenedAt>>
      /\ Cardinality(Due') = Cardinality(Due)
  <2>1. "snapshot" \notin {"added", "removed"}
      OBVIOUS
  <2> QED
      BY <1>1, <2>1, ReadMoves
<1>3. streamState = "Open"
    BY <1>1, ReadNeedsStream
<1>4. OutstandingMatchesWire'
    BY <1>1, <1>2, <1>3 DEF WireInv, OutstandingMatchesWire
<1>5. /\ cache <= cache' /\ cache' <= version /\ pendingDocs <= cache'
      /\ cache' \in {cache, pendingDocs}
    BY <1>1, TargetTypes DEF WireInv, VersionsGrow
<1>6. AnswersFitUser'
    BY <1>1, ReadKeeps
<1>7. ChangesInPairs'
    BY <1>1, ReadKeeps DEF ChangesInPairs
<1>8. VersionsGrow'
  <2>1. \A i \in 1..Len(responses') : responses'[i].kind = "change" =>
            responses'[i].docs \in Nat
      BY <1>1, ReadMoves, TargetTypes
  <2>2. /\ cache' <= version' /\ pendingDocs' <= version' /\ listenedAt' <= version'
        /\ pendingDocs' = 0
      BY <1>1, <1>2, <1>5, TargetTypes DEF WireInv, VersionsGrow
  <2> QED
      BY <1>1, <1>2, <1>5, <2>1, <2>2, ReadKeeps DEF VersionsGrow
<1>9. AnswersAreNew'
    BY <1>1, <1>2, ReadKeeps DEF AnswersAreNew
<1>10. SyncedMeansCaughtUp'
  <2>1. IsActiveTarget => pendingDocs >= listenedAt
      BY <1>2 DEF WireInv, AnswersAreNew
  <2>2. ~IsActiveTarget /\ synced' => cache >= listenedAt
      BY <1>1 DEF WireInv, SyncedMeansCaughtUp
  <2> QED
      BY <1>2, <1>5, <2>1, <2>2, TargetTypes DEF SyncedMeansCaughtUp
<1> QED
    BY <1>4, <1>6, <1>7, <1>8, <1>9, <1>10 DEF WireInv

-----------------------------------------------------------------------------
(* The backend and the wire *)

\* Messages join the wire, an answer at most first; every change comes with its
\* snapshot and brings the present version.
LEMMA MessagesJoin ==
    ASSUME ListeningInv, WireInv, NEW due \in BOOLEAN,
           UNCHANGED <<cache, synced, listening, streamState, outstanding, pendingDocs,
                       permitted, listenedAt>>,
           version' \in Nat, version <= version',
           responses' \in Seq(Response), Len(responses') > Len(responses),
           \A i \in 1..Len(responses) : responses'[i] = responses[i],
           \A i \in (Len(responses) + 1)..Len(responses') :
               /\ IsDue(responses'[i]) <=> due /\ i = Len(responses) + 1
               /\ responses'[i].kind = "change" =>
                     /\ responses'[i].docs = version'
                     /\ i < Len(responses') /\ responses'[i + 1].kind = "snapshot"
               /\ responses'[i].kind = "snapshot" =>
                     i > Len(responses) + 1 /\ responses'[i - 1].kind = "change",
           requests' = <<>> => requests = <<>> \/ due \/ ~permitted,
           AnswersFitUser', OutstandingMatchesWire'
    PROVE  WireInv'
<1> DEFINE q == responses'
           n == Len(responses)
<1>1. /\ n \in Nat /\ Len(q) \in Nat /\ n < Len(q)
      /\ \A i \in 1..Len(q) : i \in 1..n \/ i \in (n + 1)..Len(q)
      /\ \A i \in 1..n : i \in 1..Len(q)
      /\ n + 1 \in 1..Len(q)
      /\ n + 1 \in (n + 1)..Len(q)
      /\ responses # <<>> => 1 \in 1..n
      /\ responses = <<>> => n = 0
      /\ responses' # <<>>
    BY TargetTypes
<1>2. ChangesInPairs'
  <2>1. ASSUME NEW i \in 1..Len(q)
        PROVE  /\ q[i].kind = "change" => i < Len(q) /\ q[i + 1].kind = "snapshot"
               /\ q[i].kind = "snapshot" /\ i > 1 => q[i - 1].kind = "change"
    <3>1. CASE i \in 1..n
      <4>1. /\ q[i] = responses[i]
            /\ responses[i].kind = "change" =>
                  i < n /\ responses[i + 1].kind = "snapshot"
            /\ responses[i].kind = "snapshot" /\ i > 1 =>
                  responses[i - 1].kind = "change"
          BY <3>1 DEF WireInv, ChangesInPairs
      <4>2. i < n => i + 1 \in 1..n
          BY <1>1, <3>1
      <4>3. i > 1 => i - 1 \in 1..n
          BY <1>1, <3>1
      <4>4. ASSUME q[i].kind = "change"
            PROVE  i < Len(q) /\ q[i + 1].kind = "snapshot"
        <5>1. i < n /\ responses[i + 1].kind = "snapshot" /\ i < Len(q)
            BY <1>1, <4>1, <4>4
        <5>2. q[i + 1] = responses[i + 1]
            BY <4>2, <5>1
        <5> QED
            BY <5>1, <5>2
      <4>5. ASSUME q[i].kind = "snapshot", i > 1
            PROVE  q[i - 1].kind = "change"
        <5>1. q[i - 1] = responses[i - 1]
            BY <4>3, <4>5
        <5> QED
            BY <4>1, <4>5, <5>1
      <4> QED
          BY <4>4, <4>5
    <3>2. CASE i \in (n + 1)..Len(q)
        BY <3>2
    <3> QED
        BY <1>1, <3>1, <3>2
  <2>2. pendingDocs' # 0 => responses' # <<>> /\ responses'[1].kind = "snapshot"
      BY <1>1 DEF WireInv, ChangesInPairs
  <2> QED
      BY <2>1, <2>2 DEF ChangesInPairs
<1>3. VersionsGrow'
  <2>1. /\ cache <= version' /\ pendingDocs <= version' /\ listenedAt <= version'
        /\ pendingDocs # 0 => cache <= pendingDocs
      BY TargetTypes DEF WireInv, VersionsGrow
  <2>2. ASSUME NEW i \in 1..n, responses[i].kind = "change"
        PROVE  /\ cache <= responses[i].docs /\ responses[i].docs <= version'
               /\ pendingDocs <= responses[i].docs
               /\ \A j \in i..n : responses[j].kind = "change" =>
                     responses[i].docs <= responses[j].docs
      BY <2>2, TargetTypes DEF WireInv, VersionsGrow
  <2>3. ASSUME NEW i \in 1..Len(q), q[i].kind = "change"
        PROVE  /\ cache <= q[i].docs /\ q[i].docs <= version'
               /\ pendingDocs <= q[i].docs
               /\ \A j \in i..Len(q) : q[j].kind = "change" => q[i].docs <= q[j].docs
    <3>1. CASE i \in 1..n
      <4>1. ASSUME NEW j \in i..Len(q), q[j].kind = "change"
            PROVE  q[i].docs <= q[j].docs
        <5>1. j \in 1..Len(q)
            BY <1>1, <3>1
        <5>2. CASE j \in 1..n
          <6>1. j \in i..n
              BY <5>2, <1>1, <4>1
          <6> QED
              BY <2>2, <2>3, <3>1, <4>1, <5>2, <6>1
        <5>3. CASE j \in (n + 1)..Len(q)
            BY <2>2, <2>3, <3>1, <4>1, <5>3
        <5> QED
            BY <1>1, <5>1, <5>2, <5>3
      <4> QED
          BY <2>2, <2>3, <3>1, <4>1
    <3>2. CASE i \in (n + 1)..Len(q)
      <4>1. q[i].docs = version'
          BY <2>3, <3>2
      <4>2. \A j \in i..Len(q) : j \in (n + 1)..Len(q)
          BY <1>1, <3>2
      <4> QED
          BY <2>1, <4>1, <4>2
    <3> QED
        BY <1>1, <3>1, <3>2
  <2> QED
      BY <2>1, <2>3 DEF VersionsGrow
<1>4. AnswersAreNew'
  <2>1. ASSUME listening, requests' = <<>>, NEW i \in 1..Len(q), q[i].kind = "change",
               \A j \in (i + 1)..Len(q) : ~IsDue(q[j])
        PROVE  q[i].docs >= listenedAt
    <3>1. CASE i \in (n + 1)..Len(q)
      <4>1. q[i].docs = version'
          BY <2>1, <3>1
      <4> QED
          BY <4>1, TargetTypes DEF WireInv, VersionsGrow
    <3>2. CASE i \in 1..n
      <4>1. n + 1 \in (i + 1)..Len(q) /\ ~due
        <5>1. n + 1 \in (i + 1)..Len(q)
            BY <1>1, <3>2
        <5> QED
            BY <1>1, <2>1, <5>1
      <4>2. permitted
          BY <2>1, <3>2 DEF WireInv, AnswersFitUser
      <4>3. requests = <<>> /\ responses[i] = q[i]
          BY <2>1, <3>2, <4>1, <4>2
      <4>4. \A j \in (i + 1)..n : ~IsDue(responses[j])
        <5>1. \A j \in (i + 1)..n : j \in (i + 1)..Len(q) /\ j \in 1..n
            BY <1>1, <3>2
        <5> QED
            BY <2>1, <5>1
      <4> QED
          BY <2>1, <3>2, <4>3, <4>4 DEF WireInv, AnswersAreNew
    <3> QED
        BY <1>1, <3>1, <3>2
  <2>2. IsActiveTarget' = IsActiveTarget
      BY DEF IsActiveTarget
  <2>3. responses'[1].kind = "snapshot" =>
            responses # <<>> /\ responses[1].kind = "snapshot"
      BY <1>1
  <2> QED
      BY <2>1, <2>2, <2>3 DEF WireInv, AnswersAreNew
<1> QED
    BY <1>2, <1>3, <1>4 DEF WireInv, SyncedMeansCaughtUp

LEMMA BackendAnswersWire ==
    ASSUME ListeningInv, WireInv, BackendAnswers
    PROVE  WireInv'
<1> DEFINE n == Len(responses)
           r == Head(requests)
           due == r = "unwatch" \/ watching'
<1>1. /\ requests # <<>> /\ requests' = Tail(requests)
      /\ watching' = (r = "watch" /\ permitted)
      /\ UNCHANGED <<cache, synced, listening, streamState, outstanding, pendingDocs,
                     permitted, listenedAt, version>>
    BY DEF BackendAnswers, engineVars, streamVars, targetVars
<1>2. /\ Len(requests) = Len(requests') + 1 /\ Len(requests') \in Nat
      /\ r \in {"watch", "unwatch"} /\ r = requests[1]
      /\ Len(requests') # 0 => requests'[Len(requests')] = requests[Len(requests)]
  <2>1. requests \in Seq({"watch", "unwatch"})
      BY TargetTypes
  <2>2. /\ Len(requests) = Len(requests') + 1 /\ Len(requests') \in Nat
        /\ r \in {"watch", "unwatch"} /\ r = requests[1]
        /\ \A i \in 1..Len(requests') : requests'[i] = requests[i + 1]
      BY <1>1, <2>1
  <2>3. Len(requests') # 0 => Len(requests') \in 1..Len(requests')
      BY <2>2
  <2> QED
      BY <2>2, <2>3
<1>3. streamState = "Open"
    BY <1>1 DEF ListeningInv, StreamInv, WireNeedsStream
<1>4. /\ responses \in Seq(Response) /\ n \in Nat
      /\ responses' \in Seq(Response)
    BY TargetTypes, BackendSafe DEF Backend, ListeningInv, TargetInv
<1>5. /\ Len(responses') > n
      /\ \A i \in 1..n : responses'[i] = responses[i]
      /\ \A i \in (n + 1)..Len(responses') :
            /\ IsDue(responses'[i]) <=> due /\ i = n + 1
            /\ responses'[i].kind = "change" =>
                  /\ responses'[i].docs = version'
                  /\ i < Len(responses') /\ responses'[i + 1].kind = "snapshot"
            /\ responses'[i].kind = "snapshot" =>
                  i > n + 1 /\ responses'[i - 1].kind = "change"
            /\ responses'[i].kind = "rejected" => ~permitted
            /\ responses'[i].kind \in {"change", "snapshot"} => permitted
  <2>1. CASE r = "unwatch"
    <3>1. responses' = responses \o <<Plain("removed")>>
        BY <2>1 DEF BackendAnswers
    <3>2. /\ Len(responses') = n + 1
          /\ \A i \in 1..n : responses'[i] = responses[i]
          /\ responses'[n + 1] = Plain("removed")
        BY <1>4, <3>1
    <3>3. \A i \in (n + 1)..Len(responses') : i = n + 1
        BY <1>4, <3>2
    <3>4. Plain("removed").kind = "removed"
        BY DEF Plain
    <3> QED
        BY <1>4, <2>1, <3>2, <3>3, <3>4 DEF IsDue
  <2>2. CASE r = "watch" /\ permitted
    <3>1. responses' = responses \o <<Plain("added"), Change(version), Plain("snapshot")>>
      <4>1. watching' /\ r # "unwatch"
          BY <1>1, <2>2
      <4> QED
          BY <4>1 DEF BackendAnswers
    <3>2. /\ Len(responses') = n + 3
          /\ \A i \in 1..n : responses'[i] = responses[i]
          /\ responses'[n + 1] = Plain("added")
          /\ responses'[n + 2] = Change(version)
          /\ responses'[n + 3] = Plain("snapshot")
        BY <1>4, <3>1
    <3>3. \A i \in (n + 1)..Len(responses') : i = n + 1 \/ i = n + 2 \/ i = n + 3
        BY <1>4, <3>2
    <3>4. /\ Plain("added").kind = "added" /\ Plain("snapshot").kind = "snapshot"
          /\ Change(version).kind = "change" /\ Change(version).docs = version
        BY DEF Plain, Change
    <3>5. due
        BY <1>1, <2>2
    <3>6. version' = version
        BY <1>1
    <3> HIDE DEF due, r
    <3>7. ASSUME NEW i \in (n + 1)..Len(responses')
          PROVE  /\ IsDue(responses'[i]) <=> due /\ i = n + 1
                 /\ responses'[i].kind = "change" =>
                       /\ responses'[i].docs = version'
                       /\ i < Len(responses') /\ responses'[i + 1].kind = "snapshot"
                 /\ responses'[i].kind = "snapshot" =>
                       i > n + 1 /\ responses'[i - 1].kind = "change"
                 /\ responses'[i].kind = "rejected" => ~permitted
                 /\ responses'[i].kind \in {"change", "snapshot"} => permitted
      <4>1. CASE i = n + 1
          BY <1>4, <3>2, <3>4, <3>5, <4>1 DEF IsDue
      <4>2. CASE i = n + 2
        <5>1. i + 1 = n + 3 /\ i # n + 1 /\ i < n + 3
            BY <1>4, <4>2
        <5> QED
            BY <2>2, <3>2, <3>4, <3>6, <4>2, <5>1 DEF IsDue
      <4>3. CASE i = n + 3
        <5>1. i - 1 = n + 2 /\ i # n + 1 /\ i > n + 1
            BY <1>4, <4>3
        <5> QED
            BY <2>2, <3>2, <3>4, <4>3, <5>1 DEF IsDue
      <4> QED
          BY <3>3, <4>1, <4>2, <4>3
    <3>8. Len(responses') > n
        BY <1>4, <3>2
    <3>9. \A i \in 1..n : responses'[i] = responses[i]
        BY <3>2
    <3> QED
        BY <3>7, <3>8, <3>9, Zenon
  <2>3. CASE r = "watch" /\ ~permitted
    <3>1. responses' = responses \o <<Plain("rejected")>>
      <4>1. ~watching' /\ r # "unwatch"
          BY <1>1, <2>3
      <4> QED
          BY <4>1 DEF BackendAnswers
    <3>2. /\ Len(responses') = n + 1
          /\ \A i \in 1..n : responses'[i] = responses[i]
          /\ responses'[n + 1] = Plain("rejected")
        BY <1>4, <3>1
    <3>3. \A i \in (n + 1)..Len(responses') : i = n + 1
        BY <1>4, <3>2
    <3>4. Plain("rejected").kind = "rejected"
        BY DEF Plain
    <3>5. ~due
        BY <1>1, <2>3
    <3> HIDE DEF due
    <3> QED
        BY <1>4, <2>3, <3>2, <3>3, <3>4, <3>5 DEF IsDue
  <2> QED
      BY <1>2, <2>1, <2>2, <2>3
<1>6. due \in BOOLEAN /\ (permitted => due)
    BY <1>1, <1>2
<1> HIDE DEF due
<1>7. AnswersFitUser'
  <2>1. \A i \in 1..Len(responses') : i \in 1..n \/ i \in (n + 1)..Len(responses')
      BY <1>4
  <2>2. ~permitted => ~watching'
      BY <1>1
  <2> QED
      BY <1>1, <1>5, <2>1, <2>2 DEF WireInv, AnswersFitUser
<1>8. OutstandingMatchesWire'
  <2>1. Cardinality(Due') = Cardinality(Due) + (IF due THEN 1 ELSE 0)
    <3>1. Due' = DueIn(responses') /\ Due = DueIn(responses)
        BY DEF Due, DueIn, IsDue
    <3> QED
        BY <1>4, <1>5, <1>6, <3>1, DueJoin
  <2>2. Cardinality(Due) \in Nat
      BY <1>4, DueIsCounted, DueDef
  <2>3. permitted' => outstanding' = Len(requests') + Cardinality(Due')
      BY <1>1, <1>2, <1>6, <2>1, <2>2 DEF WireInv, OutstandingMatchesWire
  <2>4. Len(requests) # 0 /\
        ((requests[Len(requests)] = "watch") = listening \/ ~permitted)
      BY <1>2, <1>3 DEF WireInv, OutstandingMatchesWire
  <2>5. CASE Len(requests') = 0
    <3>1. permitted' => watching' = listening'
        BY <1>1, <1>2, <2>4, <2>5
    <3> QED
        BY <1>1, <1>3, <2>3, <2>5, <3>1 DEF OutstandingMatchesWire
  <2>6. CASE Len(requests') # 0
    <3>1. (requests'[Len(requests')] = "watch") = listening' \/ ~permitted'
        BY <1>1, <1>2, <2>4, <2>6
    <3> QED
        BY <1>1, <1>3, <2>3, <2>6, <3>1 DEF OutstandingMatchesWire
  <2> QED
      BY <2>5, <2>6
<1>9. version' \in Nat /\ version <= version'
    BY <1>1, TargetTypes
<1> QED
    BY <1>1, <1>4, <1>5, <1>6, <1>7, <1>8, <1>9, MessagesJoin

LEMMA PostsChangeWire ==
    ASSUME ListeningInv, WireInv, PostsChange
    PROVE  WireInv'
<1> DEFINE n == Len(responses)
<1>1. /\ version' = version + 1 /\ version' \in Nat /\ version <= version'
      /\ UNCHANGED <<cache, synced, listening, streamState, outstanding, pendingDocs,
                     permitted, listenedAt, requests, watching>>
    BY TargetTypes DEF PostsChange, engineVars, streamVars, targetVars
<1>2. CASE watching
  <2>1. responses' = responses \o <<Change(version'), Plain("snapshot")>>
      BY <1>2 DEF PostsChange
  <2>2. /\ responses \in Seq(Response) /\ n \in Nat
        /\ responses' \in Seq(Response)
      BY TargetTypes, BackendSafe DEF Backend, ListeningInv, TargetInv
  <2>3. /\ Len(responses') = n + 2
        /\ \A i \in 1..n : responses'[i] = responses[i]
        /\ responses'[n + 1] = Change(version')
        /\ responses'[n + 2] = Plain("snapshot")
      BY <2>1, <2>2
  <2>4. /\ Plain("snapshot").kind = "snapshot"
        /\ Change(version').kind = "change" /\ Change(version').docs = version'
      BY DEF Plain, Change
  <2>5. \A i \in (n + 1)..Len(responses') : i = n + 1 \/ i = n + 2
      BY <2>2, <2>3
  <2>6. /\ Len(responses') > n
        /\ \A i \in (n + 1)..Len(responses') :
              /\ IsDue(responses'[i]) <=> FALSE /\ i = n + 1
              /\ responses'[i].kind = "change" =>
                    /\ responses'[i].docs = version'
                    /\ i < Len(responses') /\ responses'[i + 1].kind = "snapshot"
              /\ responses'[i].kind = "snapshot" =>
                    i > n + 1 /\ responses'[i - 1].kind = "change"
              /\ responses'[i].kind # "rejected"
      BY <2>2, <2>3, <2>4, <2>5 DEF IsDue
  <2>7. permitted /\ streamState = "Open"
      BY <1>2 DEF WireInv, AnswersFitUser, ListeningInv, StreamInv, WireNeedsStream
  <2>8. AnswersFitUser'
    <3>1. \A i \in 1..Len(responses') : i \in 1..n \/ i \in (n + 1)..Len(responses')
        BY <2>2
    <3> QED
        BY <1>1, <2>3, <2>6, <2>7, <3>1 DEF WireInv, AnswersFitUser
  <2>9. OutstandingMatchesWire'
    <3>1. Due' = DueIn(responses') /\ Due = DueIn(responses)
        BY DEF Due, DueIn, IsDue
    <3>2. Cardinality(Due') = Cardinality(Due) /\ Cardinality(Due) \in Nat
      <4>1. \A i \in (n + 1)..Len(responses') :
                IsDue(responses'[i]) <=> FALSE /\ i = n + 1
          BY <2>6
      <4>2. Cardinality(DueIn(responses')) =
                Cardinality(DueIn(responses)) + (IF FALSE THEN 1 ELSE 0)
          BY <2>2, <2>3, <2>6, <4>1, DueJoin
      <4> QED
          BY <2>2, <3>1, <4>2, DueIsCounted
    <3> QED
        BY <1>1, <2>7, <3>2 DEF WireInv, OutstandingMatchesWire
  <2>10. FALSE \in BOOLEAN
      OBVIOUS
  <2> HIDE DEF n
  <2> QED
      BY <1>1, <2>2, <2>3, <2>6, <2>8, <2>9, <2>10, MessagesJoin DEF n
<1>3. CASE ~watching
  <2>1. responses' = responses
      BY <1>3 DEF PostsChange
  <2>2. OutstandingMatchesWire'
      BY <1>1, <2>1 DEF WireInv, OutstandingMatchesWire, Due
  <2>3. AnswersFitUser' /\ ChangesInPairs' /\ AnswersAreNew'
      BY <1>1, <2>1 DEF WireInv, AnswersFitUser, ChangesInPairs, AnswersAreNew,
         IsActiveTarget
  <2>4. VersionsGrow'
    <3>1. \A i \in 1..Len(responses) : responses[i].kind = "change" =>
              responses[i].docs <= version /\ responses[i].docs \in Nat
        BY TargetTypes DEF WireInv, VersionsGrow
    <3> QED
        BY <1>1, <2>1, <3>1, TargetTypes DEF WireInv, VersionsGrow
  <2> QED
      BY <1>1, <2>2, <2>3, <2>4 DEF WireInv, SyncedMeansCaughtUp
<1> QED
    BY <1>2, <1>3

-----------------------------------------------------------------------------
(* The theorems about the wire *)

LEMMA WireInitially == ASSUME Init PROVE WireInv
<1>1. /\ Len(requests) = 0 /\ Len(responses) = 0 /\ 1..Len(responses) = {}
      /\ version \in Nat
  <2>1. requests = <<>> /\ responses = <<>> /\ version \in {0, MaxVersion \div 2}
      BY DEF Init
  <2> QED
      BY <2>1, BoundsAssumption
<1>2. Due = {} /\ Cardinality(Due) = 0
  <2>1. Due = {}
      BY <1>1 DEF Due
  <2> QED
      BY <2>1, FS_EmptySet
<1> QED
    BY <1>1, <1>2 DEF Init, WireInv, OutstandingMatchesWire, AnswersFitUser,
       ChangesInPairs, VersionsGrow, AnswersAreNew, SyncedMeansCaughtUp

LEMMA WireStep ==
    ASSUME ListeningInv, WireInv, [Next]_vars
    PROVE  WireInv'
<1>1. CASE \E l \in Listeners : AddQueryListener(l)
    BY <1>1, AddQueryListenerWire
<1>2. CASE \E l \in Listeners : l \in listeners /\ RemoveQueryListener(l)
    BY <1>2, RemoveQueryListenerWire
<1>3. CASE BackoffElapsed \/ OnlineStateTimeout
  <2>1. CASE BackoffElapsed
      BY <2>1, WireUntouched DEF BackoffElapsed, backendVars, engineVars
  <2>2. CASE OnlineStateTimeout
      BY <2>2, WireUntouched
      DEF OnlineStateTimeout, HandleOnlineStateChange, streamVars, backendVars
  <2> QED
      BY <1>3, <2>1, <2>2
<1>4. CASE StreamFails \/ IdleTimeout \/ HandleCredentialChange
    BY <1>4, DisconnectWire
<1>5. CASE ResumeStartWithCredentials
    BY <1>5, ResumeStartWire
<1>6. CASE OnWatchStreamChange
    BY <1>6, TargetAnswersWire, TargetChangedWire, RaiseWatchSnapshotWire
    DEF OnWatchStreamChange
<1>7. CASE Backend
    BY <1>7, BackendAnswersWire, PostsChangeWire DEF Backend
<1>8. CASE UNCHANGED vars
    BY <1>8, WireUntouched DEF vars, backendVars, engineVars, streamVars
<1> QED
    BY <1>1, <1>2, <1>3, <1>4, <1>5, <1>6, <1>7, <1>8 DEF Next, Engine

(***************************************************************************)
(* What the wire holds fits the stream, the user and the listen there is.  *)
(***************************************************************************)
THEOREM WireInvariant == Spec => []WireInv
<1>1. Init => WireInv
    BY WireInitially
<1>2. ListeningInv /\ WireInv /\ [Next]_vars => WireInv'
    BY WireStep
<1> QED
    BY <1>1, <1>2, ListeningInvariant, PTL DEF Spec

(***************************************************************************)
(* outstanding_responses_ counts the answers due on a stream whose user    *)
(* may read the posts, for wires of any length, so a target is taken to be *)
(* active only when no answer to an earlier listen is to come.             *)
(***************************************************************************)
THEOREM OutstandingCountsAnswers == Spec => []OutstandingMatchesWire
<1>1. WireInv => OutstandingMatchesWire
    BY DEF WireInv
<1> QED
    BY <1>1, WireInvariant, PTL

(***************************************************************************)
(* A view that is not from cache has all the posts there were when its     *)
(* query was first listened to, whatever was listened to before.           *)
(***************************************************************************)
THEOREM SyncedViewsAreCaughtUp == Spec => []SyncedMeansCaughtUp
<1>1. WireInv => SyncedMeansCaughtUp
    BY DEF WireInv
<1> QED
    BY <1>1, WireInvariant, PTL

-----------------------------------------------------------------------------
(* What a step can do to the documents and to what is heard of them *)

LEMMA CacheGrows ==
    ASSUME ListeningInv, WireInv, [Next]_vars
    PROVE  cache' >= cache /\ cache \in Nat /\ cache' \in Nat
<1>1. cache \in Nat /\ pendingDocs \in Nat
    BY TargetTypes
<1>2. CASE RaiseWatchSnapshot
    BY <1>1, <1>2 DEF RaiseWatchSnapshot, WireInv, VersionsGrow
<1>3. CASE UNCHANGED cache
    BY <1>1, <1>3
<1>4. \/ \E l \in Listeners : AddQueryListener(l) \/ RemoveQueryListener(l)
      \/ ResumeStartWithCredentials \/ BackoffElapsed \/ StreamFails
      \/ IdleTimeout \/ HandleCredentialChange \/ OnlineStateTimeout
      \/ TargetAdded \/ TargetRemoved \/ TargetRejected \/ TargetChanged
      \/ Backend \/ UNCHANGED vars
      => UNCHANGED cache
    BY DEF AddQueryListener, RemoveQueryListener, ResumeStartWithCredentials,
       BackoffElapsed, StreamFails, IdleTimeout, HandleCredentialChange,
       OnlineStateTimeout, HandleOnlineStateChange, TargetAdded, TargetRemoved,
       TargetRejected, TargetChanged, Backend, BackendAnswers, PostsChange,
       engineVars, vars
<1> QED
    BY <1>2, <1>3, <1>4 DEF Next, Engine, OnWatchStreamChange

LEMMA NotifyTellsDocs ==
    ASSUME NEW ls, NEW docs, NEW isSynced, NEW online,
           Notify(ls, docs, isSynced, online)
    PROVE  \A l \in Listeners : heard'[l] \in {heard[l], docs}
  BY DEF Notify

\* Whatever a listener hears is the documents as they are then, or an error.
LEMMA ListenersHearTheCache ==
    ASSUME ListeningInv, [Next]_vars
    PROVE  \A l \in Listeners : heard'[l] \in {heard[l], cache', Failed}
<1> DEFINE Hears == \A l \in Listeners : heard'[l] \in {heard[l], cache', Failed}
<1>1. ASSUME NEW online, HandleOnlineStateChange(online) PROVE Hears
  <2>1. Notify(listeners, cache, synced', online) /\ cache' = cache
      BY <1>1 DEF HandleOnlineStateChange
  <2> QED
      BY <2>1, NotifyTellsDocs
<1>2. ASSUME UNCHANGED heard PROVE Hears
    BY <1>2
<1>3. ASSUME NEW l \in Listeners, AddQueryListener(l) PROVE Hears
  <2>1. PICK ls, isSynced : Notify(ls, cache, isSynced, onlineState)
      BY <1>3 DEF AddQueryListener
  <2>2. cache' = cache
      BY <1>3 DEF AddQueryListener
  <2> QED
      BY <2>1, <2>2, NotifyTellsDocs
<1>4. CASE TargetRejected
  <2>1. CASE listening
      BY <1>4, <2>1 DEF TargetRejected
  <2>2. CASE ~listening
      BY <1>4, <2>2 DEF TargetRejected, managerVars
  <2> QED
      BY <2>1, <2>2
<1>5. CASE RaiseWatchSnapshot
  <2>1. PICK isSynced : Notify(listeners, cache', isSynced, "Online")
      BY <1>5 DEF RaiseWatchSnapshot
  <2> QED
      BY <2>1, NotifyTellsDocs
<1>6. CASE \/ StreamFails \/ IdleTimeout \/ HandleCredentialChange
           \/ OnlineStateTimeout \/ TargetAdded \/ TargetRemoved
           \/ TargetChanged
    BY <1>1, <1>6 DEF StreamFails, IdleTimeout, HandleCredentialChange,
       OnlineStateTimeout, TargetAdded, TargetRemoved, TargetChanged
<1>7. \/ \E l \in Listeners : RemoveQueryListener(l)
      \/ ResumeStartWithCredentials \/ BackoffElapsed \/ Backend
      \/ UNCHANGED vars
      => UNCHANGED heard
    BY DEF RemoveQueryListener, ResumeStartWithCredentials, BackoffElapsed,
       Backend, BackendAnswers, PostsChange, managerVars, vars
<1> QED
    BY <1>2, <1>3, <1>4, <1>5, <1>6, <1>7 DEF Next, Engine, OnWatchStreamChange

(***************************************************************************)
(* The documents in the cache never go back to older ones: whatever is     *)
(* still on the wire is at least as new, also when it was sent for an      *)
(* earlier listen.                                                         *)
(***************************************************************************)
THEOREM CacheNeverGoesBack == Spec => [][cache' >= cache]_vars
<1>1. ASSUME ListeningInv, WireInv, [Next]_vars PROVE [cache' >= cache]_vars
    BY <1>1, CacheGrows
<1> QED
    BY <1>1, ListeningInvariant, WireInvariant, PTL DEF Spec

-----------------------------------------------------------------------------
(* The newest posts arrive *)

\* Where the posts the backend holds are on their way to the view.
NewestOnWire ==
    LET n == Len(responses)
    IN  /\ n >= 2
        /\ responses[n - 1] = Change(version)
        /\ responses[n] = Plain("snapshot")

NewestPending ==
    /\ Len(responses) = 1 /\ responses[1].kind = "snapshot"
    /\ pendingDocs = version /\ current /\ outstanding = 0

NewestSeen ==
    responses = <<>> /\ cache = version /\ synced /\ onlineState = "Online"

NewestInv == AllAnswered => NewestOnWire \/ NewestPending \/ NewestSeen

\* When everything is answered the backend watches, and without answers to come
\* the target is active.
LEMMA AnsweredTarget ==
    ASSUME ListeningInv, WireInv, AllAnswered
    PROVE  /\ watching
           /\ (\A i \in 1..Len(responses) : ~IsDue(responses[i])) => IsActiveTarget
<1>1. Len(requests) = 0
    BY DEF AllAnswered
<1>2. watching
    BY <1>1 DEF AllAnswered, WireInv, OutstandingMatchesWire
<1>3. ASSUME \A i \in 1..Len(responses) : ~IsDue(responses[i])
      PROVE  IsActiveTarget
  <2>1. Due = {} /\ Cardinality(Due) = 0
      BY <1>3, FS_EmptySet DEF Due, IsDue
  <2>2. outstanding = 0
      BY <1>1, <2>1 DEF AllAnswered, WireInv, OutstandingMatchesWire
  <2> QED
      BY <2>2 DEF AllAnswered, IsActiveTarget
<1> QED
    BY <1>2, <1>3

\* A listen that begins has still to be answered, and a stream that is not open
\* answers nothing.
LEMMA ListensAreUnanswered ==
    ASSUME ListeningInv, NewestInv, AllAnswered',
           \/ \E l \in Listeners : AddQueryListener(l) \/ RemoveQueryListener(l)
           \/ ResumeStartWithCredentials \/ BackoffElapsed \/ StreamFails
           \/ IdleTimeout \/ HandleCredentialChange
    PROVE  NewestInv'
<1> DEFINE same == UNCHANGED <<synced, cache, streamVars, targetVars, onlineVars,
                               wireVars, backendVars>>
<1>1. ASSUME same PROVE NewestInv'
    BY <1>1 DEF NewestInv, AllAnswered, NewestOnWire, NewestPending, NewestSeen,
       streamVars, targetVars, onlineVars, wireVars, backendVars
<1>2. ASSUME NEW l \in Listeners, AddQueryListener(l) PROVE same
  <2>1. CASE listeners = {}
    <3>1. Listen
        BY <1>2, <2>1 DEF AddQueryListener
    <3>2. streamState' # "Open" \/ requests' # <<>>
      <4>1. CASE streamState = "Open"
        <5>1. requests' = Append(requests, "watch")
            BY <3>1, <4>1 DEF Listen, Send, IsStarted
        <5>2. requests \in Seq({"watch", "unwatch"})
            BY DEF ListeningInv, TargetInv
        <5> QED
            BY <5>1, <5>2
      <4>2. CASE streamState # "Open"
          BY <3>1, <4>2 DEF Listen, Start
      <4> QED
          BY <4>1, <4>2
    <3> QED
        BY <3>2 DEF AllAnswered
  <2>2. CASE listeners # {}
      BY <1>2, <2>2 DEF AddQueryListener
  <2> QED
      BY <2>1, <2>2
<1>3. ASSUME NEW l \in Listeners, RemoveQueryListener(l) PROVE same
  <2>1. CASE listeners = {l}
      BY <1>3, <2>1 DEF RemoveQueryListener, StopListening, AllAnswered
  <2>2. CASE listeners # {l}
      BY <1>3, <2>2 DEF RemoveQueryListener
  <2> QED
      BY <2>1, <2>2
<1>4. CASE ResumeStartWithCredentials
    BY <1>4 DEF ResumeStartWithCredentials, AllAnswered
<1>5. CASE BackoffElapsed \/ StreamFails \/ IdleTimeout \/ HandleCredentialChange
  <2>1. streamState' # "Open"
      BY <1>5 DEF BackoffElapsed, StreamFails, IdleTimeout,
         HandleCredentialChange, IsStarted, Start
  <2> QED
      BY <2>1 DEF AllAnswered
<1> QED
    BY <1>1, <1>2, <1>3, <1>4, <1>5

\* Reading moves the newest posts towards the view.
LEMMA NewestIsRead ==
    ASSUME ListeningInv, WireInv, NewestInv, AllAnswered', OnWatchStreamChange
    PROVE  NewestInv'
<1>1. PICK kind \in {"added", "removed", "rejected", "change", "snapshot"} : Read(kind)
    BY DEF OnWatchStreamChange, TargetAdded, TargetRemoved, TargetRejected,
       TargetChanged, RaiseWatchSnapshot
<1>2. AllAnswered
  <2>1. streamState' = streamState
      BY DEF OnWatchStreamChange, TargetAdded, TargetRemoved, TargetRejected,
         TargetChanged, RaiseWatchSnapshot, streamVars
  <2>2. listening' => listening
      BY DEF OnWatchStreamChange, TargetAdded, TargetRemoved, TargetRejected,
         TargetChanged, RaiseWatchSnapshot, streamVars
  <2>3. UNCHANGED <<requests, permitted>>
      BY <1>1, ReadMoves
  <2> QED
      BY <2>1, <2>2, <2>3 DEF AllAnswered
<1>3. /\ responses # <<>> /\ 1 \in 1..Len(responses)
      /\ responses[1].kind = kind /\ Head(responses) = responses[1]
      /\ Len(responses') \in Nat /\ Len(responses) = Len(responses') + 1
      /\ \A i \in 1..Len(responses') : responses'[i] = responses[i + 1]
      /\ version' = version
    BY <1>1, ReadMoves
<1>4. CASE NewestOnWire /\ Len(responses) > 2
  <2>1. /\ Len(responses') >= 2
        /\ Len(responses') - 1 \in 1..Len(responses')
        /\ Len(responses') \in 1..Len(responses')
      BY <1>3, <1>4
  <2>2. /\ responses'[Len(responses') - 1] = responses[Len(responses) - 1]
        /\ responses'[Len(responses')] = responses[Len(responses)]
      BY <1>3, <2>1
  <2>3. NewestOnWire'
      BY <1>3, <1>4, <2>1, <2>2 DEF NewestOnWire
  <2> QED
      BY <2>3 DEF NewestInv
<1>5. CASE NewestOnWire /\ ~ Len(responses) > 2
  <2>1. Len(responses) = 2 /\ Len(responses') = 1
    <3>1. Len(responses) >= 2
        BY <1>5 DEF NewestOnWire
    <3> QED
        BY <1>3, <1>5, <3>1
  <2>2. responses[1] = Change(version) /\ responses[2] = Plain("snapshot")
      BY <1>5, <2>1 DEF NewestOnWire
  <2>3. /\ responses[1].kind = "change" /\ responses[1].docs = version
        /\ responses[2].kind = "snapshot"
      BY <2>2 DEF Change, Plain
  <2>4. IsActiveTarget
    <3>1. \A i \in 1..Len(responses) : ~IsDue(responses[i])
        BY <2>1, <2>3 DEF IsDue
    <3> QED
        BY <1>2, <3>1, AnsweredTarget
  <2>5. TargetChanged
      BY <1>3, <2>3 DEF OnWatchStreamChange, TargetAdded, TargetRemoved,
         TargetRejected, RaiseWatchSnapshot, Read
  <2>6. /\ pendingDocs' = version /\ current' = TRUE
        /\ outstanding' = outstanding /\ outstanding = 0
      BY <1>3, <2>3, <2>4, <2>5 DEF TargetChanged, IsActiveTarget
  <2>7. responses'[1].kind = "snapshot"
      BY <1>3, <2>1, <2>3
  <2>8. NewestPending'
      BY <1>3, <2>1, <2>6, <2>7 DEF NewestPending
  <2> QED
      BY <2>8 DEF NewestInv
<1>6. CASE NewestPending
  <2>1. RaiseWatchSnapshot
      BY <1>3, <1>6 DEF NewestPending, OnWatchStreamChange, TargetAdded,
         TargetRemoved, TargetRejected, TargetChanged, Read
  <2>2. IsActiveTarget
      BY <1>2, <1>6 DEF NewestPending, AllAnswered, IsActiveTarget
  <2>3. /\ cache' = IF pendingDocs = 0 THEN cache ELSE pendingDocs
        /\ synced' = current
        /\ onlineState' = "Online"
      BY <2>1, <2>2 DEF RaiseWatchSnapshot, Read, UpdateState
  <2>4. cache' = version /\ synced'
      BY <1>6, <2>3, TargetTypes DEF NewestPending, WireInv, VersionsGrow
  <2>5. responses' = <<>>
    <3>1. Len(responses') = 0 /\ responses' \in Seq(Response)
        BY <1>1, <1>3, <1>6, TargetTypes DEF NewestPending, Read
    <3> QED
        BY <3>1
  <2>6. NewestSeen'
      BY <1>3, <2>3, <2>4, <2>5 DEF NewestSeen
  <2> QED
      BY <2>6 DEF NewestInv
<1> QED
    BY <1>2, <1>3, <1>4, <1>5, <1>6 DEF NewestInv, NewestSeen

\* The answer to the last listen and every later change bring the newest posts.
LEMMA NewestIsSent ==
    ASSUME ListeningInv, WireInv, AllAnswered', Backend
    PROVE  NewestOnWire'
<1>1. responses \in Seq(Response)
    BY TargetTypes
<1>2. CASE BackendAnswers
  <2>1. /\ requests # <<>> /\ requests' = Tail(requests)
        /\ UNCHANGED <<streamState, listening, permitted, version>>
      BY <1>2 DEF BackendAnswers, streamVars
  <2>2. Len(requests) = 1 /\ Head(requests) = requests[1]
    <3>1. requests \in Seq({"watch", "unwatch"})
        BY TargetTypes
    <3>2. Len(requests) = Len(requests') + 1 /\ Head(requests) = requests[1]
        BY <2>1, <3>1
    <3>3. Len(requests') = 0
        BY DEF AllAnswered
    <3> QED
        BY <3>2, <3>3
  <2>3. Head(requests) = "watch" /\ watching'
    <3>1. listening /\ permitted /\ streamState = "Open"
        BY <2>1 DEF AllAnswered
    <3>2. requests[1] = "watch"
      <4>1. LET last == Len(requests)
            IN  IF last = 0 THEN permitted => watching = listening
                ELSE (requests[last] = "watch") = listening \/ ~permitted
          BY <3>1 DEF WireInv, OutstandingMatchesWire
      <4>2. (requests[1] = "watch") = listening \/ ~permitted
          BY <2>2, <4>1
      <4> QED
          BY <3>1, <4>2
    <3>3. watching' = (Head(requests) = "watch" /\ permitted)
        BY <1>2 DEF BackendAnswers
    <3>4. Head(requests) = "watch"
        BY <2>2, <3>2
    <3> QED
        BY <3>1, <3>3, <3>4
  <2>4. responses' = responses \o <<Plain("added"), Change(version),
                                    Plain("snapshot")>>
      BY <1>2, <2>3 DEF BackendAnswers
  <2> DEFINE n == Len(responses)
  <2>5. /\ Len(responses') = n + 3 /\ n \in Nat
        /\ responses'[n + 2] = Change(version)
        /\ responses'[n + 3] = Plain("snapshot")
      BY <1>1, <2>4
  <2>6. Len(responses') >= 2 /\ Len(responses') - 1 = n + 2
      BY <2>5
  <2>7. responses'[Len(responses') - 1] = Change(version')
      BY <2>1, <2>5, <2>6
  <2> QED
      BY <2>5, <2>6, <2>7 DEF NewestOnWire
<1>3. CASE PostsChange
  <2>1. UNCHANGED <<requests, permitted, streamState, listening>>
      BY <1>3 DEF PostsChange, streamVars
  <2>2. AllAnswered
      BY <2>1 DEF AllAnswered
  <2>3. watching
      BY <2>2, AnsweredTarget
  <2>4. responses' = responses \o <<Change(version'), Plain("snapshot")>>
      BY <1>3, <2>3 DEF PostsChange
  <2> DEFINE n == Len(responses)
  <2>5. /\ Len(responses') = n + 2 /\ n \in Nat
        /\ responses'[n + 1] = Change(version')
        /\ responses'[n + 2] = Plain("snapshot")
      BY <1>1, <2>4
  <2>6. Len(responses') >= 2 /\ Len(responses') - 1 = n + 1
      BY <2>5
  <2> QED
      BY <2>5, <2>6 DEF NewestOnWire
<1> QED
    BY <1>2, <1>3 DEF Backend

LEMMA NewestStep ==
    ASSUME ListeningInv, WireInv, NewestInv, [Next]_vars
    PROVE  NewestInv'
<1> SUFFICES ASSUME AllAnswered'
             PROVE  NewestInv'
    BY DEF NewestInv
<1>1. CASE OnlineStateTimeout
  <2>1. /\ onlineState # "Online"
        /\ UNCHANGED <<streamVars, targetVars, wireVars, backendVars>>
      BY <1>1 DEF OnlineStateTimeout, ListeningInv, StreamInv, OnlineStateSound
  <2> QED
      BY <2>1 DEF NewestInv, AllAnswered, NewestOnWire, NewestPending,
         NewestSeen, streamVars, targetVars, wireVars, backendVars
<1>2. CASE UNCHANGED vars
    BY <1>2 DEF vars, NewestInv, AllAnswered, NewestOnWire, NewestPending,
       NewestSeen, engineVars, streamVars, targetVars, onlineVars, wireVars,
       backendVars
<1>3. CASE Backend
    BY <1>3, NewestIsSent DEF NewestInv
<1> QED
    BY <1>1, <1>2, <1>3, ListensAreUnanswered, NewestIsRead DEF Next, Engine

(***************************************************************************)
(* Wherever a stream stands, the newest posts are in the view or on their  *)
(* way to it, once its requests are answered.                              *)
(***************************************************************************)
THEOREM NewestInvariant == Spec => []NewestInv
<1>1. Init => NewestInv
    BY DEF Init, NewestInv, AllAnswered
<1>2. ListeningInv /\ WireInv /\ NewestInv /\ [Next]_vars => NewestInv'
    BY NewestStep
<1> QED
    BY <1>1, <1>2, ListeningInvariant, WireInvariant, PTL DEF Spec

(***************************************************************************)
(* A stream that has nothing more to say has told every listener exactly   *)
(* what the backend holds.                                                 *)
(***************************************************************************)
THEOREM QuietStreamsAreUpToDate == Spec => []QuietStreamIsUpToDate
<1>1. ListeningInv /\ NewestInv => QuietStreamIsUpToDate
  <2>1. SUFFICES ASSUME ListeningInv, NewestInv, AllAnswered, responses = <<>>,
                        NEW l \in listeners
                 PROVE  l \in raised /\ heard[l] = version
      BY DEF QuietStreamIsUpToDate
  <2>2. NewestSeen
      BY <2>1 DEF NewestInv, NewestOnWire, NewestPending
  <2> QED
      BY <2>1, <2>2 DEF NewestSeen, ListeningInv, ViewInv, ListenersSeeTheView,
         ShouldRaiseInitialEvent
<1> QED
    BY <1>1, ListeningInvariant, NewestInvariant, PTL

=============================================================================
