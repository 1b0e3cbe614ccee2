----------------------------- MODULE FeedProofs -----------------------------
(***************************************************************************)
(* Proofs about Feed, for any number of listeners, changes of the posts    *)
(* and faults, and queues of any length.                                   *)
(*                                                                         *)
(* Feed calls Listening as its specification allows, so what is proved     *)
(* about the listeners holds under the screens as well. On top of it,      *)
(* ScreensInv relates a screen's property listener to the calls it made,   *)
(* TasksInv each call to what the engine has done or has yet to do about   *)
(* it, and BlocksInv says that events are for listeners that were added.   *)
(* NewsInv follows the documents themselves: from the cache over the       *)
(* events of the main queue to the array, and over the reloads to the      *)
(* view, they are in order, and the newest are the ones held upstream.     *)
(* With the newest posts on the wire, from ListeningProofs, it reaches     *)
(* from the backend to the collection view.                                *)
(***************************************************************************)
EXTENDS Feed, ListeningProofs

Live == Calls \ muted

\* listener? is the screen's only live registration.
OneEach ==
    /\ \A s \in Screens : Registered(s) =>
          listener[s] \in Live /\ owner[listener[s]] = s
    /\ \A l \in Live :
          Registered(owner[l]) /\ listener[owner[l]] = l

\* Listeners are numbered in the order of the calls.
CallsInOrder ==
    \A l \in Calls : \A k \in Listeners : k < l => k \in Calls

ScreensInv ==
    /\ phase \in [Screens -> {"hidden", "appearing", "visible", "disappearing"}]
    /\ listener \in [Screens -> Listeners \cup {0}]
    /\ owner \in [Listeners -> Screens \cup {"none"}]
    /\ muted \in SUBSET Calls
    /\ OneEach
    /\ CallsInOrder

\* Adds are in the order of the calls, and a listener is removed after it was
\* added.
TasksInOrder ==
    \A i, j \in 1..Len(workerQueue) :
        i < j /\ workerQueue[j].kind = "add" =>
            /\ workerQueue[i].kind = "add" =>
                  workerQueue[i].listener < workerQueue[j].listener
            /\ workerQueue[i].kind = "remove" =>
                  workerQueue[i].listener # workerQueue[j].listener

\* What the engine knows of each call, or will when it has run its tasks.
EngineFollows ==
    /\ \A l \in Live : heard[l] # Failed =>
          l \in listeners \/ l \in Pending("add")
    /\ \A l \in listeners :
          l \in Calls /\ (l \in muted => l \in Pending("remove"))
    /\ \A l \in Pending("add") :
          l \in Calls /\ l > listens /\ (l \in muted => l \in Pending("remove"))
    /\ \A l \in Pending("remove") : l \in muted
    /\ \A l \in Listeners : l <= listens => l \in Calls

Tasks == [kind: {"add", "remove"}, listener: Listeners]

TasksInv ==
    /\ workerQueue \in Seq(Tasks)
    /\ TasksInOrder
    /\ EngineFollows

Blocks == [kind: {"event"}, listener: Listeners,
           event: Versions \cup {Nothing, Failed}]
          \cup [kind: {"reload"}, screen: Screens]

EventsFit ==
    \A i \in 1..Len(mainQueue) :
        mainQueue[i].kind = "event" => mainQueue[i].listener \in Calls

BlocksInv ==
    /\ mainQueue \in Seq(Blocks)
    /\ EventsFit
    /\ posts = [s \in Screens |-> posts[s]]

FeedInv ==
    /\ ListeningInv
    /\ ScreensInv
    /\ TasksInv
    /\ BlocksInv

LEMMA FeedInvImplies == ASSUME FeedInv PROVE RegistrationsFollowScreens
<1> USE DEF FeedInv, ScreensInv, TasksInv
<1>1. Live = {listener[s] : s \in {s \in Screens : Registered(s)}}
  <2>1. \A l \in Live : owner[l] \in Screens
      BY DEF Live, Calls
  <2> QED
      BY <2>1 DEF OneEach
<1>2. \A l \in listeners : heard[l] # Failed
    BY HeardAssumption
    DEF ListeningInv, ViewInv, ListenersSeeTheView, Versions
<1>3. \A l \in Pending("add") : heard[l] # Failed
  <2>1. \A l \in Pending("add") : l \in Listeners /\ l > listens
      BY DEF EngineFollows, Calls
  <2> QED
      BY <2>1, HeardAssumption DEF ListeningInv, ViewInv, ListenersAreNumbered
<1>4. (listeners \cup Pending("add")) \ Pending("remove")
          = {l \in Live : heard[l] # Failed}
    BY <1>2, <1>3 DEF EngineFollows, Live
<1> QED
    BY <1>1, <1>4 DEF RegistrationsFollowScreens, Live

LEMMA FeedInitially == ASSUME FeedInit PROVE FeedInv
<1> USE DEF FeedInit
<1>1. ListeningInv
    BY ListeningInitially
<1>2. Calls = {}
    BY DEF Calls
<1>3. ScreensInv
    BY <1>2 DEF ScreensInv, OneEach, CallsInOrder, Live, Registered
<1>4. Pending("add") = {} /\ Pending("remove") = {} /\ listeners = {}
    BY DEF Pending, Init
<1>5. TasksInv
  <2>1. \A l \in Listeners : ~(l <= listens)
      BY BoundsAssumption DEF Init, Listeners
  <2> QED
      BY <1>2, <1>4, <2>1 DEF TasksInv, TasksInOrder, EngineFollows, Live
<1>6. BlocksInv
    BY DEF BlocksInv, EventsFit
<1> QED
    BY <1>1, <1>3, <1>5, <1>6 DEF FeedInv

-----------------------------------------------------------------------------
(* Tasks *)

LEMMA PendingMembers ==
    ASSUME NEW kind, NEW l
    PROVE  l \in Pending(kind) <=>
              \E i \in 1..Len(workerQueue) :
                  workerQueue[i].kind = kind /\ workerQueue[i].listener = l
  BY DEF Pending

\* A call puts a task at the end of the queue.
LEMMA CallQueues ==
    ASSUME workerQueue \in Seq(Tasks),
           NEW kind \in {"add", "remove"}, NEW l \in Listeners,
           workerQueue' = Append(workerQueue, Task(kind, l))
    PROVE  /\ workerQueue' \in Seq(Tasks)
           /\ Pending(kind)' = Pending(kind) \cup {l}
           /\ \A other : other # kind => Pending(other)' = Pending(other)
<1>1. Task(kind, l) \in Tasks
    BY DEF Task, Tasks
<1>2. /\ workerQueue' \in Seq(Tasks)
      /\ Len(workerQueue') = Len(workerQueue) + 1
      /\ \A i \in 1..Len(workerQueue) : workerQueue'[i] = workerQueue[i]
      /\ workerQueue'[Len(workerQueue) + 1] = Task(kind, l)
    BY <1>1
<1>3. \A i : i \in 1..Len(workerQueue') <=>
          i \in 1..Len(workerQueue) \/ i = Len(workerQueue) + 1
    BY <1>2
<1>4. Task(kind, l).kind = kind /\ Task(kind, l).listener = l
    BY DEF Task
<1>5. ASSUME NEW k PROVE
        Pending(k)' = IF k = kind THEN Pending(k) \cup {l} ELSE Pending(k)
    BY <1>2, <1>3, <1>4 DEF Pending
<1> QED
    BY <1>2, <1>5

\* Running a task takes it from the front.
LEMMA TaskTaken ==
    ASSUME workerQueue \in Seq(Tasks), workerQueue # <<>>,
           workerQueue' = Tail(workerQueue),
           NEW task, task = Head(workerQueue)
    PROVE  /\ task \in Tasks
           /\ workerQueue' \in Seq(Tasks)
           /\ Pending(task.kind) = Pending(task.kind)' \cup {task.listener}
           /\ \A other : other # task.kind => Pending(other)' = Pending(other)
<1>1. /\ task \in Tasks /\ task = workerQueue[1]
      /\ workerQueue' \in Seq(Tasks)
      /\ Len(workerQueue') = Len(workerQueue) - 1 /\ Len(workerQueue) \in Nat
      /\ Len(workerQueue) > 0
      /\ \A i \in 1..Len(workerQueue') : workerQueue'[i] = workerQueue[i + 1]
    OBVIOUS
<1>2. ASSUME NEW k PROVE
        Pending(k) = IF k = task.kind THEN Pending(k)' \cup {task.listener}
                     ELSE Pending(k)'
  <2>1. ASSUME NEW l \in Pending(k)' PROVE l \in Pending(k)
    <3>1. PICK i \in 1..Len(workerQueue') :
             workerQueue'[i].kind = k /\ workerQueue'[i].listener = l
        BY <2>1 DEF Pending
    <3>2. i + 1 \in 1..Len(workerQueue)
        BY <1>1
    <3> QED
        BY <1>1, <3>1, <3>2 DEF Pending
  <2>2. ASSUME NEW l \in Pending(k)
        PROVE  l \in Pending(k)' \/ (k = task.kind /\ l = task.listener)
    <3>1. PICK i \in 1..Len(workerQueue) :
             workerQueue[i].kind = k /\ workerQueue[i].listener = l
        BY <2>2 DEF Pending
    <3>2. CASE i = 1
        BY <1>1, <3>1, <3>2
    <3>3. CASE i # 1
      <4>1. i - 1 \in 1..Len(workerQueue') /\ workerQueue'[i - 1] = workerQueue[i]
          BY <1>1, <3>3
      <4> QED
          BY <3>1, <4>1 DEF Pending
    <3> QED
        BY <3>2, <3>3
  <2>3. 1 \in 1..Len(workerQueue)
      BY <1>1
  <2>4. k = task.kind => task.listener \in Pending(k)
      BY <1>1, <2>3 DEF Pending
  <2> QED
      BY <2>1, <2>2, <2>4
<1> QED
    BY <1>1, <1>2

-----------------------------------------------------------------------------
(* Calls of the screens *)

\* A step of UIKit's that makes no call.
LEMMA NoCallSafe ==
    ASSUME FeedInv, NoCall, UNCHANGED <<vars, posts, mainQueue>>,
           phase' \in [Screens -> {"hidden", "appearing", "visible", "disappearing"}],
           \A s \in Screens : Registered(s)' <=> Registered(s)
    PROVE  FeedInv'
<1> USE DEF NoCall
<1>1. ListeningInv'
    BY ListeningStep DEF FeedInv
<1>2. UNCHANGED <<Calls, Live>>
    BY DEF Calls, Live
<1>3. \A l \in Live : owner[l] \in Screens
    BY DEF Live, Calls, FeedInv, ScreensInv
<1>4. ScreensInv'
  <2>1. OneEach'
      BY <1>2, <1>3 DEF FeedInv, ScreensInv, OneEach
  <2>2. CallsInOrder'
      BY <1>2 DEF FeedInv, ScreensInv, CallsInOrder
  <2> QED
      BY <1>2, <2>1, <2>2 DEF FeedInv, ScreensInv
<1>5. TasksInv'
    BY <1>2 DEF FeedInv, TasksInv, TasksInOrder, EngineFollows, Pending, vars,
       managerVars
<1>6. BlocksInv'
    BY <1>2 DEF FeedInv, BlocksInv, EventsFit, vars
<1> QED
    BY <1>1, <1>4, <1>5, <1>6 DEF FeedInv

LEMMA AddSnapshotListenerSafe ==
    ASSUME FeedInv, NEW s \in Screens, AddSnapshotListener(s),
           UNCHANGED <<vars, posts, mainQueue>>,
           phase' \in [Screens -> {"hidden", "appearing", "visible", "disappearing"}],
           ~Registered(s), Registered(s)',
           \A t \in Screens \ {s} : Registered(t)' <=> Registered(t)
    PROVE  FeedInv'
<1>1. PICK l \in Listeners \ Calls :
        /\ \A k \in Listeners \ Calls : l <= k
        /\ owner' = [owner EXCEPT ![l] = s]
        /\ listener' = [listener EXCEPT ![s] = l]
        /\ workerQueue' = Append(workerQueue, Task("add", l))
        /\ muted' = muted
    BY DEF AddSnapshotListener
<1>2. ListeningInv'
    BY ListeningStep DEF FeedInv
<1>3. /\ owner \in [Listeners -> Screens \cup {"none"}]
      /\ owner' \in [Listeners -> Screens \cup {"none"}]
      /\ s # "none"
      /\ muted \in SUBSET Calls
    BY <1>1 DEF FeedInv, ScreensInv, Screens
<1>4. Calls' = Calls \cup {l} /\ l \notin Calls /\ Live' = Live \cup {l}
    BY <1>1, <1>3 DEF Calls, Live
<1>5. ScreensInv'
  <2>1. listener' \in [Screens -> Listeners \cup {0}]
      BY <1>1 DEF FeedInv, ScreensInv
  <2>2. OneEach'
    <3>1. \A k \in Live : k # l /\ owner[k] # s /\ owner[k] \in Screens
        BY <1>4 DEF FeedInv, ScreensInv, OneEach, Live, Calls
    <3>2. /\ \A k \in Live : owner'[k] = owner[k]
          /\ owner'[l] = s /\ listener'[s] = l
          /\ \A t \in Screens \ {s} : listener'[t] = listener[t]
        BY <1>1, <1>3, <3>1 DEF FeedInv, ScreensInv, Live, Calls
    <3>3. ASSUME NEW t \in Screens, Registered(t)'
          PROVE  listener'[t] \in Live' /\ owner'[listener'[t]] = t
        BY <1>4, <3>2, <3>3 DEF FeedInv, ScreensInv, OneEach
    <3>4. ASSUME NEW k \in Live'
          PROVE  Registered(owner[k])' /\ listener'[owner'[k]] = k
      <4>1. CASE k = l
          BY <3>2, <4>1 DEF Registered
      <4>2. CASE k # l
        <5>1. k \in Live /\ owner'[k] = owner[k] /\ owner[k] \in Screens \ {s}
            BY <1>4, <3>1, <3>2, <3>4, <4>2
        <5>2. Registered(owner[k]) /\ listener[owner[k]] = k
            BY <5>1 DEF FeedInv, ScreensInv, OneEach
        <5>3. \A t \in Screens \ {s} : Registered(t) => Registered(t)'
            OBVIOUS
        <5> QED
            BY <3>2, <5>1, <5>2, <5>3 DEF Registered
      <4> QED
          BY <4>1, <4>2
    <3> QED
        BY <3>3, <3>4 DEF OneEach
  <2>3. CallsInOrder'
    <3>1. \A k \in Listeners : k < l => k \in Calls
        BY <1>1 DEF Listeners
    <3> QED
        BY <1>4, <3>1 DEF FeedInv, ScreensInv, CallsInOrder
  <2> QED
      BY <1>3, <1>4, <1>1, <2>1, <2>2, <2>3 DEF FeedInv, ScreensInv
<1>6. TasksInv'
  <2>1. workerQueue \in Seq(Tasks)
      BY DEF FeedInv, TasksInv
  <2>2. /\ workerQueue' \in Seq(Tasks)
        /\ Pending("add")' = Pending("add") \cup {l}
        /\ Pending("remove")' = Pending("remove")
      BY <1>1, <2>1, CallQueues
  <2>3. \A k \in Calls : k < l
      BY <1>1 DEF FeedInv, ScreensInv, CallsInOrder, Calls, Listeners
  <2>4. TasksInOrder'
    <3>1. \A i \in 1..Len(workerQueue) :
             /\ workerQueue[i].kind = "add" => workerQueue[i].listener \in Calls
             /\ workerQueue[i].kind = "remove" => workerQueue[i].listener \in Calls
        BY <1>3 DEF FeedInv, TasksInv, EngineFollows, Pending
    <3>2. /\ Len(workerQueue') = Len(workerQueue) + 1 /\ Len(workerQueue) \in Nat
          /\ \A i \in 1..Len(workerQueue) : workerQueue'[i] = workerQueue[i]
          /\ workerQueue'[Len(workerQueue) + 1] = Task("add", l)
      <4>1. Task("add", l) \in Tasks
          BY DEF Task, Tasks
      <4> QED
          BY <1>1, <2>1, <4>1
    <3>3. ASSUME NEW i \in 1..Len(workerQueue'), NEW j \in 1..Len(workerQueue'),
                 i < j, workerQueue'[j].kind = "add"
          PROVE  /\ workerQueue'[i].kind = "add" =>
                       workerQueue'[i].listener < workerQueue'[j].listener
                 /\ workerQueue'[i].kind = "remove" =>
                       workerQueue'[i].listener # workerQueue'[j].listener
      <4>1. CASE j \in 1..Len(workerQueue)
        <5>1. i \in 1..Len(workerQueue)
            BY <3>3, <4>1
        <5> QED
            BY <3>2, <3>3, <4>1, <5>1 DEF FeedInv, TasksInv, TasksInOrder
      <4>2. CASE j = Len(workerQueue) + 1
        <5>1. i \in 1..Len(workerQueue)
            BY <3>2, <3>3, <4>2
        <5>2. workerQueue'[j].listener = l
            BY <3>2, <4>2 DEF Task
        <5> QED
            BY <1>4, <2>3, <3>1, <3>2, <5>1, <5>2
      <4> QED
          BY <3>2, <3>3, <4>1, <4>2
    <3> QED
        BY <3>3 DEF TasksInOrder
  <2>5. EngineFollows'
    <3>1. listeners' = listeners /\ heard' = heard /\ listens' = listens
        BY DEF vars, managerVars
    <3>2. l > listens /\ l \notin muted
      <4>1. l \in Int /\ listens \in Int
          BY BoundsAssumption DEF Listeners, FeedInv, ListeningInv, ViewInv
      <4> QED
          BY <1>1, <1>3, <4>1 DEF FeedInv, TasksInv, EngineFollows
    <3> QED
        BY <1>1, <1>3, <1>4, <2>2, <3>1, <3>2
        DEF FeedInv, TasksInv, EngineFollows
  <2> QED
      BY <2>2, <2>4, <2>5 DEF TasksInv
<1>7. BlocksInv'
    BY <1>4 DEF FeedInv, BlocksInv, EventsFit, vars
<1> QED
    BY <1>2, <1>5, <1>6, <1>7 DEF FeedInv

LEMMA RemoveSafe ==
    ASSUME FeedInv, NEW s \in Screens, Remove(s),
           UNCHANGED <<vars, posts, mainQueue>>,
           phase' \in [Screens -> {"hidden", "appearing", "visible", "disappearing"}],
           Registered(s), ~Registered(s)',
           \A t \in Screens \ {s} : Registered(t)' <=> Registered(t)
    PROVE  FeedInv'
<1> DEFINE l == listener[s]
<1>1. l \in Live /\ l \in Listeners /\ owner[l] = s
    BY DEF FeedInv, ScreensInv, OneEach, Live, Calls
<1>2. /\ owner' = owner /\ listener' = listener
      /\ muted' = muted \cup {l}
      /\ workerQueue' = Append(workerQueue, Task("remove", l))
    BY DEF Remove
<1> HIDE DEF l
<1>3. ListeningInv'
    BY ListeningStep DEF FeedInv
<1>4. Calls' = Calls /\ Live' = Live \ {l}
    BY <1>2 DEF Calls, Live
<1>5. ScreensInv'
  <2>1. OneEach'
    <3>1. \A k \in Live : owner[k] \in Screens /\ listener[owner[k]] = k
        BY DEF FeedInv, ScreensInv, OneEach, Live, Calls
    <3>2. ASSUME NEW t \in Screens, Registered(t)'
          PROVE  listener'[t] \in Live' /\ owner'[listener'[t]] = t
        BY <1>1, <1>2, <1>4, <3>2 DEF FeedInv, ScreensInv, OneEach
    <3>3. ASSUME NEW k \in Live'
          PROVE  Registered(owner[k])' /\ listener'[owner'[k]] = k
      <4>1. k \in Live /\ k # l
          BY <1>4, <3>3
      <4>2. owner[k] \in Screens \ {s}
          BY <3>1, <4>1 DEF l
      <4>3. Registered(owner[k])
          BY <4>1 DEF FeedInv, ScreensInv, OneEach
      <4> QED
          BY <1>2, <3>1, <4>1, <4>2, <4>3
    <3> QED
        BY <1>2, <3>2, <3>3 DEF OneEach
  <2>2. CallsInOrder'
      BY <1>4 DEF FeedInv, ScreensInv, CallsInOrder
  <2>3. muted' \in SUBSET Calls'
      BY <1>1, <1>2, <1>4 DEF FeedInv, ScreensInv, Live
  <2> QED
      BY <1>2, <2>1, <2>2, <2>3 DEF FeedInv, ScreensInv
<1>6. TasksInv'
  <2>1. workerQueue \in Seq(Tasks)
      BY DEF FeedInv, TasksInv
  <2>2. /\ workerQueue' \in Seq(Tasks)
        /\ Pending("add")' = Pending("add")
        /\ Pending("remove")' = Pending("remove") \cup {l}
      BY <1>1, <1>2, <2>1, CallQueues
  <2>3. TasksInOrder'
    <3>1. /\ Len(workerQueue') = Len(workerQueue) + 1 /\ Len(workerQueue) \in Nat
          /\ \A i \in 1..Len(workerQueue) : workerQueue'[i] = workerQueue[i]
          /\ workerQueue'[Len(workerQueue) + 1] = Task("remove", l)
      <4>1. Task("remove", l) \in Tasks
          BY <1>1 DEF Task, Tasks
      <4> QED
          BY <1>2, <2>1, <4>1
    <3>2. ASSUME NEW i \in 1..Len(workerQueue'), NEW j \in 1..Len(workerQueue'),
                 i < j, workerQueue'[j].kind = "add"
          PROVE  i \in 1..Len(workerQueue) /\ j \in 1..Len(workerQueue)
        BY <3>1, <3>2 DEF Task
    <3> QED
        BY <3>1, <3>2 DEF FeedInv, TasksInv, TasksInOrder
  <2>4. EngineFollows'
    <3>1. listeners' = listeners /\ heard' = heard /\ listens' = listens
        BY DEF vars, managerVars
    <3> QED
        BY <1>2, <1>4, <2>2, <3>1 DEF FeedInv, TasksInv, EngineFollows
  <2> QED
      BY <2>2, <2>3, <2>4 DEF TasksInv
<1>7. BlocksInv'
    BY <1>4 DEF FeedInv, BlocksInv, EventsFit, vars
<1> QED
    BY <1>3, <1>5, <1>6, <1>7 DEF FeedInv

LEMMA UIKitSafe == ASSUME FeedInv, UIKit PROVE FeedInv'
<1> DEFINE Phases == {"hidden", "appearing", "visible", "disappearing"}
<1>1. phase \in [Screens -> Phases]
    BY DEF FeedInv, ScreensInv
<1>2. ASSUME NEW t \in Tabs, SelectTab(t) PROVE FeedInv'
  <2>1. /\ NoCall /\ UNCHANGED <<vars, posts, mainQueue>>
        /\ UNCHANGED phase
      BY <1>2 DEF SelectTab, NoCall
  <2>2. \A s \in Screens : Registered(s)' <=> Registered(s)
      BY <2>1 DEF Registered
  <2> QED
      BY <1>1, <2>1, <2>2, NoCallSafe
<1>3. ASSUME NEW s \in Screens, NEW from \in Phases, NEW to \in Phases,
             Moves(s, from, to)
      PROVE  /\ phase' \in [Screens -> Phases]
             /\ UNCHANGED <<vars, posts, mainQueue>>
             /\ Registered(s) <=>
                   IF s = "feed" THEN from = "visible" ELSE from # "hidden"
             /\ Registered(s)' <=>
                   IF s = "feed" THEN to = "visible" ELSE to # "hidden"
             /\ \A t \in Screens \ {s} : Registered(t)' <=> Registered(t)
    BY <1>1, <1>3 DEF Moves, Registered
<1>4. ASSUME NEW s \in Screens, ViewWillAppear(s) PROVE FeedInv'
  <2>1. Moves(s, "hidden", "appearing")
      BY <1>4 DEF ViewWillAppear
  <2>2. CASE s = "profile"
      BY <1>3, <1>4, <2>1, <2>2, AddSnapshotListenerSafe DEF ViewWillAppear
  <2>3. CASE s = "feed"
      BY <1>3, <1>4, <2>1, <2>3, NoCallSafe DEF ViewWillAppear
  <2> QED
      BY <2>2, <2>3 DEF Screens
<1>5. ASSUME NEW s \in Screens, ViewDidAppear(s) PROVE FeedInv'
  <2>1. Moves(s, "appearing", "visible")
      BY <1>5 DEF ViewDidAppear
  <2>2. CASE s = "feed"
      BY <1>3, <1>5, <2>1, <2>2, AddSnapshotListenerSafe DEF ViewDidAppear
  <2>3. CASE s = "profile"
      BY <1>3, <1>5, <2>1, <2>3, NoCallSafe DEF ViewDidAppear
  <2> QED
      BY <2>2, <2>3 DEF Screens
<1>6. ASSUME NEW s \in Screens, ViewWillDisappear(s) PROVE FeedInv'
  <2>1. Moves(s, "visible", "disappearing")
      BY <1>6 DEF ViewWillDisappear
  <2>2. CASE s = "feed"
      BY <1>3, <1>6, <2>1, <2>2, RemoveSafe DEF ViewWillDisappear
  <2>3. CASE s = "profile"
      BY <1>3, <1>6, <2>1, <2>3, NoCallSafe DEF ViewWillDisappear
  <2> QED
      BY <2>2, <2>3 DEF Screens
<1>7. ASSUME NEW s \in Screens, ViewDidDisappear(s) PROVE FeedInv'
  <2>1. Moves(s, "disappearing", "hidden")
      BY <1>7 DEF ViewDidDisappear
  <2>2. CASE s = "profile"
      BY <1>3, <1>7, <2>1, <2>2, RemoveSafe DEF ViewDidDisappear
  <2>3. CASE s = "feed"
      BY <1>3, <1>7, <2>1, <2>3, NoCallSafe DEF ViewDidDisappear
  <2> QED
      BY <2>2, <2>3 DEF Screens
<1> QED
    BY <1>2, <1>4, <1>5, <1>6, <1>7 DEF UIKit

-----------------------------------------------------------------------------
(* Steps of the engine *)

\* What a task of the engine's own can do to the listeners: tell them of the
\* view, or give all of them the error.
LEMMA EngineTells ==
    ASSUME ListeningInv, Engine
    PROVE  /\ listens' = listens
           /\ listeners' \in SUBSET listeners
           /\ \A l \in listeners \ listeners' : heard'[l] = Failed
           /\ \A l \in Listeners \ listeners : heard'[l] = heard[l]
<1> DEFINE Tells == /\ listeners' = listeners
                    /\ \A l \in Listeners \ listeners : heard'[l] = heard[l]
<1>1. ASSUME HandleOnlineStateChange(onlineState') PROVE Tells
    BY <1>1 DEF HandleOnlineStateChange, Notify
<1>2. ASSUME UNCHANGED managerVars PROVE Tells
    BY <1>2 DEF managerVars
<1>3. CASE ResumeStartWithCredentials
    BY <1>2, <1>3 DEF ResumeStartWithCredentials
<1>4. CASE BackoffElapsed
    BY <1>2, <1>4 DEF BackoffElapsed
<1>5. CASE StreamFails
    BY <1>1, <1>5 DEF StreamFails
<1>6. CASE IdleTimeout
    BY <1>1, <1>6 DEF IdleTimeout, UpdateState
<1>7. CASE HandleCredentialChange
    BY <1>1, <1>7 DEF HandleCredentialChange
<1>8. CASE OnlineStateTimeout
    BY <1>1, <1>8 DEF OnlineStateTimeout
<1>9. CASE OnWatchStreamChange
  <2>1. CASE TargetAdded
      BY <1>1, <2>1 DEF TargetAdded, Read, UpdateState
  <2>2. CASE TargetRemoved
      BY <1>1, <2>2 DEF TargetRemoved, Read, UpdateState
  <2>3. CASE TargetRejected
      BY <2>3 DEF TargetRejected, Read, managerVars, ListeningInv, ViewInv
  <2>4. CASE TargetChanged
      BY <1>1, <2>4 DEF TargetChanged, Read, UpdateState
  <2>5. CASE RaiseWatchSnapshot
      BY <2>5 DEF RaiseWatchSnapshot, Read, Notify
  <2> QED
      BY <1>9, <2>1, <2>2, <2>3, <2>4, <2>5 DEF OnWatchStreamChange
<1> QED
    BY <1>3, <1>4, <1>5, <1>6, <1>7, <1>8, <1>9 DEF Engine

-----------------------------------------------------------------------------
(* Events *)

LEMMA DispatchedSafe ==
    ASSUME FeedInv, ListeningInv', Dispatched,
           UNCHANGED <<owner, posts>>,
           \A l \in Listeners : heard'[l] # heard[l] => l \in Calls
    PROVE  BlocksInv'
<1> DEFINE hearing == {l \in Listeners : heard'[l] # heard[l]}
           n == Cardinality(hearing)
<1>1. n \in Nat
  <2>1. IsFiniteSet(Listeners)
      BY BoundsAssumption, FS_Interval DEF Listeners
  <2> QED
      BY <2>1, FS_Subset, FS_CardinalityType
<1>2. PICK order \in [1..n -> hearing] :
        mainQueue' = mainQueue \o
            [i \in 1..n |-> EventBlock(order[i], heard'[order[i]])]
    BY DEF Dispatched
<1> DEFINE new == [i \in 1..n |-> EventBlock(order[i], heard'[order[i]])]
<1> HIDE DEF n
<1>3. mainQueue' = mainQueue \o new
    BY <1>2
<1>4. \A i \in 1..n : /\ new[i] \in Blocks
                      /\ new[i].kind = "event" /\ new[i].listener \in Calls
  <2>1. heard' \in [Listeners -> Versions \cup {Nothing, Failed}]
      BY DEF ListeningInv, ViewInv, Listeners, Versions
  <2>2. ASSUME NEW i \in 1..n
        PROVE  order[i] \in Listeners /\ order[i] \in Calls
      BY <1>2
  <2> QED
      BY <2>1, <2>2 DEF EventBlock, Blocks
<1>5. new \in Seq(Blocks) /\ Len(new) = n
    BY <1>1, <1>4
<1> HIDE DEF new
<1>6. /\ mainQueue' \in Seq(Blocks)
      /\ Len(mainQueue') = Len(mainQueue) + n /\ Len(mainQueue) \in Nat
      /\ \A i \in 1..Len(mainQueue') :
            mainQueue'[i] = IF i <= Len(mainQueue) THEN mainQueue[i]
                            ELSE new[i - Len(mainQueue)]
    BY <1>1, <1>3, <1>5 DEF FeedInv, BlocksInv
<1>7. ASSUME NEW i \in 1..Len(mainQueue'), mainQueue'[i].kind = "event"
      PROVE  mainQueue'[i].listener \in Calls
  <2>1. CASE i <= Len(mainQueue)
      BY <1>6, <1>7, <2>1 DEF FeedInv, BlocksInv, EventsFit
  <2>2. CASE i > Len(mainQueue)
    <3>1. i - Len(mainQueue) \in 1..n
        BY <1>1, <1>6, <1>7, <2>2
    <3> QED
        BY <1>4, <1>6, <2>2, <3>1
  <2> QED
      BY <1>6, <2>1, <2>2
<1>8. Calls' = Calls
    BY DEF Calls
<1> QED
    BY <1>6, <1>7, <1>8 DEF FeedInv, BlocksInv, EventsFit

LEMMA ScreensUntouched ==
    ASSUME FeedInv, UNCHANGED <<phase, listener, owner, muted>>
    PROVE  ScreensInv' /\ Calls' = Calls /\ Live' = Live
<1>1. Calls' = Calls /\ Live' = Live
    BY DEF Calls, Live
<1>2. \A s \in Screens : Registered(s)' <=> Registered(s)
    BY DEF Registered
<1>3. \A l \in Live : owner[l] \in Screens
    BY DEF FeedInv, ScreensInv, Live, Calls
<1>4. OneEach'
    BY <1>1, <1>2, <1>3 DEF FeedInv, ScreensInv, OneEach
<1>5. CallsInOrder'
    BY <1>1 DEF FeedInv, ScreensInv, CallsInOrder
<1> QED
    BY <1>1, <1>4, <1>5 DEF FeedInv, ScreensInv

LEMMA EngineStepSafe == ASSUME FeedInv, EngineStep PROVE FeedInv'
<1>1. ListeningInv'
    BY ListeningStep DEF FeedInv, EngineStep, Next
<1>2. /\ listens' = listens
      /\ listeners' \in SUBSET listeners
      /\ \A l \in listeners \ listeners' : heard'[l] = Failed
      /\ \A l \in Listeners \ listeners : heard'[l] = heard[l]
    BY EngineTells DEF FeedInv, EngineStep
<1>3. UNCHANGED <<phase, listener, owner, muted, posts, workerQueue>>
    BY DEF EngineStep, screenVars
<1>4. ScreensInv' /\ Calls' = Calls /\ Live' = Live
    BY <1>3, ScreensUntouched
<1>5. TasksInv'
  <2>1. \A l \in Live : l \in Listeners
      BY DEF Live, Calls
  <2>2. \A k : Pending(k)' = Pending(k)
      BY <1>3 DEF Pending
  <2>3. EngineFollows'
      BY <1>2, <1>3, <1>4, <2>1, <2>2 DEF FeedInv, TasksInv, EngineFollows
  <2> QED
      BY <1>3, <2>3 DEF FeedInv, TasksInv, TasksInOrder
<1>6. \A l \in Listeners : heard'[l] # heard[l] => l \in Calls
    BY <1>2 DEF FeedInv, TasksInv, EngineFollows
<1>7. BlocksInv'
    BY <1>1, <1>3, <1>6, DispatchedSafe DEF EngineStep
<1> QED
    BY <1>1, <1>4, <1>5, <1>7 DEF FeedInv

LEMMA BackendStepSafe == ASSUME FeedInv, BackendStep PROVE FeedInv'
<1>1. ListeningInv'
    BY ListeningStep DEF FeedInv, BackendStep, Next
<1>2. /\ UNCHANGED <<phase, listener, owner, muted, posts, workerQueue>>
      /\ UNCHANGED <<mainQueue, managerVars, listens>>
    BY DEF BackendStep, Backend, BackendAnswers, PostsChange, screenVars
<1>3. ScreensInv' /\ Calls' = Calls /\ Live' = Live
    BY <1>2, ScreensUntouched
<1>4. TasksInv'
    BY <1>2, <1>3 DEF FeedInv, TasksInv, TasksInOrder, EngineFollows, Pending,
       managerVars
<1>5. BlocksInv'
    BY <1>2, <1>3 DEF FeedInv, BlocksInv, EventsFit
<1> QED
    BY <1>1, <1>3, <1>4, <1>5 DEF FeedInv

-----------------------------------------------------------------------------
(* Tasks of the screens' calls *)

\* The engine's part of a task is a step of Listening, or none: a listener that
\* was given an error is not there any more when it is removed.
LEMMA RunTaskIsListening ==
    ASSUME FeedInv, RunTask
    PROVE  [Next]_vars
<1> DEFINE task == Head(workerQueue)
<1>1. task.listener \in Listeners
  <2>1. workerQueue # <<>>
      BY DEF RunTask
  <2>2. task \in Tasks
      BY <2>1 DEF FeedInv, TasksInv
  <2> QED
      BY <2>2 DEF Tasks
<1>2. CASE task.kind = "add" /\ AddQueryListener(task.listener)
    BY <1>1, <1>2 DEF Next
<1>3. CASE task.kind = "remove" /\ RemoveQueryListener(task.listener)
  <2>1. CASE task.listener \in listeners
      BY <1>1, <1>3, <2>1 DEF Next
  <2>2. CASE task.listener \notin listeners
    <3>1. listeners' = listeners /\ raised' = raised
        BY <1>3, <2>2 DEF RemoveQueryListener, FeedInv, ListeningInv, ViewInv
    <3> QED
        BY <1>3, <2>2, <3>1 DEF RemoveQueryListener, vars, managerVars, engineVars
  <2> QED
      BY <2>1, <2>2
<1> QED
    BY <1>2, <1>3 DEF RunTask

\* What is left of the queue is still in order.
LEMMA TailInOrder ==
    ASSUME TasksInv, workerQueue # <<>>, workerQueue' = Tail(workerQueue)
    PROVE  /\ TasksInOrder'
           /\ \A l \in Pending("add")' :
                 /\ Head(workerQueue).kind = "add" => Head(workerQueue).listener < l
                 /\ Head(workerQueue).kind = "remove" => Head(workerQueue).listener # l
<1>1. /\ Head(workerQueue) = workerQueue[1] /\ Len(workerQueue) \in Nat
      /\ 1 \in 1..Len(workerQueue)
      /\ Len(workerQueue') = Len(workerQueue) - 1
      /\ \A i \in 1..Len(workerQueue') :
            /\ workerQueue'[i] = workerQueue[i + 1]
            /\ i + 1 \in 1..Len(workerQueue) /\ 1 < i + 1
    BY DEF TasksInv
<1>2. ASSUME NEW i \in 1..Len(workerQueue'), NEW j \in 1..Len(workerQueue')
      PROVE  i < j <=> i + 1 < j + 1
    OBVIOUS
<1>3. TasksInOrder'
    BY <1>1, <1>2 DEF TasksInv, TasksInOrder
<1>4. ASSUME NEW l \in Pending("add")'
      PROVE  /\ Head(workerQueue).kind = "add" => Head(workerQueue).listener < l
             /\ Head(workerQueue).kind = "remove" => Head(workerQueue).listener # l
  <2>1. PICK i \in 1..Len(workerQueue') :
            workerQueue'[i].kind = "add" /\ workerQueue'[i].listener = l
      BY <1>4 DEF Pending
  <2> QED
      BY <1>1, <2>1 DEF TasksInv, TasksInOrder
<1> QED
    BY <1>3, <1>4

LEMMA AddTaskSafe ==
    ASSUME FeedInv, workerQueue # <<>>, workerQueue' = Tail(workerQueue),
           NEW l, Head(workerQueue) = Task("add", l), AddQueryListener(l),
           UNCHANGED <<owner, muted>>
    PROVE  /\ TasksInv'
           /\ \A k \in Listeners : heard'[k] # heard[k] => k \in Calls
<1>1. /\ Task("add", l) \in Tasks
      /\ workerQueue' \in Seq(Tasks)
      /\ Pending("add") = Pending("add")' \cup {l}
      /\ Pending("remove")' = Pending("remove")
    BY TaskTaken DEF FeedInv, TasksInv, Task
<1>2. l \in Listeners /\ l \in Calls
    BY <1>1 DEF FeedInv, TasksInv, EngineFollows, Calls
<1>3. /\ listens' = l
      /\ listeners' = listeners \cup {l}
      /\ \A k \in Listeners : k \notin listeners' => heard'[k] = heard[k]
    BY <1>2 DEF AddQueryListener, Notify
<1>4. TasksInOrder' /\ \A k \in Pending("add")' : l < k
    BY <1>1, TailInOrder DEF FeedInv, TasksInv, Task
<1>5. Calls' = Calls /\ Live' = Live
    BY DEF Calls, Live
<1>6. \A k \in Listeners : k <= l => k \in Calls
    BY <1>2 DEF FeedInv, ScreensInv, CallsInOrder, Listeners
<1>7. \A k \in Live : heard'[k] # Failed => k \in listeners' \/ k \in Pending("add")'
  <2>1. \A k \in Live : k \in Listeners
      BY DEF Live, Calls
  <2> QED
      BY <1>1, <1>3, <2>1 DEF FeedInv, TasksInv, EngineFollows
<1>8. EngineFollows'
    BY <1>1, <1>2, <1>3, <1>4, <1>5, <1>6, <1>7
    DEF FeedInv, TasksInv, EngineFollows
<1> QED
    BY <1>1, <1>2, <1>3, <1>4, <1>8 DEF FeedInv, TasksInv, EngineFollows

LEMMA RemoveTaskSafe ==
    ASSUME FeedInv, workerQueue # <<>>, workerQueue' = Tail(workerQueue),
           NEW l, Head(workerQueue) = Task("remove", l), RemoveQueryListener(l),
           UNCHANGED <<owner, muted>>
    PROVE  /\ TasksInv'
           /\ \A k \in Listeners : heard'[k] # heard[k] => k \in Calls
<1>1. /\ Task("remove", l) \in Tasks
      /\ workerQueue' \in Seq(Tasks)
      /\ Pending("remove") = Pending("remove")' \cup {l}
      /\ Pending("add")' = Pending("add")
    BY TaskTaken DEF FeedInv, TasksInv, Task
<1>2. /\ listens' = listens /\ heard' = heard
      /\ listeners' = listeners \ {l}
    BY DEF RemoveQueryListener
<1>3. TasksInOrder' /\ l \notin Pending("add")'
    BY <1>1, TailInOrder DEF FeedInv, TasksInv, Task
<1>4. Calls' = Calls /\ Live' = Live
    BY DEF Calls, Live
<1>5. l \in muted
    BY <1>1 DEF FeedInv, TasksInv, EngineFollows
<1>6. EngineFollows'
    BY <1>1, <1>2, <1>3, <1>4, <1>5
    DEF FeedInv, TasksInv, EngineFollows, Live
<1> QED
    BY <1>1, <1>2, <1>3, <1>6 DEF FeedInv, TasksInv

LEMMA RunTaskSafe == ASSUME FeedInv, RunTask PROVE FeedInv'
<1> DEFINE task == Head(workerQueue)
<1>1. /\ workerQueue # <<>> /\ workerQueue' = Tail(workerQueue)
      /\ UNCHANGED <<phase, listener, owner, muted, posts>>
      /\ Dispatched
    BY DEF RunTask, screenVars
<1>2. ListeningInv'
    BY RunTaskIsListening, ListeningStep DEF FeedInv
<1>3. ScreensInv'
    BY <1>1, ScreensUntouched
<1>4. task \in Tasks
    BY <1>1 DEF FeedInv, TasksInv
<1>5. task = Task(task.kind, task.listener)
    BY <1>4 DEF Task, Tasks
<1>6. /\ TasksInv'
      /\ \A k \in Listeners : heard'[k] # heard[k] => k \in Calls
  <2>1. CASE task.kind = "add" /\ AddQueryListener(task.listener)
      BY <1>1, <1>5, <2>1, AddTaskSafe
  <2>2. CASE task.kind = "remove" /\ RemoveQueryListener(task.listener)
      BY <1>1, <1>5, <2>2, RemoveTaskSafe
  <2> QED
      BY <2>1, <2>2 DEF RunTask
<1>7. BlocksInv'
    BY <1>1, <1>2, <1>6, DispatchedSafe
<1> QED
    BY <1>2, <1>3, <1>6, <1>7 DEF FeedInv

-----------------------------------------------------------------------------
(* The main queue *)

LEMMA BlockTaken ==
    ASSUME BlocksInv, mainQueue # <<>>, Calls' = Calls,
           \/ mainQueue' = Tail(mainQueue)
           \/ \E s \in Screens : mainQueue' = Append(Tail(mainQueue), ReloadBlock(s))
    PROVE  mainQueue' \in Seq(Blocks) /\ EventsFit'
<1>1. /\ Tail(mainQueue) \in Seq(Blocks)
      /\ Len(Tail(mainQueue)) = Len(mainQueue) - 1 /\ Len(mainQueue) \in Nat
      /\ \A i \in 1..Len(Tail(mainQueue)) :
            Tail(mainQueue)[i] = mainQueue[i + 1] /\ i + 1 \in 1..Len(mainQueue)
    BY DEF BlocksInv
<1> DEFINE rest == Tail(mainQueue)
<1> HIDE DEF rest
<1>2. /\ rest \in Seq(Blocks) /\ Len(rest) \in Nat
      /\ \A i \in 1..Len(rest) :
            rest[i].kind = "event" => rest[i].listener \in Calls
    BY <1>1 DEF rest, BlocksInv, EventsFit
<1>3. CASE mainQueue' = rest
    BY <1>2, <1>3 DEF EventsFit
<1>4. ASSUME NEW s \in Screens, mainQueue' = Append(rest, ReloadBlock(s))
      PROVE  mainQueue' \in Seq(Blocks) /\ EventsFit'
  <2>1. ReloadBlock(s) \in Blocks /\ ReloadBlock(s).kind = "reload"
      BY DEF ReloadBlock, Blocks
  <2>2. /\ mainQueue' \in Seq(Blocks)
        /\ Len(mainQueue') = Len(rest) + 1
        /\ \A i \in 1..Len(rest) : mainQueue'[i] = rest[i]
        /\ mainQueue'[Len(rest) + 1] = ReloadBlock(s)
      BY <1>2, <1>4, <2>1
  <2>3. \A i \in 1..Len(mainQueue') : i \in 1..Len(rest) \/ i = Len(rest) + 1
      BY <1>2, <2>2
  <2> QED
      BY <1>2, <2>1, <2>2, <2>3 DEF EventsFit
<1> QED
    BY <1>3, <1>4 DEF rest

\* The listener of an event belongs to a screen.
LEMMA HeadFits ==
    ASSUME FeedInv, NextBlockIs("event")
    PROVE  /\ Head(mainQueue).listener \in Calls
           /\ owner[Head(mainQueue).listener] \in Screens
<1>1. /\ Head(mainQueue) = mainQueue[1] /\ 1 \in 1..Len(mainQueue)
      /\ Head(mainQueue).kind = "event"
    BY DEF NextBlockIs, FeedInv, BlocksInv
<1>2. Head(mainQueue).listener \in Calls
    BY <1>1 DEF FeedInv, BlocksInv, EventsFit
<1> QED
    BY <1>2 DEF Calls, FeedInv, ScreensInv

LEMMA MainQueueSafe == ASSUME FeedInv, MainQueue PROVE FeedInv'
<1>1. /\ mainQueue # <<>>
      /\ UNCHANGED <<vars, phase, listener, owner, muted, workerQueue>>
    BY DEF MainQueue, OnSnapshot, ReloadData, NextBlockIs
<1>2. ListeningInv'
    BY <1>1, ListeningStep DEF FeedInv
<1>3. ScreensInv' /\ Calls' = Calls /\ Live' = Live
    BY <1>1, ScreensUntouched
<1>4. TasksInv'
    BY <1>1, <1>3 DEF FeedInv, TasksInv, TasksInOrder, EngineFollows, Pending,
       vars, managerVars
<1>5. BlocksInv'
  <2>1. \/ mainQueue' = Tail(mainQueue)
        \/ \E s \in Screens : mainQueue' = Append(Tail(mainQueue), ReloadBlock(s))
      BY HeadFits DEF MainQueue, OnSnapshot, ReloadData
  <2>2. mainQueue' \in Seq(Blocks) /\ EventsFit'
      BY <1>1, <1>3, <2>1, BlockTaken DEF FeedInv
  <2>3. posts' = [s \in Screens |-> posts'[s]]
      BY DEF MainQueue, OnSnapshot, ReloadData, FeedInv, BlocksInv
  <2> QED
      BY <2>2, <2>3 DEF BlocksInv
<1> QED
    BY <1>2, <1>3, <1>4, <1>5 DEF FeedInv

-----------------------------------------------------------------------------
(* The theorems *)

LEMMA FeedStep ==
    ASSUME FeedInv, [FeedNext]_feedVars
    PROVE  FeedInv'
<1>1. CASE UNCHANGED feedVars
  <2>1. UNCHANGED <<vars, phase, listener, owner, muted, posts, workerQueue,
                    mainQueue>>
      BY <1>1 DEF feedVars, screenVars
  <2>2. ListeningInv'
      BY <2>1, ListeningStep DEF FeedInv
  <2>3. ScreensInv' /\ Calls' = Calls /\ Live' = Live
      BY <2>1, ScreensUntouched
  <2>4. TasksInv'
      BY <2>1, <2>3 DEF FeedInv, TasksInv, TasksInOrder, EngineFollows, Pending,
         vars, managerVars
  <2>5. BlocksInv'
      BY <2>1, <2>3 DEF FeedInv, BlocksInv, EventsFit
  <2> QED
      BY <2>2, <2>3, <2>4, <2>5 DEF FeedInv
<1> QED
    BY <1>1, UIKitSafe, RunTaskSafe, EngineStepSafe, BackendStepSafe,
       MainQueueSafe DEF FeedNext

THEOREM FeedInvariant == FeedSpec => []FeedInv
  BY FeedInitially, FeedStep, PTL DEF FeedSpec

(***************************************************************************)
(* The screens call the Firestore client as Listening allows: every        *)
(* behaviour of Feed is one of Listening, so that what is proved of the    *)
(* listeners holds under the screens. A listener that was given an error   *)
(* and is removed afterwards is a call without effect.                     *)
(***************************************************************************)
THEOREM FeedUsesListening == FeedSpec => Spec
<1>1. ASSUME FeedInv, [FeedNext]_feedVars PROVE [Next]_vars
  <2>1. CASE UIKit
    <3>1. UNCHANGED vars
        BY <2>1 DEF UIKit, SelectTab, ViewWillAppear, ViewDidAppear,
           ViewWillDisappear, ViewDidDisappear, Moves
    <3> QED
        BY <3>1
  <2>2. CASE RunTask
      BY <1>1, <2>2, RunTaskIsListening
  <2>3. CASE EngineStep \/ BackendStep
      BY <2>3 DEF EngineStep, BackendStep, Next
  <2>4. CASE MainQueue \/ UNCHANGED feedVars
      BY <2>4 DEF MainQueue, OnSnapshot, ReloadData, feedVars
  <2> QED
      BY <1>1, <2>1, <2>2, <2>3, <2>4 DEF FeedNext
<1>2. FeedInit => Init
    BY DEF FeedInit
<1> QED
    BY <1>1, <1>2, FeedInvariant, PTL DEF FeedSpec, Spec

(***************************************************************************)
(* No registration leaks or is lost: each screen that is on show has one,  *)
(* and the engine's listeners are theirs once its queue has run.           *)
(***************************************************************************)
THEOREM RegistrationsAreTheScreens == FeedSpec => []RegistrationsFollowScreens
  BY FeedInvariant, FeedInvImplies, PTL

(***************************************************************************)
(* A screen's array changes only by an event of its present listener. The  *)
(* event on the main queue may be for any listener that was ever added:    *)
(* one that is not muted is, by OneEach, the one its screen has now.       *)
(***************************************************************************)
THEOREM OffScreenQuiet == FeedSpec => OffScreenStaysQuiet
<1> DEFINE Quiet == \A s \in Screens :
              posts'[s] # posts[s] => /\ Registered(s)
                                      /\ Head(mainQueue).listener = listener[s]
<1>1. ASSUME FeedInv, [FeedNext]_feedVars PROVE Quiet
  <2>1. CASE OnSnapshot
    <3>1. SUFFICES ASSUME NEW s \in Screens, posts'[s] # posts[s]
                   PROVE  Registered(s) /\ Head(mainQueue).listener = listener[s]
        OBVIOUS
    <3> DEFINE l == Head(mainQueue).listener
    <3>2. l \in Calls /\ owner[l] \in Screens
        BY <1>1, <2>1, HeadFits DEF OnSnapshot
    <3>3. /\ l \notin muted
          /\ posts' = [posts EXCEPT ![owner[l]] = Head(mainQueue).event]
        BY <2>1, <3>1 DEF OnSnapshot
    <3>4. owner[l] = s
        BY <3>1, <3>3
    <3>5. l \in Live
        BY <3>2, <3>3 DEF Live
    <3> HIDE DEF l
    <3>6. Registered(s) /\ listener[s] = l
        BY <1>1, <3>4, <3>5 DEF FeedInv, ScreensInv, OneEach
    <3> QED
        BY <3>6 DEF l
  <2>2. CASE UNCHANGED posts
      BY <2>2
  <2>3. UIKit \/ RunTask \/ EngineStep \/ BackendStep \/ ReloadData
            \/ UNCHANGED feedVars => UNCHANGED posts
      BY DEF UIKit, SelectTab, ViewWillAppear, ViewDidAppear,
         ViewWillDisappear, ViewDidDisappear, Moves, RunTask, EngineStep,
         BackendStep, ReloadData, screenVars, feedVars
  <2> QED
      BY <1>1, <2>1, <2>2, <2>3 DEF FeedNext, MainQueue
<1>2. ASSUME FeedInv, [FeedNext]_feedVars PROVE [Quiet]_feedVars
    BY <1>1, <1>2
<1> QED
    BY <1>2, FeedInvariant, PTL DEF FeedSpec, OffScreenStaysQuiet

-----------------------------------------------------------------------------
(* Documents on their way to the screens *)

\* Block i of the main queue brings documents.
IsNews(i) == mainQueue[i].kind = "event" /\ mainQueue[i].event # Failed

\* From the cache over the main queue to the array and the collection view,
\* documents only get older.
NewsInOrder ==
    /\ posts \in [Screens -> Nat] /\ shown \in [Screens -> Nat]
    /\ \A s \in Screens : posts[s] <= cache /\ shown[s] <= posts[s]
    /\ \A i \in 1..Len(mainQueue) : IsNews(i) =>
          /\ mainQueue[i].event \in Nat /\ mainQueue[i].event <= cache
          /\ \A s \in Screens : posts[s] <= mainQueue[i].event
          /\ \A j \in 1..Len(mainQueue) : i < j /\ IsNews(j) =>
                mainQueue[i].event <= mainQueue[j].event

IsFor(i, l) == mainQueue[i].kind = "event" /\ mainQueue[i].listener = l

\* The last event for l is what l has heard, or the array has it already.
LatestComes(l) ==
    \E i \in 1..Len(mainQueue) :
        /\ IsFor(i, l) /\ mainQueue[i].event = heard[l]
        /\ \A j \in 1..Len(mainQueue) : IsFor(j, l) => j <= i

LatestHasCome(l) ==
    /\ posts[owner[l]] = heard[l]
    /\ \A i \in 1..Len(mainQueue) : ~IsFor(i, l)

HeardReachesScreen ==
    \A l \in Live : heard[l] \notin {Nothing, Failed} =>
        LatestComes(l) \/ LatestHasCome(l)

ReloadsFollow ==
    \A s \in Screens : shown[s] # posts[s] =>
        \E i \in 1..Len(mainQueue) : mainQueue[i] = ReloadBlock(s)

NewsInv ==
    /\ NewsInOrder
    /\ HeardReachesScreen
    /\ ReloadsFollow

LEMMA NewsInitially == ASSUME FeedInit PROVE NewsInv
<1>1. cache = 0 /\ Len(mainQueue) = 0 /\ Live = {} /\ 1..Len(mainQueue) = {}
    BY DEF FeedInit, Init, Live, Calls
<1>2. \A s \in Screens : posts[s] = 0 /\ shown[s] = 0
    BY DEF FeedInit
<1> QED
    BY <1>1, <1>2 DEF FeedInit, NewsInv, NewsInOrder, HeardReachesScreen,
       ReloadsFollow

LEMMA NewsInvImplies ==
    ASSUME FeedInv, NewsInv
    PROVE  QuietScreensShowTheCache
<1> SUFFICES ASSUME NEW s \in Screens, Registered(s), listener[s] \in raised,
                    ~OnItsWay(s)
             PROVE  shown[s] = cache
    BY DEF QuietScreensShowTheCache
<1> DEFINE l == listener[s]
<1>1. l \in Live /\ owner[l] = s
    BY DEF FeedInv, ScreensInv, OneEach
<1>2. heard[l] = cache /\ cache \in Nat
    BY BoundsAssumption
    DEF FeedInv, ListeningInv, ViewInv, ListenersSeeTheView, Versions
<1>3. heard[l] \notin {Nothing, Failed}
    BY <1>2, HeardAssumption
<1>4. \A i \in 1..Len(mainQueue) : ~IsFor(i, l)
    BY DEF OnItsWay, IsFor
<1>5. posts[s] = cache
    BY <1>1, <1>2, <1>3, <1>4
    DEF NewsInv, HeardReachesScreen, LatestComes, LatestHasCome
<1>6. \A i \in 1..Len(mainQueue) : mainQueue[i] # ReloadBlock(s)
    BY DEF OnItsWay, ReloadBlock
<1> QED
    BY <1>5, <1>6 DEF NewsInv, ReloadsFollow

\* A step that leaves what is on its way alone; registrations may go, and new
\* ones have heard nothing.
LEMMA NewsUntouched ==
    ASSUME NewsInv, UNCHANGED <<posts, shown, mainQueue, heard, cache>>,
           \A l \in Live' : (l \in Live /\ owner'[l] = owner[l]) \/ heard[l] = Nothing
    PROVE  NewsInv'
<1>1. NewsInOrder'
    BY DEF NewsInv, NewsInOrder, IsNews
<1>2. HeardReachesScreen'
    BY DEF NewsInv, HeardReachesScreen, LatestComes, LatestHasCome, IsFor
<1>3. ReloadsFollow'
    BY DEF NewsInv, ReloadsFollow
<1> QED
    BY <1>1, <1>2, <1>3 DEF NewsInv

\* addSnapshotListener numbers its listeners ahead of the engine.
LEMMA UIKitNews ==
    ASSUME FeedInv, UIKit
    PROVE  /\ UNCHANGED <<vars, posts, shown, mainQueue>>
           /\ \A l \in Live' : (l \in Live /\ owner'[l] = owner[l]) \/ heard[l] = Nothing
<1>1. UNCHANGED <<vars, posts, shown, mainQueue>>
    BY DEF UIKit, SelectTab, ViewWillAppear, ViewDidAppear, ViewWillDisappear,
       ViewDidDisappear, Moves
<1> DEFINE Kept == \A l \in Live' :
              (l \in Live /\ owner'[l] = owner[l]) \/ heard[l] = Nothing
<1>2. ASSUME owner' = owner, muted \subseteq muted' PROVE Kept
    BY <1>2 DEF Live, Calls
<1>3. ASSUME NEW s \in Screens, AddSnapshotListener(s) PROVE Kept
  <2>1. PICK l \in Listeners \ Calls :
          owner' = [owner EXCEPT ![l] = s] /\ muted' = muted
      BY <1>3 DEF AddSnapshotListener
  <2>2. owner \in [Listeners -> Screens \cup {"none"}]
      BY DEF FeedInv, ScreensInv
  <2>3. l > listens
    <3>1. l \in Int /\ listens \in Int
        BY BoundsAssumption DEF Listeners, FeedInv, ListeningInv, ViewInv
    <3> QED
        BY <3>1, <2>1 DEF FeedInv, TasksInv, EngineFollows
  <2>4. heard[l] = Nothing
      BY <2>3 DEF FeedInv, ListeningInv, ViewInv, ListenersAreNumbered
  <2> QED
      BY <2>1, <2>2, <2>4 DEF Live, Calls
<1>4. \/ NoCall
      \/ \E s \in Screens : AddSnapshotListener(s) \/ Remove(s)
      \/ UNCHANGED <<owner, muted>>
    BY DEF UIKit, SelectTab, ViewWillAppear, ViewDidAppear, ViewWillDisappear,
       ViewDidDisappear
<1>5. Kept
    BY <1>2, <1>3, <1>4 DEF NoCall, Remove
<1> QED
    BY <1>1, <1>5

\* What the engine tells its listeners joins the main queue.
LEMMA DispatchedAppends ==
    ASSUME mainQueue \in Seq(Blocks), Dispatched
    PROVE  /\ Len(mainQueue') \in Nat /\ Len(mainQueue) <= Len(mainQueue')
           /\ \A i \in 1..Len(mainQueue) : mainQueue'[i] = mainQueue[i]
           /\ \A i \in 1..Len(mainQueue') : i > Len(mainQueue) =>
                 \E l \in Listeners :
                    /\ heard'[l] # heard[l]
                    /\ mainQueue'[i] = EventBlock(l, heard'[l])
           /\ \A l \in Listeners : heard'[l] # heard[l] =>
                 \E i \in 1..Len(mainQueue') :
                    i > Len(mainQueue) /\ mainQueue'[i] = EventBlock(l, heard'[l])
           /\ \A i, j \in 1..Len(mainQueue') :
                 i > Len(mainQueue) /\ j > Len(mainQueue)
                 /\ mainQueue'[i].listener = mainQueue'[j].listener => i = j
<1> DEFINE hearing == {l \in Listeners : heard'[l] # heard[l]}
           n == Cardinality(hearing)
<1>1. IsFiniteSet(hearing) /\ n \in Nat
  <2>1. IsFiniteSet(Listeners)
      BY BoundsAssumption, FS_Interval DEF Listeners
  <2> QED
      BY <2>1, FS_Subset, FS_CardinalityType
<1>2. PICK order \in [1..n -> hearing] :
        /\ \A i, j \in 1..n : i < j => order[i] < order[j]
        /\ mainQueue' = mainQueue \o
               [i \in 1..n |-> EventBlock(order[i], heard'[order[i]])]
    BY DEF Dispatched
<1>3. \A i, j \in 1..n : order[i] = order[j] => i = j
  <2>1. \A i \in 1..n : order[i] \in Int
      BY <1>2 DEF Listeners
  <2>2. ASSUME NEW i \in 1..n, NEW j \in 1..n, i < j PROVE order[i] # order[j]
      BY <1>2, <2>1, <2>2
  <2>3. \A i, j \in 1..n : i < j \/ j < i \/ i = j
      BY <1>1
  <2> QED
      BY <2>2, <2>3
<1>4. \A l \in hearing : \E i \in 1..n : order[i] = l
  <2>1. order \in Injection(1..n, hearing)
      BY <1>2, <1>3 DEF Injection, IsInjective
  <2>2. IsFiniteSet(1..n) /\ Cardinality(1..n) = n
    <3>1. n \in Int /\ 1 \in Int
        BY <1>1
    <3> HIDE DEF n
    <3>2. IsFiniteSet(1..n) /\ Cardinality(1..n) = IF 1 > n THEN 0 ELSE n - 1 + 1
        BY <3>1, FS_Interval
    <3> QED
        BY <1>1, <3>2
  <2>3. order \in Surjection(1..n, hearing)
      BY <1>1, <2>1, <2>2, FS_Injection
  <2> QED
      BY <2>3 DEF Surjection
<1> DEFINE new == [i \in 1..n |-> EventBlock(order[i], heard'[order[i]])]
           k == Len(mainQueue)
<1> HIDE DEF n
<1>5. new \in Seq({new[i] : i \in 1..n}) /\ Len(new) = n
    BY <1>1
<1>6. mainQueue' = mainQueue \o new /\ k \in Nat
    BY <1>2
<1>7. \A i \in 1..n : new[i] = EventBlock(order[i], heard'[order[i]])
    OBVIOUS
<1> HIDE DEF new
<1>8. /\ Len(mainQueue') = k + n
      /\ \A i \in 1..Len(mainQueue') :
            mainQueue'[i] = IF i <= k THEN mainQueue[i] ELSE new[i - k]
  <2> DEFINE S == Blocks \cup {new[i] : i \in 1..n}
  <2>1. mainQueue \in Seq(S) /\ new \in Seq(S)
    <3>1. \A i \in 1..k : mainQueue[i] \in Blocks
        BY <1>6
    <3>2. mainQueue = [i \in 1..k |-> mainQueue[i]] /\ new = [i \in 1..n |-> new[i]]
        BY <1>1, <1>5, <1>6
    <3> QED
        BY <1>1, <1>5, <1>6, <3>1, <3>2
  <2> HIDE DEF S
  <2> QED
      BY <1>5, <1>6, <2>1
<1> HIDE DEF k
<1>9. \A i \in 1..Len(mainQueue') : i > k =>
          /\ i - k \in 1..n
          /\ mainQueue'[i] = EventBlock(order[i - k], heard'[order[i - k]])
    BY <1>1, <1>6, <1>7, <1>8
<1>10. ASSUME NEW l \in Listeners, heard'[l] # heard[l]
       PROVE  \E i \in 1..Len(mainQueue') :
                 i > k /\ mainQueue'[i] = EventBlock(l, heard'[l])
  <2>1. PICK i \in 1..n : order[i] = l
      BY <1>4, <1>10
  <2>2. i + k \in 1..Len(mainQueue') /\ i + k > k /\ (i + k) - k = i
      BY <1>1, <1>6, <1>8
  <2> QED
      BY <1>9, <2>1, <2>2
<1>11. ASSUME NEW i \in 1..Len(mainQueue'), i > k
       PROVE  \E l \in Listeners :
                 heard'[l] # heard[l] /\ mainQueue'[i] = EventBlock(l, heard'[l])
  <2>1. order[i - k] \in hearing
      BY <1>2, <1>9, <1>11 DEF n
  <2> QED
      BY <1>9, <1>11, <2>1
<1>12. ASSUME NEW i \in 1..Len(mainQueue'), NEW j \in 1..Len(mainQueue'),
              i > k, j > k, mainQueue'[i].listener = mainQueue'[j].listener
       PROVE  i = j
  <2>1. order[i - k] = order[j - k]
    <3>1. /\ mainQueue'[i] = EventBlock(order[i - k], heard'[order[i - k]])
          /\ mainQueue'[j] = EventBlock(order[j - k], heard'[order[j - k]])
        BY <1>9, <1>12
    <3>2. \A l, e : EventBlock(l, e).listener = l
        BY DEF EventBlock
    <3> QED
        BY <1>12, <3>1, <3>2
  <2>2. i - k = j - k
      BY <1>3, <1>9, <1>12, <2>1
  <2> QED
      BY <1>6, <2>2, <1>8, <1>1
<1>13. Len(mainQueue') \in Nat /\ k <= Len(mainQueue')
    BY <1>1, <1>6, <1>8
<1>14. \A i \in 1..k : mainQueue'[i] = mainQueue[i]
    BY <1>6, <1>8, <1>13
<1> HIDE DEF hearing
<1> QED
    BY <1>10, <1>11, <1>12, <1>13, <1>14 DEF k

\* A step of the engine: documents in the cache are the newest there are, and
\* what a listener hears of them goes to the end of the main queue.
LEMMA DispatchedNews ==
    ASSUME FeedInv, NewsInv, Dispatched, UNCHANGED <<posts, shown, owner, muted>>,
           cache \in Nat, cache' \in Nat, cache' >= cache,
           \A l \in Listeners : heard'[l] \in {heard[l], cache', Failed}
    PROVE  NewsInv'
<1> DEFINE k == Len(mainQueue)
           m == Len(mainQueue')
<1>1. /\ k \in Nat /\ m \in Nat /\ k <= m
      /\ \A i \in 1..k : mainQueue'[i] = mainQueue[i]
      /\ \A i \in 1..m : i > k =>
            \E l \in Listeners : /\ heard'[l] # heard[l]
                                 /\ mainQueue'[i] = EventBlock(l, heard'[l])
      /\ \A l \in Listeners : heard'[l] # heard[l] =>
            \E i \in 1..m : i > k /\ mainQueue'[i] = EventBlock(l, heard'[l])
      /\ \A i, j \in 1..m : i > k /\ j > k
            /\ mainQueue'[i].listener = mainQueue'[j].listener => i = j
    BY DispatchedAppends DEF FeedInv, BlocksInv
<1> HIDE DEF k, m
<1>2. \A i \in 1..m : i > k =>
          /\ mainQueue'[i].kind = "event"
          /\ mainQueue'[i].event \in {cache', Failed}
          /\ mainQueue'[i].listener \in Listeners
          /\ heard'[mainQueue'[i].listener] # heard[mainQueue'[i].listener]
  <2> SUFFICES ASSUME NEW i \in 1..m, i > k
               PROVE  /\ mainQueue'[i].kind = "event"
                      /\ mainQueue'[i].event \in {cache', Failed}
                      /\ mainQueue'[i].listener \in Listeners
                      /\ heard'[mainQueue'[i].listener] # heard[mainQueue'[i].listener]
      OBVIOUS
  <2>1. PICK l \in Listeners : /\ heard'[l] # heard[l]
                               /\ mainQueue'[i] = EventBlock(l, heard'[l])
      BY <1>1
  <2>2. /\ mainQueue'[i].kind = "event" /\ mainQueue'[i].listener = l
        /\ mainQueue'[i].event = heard'[l]
      BY <2>1 DEF EventBlock
  <2> QED
      BY <2>1, <2>2
<1>3. NewsInOrder'
  <2>1. \A s \in Screens : posts[s] \in Nat /\ shown[s] \in Nat
                           /\ posts[s] <= cache' /\ shown[s] <= posts[s]
      BY DEF NewsInv, NewsInOrder
  <2>2. ASSUME NEW i \in 1..m, IsNews(i)'
        PROVE  /\ mainQueue'[i].event \in Nat /\ mainQueue'[i].event <= cache'
               /\ i > k => mainQueue'[i].event = cache'
               /\ \A s \in Screens : posts[s] <= mainQueue'[i].event
    <3>1. CASE i > k
        BY <1>2, <2>1, <2>2, <3>1 DEF IsNews
    <3>2. CASE ~(i > k)
      <4>1. i \in 1..k /\ mainQueue'[i] = mainQueue[i] /\ IsNews(i)
          BY <1>1, <2>2, <3>2 DEF IsNews
      <4> QED
          BY <3>2, <4>1 DEF NewsInv, NewsInOrder, k
    <3> QED
        BY <3>1, <3>2
  <2>3. ASSUME NEW i \in 1..m, NEW j \in 1..m, i < j, IsNews(i)', IsNews(j)'
        PROVE  mainQueue'[i].event <= mainQueue'[j].event
    <3>1. CASE j > k
        BY <2>2, <2>3, <3>1
    <3>2. CASE ~(j > k)
      <4>1. /\ i \in 1..k /\ mainQueue'[i] = mainQueue[i] /\ IsNews(i)
            /\ j \in 1..k /\ mainQueue'[j] = mainQueue[j] /\ IsNews(j)
          BY <1>1, <2>3, <3>2 DEF IsNews
      <4> QED
          BY <2>3, <4>1 DEF NewsInv, NewsInOrder, k
    <3> QED
        BY <3>1, <3>2
  <2> QED
      BY <2>1, <2>2, <2>3 DEF NewsInOrder, NewsInv, m
<1>4. HeardReachesScreen'
  <2> SUFFICES ASSUME NEW l \in Live, heard'[l] \notin {Nothing, Failed}
               PROVE  LatestComes(l)' \/ LatestHasCome(l)'
      BY DEF HeardReachesScreen, Live, Calls
  <2>1. l \in Listeners
      BY DEF Live, Calls
  <2>2. CASE heard'[l] # heard[l]
    <3>1. PICK i \in 1..m : i > k /\ mainQueue'[i] = EventBlock(l, heard'[l])
        BY <1>1, <2>1, <2>2
    <3>2. /\ IsFor(i, l)' /\ mainQueue'[i].event = heard'[l]
          /\ mainQueue'[i].listener = l
        BY <3>1 DEF IsFor, EventBlock
    <3>3. ASSUME NEW j \in 1..m, IsFor(j, l)' PROVE j <= i
        BY <1>1, <3>1, <3>2, <3>3 DEF IsFor
    <3> QED
        BY <3>2, <3>3 DEF LatestComes, m
  <2>3. CASE heard'[l] = heard[l]
    <3>1. \A i \in 1..m : IsFor(i, l)' => i \in 1..k /\ IsFor(i, l)
        BY <1>1, <1>2, <2>3 DEF IsFor
    <3>2. CASE LatestComes(l)
      <4>1. PICK i \in 1..k : /\ IsFor(i, l) /\ mainQueue[i].event = heard[l]
                              /\ \A j \in 1..k : IsFor(j, l) => j <= i
          BY <3>2 DEF LatestComes, k
      <4>2. i \in 1..m /\ mainQueue'[i] = mainQueue[i]
          BY <1>1
      <4> QED
          BY <2>3, <3>1, <4>1, <4>2 DEF LatestComes, IsFor, m
    <3>3. CASE LatestHasCome(l)
        BY <2>3, <3>1, <3>3 DEF LatestHasCome, k, m
    <3> QED
        BY <2>3, <3>2, <3>3 DEF NewsInv, HeardReachesScreen
  <2> QED
      BY <2>2, <2>3
<1>5. ReloadsFollow'
  <2>1. \A i \in 1..k : i \in 1..m /\ mainQueue'[i] = mainQueue[i]
      BY <1>1
  <2> QED
      BY <2>1 DEF NewsInv, ReloadsFollow, k, m
<1> QED
    BY <1>3, <1>4, <1>5 DEF NewsInv

\* What a block of the main queue leaves behind: the rest, and perhaps a reload.
LEMMA RestOfMainQueue ==
    ASSUME BlocksInv, mainQueue # <<>>,
           \/ mainQueue' = Tail(mainQueue)
           \/ \E s \in Screens : mainQueue' = Append(Tail(mainQueue), ReloadBlock(s))
    PROVE  /\ Len(mainQueue) \in Nat /\ Len(mainQueue') \in Nat
           /\ Head(mainQueue) = mainQueue[1] /\ 1 \in 1..Len(mainQueue)
           /\ Len(mainQueue) - 1 <= Len(mainQueue')
           /\ \A i \in 1..Len(mainQueue') :
                 IF i < Len(mainQueue)
                 THEN mainQueue'[i] = mainQueue[i + 1] /\ i + 1 \in 1..Len(mainQueue)
                 ELSE mainQueue'[i].kind = "reload"
           /\ \A i \in 1..Len(mainQueue) :
                 i = 1 \/ (i - 1 \in 1..Len(mainQueue') /\ mainQueue'[i - 1] = mainQueue[i])
<1> DEFINE rest == Tail(mainQueue)
<1>1. /\ rest \in Seq(Blocks)
      /\ Len(rest) = Len(mainQueue) - 1 /\ Len(mainQueue) \in Nat
      /\ Head(mainQueue) = mainQueue[1] /\ 1 \in 1..Len(mainQueue)
      /\ \A i \in 1..Len(rest) : rest[i] = mainQueue[i + 1]
    BY DEF BlocksInv
<1> HIDE DEF rest
<1>2. CASE mainQueue' = rest
    BY <1>1, <1>2
<1>3. ASSUME NEW s \in Screens, mainQueue' = Append(rest, ReloadBlock(s))
      PROVE  /\ Len(mainQueue') = Len(mainQueue)
             /\ \A i \in 1..Len(mainQueue') :
                   mainQueue'[i] = IF i < Len(mainQueue) THEN rest[i]
                                   ELSE ReloadBlock(s)
  <2>1. ReloadBlock(s) \in Blocks
      BY DEF ReloadBlock, Blocks
  <2> QED
      BY <1>1, <1>3, <2>1
<1>4. \A s : ReloadBlock(s).kind = "reload"
    BY DEF ReloadBlock
<1>5. CASE \E s \in Screens : mainQueue' = Append(rest, ReloadBlock(s))
  <2>1. PICK s \in Screens : mainQueue' = Append(rest, ReloadBlock(s))
      BY <1>5
  <2>2. /\ Len(mainQueue') = Len(mainQueue)
        /\ \A i \in 1..Len(mainQueue') :
              mainQueue'[i] = IF i < Len(mainQueue) THEN rest[i]
                              ELSE ReloadBlock(s)
      BY <1>3, <2>1
  <2>3. \A i \in 1..Len(mainQueue') :
            IF i < Len(mainQueue)
            THEN mainQueue'[i] = mainQueue[i + 1] /\ i + 1 \in 1..Len(mainQueue)
            ELSE mainQueue'[i].kind = "reload"
      BY <1>1, <1>4, <2>2
  <2>4. ASSUME NEW i \in 1..Len(mainQueue), i # 1
        PROVE  i - 1 \in 1..Len(mainQueue') /\ mainQueue'[i - 1] = mainQueue[i]
    <3>1. i - 1 \in 1..Len(mainQueue') /\ i - 1 < Len(mainQueue) /\ (i - 1) + 1 = i
        BY <1>1, <2>2, <2>4
    <3> QED
        BY <2>3, <3>1
  <2> QED
      BY <1>1, <2>2, <2>3, <2>4
<1> QED
    BY <1>1, <1>2, <1>5 DEF rest

\* The queue behind its head keeps its order, and what is for a listener is not
\* lost unless it was the head itself.
LEMMA RestKeepsNews ==
    ASSUME FeedInv, NewsInv, mainQueue # <<>>, UNCHANGED <<heard, cache>>,
           \/ mainQueue' = Tail(mainQueue)
           \/ \E s \in Screens : mainQueue' = Append(Tail(mainQueue), ReloadBlock(s))
    PROVE  /\ \A i \in 1..Len(mainQueue') : IsNews(i)' =>
                 /\ mainQueue'[i].event \in Nat /\ mainQueue'[i].event <= cache
                 /\ \A s \in Screens : posts[s] <= mainQueue'[i].event
                 /\ IsNews(1) => mainQueue[1].event <= mainQueue'[i].event
                 /\ \A j \in 1..Len(mainQueue') : i < j /\ IsNews(j)' =>
                       mainQueue'[i].event <= mainQueue'[j].event
           /\ \A l \in Live :
                 /\ LatestComes(l) =>
                       \/ LatestComes(l)'
                       \/ /\ IsFor(1, l) /\ mainQueue[1].event = heard[l]
                          /\ \A i \in 1..Len(mainQueue') : ~IsFor(i, l)'
                 /\ (\A i \in 1..Len(mainQueue) : ~IsFor(i, l)) =>
                       \A i \in 1..Len(mainQueue') : ~IsFor(i, l)'
<1> DEFINE k == Len(mainQueue)
           m == Len(mainQueue')
<1>1. /\ k \in Nat /\ m \in Nat /\ 1 \in 1..k /\ k - 1 <= m
      /\ \A i \in 1..m :
            IF i < k THEN mainQueue'[i] = mainQueue[i + 1] /\ i + 1 \in 1..k
            ELSE mainQueue'[i].kind = "reload"
      /\ \A i \in 1..k :
            i = 1 \/ (i - 1 \in 1..m /\ mainQueue'[i - 1] = mainQueue[i])
    BY RestOfMainQueue DEF FeedInv
<1> HIDE DEF k, m
<1>2. \A i \in 1..m : IsNews(i)' => /\ i + 1 \in 1..k /\ IsNews(i + 1)
                                    /\ mainQueue'[i] = mainQueue[i + 1]
    BY <1>1 DEF IsNews
<1>3. \A i \in 1..m, l \in Live : IsFor(i, l)' => i + 1 \in 1..k /\ IsFor(i + 1, l)
    BY <1>1 DEF IsFor
<1>4. ASSUME NEW i \in 1..m, IsNews(i)'
      PROVE  /\ mainQueue'[i].event \in Nat /\ mainQueue'[i].event <= cache
             /\ \A s \in Screens : posts[s] <= mainQueue'[i].event
             /\ IsNews(1) => mainQueue[1].event <= mainQueue'[i].event
             /\ \A j \in 1..m : i < j /\ IsNews(j)' =>
                   mainQueue'[i].event <= mainQueue'[j].event
  <2>1. /\ i + 1 \in 1..k /\ IsNews(i + 1) /\ 1 < i + 1
        /\ mainQueue'[i] = mainQueue[i + 1]
      BY <1>2, <1>4
  <2>2. ASSUME NEW j \in 1..m, i < j, IsNews(j)'
        PROVE  mainQueue'[i].event <= mainQueue'[j].event
    <3>1. /\ j + 1 \in 1..k /\ IsNews(j + 1) /\ i + 1 < j + 1
          /\ mainQueue'[j] = mainQueue[j + 1]
        BY <1>2, <2>2
    <3> QED
        BY <2>1, <3>1 DEF NewsInv, NewsInOrder, k
  <2> QED
      BY <1>1, <2>1, <2>2 DEF NewsInv, NewsInOrder, k
<1>5. ASSUME NEW l \in Live, NEW i \in 1..k, i # 1,
             IsFor(i, l), mainQueue[i].event = heard[l],
             \A j \in 1..k : IsFor(j, l) => j <= i
      PROVE  LatestComes(l)'
  <2>1. i - 1 \in 1..m /\ mainQueue'[i - 1] = mainQueue[i]
      BY <1>1, <1>5
  <2>2. \A j \in 1..m : IsFor(j, l)' => j <= i - 1
      BY <1>3, <1>5
  <2> QED
      BY <1>5, <2>1, <2>2 DEF LatestComes, IsFor, m
<1>6. ASSUME NEW l \in Live, LatestComes(l)
      PROVE  \/ LatestComes(l)'
             \/ /\ IsFor(1, l) /\ mainQueue[1].event = heard[l]
                /\ \A i \in 1..m : ~IsFor(i, l)'
  <2>1. PICK i \in 1..k : /\ IsFor(i, l) /\ mainQueue[i].event = heard[l]
                          /\ \A j \in 1..k : IsFor(j, l) => j <= i
      BY <1>6 DEF LatestComes, k
  <2>2. CASE i = 1
    <3>1. \A j \in 1..m : ~IsFor(j, l)'
        BY <1>3, <2>1, <2>2
    <3> QED
        BY <2>1, <2>2, <3>1
  <2>3. CASE i # 1
      BY <1>5, <2>1, <2>3
  <2> QED
      BY <2>2, <2>3
<1>7. ASSUME NEW l \in Live, \A i \in 1..k : ~IsFor(i, l)
      PROVE  \A i \in 1..m : ~IsFor(i, l)'
    BY <1>3, <1>7
<1> QED
    BY <1>4, <1>6, <1>7 DEF k, m

\* The closure of addSnapshotListener takes an event from the queue.
LEMMA OnSnapshotNews == ASSUME FeedInv, NewsInv, OnSnapshot PROVE NewsInv'
<1> DEFINE l == Head(mainQueue).listener
           event == Head(mainQueue).event
           s == owner[l]
<1>1. /\ mainQueue # <<>> /\ l \in Calls /\ s \in Screens
      /\ UNCHANGED <<heard, cache, shown, owner, muted>>
    BY HeadFits DEF OnSnapshot, NextBlockIs, vars, managerVars, engineVars
<1>2. /\ Head(mainQueue) = mainQueue[1] /\ 1 \in 1..Len(mainQueue)
      /\ mainQueue[1].kind = "event"
      /\ \A i \in 1..Len(mainQueue) : i = 1 \/
            (i - 1 \in 1..Len(mainQueue') /\ mainQueue'[i - 1] = mainQueue[i])
    BY <1>1, RestOfMainQueue DEF FeedInv, OnSnapshot, NextBlockIs
<1>3. Live' = Live
    BY <1>1 DEF Live, Calls
<1>4. \A r \in Screens : \A i \in 1..Len(mainQueue) :
          mainQueue[i] = ReloadBlock(r) =>
              \E j \in 1..Len(mainQueue') : mainQueue'[j] = ReloadBlock(r)
    BY <1>2 DEF ReloadBlock
<1>5. CASE l \in muted \/ event = Failed
  <2>1. mainQueue' = Tail(mainQueue) /\ posts' = posts
      BY <1>5 DEF OnSnapshot
  <2>2. NewsInOrder'
      BY <1>1, <2>1, RestKeepsNews DEF NewsInv, NewsInOrder
  <2>3. ASSUME NEW k \in Live, heard[k] \notin {Nothing, Failed}
        PROVE  LatestComes(k)' \/ LatestHasCome(k)'
    <3>1. ~(IsFor(1, k) /\ mainQueue[1].event = heard[k])
        BY <1>2, <1>5, <2>3 DEF IsFor, Live
    <3> QED
        BY <1>1, <2>1, <2>3, <3>1, RestKeepsNews
        DEF NewsInv, HeardReachesScreen, LatestHasCome
  <2>4. HeardReachesScreen'
      BY <1>1, <1>3, <2>3 DEF HeardReachesScreen
  <2>5. ReloadsFollow'
      BY <1>1, <1>4, <2>1 DEF NewsInv, ReloadsFollow
  <2> QED
      BY <2>2, <2>4, <2>5 DEF NewsInv
<1>6. CASE ~(l \in muted \/ event = Failed)
  <2>1. /\ posts' = [posts EXCEPT ![s] = event]
        /\ mainQueue' = Append(Tail(mainQueue), ReloadBlock(s))
      BY <1>6 DEF OnSnapshot
  <2>2. /\ IsNews(1) /\ event = mainQueue[1].event
        /\ event \in Nat /\ event <= cache
        /\ \A r \in Screens : posts[r] <= event
      BY <1>2, <1>6 DEF IsNews, NewsInv, NewsInOrder
  <2>3. posts \in [Screens -> Nat] /\ shown \in [Screens -> Nat]
      BY DEF NewsInv, NewsInOrder
  <2> HIDE DEF event
  <2>4. \A r \in Screens : posts'[r] = IF r = s THEN event ELSE posts[r]
      BY <2>1, <2>3
  <2>5. NewsInOrder'
    <3>1. \A r \in Screens : /\ posts'[r] \in Nat /\ posts'[r] <= cache
                             /\ shown[r] <= posts'[r]
        BY <2>2, <2>3, <2>4 DEF NewsInv, NewsInOrder
    <3>2. posts' \in [Screens -> Nat]
        BY <2>1, <2>2, <2>3
    <3>3. \A i \in 1..Len(mainQueue') : IsNews(i)' =>
              /\ mainQueue'[i].event \in Nat /\ mainQueue'[i].event <= cache
              /\ \A r \in Screens : posts'[r] <= mainQueue'[i].event
              /\ \A j \in 1..Len(mainQueue') : i < j /\ IsNews(j)' =>
                    mainQueue'[i].event <= mainQueue'[j].event
      <4> SUFFICES ASSUME NEW i \in 1..Len(mainQueue'), IsNews(i)'
                   PROVE  /\ mainQueue'[i].event \in Nat /\ mainQueue'[i].event <= cache
                          /\ \A r \in Screens : posts'[r] <= mainQueue'[i].event
                          /\ \A j \in 1..Len(mainQueue') : i < j /\ IsNews(j)' =>
                                mainQueue'[i].event <= mainQueue'[j].event
          OBVIOUS
      <4>1. /\ mainQueue'[i].event \in Nat /\ mainQueue'[i].event <= cache
            /\ \A r \in Screens : posts[r] <= mainQueue'[i].event
            /\ event <= mainQueue'[i].event
            /\ \A j \in 1..Len(mainQueue') : i < j /\ IsNews(j)' =>
                  mainQueue'[i].event <= mainQueue'[j].event
          BY <1>1, <2>1, <2>2, RestKeepsNews
      <4> QED
          BY <2>4, <4>1
    <3> QED
        BY <1>1, <2>3, <3>1, <3>2, <3>3 DEF NewsInOrder
  <2>6. ASSUME NEW k \in Live, heard[k] \notin {Nothing, Failed}
        PROVE  LatestComes(k)' \/ LatestHasCome(k)'
    <3>1. owner[k] \in Screens /\ (owner[k] = s => k = l)
      <4>1. l \in Live
          BY <1>1, <1>6 DEF Live
      <4> QED
          BY <4>1 DEF FeedInv, ScreensInv, OneEach, Live, Calls
    <3>2. IsFor(1, k) <=> k = l
        BY <1>2 DEF IsFor
    <3>3. CASE LatestComes(k)
      <4>1. CASE LatestComes(k)'
          BY <4>1
      <4>2. CASE /\ IsFor(1, k) /\ mainQueue[1].event = heard[k]
                 /\ \A i \in 1..Len(mainQueue') : ~IsFor(i, k)'
          BY <1>1, <2>2, <2>4, <3>1, <3>2, <4>2 DEF LatestHasCome
      <4> QED
          BY <1>1, <2>1, <3>3, <4>1, <4>2, RestKeepsNews
    <3>4. CASE LatestHasCome(k)
      <4>1. ~IsFor(1, k)
          BY <1>2, <3>4 DEF LatestHasCome
      <4>2. posts'[owner[k]] = posts[owner[k]]
          BY <2>4, <3>1, <3>2, <4>1
      <4> QED
          BY <1>1, <2>1, <3>4, <4>2, RestKeepsNews DEF LatestHasCome
    <3> QED
        BY <2>6, <3>3, <3>4 DEF NewsInv, HeardReachesScreen
  <2>7. HeardReachesScreen'
      BY <1>1, <1>3, <2>6 DEF HeardReachesScreen
  <2>8. ReloadsFollow'
    <3>1. \E j \in 1..Len(mainQueue') : mainQueue'[j] = ReloadBlock(s)
      <4>1. Tail(mainQueue) \in Seq(Blocks) /\ ReloadBlock(s) \in Blocks
          BY <1>1 DEF FeedInv, BlocksInv, ReloadBlock, Blocks
      <4> QED
          BY <2>1, <4>1
    <3> QED
        BY <1>1, <1>4, <2>4, <3>1 DEF NewsInv, ReloadsFollow
  <2> QED
      BY <2>5, <2>7, <2>8 DEF NewsInv
<1> QED
    BY <1>5, <1>6

\* reloadData shows the array as it is by then.
LEMMA ReloadDataNews == ASSUME FeedInv, NewsInv, ReloadData PROVE NewsInv'
<1> DEFINE s == Head(mainQueue).screen
<1>1. /\ mainQueue # <<>> /\ mainQueue' = Tail(mainQueue)
      /\ shown' = [shown EXCEPT ![s] = posts[s]]
      /\ UNCHANGED <<heard, cache, posts, owner, muted>>
    BY DEF ReloadData, NextBlockIs, vars, managerVars, engineVars
<1>2. /\ Head(mainQueue) = mainQueue[1] /\ 1 \in 1..Len(mainQueue)
      /\ mainQueue[1].kind = "reload" /\ mainQueue[1] \in Blocks
      /\ \A i \in 1..Len(mainQueue) : i = 1 \/
            (i - 1 \in 1..Len(mainQueue') /\ mainQueue'[i - 1] = mainQueue[i])
    BY <1>1, RestOfMainQueue DEF FeedInv, BlocksInv, ReloadData, NextBlockIs
<1>3. s \in Screens /\ mainQueue[1] = ReloadBlock(s)
    BY <1>2 DEF Blocks, ReloadBlock
<1>4. posts \in [Screens -> Nat] /\ shown \in [Screens -> Nat]
    BY DEF NewsInv, NewsInOrder
<1> HIDE DEF s
<1>5. \A r \in Screens : shown'[r] = IF r = s THEN posts[r] ELSE shown[r]
    BY <1>1, <1>4
<1>6. NewsInOrder'
  <2>1. \A r \in Screens : posts[r] <= cache /\ shown'[r] <= posts[r]
      BY <1>4, <1>5 DEF NewsInv, NewsInOrder
  <2>2. shown' \in [Screens -> Nat]
      BY <1>1, <1>3, <1>4
  <2> QED
      BY <1>1, <1>4, <2>1, <2>2, RestKeepsNews DEF NewsInOrder
<1>7. HeardReachesScreen'
  <2>1. \A l \in Live : ~IsFor(1, l)
      BY <1>2 DEF IsFor
  <2>2. Live' = Live
      BY <1>1 DEF Live, Calls
  <2> QED
      BY <1>1, <2>1, <2>2, RestKeepsNews
      DEF NewsInv, HeardReachesScreen, LatestHasCome
<1>8. ReloadsFollow'
  <2> SUFFICES ASSUME NEW r \in Screens, shown'[r] # posts[r]
               PROVE  \E i \in 1..Len(mainQueue') : mainQueue'[i] = ReloadBlock(r)
      BY <1>1 DEF ReloadsFollow
  <2>1. r # s /\ shown[r] # posts[r]
      BY <1>5
  <2>2. PICK i \in 1..Len(mainQueue) : mainQueue[i] = ReloadBlock(r)
      BY <2>1 DEF NewsInv, ReloadsFollow
  <2>3. i # 1
      BY <1>3, <2>1, <2>2 DEF ReloadBlock
  <2> QED
      BY <1>2, <2>2, <2>3
<1> QED
    BY <1>6, <1>7, <1>8 DEF NewsInv

LEMMA NewsStep ==
    ASSUME FeedInv, WireInv, NewsInv, [FeedNext]_feedVars
    PROVE  NewsInv'
<1>1. CASE UIKit
  <2>1. UNCHANGED <<heard, cache>>
      BY <1>1, UIKitNews DEF vars, managerVars, engineVars
  <2> QED
      BY <1>1, <2>1, UIKitNews, NewsUntouched
<1>2. CASE BackendStep \/ UNCHANGED feedVars
  <2>1. UNCHANGED <<posts, shown, mainQueue, heard, cache, owner, muted>>
      BY <1>2 DEF BackendStep, Backend, BackendAnswers, PostsChange, feedVars,
         vars, managerVars, engineVars, screenVars
  <2>2. Live' = Live
      BY <2>1 DEF Live, Calls
  <2> QED
      BY <2>1, <2>2, NewsUntouched
<1>3. CASE RunTask \/ EngineStep
  <2>1. [Next]_vars
      BY <1>3, RunTaskIsListening DEF EngineStep, Next
  <2>2. Dispatched /\ UNCHANGED <<posts, shown, owner, muted>>
      BY <1>3 DEF RunTask, EngineStep, screenVars
  <2> QED
      BY <2>1, <2>2, CacheGrows, ListenersHearTheCache, DispatchedNews DEF FeedInv
<1> QED
    BY <1>1, <1>2, <1>3, OnSnapshotNews, ReloadDataNews DEF FeedNext, MainQueue

(***************************************************************************)
(* What travels from the cache to the screens arrives in order and once.   *)
(***************************************************************************)
THEOREM NewsInvariant == FeedSpec => []NewsInv
<1>1. FeedSpec => []WireInv
    BY FeedUsesListening, WireInvariant
<1> QED
    BY <1>1, FeedInvariant, NewsInitially, NewsStep, PTL DEF FeedSpec

(***************************************************************************)
(* A screen with nothing on its way to it shows the documents in the       *)
(* cache, for queues of any length: the last event for its listener is     *)
(* what the listener has heard, and a reload follows the array.            *)
(***************************************************************************)
THEOREM QuietScreensAreUpToDate == FeedSpec => []QuietScreensShowTheCache
  BY FeedInvariant, NewsInvariant, NewsInvImplies, PTL

(***************************************************************************)
(* Of the documents the watch stream delivers, screens only ever move on   *)
(* to newer ones: every event on the main queue is at least as new as what *)
(* any screen has, whichever listener it is for. Nothing is said of the    *)
(* app's own pending posts, which the model leaves out.                    *)
(***************************************************************************)
THEOREM ScreensOnlyMoveOn == FeedSpec => DeliveredPostsNeverGoBack
<1> DEFINE MovesOn == \A s \in Screens : posts'[s] >= posts[s] /\ shown'[s] >= shown[s]
<1>1. ASSUME FeedInv, NewsInv, [FeedNext]_feedVars PROVE MovesOn
  <2>1. /\ posts \in [Screens -> Nat] /\ shown \in [Screens -> Nat]
        /\ \A s \in Screens : shown[s] <= posts[s]
      BY <1>1 DEF NewsInv, NewsInOrder
  <2>2. CASE UNCHANGED <<posts, shown>>
      BY <2>1, <2>2
  <2>3. CASE OnSnapshot
    <3>1. Head(mainQueue) = mainQueue[1] /\ 1 \in 1..Len(mainQueue)
        BY <1>1, <2>3 DEF OnSnapshot, NextBlockIs, FeedInv, BlocksInv
    <3>2. CASE posts' = posts
        BY <2>1, <2>3, <3>2 DEF OnSnapshot
    <3>3. CASE /\ Head(mainQueue).event # Failed
               /\ \E s \in Screens : posts' = [posts EXCEPT ![s] = Head(mainQueue).event]
      <4>1. /\ Head(mainQueue).event \in Nat
            /\ \A s \in Screens : posts[s] <= Head(mainQueue).event
          BY <1>1, <2>3, <3>1, <3>3
          DEF OnSnapshot, NextBlockIs, NewsInv, NewsInOrder, IsNews
      <4>2. shown' = shown
          BY <2>3 DEF OnSnapshot
      <4> QED
          BY <2>1, <3>3, <4>1, <4>2
    <3>4. owner[Head(mainQueue).listener] \in Screens
        BY <1>1, <2>3, HeadFits DEF OnSnapshot
    <3> QED
        BY <2>3, <3>2, <3>3, <3>4 DEF OnSnapshot
  <2>4. CASE ReloadData
    <3>1. posts' = posts /\ \E s : shown' = [shown EXCEPT ![s] = posts[s]]
        BY <2>4 DEF ReloadData
    <3> QED
        BY <2>1, <3>1
  <2>5. UIKit \/ RunTask \/ EngineStep \/ BackendStep \/ UNCHANGED feedVars
            => UNCHANGED <<posts, shown>>
      BY DEF UIKit, SelectTab, ViewWillAppear, ViewDidAppear,
         ViewWillDisappear, ViewDidDisappear, Moves, RunTask, EngineStep,
         BackendStep, screenVars, feedVars
  <2> QED
      BY <1>1, <2>2, <2>3, <2>4, <2>5 DEF FeedNext, MainQueue
<1>2. ASSUME FeedInv, NewsInv, [FeedNext]_feedVars PROVE [MovesOn]_feedVars
    BY <1>1, <1>2
<1> QED
    BY <1>2, FeedInvariant, NewsInvariant, PTL DEF FeedSpec, DeliveredPostsNeverGoBack

(***************************************************************************)
(* From the backend to the collection view: when the requests on the watch *)
(* stream are answered, its messages are read, and both queues have run    *)
(* what concerns a screen, then the screen shows exactly the posts the     *)
(* backend holds, unless its listener was given an error. This is what    *)
(* ScreensCatchUp ends in, and it holds without fairness: a screen can be  *)
(* behind only while something is on its way.                              *)
(***************************************************************************)
NothingOnItsWay(s) ==
    /\ AllAnswered /\ responses = <<>>
    /\ listener[s] \notin Pending("add") /\ ~OnItsWay(s)

ShowsNewest(s) ==
    Registered(s) /\ heard[listener[s]] # Failed /\ NothingOnItsWay(s)
        => shown[s] = version

THEOREM QuietScreensShowTheNewest == FeedSpec => [](\A s \in Screens : ShowsNewest(s))
<1>1. FeedSpec => []QuietStreamIsUpToDate
    BY FeedUsesListening, QuietStreamsAreUpToDate
<1>2. ASSUME FeedInv, QuietScreensShowTheCache, QuietStreamIsUpToDate
      PROVE  \A s \in Screens : ShowsNewest(s)
  <2>1. SUFFICES ASSUME NEW s \in Screens,
                        Registered(s), heard[listener[s]] # Failed,
                        NothingOnItsWay(s)
                 PROVE  shown[s] = version
      BY DEF ShowsNewest
  <2>2. listener[s] \in listeners
      BY <1>2, <2>1
      DEF NothingOnItsWay, FeedInv, ScreensInv, OneEach, TasksInv, EngineFollows
  <2>3. listener[s] \in raised /\ heard[listener[s]] = version
      BY <1>2, <2>1, <2>2 DEF NothingOnItsWay, QuietStreamIsUpToDate
  <2>4. heard[listener[s]] = cache
      BY <1>2, <2>3 DEF FeedInv, ListeningInv, ViewInv, ListenersSeeTheView
  <2>5. shown[s] = cache
      BY <1>2, <2>1, <2>3 DEF NothingOnItsWay, QuietScreensShowTheCache
  <2> QED
      BY <2>3, <2>4, <2>5
<1> QED
    BY <1>1, <1>2, FeedInvariant, QuietScreensAreUpToDate, PTL

=============================================================================
