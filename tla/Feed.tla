------------------------------- MODULE Feed -------------------------------
(***************************************************************************)
(* The two screens that show posts, InstagramFeedViewController and        *)
(* ProfileViewController, on top of Listening. Both listen to all posts    *)
(* while they are on screen, the profile a little longer: it adds its      *)
(* listener in viewWillAppear and removes it in viewDidDisappear, the feed *)
(* in viewDidAppear and viewWillDisappear.                                 *)
(*                                                                         *)
(* Calls of the app reach Firestore over the worker queue, events come     *)
(* back over the main queue. Both are FIFO. A registration that is removed *)
(* is muted at once, so nothing that is under way can reach the screen.    *)
(***************************************************************************)
EXTENDS Listening

VARIABLES
    \* UIKit
    tab,            \* the selected tab
    phase,          \* how far each screen is on its way on or off the screen
    \* the screens
    listener,       \* the property listener of each screen, 0 for nil
    posts,          \* instagramPosts and userPosts
    shown,          \* what the collection view was last loaded with
    \* registrations and queues
    owner,          \* the screen that called addSnapshotListener
    muted,          \* registrations that are removed
    workerQueue, mainQueue

screenVars == <<tab, phase, listener, posts, shown, owner, muted>>
feedVars == <<vars, screenVars, workerQueue, mainQueue>>

Screens == {"feed", "profile"}
Tabs == Screens \cup {"addPhoto"}

\* Blocks of the main queue.
EventBlock(l, event) == [kind |-> "event", listener |-> l, event |-> event]
ReloadBlock(s) == [kind |-> "reload", screen |-> s]

\* Tasks of the worker queue.
Task(kind, l) == [kind |-> kind, listener |-> l]

FeedInit ==
    /\ Init
    /\ tab = "feed"
    /\ phase = [s \in Screens |-> "hidden"]
    /\ listener = [s \in Screens |-> 0]
    /\ posts = [s \in Screens |-> 0] /\ shown = [s \in Screens |-> 0]
    /\ owner = [l \in Listeners |-> "none"]
    /\ muted = {}
    /\ workerQueue = <<>> /\ mainQueue = <<>>

Calls == {l \in Listeners : owner[l] # "none"}

-----------------------------------------------------------------------------
(* The screens *)

\* Firestore.firestore().collection("posts").addSnapshotListener
AddSnapshotListener(s) ==
    \E l \in Listeners \ Calls :
        /\ \A k \in Listeners \ Calls : l <= k
        /\ owner' = [owner EXCEPT ![l] = s]
        /\ listener' = [listener EXCEPT ![s] = l]
        /\ workerQueue' = Append(workerQueue, Task("add", l))
        /\ UNCHANGED muted

\* Mutant of Remove: only the engine is told.
RemoveWithoutMute(s) ==
    /\ workerQueue' = Append(workerQueue, Task("remove", listener[s]))
    /\ UNCHANGED <<listener, owner, muted>>

\* listener?.remove(): muted at once, then the engine is told.
Remove(s) ==
    /\ muted' = muted \cup {listener[s]}
    /\ workerQueue' = Append(workerQueue, Task("remove", listener[s]))
    /\ UNCHANGED <<listener, owner>>

NoCall == UNCHANGED <<listener, owner, muted, workerQueue>>

\* UIKit moves screen s on to the next phase.
Moves(s, from, to) ==
    /\ phase[s] = from
    /\ phase' = [phase EXCEPT ![s] = to]
    /\ UNCHANGED <<vars, tab, posts, shown, mainQueue>>

\* A tap on the tab bar, once the last change of tabs is over.
SelectTab(t) ==
    /\ t # tab
    /\ \A s \in Screens : phase[s] = IF s = tab THEN "visible" ELSE "hidden"
    /\ t \in Screens => Calls # Listeners
    /\ tab' = t
    /\ UNCHANGED <<vars, phase, listener, posts, shown, owner, muted,
                   workerQueue, mainQueue>>

ViewWillAppear(s) ==
    /\ tab = s
    /\ Moves(s, "hidden", "appearing")
    /\ IF s = "profile" THEN AddSnapshotListener(s) ELSE NoCall

ViewDidAppear(s) ==
    /\ Moves(s, "appearing", "visible")
    /\ IF s = "feed" THEN AddSnapshotListener(s) ELSE NoCall

\* Mutant of ViewWillDisappear: the feed goes on listening.
FeedKeepsListening(s) ==
    /\ tab # s
    /\ Moves(s, "visible", "disappearing")
    /\ NoCall

ViewWillDisappear(s) ==
    /\ tab # s
    /\ Moves(s, "visible", "disappearing")
    /\ IF s = "feed" THEN Remove(s) ELSE NoCall

ViewDidDisappear(s) ==
    /\ Moves(s, "disappearing", "hidden")
    /\ IF s = "profile" THEN Remove(s) ELSE NoCall

UIKit ==
    \/ \E t \in Tabs : SelectTab(t)
    \/ \E s \in Screens :
          \/ ViewWillAppear(s) \/ ViewDidAppear(s)
          \/ ViewWillDisappear(s) \/ ViewDidDisappear(s)

-----------------------------------------------------------------------------
(* The worker queue *)

\* AsyncEventListener::OnEvent: the listeners that have just heard something
\* have it dispatched to the main queue, in the order in which they came.
Dispatched ==
    LET hearing == {l \in Listeners : heard'[l] # heard[l]}
        n == Cardinality(hearing)
    IN  \E order \in [1..n -> hearing] :
           /\ \A i, j \in 1..n : i < j => order[i] < order[j]
           /\ mainQueue' = mainQueue \o
                  [i \in 1..n |-> EventBlock(order[i], heard'[order[i]])]

\* ListenToQuery and RemoveListener, run in the order of the calls.
RunTask ==
    /\ workerQueue # <<>>
    /\ workerQueue' = Tail(workerQueue)
    /\ LET task == Head(workerQueue)
       IN  \/ task.kind = "add" /\ AddQueryListener(task.listener)
           \/ task.kind = "remove" /\ RemoveQueryListener(task.listener)
    /\ Dispatched
    /\ UNCHANGED screenVars

EngineStep ==
    /\ Engine
    /\ Dispatched
    /\ UNCHANGED <<screenVars, workerQueue>>

BackendStep == Backend /\ UNCHANGED <<screenVars, workerQueue, mainQueue>>

-----------------------------------------------------------------------------
(* The main queue *)

NextBlockIs(kind) == mainQueue # <<>> /\ Head(mainQueue).kind = kind

\* Mutant of OnSnapshot: the collection view is not told.
ArrayWithoutReload ==
    /\ NextBlockIs("event")
    /\ mainQueue' = Tail(mainQueue)
    /\ LET block == Head(mainQueue)
       IN  posts' = IF block.listener \in muted \/ block.event = Failed
                    THEN posts
                    ELSE [posts EXCEPT ![owner[block.listener]] = block.event]
    /\ UNCHANGED <<vars, tab, phase, listener, shown, owner, muted,
                   workerQueue>>

\* The closure of addSnapshotListener, unless the registration is muted: an
\* alert, or the array and a reload on a later turn (didSet).
OnSnapshot ==
    /\ NextBlockIs("event")
    /\ LET block == Head(mainQueue)
           s == owner[block.listener]
       IN  IF block.listener \in muted \/ block.event = Failed
           THEN mainQueue' = Tail(mainQueue) /\ UNCHANGED posts
           ELSE /\ posts' = [posts EXCEPT ![s] = block.event]
                /\ mainQueue' = Append(Tail(mainQueue), ReloadBlock(s))
    /\ UNCHANGED <<vars, tab, phase, listener, shown, owner, muted,
                   workerQueue>>

ReloadData ==
    /\ NextBlockIs("reload")
    /\ mainQueue' = Tail(mainQueue)
    /\ LET s == Head(mainQueue).screen
       IN  shown' = [shown EXCEPT ![s] = posts[s]]
    /\ UNCHANGED <<vars, tab, phase, listener, posts, owner, muted,
                   workerQueue>>

MainQueue == OnSnapshot \/ ReloadData

-----------------------------------------------------------------------------

FeedNext ==
    \/ UIKit
    \/ RunTask
    \/ EngineStep
    \/ BackendStep
    \/ MainQueue

FeedSpec == FeedInit /\ [][FeedNext]_feedVars

\* Both queues run what is on them, tokens arrive, timers fire, and a backend
\* that is connected answers.
FeedFairness ==
    /\ WF_feedVars(RunTask)
    /\ WF_feedVars(MainQueue)
    /\ WF_feedVars(ResumeStartWithCredentials /\ EngineStep)
    /\ WF_feedVars(BackoffElapsed /\ EngineStep)
    /\ WF_feedVars(OnWatchStreamChange /\ EngineStep)
    /\ WF_feedVars(OnlineStateTimeout /\ EngineStep)
    /\ WF_feedVars(BackendAnswers /\ BackendStep)

FairFeedSpec == FeedSpec /\ FeedFairness

-----------------------------------------------------------------------------
(* Properties *)

\* The screen is between adding its listener and removing it.
Registered(s) ==
    IF s = "feed" THEN phase[s] = "visible" ELSE phase[s] # "hidden"

(***************************************************************************)
(* No registration leaks: those that are not muted are the one of each     *)
(* registered screen, and once the worker queue has run the calls on it,   *)
(* the engine listens for exactly these, apart from those it has given an  *)
(* error. This is so for any speed of the queues and any order in which a  *)
(* change of tabs calls the two screens.                                   *)
(***************************************************************************)
Pending(kind) ==
    {workerQueue[i].listener : i \in {i \in 1..Len(workerQueue) :
                                         workerQueue[i].kind = kind}}

RegistrationsFollowScreens ==
    LET live == Calls \ muted
    IN  /\ live = {listener[s] : s \in {s \in Screens : Registered(s)}}
        /\ (listeners \cup Pending("add")) \ Pending("remove") =
               {l \in live : heard[l] # Failed}

(***************************************************************************)
(* What a screen shows changes only between adding its listener and        *)
(* removing it: an event that was already on its way through the queues    *)
(* when the listener was removed does not reach the array of a screen that *)
(* has gone, or that has a new listener by then.                           *)
(***************************************************************************)
OffScreenStaysQuiet ==
    [][\A s \in Screens :
          posts'[s] # posts[s] => /\ Registered(s)
                                  /\ Head(mainQueue).listener = listener[s]
      ]_feedVars

(***************************************************************************)
(* What a screen shows of the documents the watch stream has delivered     *)
(* never goes back to older ones, through two queues, lost connections,    *)
(* restarted streams and a change of listeners: a new listener starts from *)
(* a cache that is at least as new as all the events there have been, and  *)
(* no event overtakes another. The app's own pending posts are not among   *)
(* these documents: a refused write or a change of user takes them out of  *)
(* a view that showed them (sync_engine.cc 247-255, 360-376).              *)
(***************************************************************************)
DeliveredPostsNeverGoBack ==
    [][\A s \in Screens : posts'[s] >= posts[s] /\ shown'[s] >= shown[s]]_feedVars

(***************************************************************************)
(* A screen with nothing on its way to it shows the documents the client   *)
(* has: no event is lost between the engine and the collection view, none  *)
(* is taken for one of another listener, and every change of the array is  *)
(* followed by a reload.                                                   *)
(***************************************************************************)
OnItsWay(s) ==
    \E i \in 1..Len(mainQueue) :
        \/ mainQueue[i].kind = "event" /\ mainQueue[i].listener = listener[s]
        \/ mainQueue[i].kind = "reload" /\ mainQueue[i].screen = s

QuietScreensShowTheCache ==
    \A s \in Screens :
        Registered(s) /\ listener[s] \in raised /\ ~OnItsWay(s) => shown[s] = cache

(***************************************************************************)
(* Whatever is posted is in the end on the screen, through two queues, a   *)
(* lost connection and a change of tabs, unless the screen goes away or    *)
(* its listener is given an error.                                         *)
(***************************************************************************)
ScreensCatchUp ==
    \A s \in Screens : \A v \in 1..MaxVersion :
        (Registered(s) /\ version >= v) ~>
            (\/ ~Registered(s)
             \/ shown[s] >= v
             \/ heard[listener[s]] = Failed)

=============================================================================
