------------------------- MODULE StreamCredentials -------------------------
(***************************************************************************)
(* Whose token a Firestore stream carries, and whose mutation queue a      *)
(* write ends up in, while the signed-in user changes.                     *)
(*                                                                         *)
(* A user change travels from FIRAuth's queue over the main queue (a       *)
(* notification) to the worker queue (HandleCredentialChange); a token     *)
(* asked for on the worker queue comes back the same way. Both queues are  *)
(* FIFO. Between the two ends everything may be out of date, and Firestore *)
(* defends itself with two counters: token_counter of the credentials      *)
(* provider and close_count_ of the stream.                                *)
(*                                                                         *)
(* The module models one Stream, be it the watch or the write stream. Why  *)
(* it starts and what it carries is the subject of WritePipeline.          *)
(***************************************************************************)
EXTENDS Naturals, Sequences, FiniteSets

CONSTANTS
    Users,          \* Firebase users, and "nobody signed in"
    Calls,          \* calls of setData and updateData
    None,
    MaxChanges,     \* bound: changes of the user or of its token
    MaxCloses       \* bound: closes of the stream after which nothing but a
                    \* user change closes it

ASSUME NoneAssumption == None \notin Users
ASSUME MaxChangesAssumption == MaxChanges \in Nat
ASSUME MaxClosesAssumption == MaxCloses \in Nat

VARIABLES
    authUser,       \* FIRAuth._currentUser
    mainQueue,      \* notifications and token callbacks
    requests,       \* getTokenForcingRefresh calls at FIRAuth
    providerUser,   \* Contents.current_user
    tokenCounter,   \* Contents.token_counter
    workerQueue,    \* tasks of AsyncQueue
    currentUser,    \* SyncEngine.current_user_
    streamState,    \* Stream.state_
    closeCount,     \* Stream.close_count_
    streamUser,     \* history: the user of the token the stream opened with
    caller, owner   \* history: providerUser when a call was made, and the
                    \* user in whose mutation queue it was put

authVars == <<authUser, requests>>
providerVars == <<providerUser, tokenCounter>>
streamVars == <<streamState, closeCount, streamUser>>
callVars == <<caller, owner>>
vars == <<authVars, mainQueue, providerVars, workerQueue, currentUser,
          streamVars, callVars>>

\* A call of GetToken. user: None until FIRAuth has looked at _currentUser.
Request == [counter: Nat, closes: Nat, user: Users \cup {None}]
Answered == [counter: Nat, closes: Nat, user: Users]

\* Blocks of the main queue: a notification, or the callback of a request.
\* ok: FIRAuth had a token.
NotifyBlock(user) == [kind |-> "notify", user |-> user]
TokenBlock(request, ok) == [kind |-> "token", request |-> request, ok |-> ok]
Block == [kind: {"notify"}, user: Users]
             \cup [kind: {"token"}, request: Answered, ok: BOOLEAN]

\* Tasks of the worker queue. user of a token: whose token it is.
UserTask(user) == [kind |-> "user", user |-> user]
TokenTask(closes, user, ok) ==
    [kind |-> "token", closes |-> closes, user |-> user, ok |-> ok]
WriteTask(call) == [kind |-> "write", call |-> call]
Task == [kind: {"user"}, user: Users]
            \cup [kind: {"token"}, closes: Nat, user: Users, ok: BOOLEAN]
            \cup [kind: {"write"}, call: Calls]

StreamStates == {"Initial", "Starting", "Open", "Error", "Backoff"}

(***************************************************************************)
(* The type of every variable.                                             *)
(***************************************************************************)
CredentialsTypeOK ==
    /\ authUser \in Users
    /\ mainQueue \in Seq(Block)
    /\ requests \in SUBSET Request
    /\ providerUser \in Users
    /\ tokenCounter \in Nat
    /\ workerQueue \in Seq(Task)
    /\ currentUser \in Users
    /\ streamState \in StreamStates
    /\ closeCount \in Nat
    /\ streamUser \in Users \cup {None}
    /\ caller \in [Calls -> Users \cup {None}]
    /\ owner \in [Calls -> Users \cup {None}]

\* FirestoreClient::Create: the provider asks FIRAuth once, and the worker
\* queue begins with Initialize for that user.
Init ==
    /\ authUser \in Users
    /\ mainQueue = <<>>
    /\ requests = {}
    /\ providerUser = authUser
    /\ tokenCounter = 0
    /\ workerQueue = <<>>
    /\ currentUser = authUser
    /\ streamState = "Initial"
    /\ closeCount = 0
    /\ streamUser = None
    /\ caller = [c \in Calls |-> None]
    /\ owner = [c \in Calls |-> None]

-----------------------------------------------------------------------------
(* FIRAuth, on its own queue *)

Notifications == {i \in 1..Len(mainQueue) : mainQueue[i].kind = "notify"}

\* updateCurrentUser, or a refreshed token of the same user: the notification
\* is dispatched to the main queue.
AuthStateChanges(user) ==
    /\ tokenCounter + Cardinality(Notifications) < MaxChanges
    /\ authUser' = user
    /\ mainQueue' = Append(mainQueue, NotifyBlock(user))
    /\ UNCHANGED <<requests, providerVars, workerQueue, currentUser,
                   streamVars, callVars>>

\* getTokenForcingRefresh reaches FIRAuth's queue.
AuthTakesRequest(request) ==
    /\ request.user = None
    /\ requests' = (requests \ {request}) \cup
                       {[request EXCEPT !.user = authUser]}
    /\ UNCHANGED <<authUser, mainQueue, providerVars, workerQueue,
                   currentUser, streamVars, callVars>>

\* The token, or an error, is dispatched to the main queue; refreshing it may
\* have taken a while.
AuthAnswers(request, ok) ==
    /\ request.user # None
    /\ ok \/ closeCount < MaxCloses
    /\ requests' = requests \ {request}
    /\ mainQueue' = Append(mainQueue, TokenBlock(request, ok))
    /\ UNCHANGED <<authUser, providerVars, workerQueue, currentUser,
                   streamVars, callVars>>

-----------------------------------------------------------------------------
(* The main queue: FirebaseCredentialsProvider and the app *)

\* The observer of FIRAuthStateDidChangeInternalNotification.
OnAuthStateDidChange ==
    /\ mainQueue # <<>>
    /\ Head(mainQueue).kind = "notify"
    /\ mainQueue' = Tail(mainQueue)
    /\ providerUser' = Head(mainQueue).user
    /\ tokenCounter' = tokenCounter + 1
    /\ workerQueue' = Append(workerQueue, UserTask(Head(mainQueue).user))
    /\ UNCHANGED <<authVars, currentUser, streamVars, callVars>>

\* The callback of GetToken: an error if the user changed meanwhile.
OnToken ==
    /\ mainQueue # <<>>
    /\ Head(mainQueue).kind = "token"
    /\ mainQueue' = Tail(mainQueue)
    /\ LET request == Head(mainQueue).request
           ok == Head(mainQueue).ok /\ request.counter = tokenCounter
       IN  workerQueue' = Append(workerQueue,
               TokenTask(request.closes, request.user, ok))
    /\ UNCHANGED <<authVars, providerVars, currentUser, streamVars, callVars>>

\* The app calls setData or updateData.
AppWrites(call) ==
    /\ caller[call] = None
    /\ caller' = [caller EXCEPT ![call] = providerUser]
    /\ workerQueue' = Append(workerQueue, WriteTask(call))
    /\ UNCHANGED <<authVars, mainQueue, providerVars, currentUser,
                   streamVars, owner>>

-----------------------------------------------------------------------------
(* The worker queue: SyncEngine and Stream *)

IsStarted(state) == state \in {"Starting", "Open", "Backoff"}

\* RequestCredentials with the given close count.
RequestCredentials(closes) ==
    requests' = requests \cup
        {[counter |-> tokenCounter, closes |-> closes, user |-> None]}

TaskIs(kind) == workerQueue # <<>> /\ Head(workerQueue).kind = kind

\* Start of a stream in state Initial or Error, because something is to be
\* sent or listened to.
Start ==
    /\ ~IsStarted(streamState)
    /\ IF streamState = "Error"
       THEN streamState' = "Backoff" /\ UNCHANGED requests
       ELSE streamState' = "Starting" /\ RequestCredentials(closeCount)
    /\ UNCHANGED <<authUser, mainQueue, providerVars, workerQueue,
                   currentUser, closeCount, streamUser, callVars>>

BackoffElapsed ==
    /\ streamState = "Backoff"
    /\ streamState' = "Starting"
    /\ RequestCredentials(closeCount)
    /\ UNCHANGED <<authUser, mainQueue, providerVars, workerQueue,
                   currentUser, closeCount, streamUser, callVars>>

\* Mutant of Close: the tokens that are on their way stay valid.
CloseUncounted(state) ==
    /\ closeCount' = closeCount
    /\ streamState' = state
    /\ streamUser' = None

\* Close: tokens that are on their way become invalid.
Close(state) ==
    /\ closeCount' = closeCount + 1
    /\ streamState' = state
    /\ streamUser' = None

\* An open stream fails, or a started one is stopped.
StreamEnds ==
    /\ closeCount < MaxCloses
    /\ \/ streamState = "Open" /\ Close("Error")
       \/ IsStarted(streamState) /\ Close("Initial")
    /\ UNCHANGED <<authVars, mainQueue, providerVars, workerQueue,
                   currentUser, callVars>>

\* InhibitBackoff, after a write was refused.
InhibitBackoff ==
    /\ streamState = "Error"
    /\ streamState' = "Initial"
    /\ UNCHANGED <<authVars, mainQueue, providerVars, workerQueue,
                   currentUser, closeCount, streamUser, callVars>>

\* Mutant of ResumeStartWithCredentials: a token error leaves the stream as it is.
TokenErrorIgnored ==
    /\ TaskIs("token")
    /\ workerQueue' = Tail(workerQueue)
    /\ LET token == Head(workerQueue)
       IN  IF token.closes # closeCount \/ ~token.ok THEN UNCHANGED streamVars
           ELSE /\ streamState' = "Open"
                /\ streamUser' = token.user
                /\ UNCHANGED closeCount
    /\ UNCHANGED <<authVars, mainQueue, providerVars, currentUser, callVars>>

\* The token is for this start of the stream: the stream opens with it, or
\* closes with its error.
ResumeStartWithCredentials ==
    /\ TaskIs("token")
    /\ workerQueue' = Tail(workerQueue)
    /\ LET token == Head(workerQueue)
       IN  IF token.closes # closeCount THEN UNCHANGED streamVars
           ELSE IF ~token.ok THEN Close("Error")
           ELSE /\ streamState' = "Open"
                /\ streamUser' = token.user
                /\ UNCHANGED closeCount
    /\ UNCHANGED <<authVars, mainQueue, providerVars, currentUser, callVars>>

\* Mutant of HandleCredentialChange: a started stream is left alone.
StreamSurvivesChange ==
    /\ TaskIs("user")
    /\ workerQueue' = Tail(workerQueue)
    /\ currentUser' = Head(workerQueue).user
    /\ UNCHANGED <<authVars, mainQueue, providerVars, streamVars, callVars>>

\* The new user's mutation queue is taken and the stream stopped. It starts
\* again at once or later.
HandleCredentialChange ==
    /\ TaskIs("user")
    /\ workerQueue' = Tail(workerQueue)
    /\ currentUser' = Head(workerQueue).user
    /\ IF IsStarted(streamState) THEN Close("Initial")
                                 ELSE UNCHANGED streamVars
    /\ UNCHANGED <<authVars, mainQueue, providerVars, callVars>>

\* Mutant of WriteMutations: the user is read from the provider.
WriteForProviderUser ==
    /\ TaskIs("write")
    /\ workerQueue' = Tail(workerQueue)
    /\ owner' = [owner EXCEPT ![Head(workerQueue).call] = providerUser]
    /\ UNCHANGED <<authVars, mainQueue, providerVars, currentUser,
                   streamVars, caller>>

\* The batch goes to the mutation queue of the engine's current user.
WriteMutations ==
    /\ TaskIs("write")
    /\ workerQueue' = Tail(workerQueue)
    /\ owner' = [owner EXCEPT ![Head(workerQueue).call] = currentUser]
    /\ UNCHANGED <<authVars, mainQueue, providerVars, currentUser,
                   streamVars, caller>>

-----------------------------------------------------------------------------

Auth ==
    \E request \in requests :
        \/ AuthTakesRequest(request)
        \/ \E ok \in BOOLEAN : AuthAnswers(request, ok)

MainQueue == OnAuthStateDidChange \/ OnToken

WorkerQueue ==
    HandleCredentialChange \/ ResumeStartWithCredentials \/ WriteMutations

Next ==
    \/ \E user \in Users : AuthStateChanges(user)
    \/ Auth
    \/ MainQueue
    \/ \E call \in Calls : AppWrites(call)
    \/ WorkerQueue
    \/ Start
    \/ BackoffElapsed
    \/ StreamEnds
    \/ InhibitBackoff

Spec == Init /\ [][Next]_vars

\* FIRAuth answers, and both queues run what is on them.
Fairness ==
    /\ WF_vars(Auth)
    /\ WF_vars(MainQueue)
    /\ WF_vars(WorkerQueue)

FairSpec == Spec /\ Fairness

-----------------------------------------------------------------------------
(* Properties *)

(***************************************************************************)
(* An open stream carries a token of the user whose mutation queue is      *)
(* being sent, never of the one before or the one to come, however the     *)
(* notification and the token race each other over the two queues.         *)
(***************************************************************************)
StreamSpeaksForCurrentUser ==
    streamState = "Open" => streamUser = currentUser

(***************************************************************************)
(* "State should still be 'Starting'" (stream.cc): a token that passes the *)
(* check of the close count finds the stream waiting for it. In particular *)
(* no two tokens for one start are ever on their way.                      *)
(***************************************************************************)
TokenFindsStreamStarting ==
    TaskIs("token") /\ Head(workerQueue).closes = closeCount
        => streamState = "Starting"

(***************************************************************************)
(* A stream in state Starting has a token on its way that its close count  *)
(* lets through: however often it was closed and started and the user      *)
(* changed meanwhile, it is never left waiting for a token that is lost or *)
(* that ResumeStartWithCredentials will drop as out of date.               *)
(***************************************************************************)
StartingHasToken ==
    streamState = "Starting" =>
        \/ \E r \in requests : r.closes = closeCount
        \/ \E i \in 1..Len(mainQueue) :
              mainQueue[i].kind = "token" /\ mainQueue[i].request.closes = closeCount
        \/ \E i \in 1..Len(workerQueue) :
              workerQueue[i].kind = "token" /\ workerQueue[i].closes = closeCount

(***************************************************************************)
(* A write is put in the mutation queue of the user Firestore had been     *)
(* told of when the app made the call, although the engine may run it much *)
(* later and may not have heard of that user at the time.                  *)
(***************************************************************************)
WritesBelongToCaller ==
    \A c \in Calls : owner[c] # None => owner[c] = caller[c]

(***************************************************************************)
(* A stream that asks for a token does not wait for ever: it opens or      *)
(* closes, even when its token is dropped as out of date.                  *)
(***************************************************************************)
StartingResolves == (streamState = "Starting") ~> (streamState # "Starting")

=============================================================================
