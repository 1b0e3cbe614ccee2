------------------------------ MODULE Session ------------------------------
(***************************************************************************)
(* Who is signed in, which root screen the window shows, and which         *)
(* accounts have a document in the "users" collection.                     *)
(*                                                                         *)
(* The module covers LoginViewController, AuthenticationSession,           *)
(* DatabaseService.createDatabaseUser, SceneDelegate, the navigation       *)
(* extension of UIViewController and the Sign Out button of                *)
(* ProfileViewController, together with the part of the Firebase SDK that  *)
(* decides when Auth.auth().currentUser changes and when a pending write   *)
(* of a user is acknowledged.                                              *)
(*                                                                         *)
(* Every press of the login button starts a chain of asynchronous steps.   *)
(* A chain occupies a slot r of Requests; request[r].stage names what it   *)
(* is waiting for: the server ("signIn", "createUser", "setData") or its   *)
(* turn on the main queue ("createDatabaseUser", "navigate", "alert").     *)
(* All closures capture self weakly: request[r].live says whether the      *)
(* LoginViewController that started the chain still exists.                *)
(***************************************************************************)

CONSTANTS
    Users,      \* accounts; an e-mail address and the uid it gets are one value
    Requests,   \* slots for login chains: bounds the presses in flight at once
    NoUser      \* Auth.auth().currentUser == nil

ASSUME NoUserAssumption == NoUser \notin Users

VARIABLES
    registered,     \* accounts Firebase Auth knows (server side)
    userDocs,       \* uids that have a document in "users" (server side)
    currentUser,    \* Auth.auth().currentUser, persisted in the keychain
    root,           \* window.rootViewController; "none": no process is running
    accountState,   \* accountState of the LoginViewController on screen
    request         \* the login chains in flight

sessionVars ==
    <<registered, userDocs, currentUser, root, accountState, request>>

LoginScreen == "LoginViewController"
InstagramScreen == "Instagram"

ServerStages == {"signIn", "createUser", "setData"}
MainQueueStages == {"createDatabaseUser", "navigate", "alert"}
Stages == {"idle"} \cup ServerStages \cup MainQueueStages

\* user: the account typed in; owner: the user whose Firestore mutation queue
\* holds the chain's write; live: the weak self of its closures is not nil.
RequestRecord ==
    [stage: Stages, user: Users \cup {NoUser}, owner: Users \cup {NoUser},
     live: BOOLEAN]

Idle == [stage |-> "idle", user |-> NoUser, owner |-> NoUser, live |-> FALSE]

(***************************************************************************)
(* The type of every variable.                                             *)
(***************************************************************************)
SessionTypeOK ==
    /\ registered \in SUBSET Users
    /\ userDocs \in SUBSET Users
    /\ currentUser \in Users \cup {NoUser}
    /\ root \in {"none", LoginScreen, InstagramScreen}
    /\ accountState \in {"existingUser", "newUser"}
    /\ request \in [Requests -> RequestRecord]

Init ==
    /\ registered = {}
    /\ userDocs = {}
    /\ currentUser = NoUser
    /\ root = "none"
    /\ accountState = "existingUser"
    /\ request = [r \in Requests |-> Idle]

Running == root # "none"

\* Chain r waits for stage s next.
Advance(r, s) == request' = [request EXCEPT ![r].stage = s]

\* Chain r has nothing left to do.
Finish(r) == request' = [request EXCEPT ![r] = Idle]

\* Mutant of Released: the closures capture self strongly.
Retained(reqs) == reqs

\* The chains reqs once the controller on screen has been released.
Released(reqs) == [r \in Requests |-> [reqs[r] EXCEPT !.live = FALSE]]

\* Replaces the root view controller. The old one is released, so the weak
\* self of every chain it started becomes nil; a new LoginViewController
\* starts in state existingUser. reqs: the chains after the rest of the step.
ShowViewController(screen, reqs) ==
    /\ root' = screen
    /\ request' = Released(reqs)
    /\ accountState' = "existingUser"

-----------------------------------------------------------------------------
(* Process start and death *)

\* SceneDelegate chooses the first screen from the persisted user.
SceneWillConnect ==
    /\ ~Running
    /\ ShowViewController(
           IF currentUser # NoUser THEN InstagramScreen ELSE LoginScreen,
           request)
    /\ UNCHANGED <<registered, userDocs, currentUser>>

\* Mutant of Survives: the callback of a pending write outlives the process.
SurvivesWithCallback(q) == IF q.stage = "setData" THEN q ELSE Idle

\* What a chain leaves behind when the process dies: nothing, or a write that
\* Firestore has put on disk and will send again without a callback.
Survives(q) ==
    IF q.stage = "setData" THEN [q EXCEPT !.live = FALSE] ELSE Idle

\* The process dies at any moment. A createUser call on its way may or may not
\* have reached the server. (Dying between setData and its arrival on disk
\* has the effect of dying just before setData.)
Kill ==
    /\ Running
    /\ \E reached \in SUBSET {request[r].user :
                     r \in {q \in Requests : request[q].stage = "createUser"}} :
           registered' = registered \cup reached
    /\ request' = [r \in Requests |-> Survives(request[r])]
    /\ root' = "none"
    /\ accountState' = "existingUser"
    /\ UNCHANGED <<userDocs, currentUser>>

-----------------------------------------------------------------------------
(* LoginViewController *)

SignUpButtonPressed ==
    /\ root = LoginScreen
    /\ accountState' =
           IF accountState = "existingUser" THEN "newUser" ELSE "existingUser"
    /\ UNCHANGED <<registered, userDocs, currentUser, root, request>>

\* loginButtonPressed with both fields filled in (otherwise it only shows an
\* alert), then continueLoginFlow. Nothing disables the button meanwhile.
LoginButtonPressed(r, u) ==
    /\ root = LoginScreen
    /\ request[r].stage = "idle"
    /\ request' = [request EXCEPT ![r] =
           [stage |-> IF accountState = "existingUser"
                      THEN "signIn" ELSE "createUser",
            user |-> u, owner |-> NoUser, live |-> TRUE]]
    /\ UNCHANGED <<registered, userDocs, currentUser, root, accountState>>

\* Mutant of SignInSucceeds: both account states continue with createUser.
SignInCreatesUser(r) ==
    /\ Running
    /\ request[r].stage = "signIn"
    /\ request[r].user \in registered
    /\ currentUser' = request[r].user
    /\ Advance(r, "createDatabaseUser")
    /\ UNCHANGED <<registered, userDocs, root, accountState>>

\* The SDK replaces currentUser before it calls back on the main queue, whether
\* or not the controller that asked still exists.
SignInSucceeds(r) ==
    /\ Running
    /\ request[r].stage = "signIn"
    /\ request[r].user \in registered
    /\ currentUser' = request[r].user
    /\ Advance(r, "navigate")
    /\ UNCHANGED <<registered, userDocs, root, accountState>>

CreateUserSucceeds(r) ==
    /\ Running
    /\ request[r].stage = "createUser"
    /\ request[r].user \notin registered
    /\ registered' = registered \cup {request[r].user}
    /\ currentUser' = request[r].user
    /\ Advance(r, "createDatabaseUser")
    /\ UNCHANGED <<userDocs, root, accountState>>

\* An error reply is only printed.
AuthFails(r) ==
    /\ Running
    /\ request[r].stage \in {"signIn", "createUser"}
    /\ Finish(r)
    /\ UNCHANGED <<registered, userDocs, currentUser, root, accountState>>

\* The server created the account but its answer was lost.
CreateUserAnswerLost(r) ==
    /\ Running
    /\ request[r].stage = "createUser"
    /\ registered' = registered \cup {request[r].user}
    /\ Finish(r)
    /\ UNCHANGED <<userDocs, currentUser, root, accountState>>

\* Mutant of CreateUser: without the controller the chain is never ended.
CreateUserWaits(r) ==
    /\ Running
    /\ request[r].stage = "createDatabaseUser"
    /\ request[r].live
    /\ request' = [request EXCEPT ![r].stage = "setData",
                                  ![r].owner = currentUser]
    /\ UNCHANGED <<registered, userDocs, currentUser, root, accountState>>

\* self?.createUser on the main queue. setData puts the write in the mutation
\* queue of whoever is signed in now.
CreateUser(r) ==
    /\ Running
    /\ request[r].stage = "createDatabaseUser"
    /\ IF request[r].live
       THEN request' = [request EXCEPT ![r].stage = "setData",
                                       ![r].owner = currentUser]
       ELSE Finish(r)
    /\ UNCHANGED <<registered, userDocs, currentUser, root, accountState>>

\* A write is sent, and answered, only while its owner is signed in.
SetDataAcknowledged(r) ==
    /\ Running
    /\ request[r].stage = "setData"
    /\ currentUser = request[r].owner
    /\ userDocs' = userDocs \cup {request[r].user}
    /\ Advance(r, "navigate")
    /\ UNCHANGED <<registered, currentUser, root, accountState>>

SetDataRejected(r) ==
    /\ Running
    /\ request[r].stage = "setData"
    /\ currentUser = request[r].owner
    /\ Advance(r, "alert")
    /\ UNCHANGED <<registered, userDocs, currentUser, root, accountState>>

\* self?.showAlert("unable to create a user"): the user stays on this screen.
ShowCreateUserAlert(r) ==
    /\ Running
    /\ request[r].stage = "alert"
    /\ Finish(r)
    /\ UNCHANGED <<registered, userDocs, currentUser, root, accountState>>

NavigateToInstagram(r) ==
    /\ Running
    /\ request[r].stage = "navigate"
    /\ IF request[r].live
       THEN ShowViewController(InstagramScreen, [request EXCEPT ![r] = Idle])
       ELSE Finish(r) /\ UNCHANGED <<root, accountState>>
    /\ UNCHANGED <<registered, userDocs, currentUser>>

-----------------------------------------------------------------------------
(* ProfileViewController: the Sign Out button; a failure only alerts. *)

SignOutButtonPressed ==
    /\ root = InstagramScreen
    /\ currentUser' = NoUser
    /\ ShowViewController(LoginScreen, request)
    /\ UNCHANGED <<registered, userDocs>>

-----------------------------------------------------------------------------

AuthReply(r) ==
    SignInSucceeds(r) \/ CreateUserSucceeds(r) \/ AuthFails(r)

WriteReply(r) == SetDataAcknowledged(r) \/ SetDataRejected(r)

MainQueue(r) ==
    CreateUser(r) \/ ShowCreateUserAlert(r) \/ NavigateToInstagram(r)

Next ==
    \/ SceneWillConnect
    \/ Kill
    \/ SignUpButtonPressed
    \/ SignOutButtonPressed
    \/ \E r \in Requests :
          \/ \E u \in Users : LoginButtonPressed(r, u)
          \/ AuthReply(r)
          \/ CreateUserAnswerLost(r)
          \/ WriteReply(r)
          \/ MainQueue(r)

Spec == Init /\ [][Next]_sessionVars

\* Auth requests are answered or time out, a write that can be sent is
\* eventually answered, and the main queue runs every block.
Fairness ==
    \A r \in Requests :
        /\ WF_sessionVars(AuthReply(r))
        /\ WF_sessionVars(WriteReply(r))
        /\ WF_sessionVars(MainQueue(r))

FairSpec == Spec /\ Fairness

-----------------------------------------------------------------------------
(* Properties *)

(***************************************************************************)
(* The tab bar is never on screen without a signed-in user, although       *)
(* navigateToInstagram runs later than the reply that signed the user in   *)
(* and the user can sign out in between: the weak self of a chain started  *)
(* by a released LoginViewController keeps its late navigation harmless.   *)
(***************************************************************************)
InstagramNeedsUser == root = InstagramScreen => currentUser # NoUser

(***************************************************************************)
(* A "users" document and a session exist only for accounts that Firebase  *)
(* Auth knows: createDatabaseUser writes under the uid of the account that *)
(* was just created, however late the write is sent and whoever is signed  *)
(* in by then, and it survives the death of the process.                   *)
(***************************************************************************)
DocumentsNeedAccounts ==
    /\ userDocs \subseteq registered
    /\ currentUser \in registered \cup {NoUser}

(***************************************************************************)
(* What a login chain carries across its callbacks agrees with the session *)
(* it acts on later: a chain whose LoginViewController exists has the      *)
(* window to itself; if such a chain is past the reply of Firebase Auth,   *)
(* somebody is signed in; and the account a document is about to be        *)
(* written for exists. It makes the two invariants above inductive.        *)
(***************************************************************************)
ChainsMatchSession ==
    \A r \in Requests :
        /\ request[r].stage # "idle" => request[r].user \in Users
        /\ request[r].live => root = LoginScreen
        /\ request[r].live /\ request[r].stage \notin {"signIn", "createUser"}
               => currentUser # NoUser
        /\ request[r].stage \in {"createDatabaseUser", "setData"}
               => request[r].user \in registered

\* u has an account and no document, and no chain will write one.
Orphan(u) ==
    /\ u \in registered \ userDocs
    /\ \A r \in Requests :
          request[r].user = u =>
              request[r].stage \notin {"createDatabaseUser", "setData"}

(***************************************************************************)
(* An account whose document was not written during sign-up never gets     *)
(* one: signing in does not write it and signing up again is refused. So   *)
(* createDatabaseUser is the account's only chance.                        *)
(***************************************************************************)
OrphansStayOrphans ==
    [][\A u \in Users : Orphan(u) => Orphan(u)']_sessionVars

(***************************************************************************)
(* Every press of the login button is answered: the chain ends, unless     *)
(* the process dies or another account takes over the session while the    *)
(* sign-up's write is still in the first one's mutation queue.             *)
(***************************************************************************)
LoginResolves ==
    \A r \in Requests :
        (request[r].stage # "idle") ~>
            \/ request[r].stage = "idle"
            \/ ~Running
            \/ request[r].stage = "setData" /\ currentUser # request[r].owner

=============================================================================
