----------------------------- MODULE AppProofs -----------------------------
(***************************************************************************)
(* Proofs about App, for any sets of accounts, login chains, posts,        *)
(* pictures and captions: the composition is a behaviour of Session and of *)
(* Posting, authors have documents, and they were signed in behind the tab *)
(* bar they posted from.                                                   *)
(*                                                                         *)
(* That Posting's environment is what Session does needs Session's own     *)
(* invariant, which is taken from SessionProofs: a chain that signs        *)
(* somebody in names a user, and a navigation that shows the tab bar finds *)
(* the login screen and a signed-in user. Since the parts are implemented, *)
(* what was proved of each holds in the app.                               *)
(***************************************************************************)
EXTENDS App, TLAPS

SP == INSTANCE SessionProofs

-----------------------------------------------------------------------------
(* The session of the app *)

LEMMA SameInit == S!Init <=> SP!Init
  BY DEF S!Init, SP!Init, S!Idle, SP!Idle

LEMMA SameNext == [S!Next]_(S!sessionVars) <=> [SP!Next]_(SP!sessionVars)
  BY DEF S!Next, SP!Next, S!sessionVars, SP!sessionVars,
         S!SceneWillConnect, SP!SceneWillConnect, S!Kill, SP!Kill,
         S!SignUpButtonPressed, SP!SignUpButtonPressed,
         S!SignOutButtonPressed, SP!SignOutButtonPressed,
         S!LoginButtonPressed, SP!LoginButtonPressed,
         S!AuthReply, SP!AuthReply, S!SignInSucceeds, SP!SignInSucceeds,
         S!CreateUserSucceeds, SP!CreateUserSucceeds,
         S!AuthFails, SP!AuthFails,
         S!CreateUserAnswerLost, SP!CreateUserAnswerLost,
         S!WriteReply, SP!WriteReply,
         S!SetDataAcknowledged, SP!SetDataAcknowledged,
         S!SetDataRejected, SP!SetDataRejected,
         S!MainQueue, SP!MainQueue, S!CreateUser, SP!CreateUser,
         S!ShowCreateUserAlert, SP!ShowCreateUserAlert,
         S!NavigateToInstagram, SP!NavigateToInstagram,
         S!ShowViewController, SP!ShowViewController,
         S!Released, SP!Released, S!Survives, SP!Survives,
         S!Idle, SP!Idle, S!Advance, SP!Advance, S!Finish, SP!Finish,
         S!Running, SP!Running, S!LoginScreen, SP!LoginScreen,
         S!InstagramScreen, SP!InstagramScreen

LEMMA SessionSteps == [Next]_appVars => [S!Next]_(S!sessionVars)
<1> SUFFICES ASSUME [Next]_appVars
             PROVE  [S!Next]_(S!sessionVars)
    OBVIOUS
<1>1. CASE Kill
    BY <1>1 DEF Kill, S!Next
<1>2. CASE SignOutButtonPressed
    BY <1>2 DEF SignOutButtonPressed, S!Next
<1>3. CASE SessionStep
    BY <1>3 DEF SessionStep, S!Next, S!WriteReply
<1>4. ASSUME NEW r \in Requests, DocumentRefused(r)
      PROVE  S!Next
    BY <1>4 DEF DocumentRefused, S!Next, S!WriteReply
<1>5. CASE PostingStep
    BY <1>5 DEF PostingStep, sessionVars, S!sessionVars
<1>6. CASE UNCHANGED appVars
    BY <1>6 DEF appVars, sessionVars, S!sessionVars
<1>7. QED
    BY <1>1, <1>2, <1>3, <1>4, <1>5, <1>6 DEF Next

LEMMA SessionOfApp == Spec => S!Spec
<1>1. Init => S!Init
    BY DEF Init
<1>2. QED
    BY <1>1, SessionSteps, PTL DEF Spec, S!Spec

LEMMA SessionInvOfApp == Spec => []SP!SessionInv
<1>1. Init => SP!SessionInv
    BY SameInit, SP!SessionInit, AppAssumption DEF Init
<1>2. SP!SessionInv /\ [Next]_appVars => SP!SessionInv'
    BY SessionSteps, SameNext, SP!SessionStep, AppAssumption
<1>3. QED
    BY <1>1, <1>2, PTL DEF Spec

-----------------------------------------------------------------------------
(* The posting screen of the app *)

\* Everything of Posting is unchanged when the screen, the user and the window
\* are.
LEMMA PostingStutters ==
    ASSUME UNCHANGED screenVars, UNCHANGED <<currentUser, root>>
    PROVE  UNCHANGED P!postingVars
  BY DEF screenVars, P!postingVars, P!draftVars, P!authorVars, P!serverVars

LEMMA SessionFacts ==
    ASSUME SP!SessionInv, NEW r \in Requests
    PROVE  /\ request[r].stage # "idle" => request[r].user \in Users
           /\ request[r].live => root = "LoginViewController"
           /\ request[r].live /\ request[r].stage \notin {"signIn", "createUser"}
                  => currentUser # NoUser
  BY DEF SP!SessionInv, SP!ChainsMatchSession, SP!LoginScreen

(***************************************************************************)
(* A step of the session that leaves the posting screen alone is a step of *)
(* Posting's environment, or none that it could notice.                    *)
(***************************************************************************)
LEMMA SessionStepForPosting ==
    ASSUME SP!SessionInv, SessionStep
    PROVE  [P!Next]_(P!postingVars)
<1> USE DEF P!Next, P!Session
<1>1. UNCHANGED screenVars
    BY DEF SessionStep
<1>2. CASE S!SceneWillConnect
    BY <1>1, <1>2
    DEF S!SceneWillConnect, S!ShowViewController, S!Running,
        S!InstagramScreen, S!LoginScreen, P!SceneWillConnect, P!Running,
        P!InstagramScreen, P!LoginScreen, screenVars, P!draftVars,
        P!authorVars, P!serverVars
<1>3. CASE S!SignUpButtonPressed
    BY <1>1, <1>3, PostingStutters DEF S!SignUpButtonPressed
<1>4. ASSUME NEW r \in Requests, NEW u \in Users, S!LoginButtonPressed(r, u)
      PROVE  [P!Next]_(P!postingVars)
    BY <1>1, <1>4, PostingStutters DEF S!LoginButtonPressed
<1>5. ASSUME NEW r \in Requests,
             S!SignInSucceeds(r) \/ S!CreateUserSucceeds(r)
      PROVE  [P!Next]_(P!postingVars)
  <2>1. /\ root # "none" /\ root' = root
        /\ currentUser' = request[r].user
        /\ request[r].stage # "idle"
      BY <1>5 DEF S!SignInSucceeds, S!CreateUserSucceeds, S!Running
  <2>2. request[r].user \in Users
      BY <2>1, SessionFacts
  <2>3. P!SignedIn(request[r].user)
      BY <1>1, <2>1
      DEF P!SignedIn, P!Running, screenVars, P!draftVars, P!authorVars,
          P!serverVars
  <2>4. QED
      BY <2>2, <2>3
<1>6. ASSUME NEW r \in Requests, S!AuthFails(r)
      PROVE  [P!Next]_(P!postingVars)
    BY <1>1, <1>6, PostingStutters DEF S!AuthFails
<1>7. ASSUME NEW r \in Requests, S!CreateUserAnswerLost(r)
      PROVE  [P!Next]_(P!postingVars)
    BY <1>1, <1>7, PostingStutters DEF S!CreateUserAnswerLost
<1>8. ASSUME NEW r \in Requests, S!SetDataAcknowledged(r)
      PROVE  [P!Next]_(P!postingVars)
    BY <1>1, <1>8, PostingStutters DEF S!SetDataAcknowledged
<1>9. ASSUME NEW r \in Requests, S!CreateUser(r)
      PROVE  [P!Next]_(P!postingVars)
    BY <1>1, <1>9, PostingStutters DEF S!CreateUser
<1>10. ASSUME NEW r \in Requests, S!ShowCreateUserAlert(r)
       PROVE  [P!Next]_(P!postingVars)
    BY <1>1, <1>10, PostingStutters DEF S!ShowCreateUserAlert
<1>11. ASSUME NEW r \in Requests, S!NavigateToInstagram(r)
       PROVE  [P!Next]_(P!postingVars)
  <2>1. CASE request[r].live
    <3>1. root' = "Instagram" /\ currentUser' = currentUser
        BY <1>11, <2>1
        DEF S!NavigateToInstagram, S!ShowViewController, S!InstagramScreen
    <3>2. root = "LoginViewController" /\ currentUser # NoUser
        BY <1>11, <2>1, SessionFacts DEF S!NavigateToInstagram
    <3>3. P!NavigateToInstagram
        BY <1>1, <3>1, <3>2
        DEF P!NavigateToInstagram, P!LoginScreen, P!InstagramScreen,
            screenVars, P!draftVars, P!authorVars, P!serverVars
    <3>4. QED
        BY <3>3
  <2>2. CASE ~request[r].live
      BY <1>1, <1>11, <2>2, PostingStutters DEF S!NavigateToInstagram
  <2>3. QED
      BY <2>1, <2>2
<1>12. QED
    BY <1>2, <1>3, <1>4, <1>5, <1>6, <1>7, <1>8, <1>9, <1>10, <1>11
    DEF SessionStep, S!AuthReply, S!MainQueue

LEMMA PostingSteps ==
    SP!SessionInv /\ [Next]_appVars => [P!Next]_(P!postingVars)
<1> SUFFICES ASSUME SP!SessionInv, [Next]_appVars
             PROVE  [P!Next]_(P!postingVars)
    OBVIOUS
<1>1. CASE Kill
    BY <1>1 DEF Kill, P!Next, P!Session
<1>2. CASE SignOutButtonPressed
    BY <1>2 DEF SignOutButtonPressed, P!Next, P!Session
<1>3. CASE SessionStep
    BY <1>3, SessionStepForPosting
<1>4. ASSUME NEW r \in Requests, DocumentRefused(r)
      PROVE  UNCHANGED P!postingVars
    BY <1>4, PostingStutters DEF DocumentRefused, S!SetDataRejected
<1>5. CASE PostingStep
  <2>1. FetchReply => P!FetchReply
      BY DEF FetchReply, P!FetchReply
  <2>2. QED
      BY <1>5, <2>1 DEF PostingStep, P!Next, P!Controller
<1>6. CASE UNCHANGED appVars
    BY <1>6, PostingStutters DEF appVars, sessionVars
<1>7. QED
    BY <1>1, <1>2, <1>3, <1>4, <1>5, <1>6 DEF Next

(***************************************************************************)
(* The app is a behaviour of Session and of Posting at once. What is       *)
(* proved of Posting with an arbitrary environment so holds in the app.    *)
(***************************************************************************)
THEOREM AppImplementsItsParts == Spec => ComponentsInApp
<1>1. Init => P!Init
    BY DEF Init
<1>2. Spec => P!Spec
    BY <1>1, SessionInvOfApp, PostingSteps, PTL DEF Spec, P!Spec
<1>3. QED
    BY <1>2, SessionOfApp DEF ComponentsInApp

-----------------------------------------------------------------------------
(* The posting screen's invariant in the app *)

PP == INSTANCE PostingProofs

LEMMA SamePostingInit == P!Init <=> PP!Init
  BY DEF P!Init, PP!Init, P!NoFlow, PP!NoFlow, P!NoFetch, PP!NoFetch

LEMMA SamePostingNext == [P!Next]_(P!postingVars) <=> [PP!Next]_(PP!postingVars)
  BY DEF P!SceneWillConnect, PP!SceneWillConnect, P!SignedIn,
         PP!SignedIn, P!NavigateToInstagram, PP!NavigateToInstagram,
         P!SignedOut, PP!SignedOut, P!Kill, PP!Kill,
         P!ControllerReleased, PP!ControllerReleased, P!Survives,
         PP!Survives, P!SelectTab, PP!SelectTab, P!EditCaption,
         PP!EditCaption, P!CancelButtonPressed, PP!CancelButtonPressed,
         P!PhotoButtonPressed, PP!PhotoButtonPressed, P!SheetAnswered,
         PP!SheetAnswered, P!PresentedDismissed, PP!PresentedDismissed,
         P!DidFinishPicking, PP!DidFinishPicking, P!NextButtonPressed,
         PP!NextButtonPressed, P!FetchReply, PP!FetchReply,
         P!GetDocumentReturns, PP!GetDocumentReturns, P!GetDocumentFails,
         PP!GetDocumentFails, P!AssignInstaUser, PP!AssignInstaUser,
         P!WriteReply, PP!WriteReply, P!CreatePostAcknowledged,
         PP!CreatePostAcknowledged, P!UpdateImageURLAcknowledged,
         PP!UpdateImageURLAcknowledged, P!WriteRejected,
         PP!WriteRejected, P!StorageReply, PP!StorageReply,
         P!PutDataSucceeds, PP!PutDataSucceeds, P!PutDataFails,
         PP!PutDataFails, P!DownloadURLSucceeds, PP!DownloadURLSucceeds,
         P!DownloadURLFails, PP!DownloadURLFails, P!MainQueue,
         PP!MainQueue, P!ClearDraft, PP!ClearDraft, P!ShowPostAlert,
         PP!ShowPostAlert, P!Session, PP!Session, P!Screen, PP!Screen,
         P!Controller, PP!Controller, P!Next, PP!Next, P!Touchable,
         PP!Touchable, P!Shown, PP!Shown, P!Running, PP!Running,
         P!Advance, PP!Advance, P!NoFetch, PP!NoFetch, P!NoFlow,
         PP!NoFlow, P!PhotoReference, PP!PhotoReference, P!LoginScreen,
         PP!LoginScreen, P!InstagramScreen, PP!InstagramScreen,
         P!postingVars, PP!postingVars, P!draftVars, PP!draftVars,
         P!authorVars, PP!authorVars, P!serverVars, PP!serverVars

LEMMA PostingInvOfApp == Spec => []PP!PostingInv
<1>1. Init => PP!PostingInv
    BY SamePostingInit, PP!PostingInit, AppAssumption DEF Init
<1>2. SP!SessionInv /\ PP!PostingInv /\ [Next]_appVars => PP!PostingInv'
    BY PostingSteps, SamePostingNext, PP!PostingStep, AppAssumption
<1>3. QED
    BY <1>1, <1>2, SessionInvOfApp, PTL DEF Spec

-----------------------------------------------------------------------------
(* Authors *)

\* u is nobody, or has an account and a document, written, pending or refused.
Documented(u) ==
    \/ u = NoUser
    \/ /\ u \in registered
       /\ \/ u \in userDocs \cup refused
          \/ \E r \in Requests : request[r].stage = "setData" /\ request[r].user = u

\* So is everybody the posting screen may still write into a post.
AuthorInv ==
    /\ Documented(instaUser)
    /\ fetch.stage = "assign" => Documented(fetch.user)
    /\ \A p \in PostIds : Documented(flow[p].author)

(***************************************************************************)
(* What a step of the session does to a document that is on its way.       *)
(***************************************************************************)
DocumentsMove ==
    /\ registered \subseteq registered'
    /\ userDocs \cup refused \subseteq userDocs' \cup refused'
    /\ \A r \in Requests : request[r].stage = "setData" =>
          \/ request'[r].stage = "setData" /\ request'[r].user = request[r].user
          \/ request[r].user \in userDocs' \cup refused'

LEMMA DocumentSteps ==
    ASSUME SP!SessionInv, [Next]_appVars
    PROVE  DocumentsMove
<1> USE DEF DocumentsMove
<1>1. request \in [Requests -> SP!RequestRecord]
    BY DEF SP!SessionInv, SP!SessionTypeOK
<1>2. \A r \in Requests : request[r] \in SP!RequestRecord
    BY <1>1
<1>3. ASSUME NEW reqs, \A r \in Requests : reqs[r] \in SP!RequestRecord
      PROVE  \A r \in Requests : /\ S!Released(reqs)[r].stage = reqs[r].stage
                                 /\ S!Released(reqs)[r].user = reqs[r].user
    BY <1>3 DEF S!Released, SP!RequestRecord
<1>4. CASE Kill
  <2>1. /\ registered \subseteq registered' /\ userDocs' = userDocs
        /\ request' = [r \in Requests |-> S!Survives(request[r])]
        /\ refused' = refused
      BY <1>4 DEF Kill, S!Kill
  <2>2. \A r \in Requests : request[r].stage = "setData" =>
            /\ S!Survives(request[r]).stage = "setData"
            /\ S!Survives(request[r]).user = request[r].user
      BY <1>2 DEF S!Survives, SP!RequestRecord
  <2>3. QED
      BY <2>1, <2>2
<1>5. CASE SignOutButtonPressed
    BY <1>2, <1>3, <1>5
    DEF SignOutButtonPressed, S!SignOutButtonPressed, S!ShowViewController
<1>6. CASE SessionStep
  <2>1. refused' = refused
      BY <1>6 DEF SessionStep
  <2>2. CASE S!SceneWillConnect
      BY <1>2, <1>3, <2>1, <2>2 DEF S!SceneWillConnect, S!ShowViewController
  <2>3. CASE S!SignUpButtonPressed
      BY <2>1, <2>3 DEF S!SignUpButtonPressed
  <2>4. ASSUME NEW r \in Requests, NEW u \in Users, S!LoginButtonPressed(r, u)
        PROVE  DocumentsMove
      BY <1>1, <2>1, <2>4 DEF S!LoginButtonPressed
  <2>5. ASSUME NEW r \in Requests,
               \/ S!AuthReply(r) \/ S!CreateUserAnswerLost(r)
               \/ S!CreateUser(r) \/ S!ShowCreateUserAlert(r)
        PROVE  DocumentsMove
    <3>1. /\ request[r].stage # "setData"
          /\ \A q \in Requests \ {r} : request'[q] = request[q]
        BY <1>1, <2>5
        DEF S!AuthReply, S!SignInSucceeds, S!CreateUserSucceeds, S!AuthFails,
            S!CreateUserAnswerLost, S!CreateUser, S!ShowCreateUserAlert,
            S!Advance, S!Finish
    <3>2. registered \subseteq registered' /\ userDocs' = userDocs
        BY <2>5
        DEF S!AuthReply, S!SignInSucceeds, S!CreateUserSucceeds, S!AuthFails,
            S!CreateUserAnswerLost, S!CreateUser, S!ShowCreateUserAlert
    <3>3. QED
        BY <2>1, <3>1, <3>2
  <2>6. ASSUME NEW r \in Requests, S!SetDataAcknowledged(r)
        PROVE  DocumentsMove
    <3>1. \A q \in Requests \ {r} : request'[q] = request[q]
        BY <1>1, <2>6 DEF S!SetDataAcknowledged, S!Advance
    <3>2. registered' = registered /\ userDocs' = userDocs \cup {request[r].user}
        BY <2>6 DEF S!SetDataAcknowledged
    <3>3. QED
        BY <2>1, <3>1, <3>2
  <2>7. ASSUME NEW r \in Requests, S!NavigateToInstagram(r)
        PROVE  DocumentsMove
    <3>1. registered' = registered /\ userDocs' = userDocs
        BY <2>7 DEF S!NavigateToInstagram
    <3>2. request[r].stage # "setData"
        BY <2>7 DEF S!NavigateToInstagram
    <3> DEFINE reqs == [request EXCEPT ![r] = S!Idle]
    <3>3. \A q \in Requests : reqs[q] \in SP!RequestRecord
        BY <1>1
        DEF S!Idle, SP!RequestRecord, SP!Stages
    <3>4. \A q \in Requests \ {r} : reqs[q] = request[q]
        BY <1>1
    <3>5. request' \in {reqs, S!Released(reqs)}
        BY <2>7 DEF S!NavigateToInstagram, S!ShowViewController, S!Finish
    <3> HIDE DEF reqs
    <3>6. \A q \in Requests \ {r} : /\ request'[q].stage = request[q].stage
                                    /\ request'[q].user = request[q].user
        BY <1>3, <3>3, <3>4, <3>5
    <3>7. QED
        BY <2>1, <3>1, <3>2, <3>6
  <2>8. QED
      BY <1>6, <2>2, <2>3, <2>4, <2>5, <2>6, <2>7
      DEF SessionStep, S!MainQueue
<1>7. ASSUME NEW r \in Requests, DocumentRefused(r)
      PROVE  DocumentsMove
  <2>1. \A q \in Requests \ {r} : request'[q] = request[q]
      BY <1>1, <1>7 DEF DocumentRefused, S!SetDataRejected, S!Advance
  <2>2. /\ registered' = registered /\ userDocs' = userDocs
        /\ refused' = refused \cup {request[r].user}
      BY <1>7 DEF DocumentRefused, S!SetDataRejected
  <2>3. QED
      BY <2>1, <2>2
<1>8. CASE PostingStep
    BY <1>8 DEF PostingStep, sessionVars
<1>9. CASE UNCHANGED appVars
    BY <1>9 DEF appVars, sessionVars
<1>10. QED
    BY <1>4, <1>5, <1>6, <1>7, <1>8, <1>9 DEF Next

\* The same of u after a step.
DocumentedNext(u) ==
    \/ u = NoUser
    \/ /\ u \in registered'
       /\ \/ u \in userDocs' \cup refused'
          \/ \E r \in Requests : /\ request'[r].stage = "setData"
                                 /\ request'[r].user = u

LEMMA DocumentedStays ==
    ASSUME DocumentsMove, NEW u, Documented(u)
    PROVE  DocumentedNext(u)
  BY DEF DocumentsMove, Documented, DocumentedNext

\* Where an author comes from: a step may fetch one or submit a post with the
\* one there is.
AuthorsMove ==
    /\ \/ instaUser' \in {NoUser, instaUser}
       \/ fetch.stage = "assign" /\ instaUser' = fetch.user
    /\ \/ fetch' = fetch
       \/ fetch'.stage = "none"
       \/ /\ root = "Instagram"
          /\ fetch'.stage = "getDocument" /\ fetch'.user = currentUser
       \/ /\ fetch.stage = "getDocument"
          /\ fetch'.stage = "assign"
          /\ fetch'.user \in {NoUser, fetch.user}
          /\ fetch'.user = fetch.user => \/ fetch.user = NoUser
                                         \/ fetch.user \in userDocs
                                         \/ PendingDocument(fetch.user)
    /\ \A p \in PostIds :
          \/ /\ flow'[p].author = flow[p].author
             /\ flow'[p].stage = "createPost" => flow[p].stage = "createPost"
          \/ flow'[p].author = instaUser

LEMMA AuthorSteps ==
    ASSUME PP!PostingTypeOK, [Next]_appVars
    PROVE  AuthorsMove
<1> USE DEF AuthorsMove
<1>1. flow \in [PostIds -> PP!FlowRecord]
    BY DEF PP!PostingTypeOK
<1>2. ASSUME NEW p \in PostIds
      PROVE  /\ flow[p] \in PP!FlowRecord
             /\ \A x \in PP!Stages :
                   /\ [flow[p] EXCEPT !.stage = x].author = flow[p].author
                   /\ [flow[p] EXCEPT !.stage = x].stage = x
    BY <1>1 DEF PP!FlowRecord
<1>3. CASE Kill
  <2>1. /\ instaUser' = NoUser /\ fetch' = P!NoFetch
        /\ flow' = [p \in PostIds |-> P!Survives(flow[p])]
      BY <1>3 DEF Kill, P!Kill, P!ControllerReleased
  <2>2. ASSUME NEW p \in PostIds
        PROVE  /\ P!Survives(flow[p]).author = flow[p].author
               /\ P!Survives(flow[p]).stage \in {flow[p].stage, "ended"}
      BY <1>2 DEF P!Survives, PP!FlowRecord
  <2>3. QED
      BY <2>1, <2>2 DEF P!NoFetch
<1>4. CASE SignOutButtonPressed
  <2>1. /\ instaUser' = NoUser /\ fetch' = P!NoFetch
        /\ flow' = [p \in PostIds |-> [flow[p] EXCEPT !.live = FALSE]]
      BY <1>4 DEF SignOutButtonPressed, P!SignedOut, P!ControllerReleased
  <2>2. ASSUME NEW p \in PostIds
        PROVE  /\ [flow[p] EXCEPT !.live = FALSE].author = flow[p].author
               /\ [flow[p] EXCEPT !.live = FALSE].stage = flow[p].stage
      BY <1>2 DEF PP!FlowRecord
  <2>3. QED
      BY <2>1, <2>2 DEF P!NoFetch
<1>5. CASE SessionStep
    BY <1>5 DEF SessionStep, screenVars
<1>6. ASSUME NEW r \in Requests, DocumentRefused(r)
      PROVE  AuthorsMove
    BY <1>6 DEF DocumentRefused, screenVars
<1>7. CASE UNCHANGED appVars
    BY <1>7 DEF appVars, screenVars
<1>8. CASE PostingStep
  <2>1. ASSUME NEW p \in PostIds, P!NextButtonPressed(p)
        PROVE  AuthorsMove
    <3>1. UNCHANGED <<instaUser, fetch>>
        BY <2>1 DEF P!NextButtonPressed, P!authorVars
    <3>2. flow'[p].author = instaUser
        BY <1>1, <2>1 DEF P!NextButtonPressed
    <3>3. \A q \in PostIds \ {p} : flow'[q] = flow[q]
        BY <1>1, <2>1 DEF P!NextButtonPressed
    <3>4. QED
        BY <3>1, <3>2, <3>3
  <2>2. CASE \/ \E i \in {0, 1, 2} : P!SelectTab(i)
             \/ \E c \in Captions \cup {Nil} : P!EditCaption(c)
             \/ P!CancelButtonPressed \/ P!PhotoButtonPressed
             \/ \E choice \in {"none", "picker"} : P!SheetAnswered(choice)
             \/ P!PresentedDismissed
             \/ \E i \in Images : P!DidFinishPicking(i)
    <3>1. instaUser' = instaUser /\ flow' = flow
        BY <2>2
        DEF P!SelectTab, P!EditCaption, P!CancelButtonPressed,
            P!PhotoButtonPressed, P!SheetAnswered, P!PresentedDismissed,
            P!DidFinishPicking, P!authorVars
    <3>2. \/ fetch' = fetch
          \/ /\ root = "Instagram"
             /\ fetch'.stage = "getDocument" /\ fetch'.user = currentUser
        BY <2>2
        DEF P!SelectTab, P!EditCaption, P!CancelButtonPressed,
            P!PhotoButtonPressed, P!SheetAnswered, P!PresentedDismissed,
            P!DidFinishPicking, P!authorVars, P!Shown, P!InstagramScreen
    <3>3. QED
        BY <3>1, <3>2
  <2>3. CASE FetchReply
    <3>1. instaUser' = instaUser /\ flow' = flow
        BY <2>3 DEF FetchReply, P!GetDocumentReturns, P!GetDocumentFails
    <3>2. QED
        BY <2>3, <3>1
        DEF FetchReply, P!GetDocumentReturns, P!GetDocumentFails, P!NoFetch
  <2>4. CASE P!AssignInstaUser
      BY <2>4 DEF P!AssignInstaUser, P!NoFetch
  <2>5. ASSUME NEW p \in PostIds,
               P!WriteReply(p) \/ P!StorageReply(p) \/ P!MainQueue(p)
        PROVE  AuthorsMove
    <3>1. UNCHANGED <<instaUser, fetch>>
        BY <2>5
        DEF P!WriteReply, P!StorageReply, P!MainQueue,
            P!CreatePostAcknowledged, P!UpdateImageURLAcknowledged,
            P!WriteRejected, P!PutDataSucceeds, P!PutDataFails,
            P!DownloadURLSucceeds, P!DownloadURLFails, P!ClearDraft,
            P!ShowPostAlert, P!authorVars
    <3>2. CASE P!DownloadURLSucceeds(p) /\ flow[p].live
      <4>1. flow' = [flow EXCEPT ![p].stage = "updateData",
                                 ![p].owner = currentUser]
          BY <3>2 DEF P!DownloadURLSucceeds
      <4>2. /\ flow'[p].author = flow[p].author /\ flow'[p].stage = "updateData"
            /\ \A q \in PostIds \ {p} : flow'[q] = flow[q]
          BY <1>1, <1>2, <4>1 DEF PP!FlowRecord
      <4>3. QED
          BY <3>1, <4>2
    <3>3. ASSUME NEW x \in {"putData", "downloadURL", "finish", "alert", "ended"},
                 P!Advance(p, x)
          PROVE  AuthorsMove
      <4>1. /\ flow'[p] = [flow[p] EXCEPT !.stage = x]
            /\ \A q \in PostIds \ {p} : flow'[q] = flow[q]
          BY <1>1, <3>3 DEF P!Advance
      <4>2. x \in PP!Stages /\ x # "createPost"
          BY DEF PP!Stages
      <4>3. flow'[p].author = flow[p].author /\ flow'[p].stage = x
          BY <1>2, <4>1, <4>2
      <4>4. QED
          BY <3>1, <4>1, <4>2, <4>3
    <3>4. QED
        BY <2>5, <3>2, <3>3
        DEF P!WriteReply, P!StorageReply, P!MainQueue,
            P!CreatePostAcknowledged, P!UpdateImageURLAcknowledged,
            P!WriteRejected, P!PutDataSucceeds, P!PutDataFails,
            P!DownloadURLSucceeds, P!DownloadURLFails, P!ClearDraft,
            P!ShowPostAlert
  <2>6. QED
      BY <1>8, <2>1, <2>2, <2>3, <2>4, <2>5 DEF PostingStep, P!Screen
<1>9. QED
    BY <1>3, <1>4, <1>5, <1>6, <1>7, <1>8 DEF Next

LEMMA AuthorInvStep ==
    ASSUME SP!SessionInv, PP!PostingInv, AuthorInv, [Next]_appVars
    PROVE  AuthorInv'
<1>1. AuthorsMove
    BY AuthorSteps DEF PP!PostingInv
<1>2. \A u : Documented(u) => DocumentedNext(u)
    BY DocumentSteps, DocumentedStays
<1>3. DocumentedNext(NoUser)
    BY DEF DocumentedNext
<1>4. DocumentedNext(instaUser')
    BY <1>1, <1>2, <1>3 DEF AuthorsMove, AuthorInv
<1>5. \A p \in PostIds : DocumentedNext(flow'[p].author)
    BY <1>1, <1>2 DEF AuthorsMove, AuthorInv
<1>6. fetch'.stage = "assign" => DocumentedNext(fetch'.user)
  <2>1. ASSUME fetch.user \in userDocs \/ PendingDocument(fetch.user)
        PROVE  Documented(fetch.user)
    <3>1. CASE fetch.user \in userDocs
        BY <3>1
        DEF Documented, SP!SessionInv, SP!DocumentsNeedAccounts,
            S!DocumentsNeedAccounts
    <3>2. CASE PendingDocument(fetch.user)
        BY <3>2
        DEF PendingDocument, Documented, SP!SessionInv,
            SP!DocumentsNeedAccounts, SP!ChainsMatchSession,
            S!DocumentsNeedAccounts, S!ChainsMatchSession
    <3>3. QED
        BY <2>1, <3>1, <3>2
  <2>2. QED
      BY <1>1, <1>2, <1>3, <2>1 DEF AuthorsMove, AuthorInv
<1>7. QED
    BY <1>4, <1>5, <1>6 DEF AuthorInv, Documented, DocumentedNext

LEMMA AuthorInvOfApp == Spec => []AuthorInv
<1>1. Init => AuthorInv
    BY DEF Init, P!Init, P!NoFlow, P!NoFetch, AuthorInv, Documented
<1>2. QED
    BY <1>1, AuthorInvStep, SessionInvOfApp, PostingInvOfApp, PTL DEF Spec

(***************************************************************************)
(* The author a stored post names, if any, has an account and a "users"    *)
(* document, or one that is still to be written or was refused after it    *)
(* had been fetched.                                                       *)
(***************************************************************************)
THEOREM AuthorsAreDocumented == Spec => []AuthorsHaveDocuments
<1>1. PP!PostingInv /\ AuthorInv => AuthorsHaveDocuments
    BY DEF PP!PostingInv, PP!ServicesMatchChain, AuthorInv, Documented,
           AuthorsHaveDocuments
<1>2. QED
    BY <1>1, PostingInvOfApp, AuthorInvOfApp, PTL

-----------------------------------------------------------------------------
(* Authors and the users signed in behind a tab bar *)

\* The answer to a press on a login screen that is gone signs u in.
LateSignIn(u) ==
    \E r \in Requests : /\ request[r].user = u
                        /\ ~request[r].live
                        /\ request[r].stage \in {"signIn", "createUser"}

\* Without a tab bar there are no hosts; behind one, the signed-in user is one
\* of them, and so is whoever the posting screen has fetched or asked for.
HostInv ==
    /\ root # "Instagram" => hosts = {}
    /\ root = "Instagram" => currentUser \in hosts
    /\ instaUser \in {NoUser} \cup hosts
    /\ fetch.stage # "none" => fetch.user \in {NoUser} \cup hosts

(***************************************************************************)
(* A step of the session that finds a tab bar leaves it on screen, and     *)
(* changes the user behind it only by a late answer.                       *)
(***************************************************************************)
LEMMA SessionBehindTabBar ==
    ASSUME SP!SessionInv, SessionStep, root = "Instagram"
    PROVE  /\ root' = "Instagram"
           /\ currentUser' # currentUser => LateSignIn(currentUser')
<1>1. \A r \in Requests : ~request[r].live
    BY SessionFacts
<1>2. CASE S!SceneWillConnect
    BY <1>2 DEF S!SceneWillConnect, S!Running
<1>3. CASE S!SignUpButtonPressed
    BY <1>3 DEF S!SignUpButtonPressed
<1>4. ASSUME NEW r \in Requests,
             S!SignInSucceeds(r) \/ S!CreateUserSucceeds(r)
      PROVE  root' = "Instagram" /\ LateSignIn(currentUser')
    BY <1>1, <1>4 DEF S!SignInSucceeds, S!CreateUserSucceeds, LateSignIn
<1>5. ASSUME NEW r \in Requests,
             \/ \E u \in Users : S!LoginButtonPressed(r, u)
             \/ S!AuthFails(r) \/ S!CreateUserAnswerLost(r)
             \/ S!SetDataAcknowledged(r)
             \/ S!MainQueue(r)
      PROVE  root' = "Instagram" /\ currentUser' = currentUser
    BY <1>1, <1>5
    DEF S!LoginButtonPressed, S!AuthFails, S!CreateUserAnswerLost,
        S!SetDataAcknowledged, S!MainQueue, S!CreateUser,
        S!ShowCreateUserAlert, S!NavigateToInstagram
<1>6. QED
    BY <1>2, <1>3, <1>4, <1>5 DEF SessionStep, S!AuthReply

(***************************************************************************)
(* What a step does to the hosts of a tab bar and to the author behind it. *)
(***************************************************************************)
LEMMA HostSteps ==
    ASSUME SP!SessionInv, HostInv, [Next]_appVars
    PROVE  \/ UNCHANGED <<currentUser, root, hosts>>
           \/ /\ root' # "Instagram" /\ hosts' = {}
              /\ instaUser' = NoUser /\ fetch'.stage = "none"
           \/ /\ UNCHANGED <<instaUser, fetch, flow>>
              /\ HostsFollow
              /\ root = "Instagram" =>
                    /\ root' = "Instagram"
                    /\ currentUser' # currentUser => LateSignIn(currentUser')
<1>1. CASE Kill
    BY <1>1 DEF Kill, S!Kill, P!Kill, P!ControllerReleased, P!NoFetch,
                HostsFollow
<1>2. CASE SignOutButtonPressed
    BY <1>2
    DEF SignOutButtonPressed, S!SignOutButtonPressed, S!ShowViewController,
        S!LoginScreen, P!SignedOut, P!ControllerReleased, P!NoFetch,
        HostsFollow
<1>3. CASE SessionStep
    BY <1>3, SessionBehindTabBar DEF SessionStep, screenVars
<1>4. ASSUME NEW r \in Requests, DocumentRefused(r)
      PROVE  UNCHANGED <<currentUser, root, hosts>>
    BY <1>4 DEF DocumentRefused, S!SetDataRejected
<1>5. CASE PostingStep
    BY <1>5 DEF PostingStep, sessionVars
<1>6. CASE UNCHANGED appVars
    BY <1>6 DEF appVars, sessionVars
<1>7. QED
    BY <1>1, <1>2, <1>3, <1>4, <1>5, <1>6 DEF Next

LEMMA HostInvStep ==
    ASSUME SP!SessionInv, PP!PostingTypeOK, HostInv, [Next]_appVars
    PROVE  HostInv'
<1>1. CASE UNCHANGED <<currentUser, root, hosts>>
  <2>1. AuthorsMove
      BY AuthorSteps
  <2>2. instaUser' \in {NoUser} \cup hosts
      BY <2>1 DEF AuthorsMove, HostInv
  <2>3. fetch'.stage # "none" => fetch'.user \in {NoUser} \cup hosts
      BY <2>1 DEF AuthorsMove, HostInv
  <2>4. QED
      BY <1>1, <2>2, <2>3 DEF HostInv
<1>2. CASE /\ root' # "Instagram" /\ hosts' = {}
           /\ instaUser' = NoUser /\ fetch'.stage = "none"
    BY <1>2 DEF HostInv
<1>3. CASE /\ UNCHANGED <<instaUser, fetch, flow>> /\ HostsFollow
           /\ root = "Instagram" => root' = "Instagram"
  <2>1. hosts \subseteq hosts'
      BY <1>3 DEF HostsFollow, HostInv
  <2>2. QED
      BY <1>3, <2>1 DEF HostsFollow, HostInv
<1>4. QED
    BY <1>1, <1>2, <1>3, HostSteps

LEMMA HostInvOfApp == Spec => []HostInv
<1>1. Init => HostInv
    BY DEF Init, S!Init, P!Init, P!NoFetch, HostInv
<1>2. SP!SessionInv /\ PP!PostingInv /\ HostInv /\ [Next]_appVars => HostInv'
    BY HostInvStep DEF PP!PostingInv
<1>3. QED
    BY <1>1, <1>2, SessionInvOfApp, PostingInvOfApp, PTL DEF Spec

\* The two promises of AuthorWasSignedIn, for one step.
AuthorIsHost ==
    /\ \A p \in PostIds : Submits(p) => flow'[p].author \in {NoUser} \cup hosts
    /\ \A u \in hosts' \ hosts : root = "Instagram" => LateSignIn(u)

LEMMA AuthorHostStep ==
    ASSUME SP!SessionInv, PP!PostingTypeOK, HostInv, [Next]_appVars
    PROVE  AuthorIsHost
<1>1. ASSUME NEW p \in PostIds, Submits(p)
      PROVE  flow'[p].author \in {NoUser} \cup hosts
  <2>1. AuthorsMove
      BY AuthorSteps
  <2>2. flow'[p].author = instaUser
      BY <1>1, <2>1 DEF AuthorsMove, Submits
  <2>3. QED
      BY <2>2 DEF HostInv
<1>2. ASSUME NEW u \in hosts' \ hosts, root = "Instagram"
      PROVE  LateSignIn(u)
  <2>1. HostsFollow /\ (currentUser' # currentUser => LateSignIn(currentUser'))
      BY <1>2, HostSteps
  <2>2. u = currentUser' /\ currentUser \in hosts
      BY <1>2, <2>1 DEF HostsFollow, HostInv
  <2>3. QED
      BY <1>2, <2>1, <2>2
<1>3. QED
    BY <1>1, <1>2 DEF AuthorIsHost

(***************************************************************************)
(* However many login chains are in flight, a submitted post names nobody  *)
(* or a user who was signed in behind the very tab bar it was submitted    *)
(* from; and that can be another than its owner only after a late answer   *)
(* to an earlier press of the login button.                                *)
(***************************************************************************)
THEOREM AuthorsWereSignedIn == Spec => AuthorWasSignedIn
<1>1. SP!SessionInv /\ PP!PostingInv /\ HostInv /\ [Next]_appVars
          => AuthorIsHost
    BY AuthorHostStep DEF PP!PostingInv
<1>2. AuthorIsHost =>
          /\ \A p \in PostIds :
                 Submits(p) => flow'[p].author \in {NoUser} \cup hosts
          /\ \A u \in hosts' \ hosts :
                 root = "Instagram" =>
                     \E r \in Requests : /\ request[r].user = u
                                         /\ ~request[r].live
                                         /\ request[r].stage \in
                                                {"signIn", "createUser"}
    BY DEF AuthorIsHost, LateSignIn
<1>3. QED
    BY <1>1, <1>2, SessionInvOfApp, PostingInvOfApp, HostInvOfApp, PTL
    DEF Spec, AuthorWasSignedIn

-----------------------------------------------------------------------------
(* What was proved of the parts, in the app *)

LEMMA SessionSpecInApp == Spec => SP!Spec
<1>1. Init => SP!Init
    BY SameInit DEF Init
<1>2. [Next]_appVars => [SP!Next]_(SP!sessionVars)
    BY SessionSteps, SameNext
<1> QED
    BY <1>1, <1>2, PTL DEF Spec, SP!Spec

LEMMA PostingSpecInApp == Spec => PP!Spec
<1>1. Init => PP!Init
    BY SamePostingInit DEF Init
<1>2. SP!SessionInv /\ [Next]_appVars => [PP!Next]_(PP!postingVars)
    BY PostingSteps, SamePostingNext
<1> QED
    BY <1>1, <1>2, SessionInvOfApp, PTL DEF Spec, PP!Spec

(***************************************************************************)
(* The tab bar of the app has a user, documents have accounts, and a photo *)
(* is the picture that was selected when Next was pressed, with both parts *)
(* in one process.                                                         *)
(***************************************************************************)
THEOREM AppIsSound ==
    Spec => [](/\ S!InstagramNeedsUser /\ S!DocumentsNeedAccounts
               /\ P!PhotoMatchesPost /\ P!ServicesMatchChain)
<1>1. SP!SessionInv => S!InstagramNeedsUser /\ S!DocumentsNeedAccounts
    BY DEF SP!SessionInv, SP!InstagramNeedsUser, S!InstagramNeedsUser,
           SP!DocumentsNeedAccounts, S!DocumentsNeedAccounts,
           SP!InstagramScreen, S!InstagramScreen
<1>2. PP!PostingInv => P!PhotoMatchesPost /\ P!ServicesMatchChain
    BY DEF PP!PostingInv, PP!PhotoMatchesPost, P!PhotoMatchesPost,
           PP!ServicesMatchChain, P!ServicesMatchChain, PP!HasPhoto,
           P!HasPhoto, PP!PhotoReference, P!PhotoReference
<1> QED
    BY <1>1, <1>2, SessionInvOfApp, PostingInvOfApp, PTL

(***************************************************************************)
(* With the sign-ins, sign-outs and process deaths of the real session the *)
(* posting screen still publishes drafts as Publication says.              *)
(***************************************************************************)
THEOREM AppPublishesDrafts == Spec => PP!PublishesDrafts
  BY PostingSpecInApp, PP!PostingImplementsPublication, AppAssumption

(***************************************************************************)
(* An account that missed its document never gets one, a post that was     *)
(* stranded stays without a photo, and only the end of a chain whose post  *)
(* is complete drops a draft, with both parts in one process.              *)
(***************************************************************************)
THEOREM AppKeepsItsWord ==
    Spec => /\ SP!OrphansStayOrphans
            /\ PP!StrandedPostStaysPhotoless
            /\ PP!DraftSurvivesFailure
  BY SessionSpecInApp, PostingSpecInApp, SP!OrphansForever,
     PP!StrandedForever, PP!DraftsSurvive, AppAssumption

=============================================================================
