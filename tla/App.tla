-------------------------------- MODULE App --------------------------------
(***************************************************************************)
(* The session and the posting screen in one process: the steps of Session *)
(* that replace the window's root, change the signed-in user or end the    *)
(* process are, at the same moment, the environment steps of Posting. The  *)
(* two share currentUser, and the tab bar exists exactly while it is the   *)
(* window's root view controller.                                          *)
(***************************************************************************)

CONSTANTS Users, Requests, PostIds, Images, Captions, NoUser, Nil

\* What Session and Posting assume of their constants.
ASSUME AppAssumption ==
    /\ NoUser \notin Users
    /\ Nil \notin Images /\ Nil \notin Captions /\ Nil \notin PostIds
    /\ Nil \notin [author: Users \cup {NoUser}, caption: Captions,
                   photoURL: PostIds \cup {Nil}]
    /\ Nil \notin [author: Users \cup {NoUser}, caption: Captions,
                   image: Images]
    /\ Nil \notin [author: Users \cup {NoUser}, caption: Captions,
                   photo: Images \cup {Nil}]

VARIABLES
    registered, userDocs, currentUser, root, accountState, request,
    loaded, tab, presented, selectedImage, captionText, nextEnabled,
    instaUser, fetch, flow, posts, stored,
    refused,    \* history: users whose "users" document the server refused
    hosts       \* history: users signed in since this tab bar appeared

S == INSTANCE Session
P == INSTANCE Posting

sessionVars ==
    <<registered, userDocs, currentUser, root, accountState, request>>

\* Everything that belongs to the posting screen alone.
screenVars == <<loaded, tab, presented, selectedImage, captionText,
                nextEnabled, instaUser, fetch, flow, posts, stored>>

appVars == <<sessionVars, screenVars, refused, hosts>>

Init == S!Init /\ P!Init /\ refused = {} /\ hosts = {}

\* Who has been signed in behind the tab bar that the step leaves on screen.
HostsFollow ==
    hosts' = IF root' # "Instagram" THEN {}
             ELSE IF root = "Instagram" THEN hosts \cup {currentUser'}
             ELSE {currentUser'}

Kill == S!Kill /\ P!Kill /\ UNCHANGED refused /\ HostsFollow

\* Mutant of SignOutButtonPressed: the window keeps its tab bar.
SignOutKeepsWindow ==
    /\ tab = 2 /\ presented = "none" /\ root = "Instagram"
    /\ currentUser' = NoUser
    /\ UNCHANGED <<registered, userDocs, root, accountState, request,
                   screenVars, refused>>
    /\ HostsFollow

\* Mutant of SignOutButtonPressed: the tab bar is kept to be shown again.
SignOutKeepsScreens ==
    /\ tab = 2 /\ presented = "none"
    /\ S!SignOutButtonPressed
    /\ UNCHANGED <<screenVars, refused>>
    /\ HostsFollow

\* The button is in the navigation bar of the third tab.
SignOutButtonPressed ==
    /\ tab = 2 /\ presented = "none"
    /\ S!SignOutButtonPressed
    /\ P!SignedOut
    /\ UNCHANGED refused
    /\ HostsFollow

\* No other step of the session touches the posting screen: a tab bar that
\* appears brings a fresh one, a reply that signs somebody in is not noticed.
SessionStep ==
    /\ \/ S!SceneWillConnect
       \/ S!SignUpButtonPressed
       \/ \E r \in Requests :
             \/ \E u \in Users : S!LoginButtonPressed(r, u)
             \/ S!AuthReply(r)
             \/ S!CreateUserAnswerLost(r)
             \/ S!SetDataAcknowledged(r)
             \/ S!MainQueue(r)
    /\ UNCHANGED <<screenVars, refused>>
    /\ HostsFollow

DocumentRefused(r) ==
    /\ S!SetDataRejected(r)
    /\ refused' = refused \cup {request[r].user}
    /\ UNCHANGED <<screenVars, hosts>>

\* setData(u) waits in the mutation queue of the user who is signed in.
PendingDocument(u) ==
    \E r \in Requests : /\ request[r].stage = "setData"
                        /\ request[r].user = u
                        /\ request[r].owner = currentUser

\* Mutant of FetchReply: a user without a document is found like any other.
FetchAlwaysFinds == P!GetDocumentReturns(TRUE) \/ P!GetDocumentFails

\* fetchCurrentUser finds a document when one is stored, or when the local
\* cache holds one that is still to be written: a sign-up cut short by the
\* death of the process leaves such a write.
FetchReply ==
    \/ P!GetDocumentReturns(fetch.user \in userDocs \/ PendingDocument(fetch.user))
    \/ P!GetDocumentFails

PostingStep ==
    /\ \/ P!Screen
       \/ FetchReply
       \/ P!AssignInstaUser
       \/ \E p \in PostIds :
             P!WriteReply(p) \/ P!StorageReply(p) \/ P!MainQueue(p)
    /\ UNCHANGED <<sessionVars, refused, hosts>>

Next ==
    \/ Kill
    \/ SignOutButtonPressed
    \/ SessionStep
    \/ \E r \in Requests : DocumentRefused(r)
    \/ PostingStep

Spec == Init /\ [][Next]_appVars

\* Storage calls are answered or time out, a write that can be sent is
\* eventually answered, and the main queue runs every block.
Fairness ==
    \A p \in PostIds :
        /\ WF_appVars(P!WriteReply(p) /\ PostingStep)
        /\ WF_appVars(P!StorageReply(p) /\ PostingStep)
        /\ WF_appVars(P!MainQueue(p) /\ PostingStep)

FairSpec == Spec /\ Fairness

-----------------------------------------------------------------------------
(* Properties *)

(***************************************************************************)
(* The composition is a behaviour of Session, and of Posting: what is      *)
(* proved of either with an arbitrary environment holds in the app. For    *)
(* Posting this says that its environment, the tab bar appearing only for  *)
(* a signed-in user and disappearing with Sign Out, is what Session does.  *)
(***************************************************************************)
ComponentsInApp == S!Spec /\ P!Spec

(***************************************************************************)
(* The author a stored post names, if it names one, has an account and a   *)
(* "users" document. The one exception is a sign-up that the death of the  *)
(* process cut short: its document, still waiting in the local cache, was  *)
(* found by fetchCurrentUser before the server had answered, and may even  *)
(* have been refused since.                                                *)
(***************************************************************************)
AuthorsHaveDocuments ==
    \A p \in PostIds :
        (posts[p] # Nil /\ posts[p].author # NoUser) =>
            /\ posts[p].author \in registered
            /\ \/ posts[p].author \in userDocs \cup refused
               \/ \E r \in Requests : /\ request[r].stage = "setData"
                                      /\ request[r].user = posts[p].author

\* Next is pressed: the post p starts its chain.
Submits(p) == flow[p].stage = "none" /\ flow'[p].stage = "createPost"

(***************************************************************************)
(* The author of a submitted post is the user it is written for, unless an *)
(* earlier press of the login button was answered behind the tab bar: the  *)
(* post names nobody, or somebody who was signed in while this very tab    *)
(* bar was on screen, never a user of an earlier tab bar; and somebody     *)
(* else gets signed in behind a tab bar only by the answer to a press on a *)
(* LoginViewController that no longer exists.                              *)
(***************************************************************************)
AuthorWasSignedIn ==
    [][/\ \A p \in PostIds :
              Submits(p) => flow'[p].author \in {NoUser} \cup hosts
       /\ \A u \in hosts' \ hosts :
              root = "Instagram" =>
                  \E r \in Requests : /\ request[r].user = u
                                      /\ ~request[r].live
                                      /\ request[r].stage \in
                                             {"signIn", "createUser"}]_appVars

(***************************************************************************)
(* Every submitted post comes to an end, with the sign-ins, sign-outs and  *)
(* process deaths that Session brings about: see PostResolves of Posting.  *)
(***************************************************************************)
PostsResolve == P!PostResolves

=============================================================================
