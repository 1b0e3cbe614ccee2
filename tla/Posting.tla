------------------------------ MODULE Posting ------------------------------
(***************************************************************************)
(* Posting a photo: AddPhotoViewController with DatabaseService.createPost *)
(* and fetchCurrentUser, StorageService.uploadPhoto and the Firestore and  *)
(* Storage contents they change.                                           *)
(*                                                                         *)
(* A press of Next starts a chain that the closures carry from callback to *)
(* callback: create the post document, upload the picture, ask for its     *)
(* URL, write the URL into the document, clear the draft. flow[p] is the   *)
(* chain of the post with the generated document id p; its image, caption, *)
(* author are what the closures captured when Next was pressed, its live   *)
(* says whether the AddPhotoViewController they refer to weakly exists.    *)
(*                                                                         *)
(* The session is this module's environment: the tab bar, and with it the  *)
(* controller, comes and goes, and currentUser changes, at any time.       *)
(***************************************************************************)

CONSTANTS
    Users,      \* accounts (uids)
    PostIds,    \* generated document ids: bounds the posts ever submitted
    Images,     \* pictures the user can pick
    Captions,   \* non-empty caption texts
    NoUser,     \* no account; as an author, the empty user id
    Nil         \* an absent image, caption, URL, document or object

ASSUME PostingAssumption ==
    /\ NoUser \notin Users
    /\ Nil \notin Images /\ Nil \notin Captions /\ Nil \notin PostIds
    /\ Nil \notin [author: Users \cup {NoUser}, caption: Captions,
                   photoURL: PostIds \cup {Nil}]
    /\ Nil \notin [author: Users \cup {NoUser}, caption: Captions,
                   image: Images]
    /\ Nil \notin [author: Users \cup {NoUser}, caption: Captions,
                   photo: Images \cup {Nil}]

VARIABLES
    currentUser,    \* Auth.auth().currentUser
    root,           \* window.rootViewController; "none": no process is running
    loaded,         \* the controller's viewDidLoad has run
    tab,            \* tabBarController.selectedIndex: 0 feed, 1 add, 2 profile
    presented,      \* what the controller presents on top of itself
    selectedImage, captionText, nextEnabled,    \* the draft
    instaUser,      \* the fetched author; NoUser: nil or the blank user
    fetch,          \* fetchCurrentUser in flight
    flow,           \* the posting chains
    posts,          \* the "posts" collection (server side)
    stored          \* the objects InstagramPosts/<id>.jpg (server side)

draftVars == <<selectedImage, captionText, nextEnabled>>
authorVars == <<instaUser, fetch>>
serverVars == <<posts, stored>>
postingVars == <<currentUser, root, loaded, tab, presented, draftVars,
                 authorVars, flow, serverVars>>

LoginScreen == "LoginViewController"
InstagramScreen == "Instagram"

Running == root # "none"

\* The tab bar, and with it an AddPhotoViewController, exists.
Shown == root = InstagramScreen

MaybeUser == Users \cup {NoUser}

Stages == {"none", "createPost", "putData", "downloadURL", "updateData",
           "finish", "alert", "ended"}

\* owner: the user whose Firestore mutation queue holds the pending write.
FlowRecord ==
    [stage: Stages, image: Images \cup {Nil}, caption: Captions \cup {Nil},
     author: MaybeUser, owner: MaybeUser, live: BOOLEAN]

PostRecord ==
    [author: MaybeUser, caption: Captions, photoURL: PostIds \cup {Nil}]

NoFlow == [stage |-> "none", image |-> Nil, caption |-> Nil,
           author |-> NoUser, owner |-> NoUser, live |-> FALSE]

NoFetch == [stage |-> "none", user |-> NoUser]

(***************************************************************************)
(* The type of every variable.                                             *)
(***************************************************************************)
PostingTypeOK ==
    /\ currentUser \in MaybeUser
    /\ root \in {"none", LoginScreen, InstagramScreen}
    /\ loaded \in BOOLEAN
    /\ tab \in {0, 1, 2}
    /\ presented \in {"none", "sheet", "picker", "alert"}
    /\ selectedImage \in Images \cup {Nil}
    /\ captionText \in Captions \cup {Nil}
    /\ nextEnabled \in BOOLEAN
    /\ instaUser \in MaybeUser
    /\ fetch \in [stage: {"none", "getDocument", "assign"}, user: MaybeUser]
    /\ flow \in [PostIds -> FlowRecord]
    /\ posts \in [PostIds -> PostRecord \cup {Nil}]
    /\ stored \in [PostIds -> Images \cup {Nil}]

Init ==
    /\ currentUser = NoUser
    /\ root = "none"
    /\ loaded = FALSE
    /\ tab = 0
    /\ presented = "none"
    /\ selectedImage = Nil /\ captionText = Nil /\ nextEnabled = FALSE
    /\ instaUser = NoUser
    /\ fetch = NoFetch
    /\ flow = [p \in PostIds |-> NoFlow]
    /\ posts = [p \in PostIds |-> Nil]
    /\ stored = [p \in PostIds |-> Nil]

\* The object an image upload for post p writes, and the URL it gets.
PhotoReference(p) == p

Advance(p, s) == flow' = [flow EXCEPT ![p].stage = s]

\* The controller goes away with its tab bar; the next one starts afresh.
ControllerReleased ==
    /\ loaded' = FALSE
    /\ tab' = 0
    /\ presented' = "none"
    /\ selectedImage' = Nil /\ captionText' = Nil /\ nextEnabled' = FALSE
    /\ instaUser' = NoUser
    /\ fetch' = NoFetch

-----------------------------------------------------------------------------
(* The environment: window, session, process *)

\* A new process shows the tab bar if the keychain holds a user.
SceneWillConnect ==
    /\ ~Running
    /\ root' = IF currentUser # NoUser THEN InstagramScreen ELSE LoginScreen
    /\ UNCHANGED <<currentUser, loaded, tab, presented, draftVars, authorVars,
                   flow, serverVars>>

\* A reply of Firebase Auth installs a user, even while the tab bar is shown.
SignedIn(u) ==
    /\ Running
    /\ currentUser' = u
    /\ UNCHANGED <<root, loaded, tab, presented, draftVars, authorVars, flow,
                   serverVars>>

\* The login screen gives way to the tab bar of the Instagram storyboard.
NavigateToInstagram ==
    /\ root = LoginScreen
    /\ currentUser # NoUser
    /\ root' = InstagramScreen
    /\ UNCHANGED <<currentUser, loaded, tab, presented, draftVars, authorVars,
                   flow, serverVars>>

\* Sign Out replaces the window's root: the controller is released.
SignedOut ==
    /\ Shown
    /\ currentUser' = NoUser
    /\ root' = LoginScreen
    /\ ControllerReleased
    /\ flow' = [p \in PostIds |-> [flow[p] EXCEPT !.live = FALSE]]
    /\ UNCHANGED serverVars

\* What the death of the process leaves of a chain: a write that Firestore has
\* put on disk and will send again without a callback.
Survives(f) ==
    [f EXCEPT !.live = FALSE,
              !.stage = IF f.stage \in {"none", "createPost", "updateData"}
                        THEN f.stage ELSE "ended"]

\* The process dies. Whether an upload on its way arrived is open. (Dying
\* between a write and its arrival on disk has the effect of dying before it.)
Kill ==
    /\ Running
    /\ root' = "none"
    /\ ControllerReleased
    /\ flow' = [p \in PostIds |-> Survives(flow[p])]
    /\ \E arrived \in SUBSET {p \in PostIds : flow[p].stage = "putData"} :
           stored' = [p \in PostIds |->
                         IF p \in arrived THEN flow[p].image ELSE stored[p]]
    /\ UNCHANGED <<currentUser, posts>>

-----------------------------------------------------------------------------
(* The controller's screen *)

\* The tab bar can be tapped unless something covers it. The first visit of
\* the second tab runs viewDidLoad, which fetches the author once.
SelectTab(i) ==
    /\ Shown /\ presented = "none"
    /\ tab' = i
    /\ IF i = 1 /\ ~loaded
       THEN /\ loaded' = TRUE
            /\ nextEnabled' = FALSE
            /\ fetch' = IF currentUser = NoUser
                        THEN fetch
                        ELSE [stage |-> "getDocument", user |-> currentUser]
       ELSE UNCHANGED <<loaded, nextEnabled, fetch>>
    /\ UNCHANGED <<currentUser, root, presented, selectedImage, captionText,
                   instaUser, flow, serverVars>>

\* The user's document, or the blank user if there is none; an error is
\* only printed. The closure then waits for the main queue.
GetDocumentReturns(found) ==
    /\ fetch.stage = "getDocument"
    /\ fetch' = [stage |-> "assign",
                 user |-> IF found THEN fetch.user ELSE NoUser]
    /\ UNCHANGED <<currentUser, root, loaded, tab, presented, draftVars,
                   instaUser, flow, serverVars>>

GetDocumentFails ==
    /\ fetch.stage = "getDocument"
    /\ fetch' = NoFetch
    /\ UNCHANGED <<currentUser, root, loaded, tab, presented, draftVars,
                   instaUser, flow, serverVars>>

AssignInstaUser ==
    /\ fetch.stage = "assign"
    /\ instaUser' = fetch.user
    /\ fetch' = NoFetch
    /\ UNCHANGED <<currentUser, root, loaded, tab, presented, draftVars, flow,
                   serverVars>>

\* The controller's own view is on screen and takes touches.
Touchable == Shown /\ loaded /\ tab = 1 /\ presented = "none"

EditCaption(c) ==
    /\ Touchable
    /\ captionText' = c
    /\ UNCHANGED <<currentUser, root, loaded, tab, presented, selectedImage,
                   nextEnabled, authorVars, flow, serverVars>>

\* Mutant of CancelButtonPressed: it also throws the picture away.
CancelClearsDraft ==
    /\ Touchable
    /\ tab' = 0
    /\ selectedImage' = Nil
    /\ nextEnabled' = FALSE
    /\ UNCHANGED <<currentUser, root, loaded, presented, captionText,
                   authorVars, flow, serverVars>>

CancelButtonPressed ==
    /\ Touchable
    /\ tab' = 0
    /\ UNCHANGED <<currentUser, root, loaded, presented, draftVars,
                   authorVars, flow, serverVars>>

\* galleryButtonPressed and cameraButtonPressed: an action sheet, whose one
\* action presents the image picker.
PhotoButtonPressed ==
    /\ Touchable
    /\ presented' = "sheet"
    /\ UNCHANGED <<currentUser, root, loaded, tab, draftVars, authorVars,
                   flow, serverVars>>

SheetAnswered(choice) ==
    /\ presented = "sheet"
    /\ presented' = choice
    /\ UNCHANGED <<currentUser, root, loaded, tab, draftVars, authorVars,
                   flow, serverVars>>

\* A picker that is cancelled, or an alert that is confirmed, goes away.
PresentedDismissed ==
    /\ presented \in {"picker", "alert"}
    /\ presented' = "none"
    /\ UNCHANGED <<currentUser, root, loaded, tab, draftVars, authorVars,
                   flow, serverVars>>

DidFinishPicking(i) ==
    /\ presented = "picker"
    /\ selectedImage' = i
    /\ nextEnabled' = TRUE
    /\ presented' = "none"
    /\ UNCHANGED <<currentUser, root, loaded, tab, captionText, authorVars,
                   flow, serverVars>>

-----------------------------------------------------------------------------
(* The posting chain *)

\* nextButtonPressed with an image and a caption; otherwise it returns. The
\* button stays enabled and the draft stays in place while the chain runs.
NextButtonPressed(p) ==
    /\ Touchable
    /\ nextEnabled
    /\ selectedImage # Nil /\ captionText # Nil
    /\ flow[p].stage = "none"
    /\ flow' = [flow EXCEPT ![p] =
           [stage |-> "createPost", image |-> selectedImage,
            caption |-> captionText, author |-> instaUser,
            owner |-> currentUser, live |-> TRUE]]
    /\ UNCHANGED <<currentUser, root, loaded, tab, presented, draftVars,
                   authorVars, serverVars>>

\* Mutant of CreatePostAcknowledged: the author is read when the write is sent.
CreatePostReadsAuthor(p, encoded) ==
    /\ Running
    /\ flow[p].stage = "createPost"
    /\ currentUser = flow[p].owner
    /\ posts' = [posts EXCEPT ![p] =
           [author |-> instaUser, caption |-> flow[p].caption,
            photoURL |-> Nil]]
    /\ IF flow[p].live
       THEN /\ Advance(p, IF encoded THEN "putData" ELSE "ended")
            /\ tab' = 0
       ELSE /\ Advance(p, "ended")
            /\ UNCHANGED tab
    /\ UNCHANGED <<currentUser, root, loaded, presented, draftVars,
                   authorVars, stored>>

\* Firestore sends and answers a write only while its owner is signed in.
\* The callback starts the upload, or nothing when the image cannot be encoded
\* as JPEG, and returns to the feed.
CreatePostAcknowledged(p, encoded) ==
    /\ Running
    /\ flow[p].stage = "createPost"
    /\ currentUser = flow[p].owner
    /\ posts' = [posts EXCEPT ![p] =
           [author |-> flow[p].author, caption |-> flow[p].caption,
            photoURL |-> Nil]]
    /\ IF flow[p].live
       THEN /\ Advance(p, IF encoded THEN "putData" ELSE "ended")
            /\ tab' = 0
       ELSE /\ Advance(p, "ended")
            /\ UNCHANGED tab
    /\ UNCHANGED <<currentUser, root, loaded, presented, draftVars,
                   authorVars, stored>>

WriteRejected(p) ==
    /\ Running
    /\ flow[p].stage \in {"createPost", "updateData"}
    /\ currentUser = flow[p].owner
    /\ Advance(p, "alert")
    /\ UNCHANGED <<currentUser, root, loaded, tab, presented, draftVars,
                   authorVars, serverVars>>

\* Mutant of PutDataSucceeds: it uploads the picture selected by then.
PutDataReadsDraft(p) ==
    /\ Running
    /\ flow[p].stage = "putData"
    /\ stored' = [stored EXCEPT ![PhotoReference(p)] = selectedImage]
    /\ Advance(p, "downloadURL")
    /\ UNCHANGED <<currentUser, root, loaded, tab, presented, draftVars,
                   authorVars, posts>>

PutDataSucceeds(p) ==
    /\ Running
    /\ flow[p].stage = "putData"
    /\ stored' = [stored EXCEPT ![PhotoReference(p)] = flow[p].image]
    /\ Advance(p, "downloadURL")
    /\ UNCHANGED <<currentUser, root, loaded, tab, presented, draftVars,
                   authorVars, posts>>

\* Mutant of PutDataFails: the error is not looked at.
PutDataErrorIgnored(p) ==
    /\ Running
    /\ flow[p].stage = "putData"
    /\ stored' \in {stored, [stored EXCEPT ![PhotoReference(p)] = flow[p].image]}
    /\ Advance(p, "downloadURL")
    /\ UNCHANGED <<currentUser, root, loaded, tab, presented, draftVars,
                   authorVars, posts>>

\* The upload fails, or succeeds and its answer is lost.
PutDataFails(p) ==
    /\ Running
    /\ flow[p].stage = "putData"
    /\ stored' \in {stored, [stored EXCEPT ![PhotoReference(p)] = flow[p].image]}
    /\ Advance(p, "alert")
    /\ UNCHANGED <<currentUser, root, loaded, tab, presented, draftVars,
                   authorVars, posts>>

\* Mutant of DownloadURLSucceeds: the closure captures self strongly.
DownloadURLKeepsSelf(p) ==
    /\ Running
    /\ flow[p].stage = "downloadURL"
    /\ flow' = [flow EXCEPT ![p].stage = "updateData",
                            ![p].owner = currentUser]
    /\ UNCHANGED <<currentUser, root, loaded, tab, presented, draftVars,
                   authorVars, serverVars>>

\* self?.updateImageURL: without the controller the chain stops here.
DownloadURLSucceeds(p) ==
    /\ Running
    /\ flow[p].stage = "downloadURL"
    /\ IF flow[p].live
       THEN flow' = [flow EXCEPT ![p].stage = "updateData",
                                 ![p].owner = currentUser]
       ELSE Advance(p, "ended")
    /\ UNCHANGED <<currentUser, root, loaded, tab, presented, draftVars,
                   authorVars, serverVars>>

DownloadURLFails(p) ==
    /\ Running
    /\ flow[p].stage = "downloadURL"
    /\ Advance(p, "alert")
    /\ UNCHANGED <<currentUser, root, loaded, tab, presented, draftVars,
                   authorVars, serverVars>>

\* updateData needs an existing document.
UpdateImageURLAcknowledged(p) ==
    /\ Running
    /\ flow[p].stage = "updateData"
    /\ currentUser = flow[p].owner
    /\ posts[p] # Nil
    /\ posts' = [posts EXCEPT ![p].photoURL = PhotoReference(p)]
    /\ Advance(p, "finish")
    /\ UNCHANGED <<currentUser, root, loaded, tab, presented, draftVars,
                   authorVars, stored>>

\* On the main queue: dismiss what is presented, clear whatever draft is there.
ClearDraft(p) ==
    /\ Running
    /\ flow[p].stage = "finish"
    /\ Advance(p, "ended")
    /\ IF flow[p].live
       THEN /\ presented' = "none"
            /\ selectedImage' = Nil
            /\ nextEnabled' = FALSE
            /\ captionText' = Nil
       ELSE UNCHANGED <<presented, draftVars>>
    /\ UNCHANGED <<currentUser, root, loaded, tab, authorVars, serverVars>>

\* Mutant of ShowPostAlert: the alert waits until it can be presented.
PostAlertWaits(p) ==
    /\ Running
    /\ flow[p].stage = "alert"
    /\ flow[p].live /\ Touchable
    /\ Advance(p, "ended")
    /\ presented' = "alert"
    /\ UNCHANGED <<currentUser, root, loaded, tab, draftVars, authorVars,
                   serverVars>>

\* On the main queue: self?.showAlert. UIKit refuses to present on a view that
\* is not in the window or whose controller already presents something.
ShowPostAlert(p) ==
    /\ Running
    /\ flow[p].stage = "alert"
    /\ Advance(p, "ended")
    /\ presented' = IF flow[p].live /\ Touchable THEN "alert" ELSE presented
    /\ UNCHANGED <<currentUser, root, loaded, tab, draftVars, authorVars,
                   serverVars>>

-----------------------------------------------------------------------------

Session ==
    \/ \E u \in Users : SignedIn(u)
    \/ SceneWillConnect
    \/ NavigateToInstagram
    \/ SignedOut
    \/ Kill

Screen ==
    \/ \E i \in {0, 1, 2} : SelectTab(i)
    \/ \E c \in Captions \cup {Nil} : EditCaption(c)
    \/ CancelButtonPressed
    \/ PhotoButtonPressed
    \/ \E choice \in {"none", "picker"} : SheetAnswered(choice)
    \/ PresentedDismissed
    \/ \E i \in Images : DidFinishPicking(i)
    \/ \E p \in PostIds : NextButtonPressed(p)

FetchReply ==
    \/ \E found \in BOOLEAN : GetDocumentReturns(found)
    \/ GetDocumentFails

WriteReply(p) ==
    \/ \E encoded \in BOOLEAN : CreatePostAcknowledged(p, encoded)
    \/ UpdateImageURLAcknowledged(p)
    \/ WriteRejected(p)

StorageReply(p) ==
    \/ PutDataSucceeds(p) \/ PutDataFails(p)
    \/ DownloadURLSucceeds(p) \/ DownloadURLFails(p)

MainQueue(p) == ClearDraft(p) \/ ShowPostAlert(p)

Controller ==
    \/ Screen
    \/ FetchReply
    \/ AssignInstaUser
    \/ \E p \in PostIds : WriteReply(p) \/ StorageReply(p) \/ MainQueue(p)

Next == Session \/ Controller

Spec == Init /\ [][Next]_postingVars

-----------------------------------------------------------------------------
(* Properties *)

HasPhoto(p) == posts[p] # Nil /\ posts[p].photoURL # Nil

(***************************************************************************)
(* A photoURL in a post names the object uploaded for that very post, the  *)
(* object is there, and it is the picture that was selected when Next was  *)
(* pressed, whatever the user has picked, posted or cancelled since.       *)
(***************************************************************************)
PhotoMatchesPost ==
    \A p \in PostIds :
        HasPhoto(p) => /\ posts[p].photoURL = PhotoReference(p)
                       /\ stored[posts[p].photoURL] = flow[p].image

(***************************************************************************)
(* The two services agree with the stage of the chain that writes to them: *)
(* the document of a post exists before its upload starts and repeats the  *)
(* submitted author and caption, the object is in place before its URL is  *)
(* asked for, and the photoURL is written last. It makes PhotoMatchesPost  *)
(* inductive.                                                              *)
(***************************************************************************)
ServicesMatchChain ==
    \A p \in PostIds :
        /\ flow[p].stage # "none" =>
              flow[p].image \in Images /\ flow[p].caption \in Captions
        /\ flow[p].stage \in {"none", "createPost"} => posts[p] = Nil
        /\ flow[p].stage \in {"putData", "downloadURL", "updateData"} =>
              posts[p] # Nil /\ posts[p].photoURL = Nil
        /\ flow[p].stage \in {"downloadURL", "updateData"} =>
              stored[PhotoReference(p)] = flow[p].image
        /\ flow[p].stage = "finish" => HasPhoto(p)
        /\ posts[p] # Nil => /\ posts[p].author = flow[p].author
                            /\ posts[p].caption = flow[p].caption

\* The controller that submitted p is gone, and no write of a URL is pending.
Stranded(p) ==
    /\ ~flow[p].live
    /\ flow[p].stage \notin {"none", "updateData"}
    /\ ~HasPhoto(p)

(***************************************************************************)
(* Once the controller that submitted a post is gone, by Sign Out or by    *)
(* the death of the process, the post gets its photoURL only if the write  *)
(* of the URL was already pending; otherwise it stays without forever,     *)
(* because the rest of the chain goes through the weak self.               *)
(***************************************************************************)
StrandedPostStaysPhotoless ==
    [][\A p \in PostIds : Stranded(p) => Stranded(p)']_postingVars

(***************************************************************************)
(* While the controller lives, a picked image is dropped only by a step    *)
(* that ends a chain of this very controller whose post is stored complete *)
(* with its photo: the failure of this or another chain, Cancel or another *)
(* tab never costs the user the draft. Nothing ties the image dropped to   *)
(* the post: ClearDraft drops the draft that is there by then, which may   *)
(* be one picked while the chain ran.                                      *)
(***************************************************************************)
DraftSurvivesFailure ==
    [][(Shown /\ Shown' /\ selectedImage # Nil /\ selectedImage' = Nil) =>
          \E p \in PostIds : /\ flow[p].live /\ HasPhoto(p)
                             /\ flow[p].stage = "finish"
                             /\ flow'[p].stage = "ended"]_postingVars

(***************************************************************************)
(* Every submitted post comes to an end, unless no process is running or a *)
(* pending write waits in the mutation queue of a user who is not signed   *)
(* in. This includes chains whose controller is gone.                      *)
(***************************************************************************)
PostResolves ==
    \A p \in PostIds :
        (flow[p].stage # "none") ~>
            \/ flow[p].stage = "ended"
            \/ ~Running
            \/ /\ flow[p].stage \in {"createPost", "updateData"}
               /\ currentUser # flow[p].owner

\* The draft post p was submitted with, and p as a reader of the feed gets it.
SubmittedDraft(p) ==
    IF flow[p].stage = "none" THEN Nil
    ELSE [author |-> flow[p].author, caption |-> flow[p].caption,
          image |-> flow[p].image]

VisiblePost(p) ==
    IF posts[p] = Nil THEN Nil
    ELSE [author |-> posts[p].author, caption |-> posts[p].caption,
          photo |-> IF HasPhoto(p) THEN stored[posts[p].photoURL] ELSE Nil]

Pub == INSTANCE Publication WITH
    Authors <- MaybeUser,
    submitted <- [p \in PostIds |-> SubmittedDraft(p)],
    board <- [p \in PostIds |-> VisiblePost(p)]

(***************************************************************************)
(* The chain of callbacks implements Publication: what the feed shows of a *)
(* post is always one submitted draft, first without and then with its own *)
(* picture, across sign-outs, failures and restarts.                       *)
(***************************************************************************)
PublishesDrafts == Pub!Spec

=============================================================================
