------------------------------ MODULE Profile ------------------------------
(***************************************************************************)
(* The profile tab and the screen that edits it: ProfileViewController and *)
(* EditProfileViewController with DatabaseService.updateUserInfo and       *)
(* fetchCurrentUser, StorageService.uploadPhoto for profile pictures, and  *)
(* the profile change request of Firebase Auth.                            *)
(*                                                                         *)
(* Done starts two chains that know nothing of each other. save[s] holds   *)
(* both: text is the write of the text fields, pic the upload of the       *)
(* picture and its commit to the account. The text chain keeps its screen  *)
(* alive (its closures capture self strongly), the picture chain does not. *)
(*                                                                         *)
(* The session is this module's environment, as in Posting.                *)
(***************************************************************************)

CONSTANTS
    Users,      \* accounts (uids)
    Infos,      \* user name, bio and full name, none of them empty
    DefaultInfo,\* "no username", "no bio", "no name" of InstagramUser.init
    Blank,      \* texts of which at least one is empty
    Unset,      \* a document that has none of the three fields yet
    Pictures,   \* pictures the user can pick
    Editors,    \* EditProfileViewController objects alive at once
    Saves,      \* presses of Done in flight at once
    NoUser, Nil

ASSUME ProfileAssumption ==
    /\ NoUser \notin Users /\ Nil \notin Users
    /\ DefaultInfo \in Infos
    /\ {Blank, Unset, Nil} \cap Infos = {}
    /\ Blank # Unset /\ Nil \notin {Blank, Unset}
    /\ Nil \notin Pictures /\ Nil \notin Editors

VARIABLES
    currentUser,    \* Auth.auth().currentUser
    root,           \* window.rootViewController; "none": no process is running
    info,           \* the text fields of each document in "users", Nil if none
    profilePhoto,   \* the objects UserProfilePhotos/<uid>.jpg
    photoURL,       \* the photoURL of each account: whose object it names
    loaded,         \* the profile controller's viewDidLoad has run
    tab,            \* tabBarController.selectedIndex
    instaUser,      \* the texts of the fetched user, Nil before
    fetch,          \* fetchCurrentUser in flight
    preview,        \* a picture picked on the profile screen and shown there
    presented,      \* what the profile screen presents
    editor,         \* the screen presented when presented = "editor"
    save            \* the presses of Done

servers == <<info, profilePhoto, photoURL>>
cached == <<instaUser, fetch>>
tabVars == <<loaded, tab, cached, preview>>
screens == <<presented, editor>>
quietVars == <<currentUser, root, servers, tabVars>>
profileVars == <<quietVars, screens, save>>

LoginScreen == "LoginViewController"
InstagramScreen == "Instagram"
Running == root # "none"

Texts == Infos \cup {Blank}
MaybeUser == Users \cup {NoUser}

\* over: what the editor presents on top of itself.
EditorRecord ==
    [id: Editors \cup {Nil}, text: Texts, picture: Pictures \cup {Nil},
     over: {"none", "sheet", "picker", "alert"}]

NoEditor == [id |-> Nil, text |-> Blank, picture |-> Nil, over |-> "none"]

\* editor: the screen that started the chains, Nil after a restart;
\* ahead: the writes queued before this one, which Firestore sends in order;
\* committer: the user whose change request was made; captured: the request's
\* closure, or the alert it queued, holds that screen, unowned.
SaveRecord ==
    [text: {"none", "updateData", "alert"},
     pic: {"none", "putData", "downloadURL", "commit", "alert"},
     editor: Editors \cup {Nil}, user: MaybeUser, newText: Texts,
     ahead: SUBSET Saves, picture: Pictures \cup {Nil},
     committer: MaybeUser, captured: BOOLEAN]

NoSave == [text |-> "none", pic |-> "none", editor |-> Nil, user |-> NoUser,
           newText |-> Blank, ahead |-> {}, picture |-> Nil,
           committer |-> NoUser, captured |-> FALSE]

FetchRecord ==
    [stage: {"none", "getDocument", "assign"}, user: MaybeUser, text: Texts]

NoFetch == [stage |-> "none", user |-> NoUser, text |-> Blank]

(***************************************************************************)
(* The type of every variable.                                             *)
(***************************************************************************)
ProfileTypeOK ==
    /\ currentUser \in MaybeUser
    /\ root \in {"none", LoginScreen, InstagramScreen}
    /\ info \in [Users -> Infos \cup {Unset, Nil}]
    /\ profilePhoto \in [Users -> Pictures \cup {Nil}]
    /\ photoURL \in [Users -> Users \cup {Nil}]
    /\ loaded \in BOOLEAN
    /\ tab \in {0, 1, 2}
    /\ instaUser \in Texts \cup {Nil}
    /\ fetch \in FetchRecord
    /\ fetch.stage = "getDocument" => fetch.user \in Users
    /\ preview \in Pictures \cup {Nil}
    /\ presented \in {"none", "sheet", "picker", "alert", "editor"}
    /\ editor \in EditorRecord
    /\ save \in [Saves -> SaveRecord]

Init ==
    /\ currentUser = NoUser
    /\ root = "none"
    /\ info = [u \in Users |-> Nil]
    /\ profilePhoto = [u \in Users |-> Nil]
    /\ photoURL = [u \in Users |-> Nil]
    /\ loaded = FALSE
    /\ tab = 0
    /\ instaUser = Nil
    /\ fetch = NoFetch
    /\ preview = Nil
    /\ presented = "none"
    /\ editor = NoEditor
    /\ save = [s \in Saves |-> NoSave]

Idle(s) == save[s].text = "none" /\ save[s].pic = "none"

\* The writes of user u that Firestore still holds in its queue.
Pending(u) ==
    {s \in Saves : save[s].text = "updateData" /\ save[s].user = u}

\* Screen e exists: it is presented, or a text chain it started holds it.
Exists(e) ==
    \/ editor.id = e
    \/ \E s \in Saves : save[s].editor = e /\ save[s].text # "none"

-----------------------------------------------------------------------------
(* The environment: window, session, process, sign-up *)

\* Mutant of TabBarReleased: what it presents stays.
TabBarLeaksScreens ==
    /\ loaded' = FALSE
    /\ tab' = 0
    /\ instaUser' = Nil
    /\ fetch' = NoFetch
    /\ preview' = Nil
    /\ UNCHANGED <<presented, editor>>

\* The tab bar goes away and takes what it presents with it.
TabBarReleased ==
    /\ loaded' = FALSE
    /\ tab' = 0
    /\ instaUser' = Nil
    /\ fetch' = NoFetch
    /\ preview' = Nil
    /\ presented' = "none"
    /\ editor' = NoEditor

SceneWillConnect ==
    /\ ~Running
    /\ root' = IF currentUser # NoUser THEN InstagramScreen ELSE LoginScreen
    /\ UNCHANGED <<currentUser, servers, tabVars, screens, save>>

\* A reply of Firebase Auth installs a user, even while the tab bar is shown.
SignedIn(u) ==
    /\ Running
    /\ currentUser' = u
    /\ UNCHANGED <<root, servers, tabVars, screens, save>>

NavigateToInstagram ==
    /\ root = LoginScreen
    /\ currentUser # NoUser
    /\ root' = InstagramScreen
    /\ UNCHANGED <<currentUser, servers, tabVars, screens, save>>

\* createDatabaseUser stores a document without the three text fields.
DatabaseUserCreated(u) ==
    /\ info[u] = Nil
    /\ info' = [info EXCEPT ![u] = Unset]
    /\ UNCHANGED <<currentUser, root, profilePhoto, photoURL, tabVars, screens, save>>

\* What the death of the process leaves: a text write that is on disk.
Survives(v) ==
    IF v.text = "updateData"
    THEN [NoSave EXCEPT !.text = "updateData", !.user = v.user,
                        !.newText = v.newText, !.ahead = v.ahead]
    ELSE NoSave

Died ==
    /\ root' = "none"
    /\ TabBarReleased
    /\ save' = [s \in Saves |-> Survives(save[s])]

\* The process is killed; whether an upload on its way arrived is open.
Kill ==
    /\ Running
    /\ Died
    /\ \/ UNCHANGED profilePhoto
       \/ \E s \in Saves :
             /\ save[s].pic = "putData"
             /\ profilePhoto' =
                    [profilePhoto EXCEPT ![save[s].user] = save[s].picture]
    /\ UNCHANGED <<currentUser, info, photoURL>>

-----------------------------------------------------------------------------
(* ProfileViewController *)

\* The first visit of the third tab fetches the user, once. Every visit shows
\* the account's picture again (updateUI in viewWillAppear).
SelectTab(i) ==
    /\ root = InstagramScreen /\ presented = "none"
    /\ tab' = i
    /\ preview' = IF i = 2 /\ tab # 2 /\ currentUser # NoUser
                  THEN Nil ELSE preview
    /\ IF i = 2 /\ ~loaded
       THEN /\ loaded' = TRUE
            /\ fetch' = IF currentUser = NoUser
                        THEN fetch
                        ELSE [NoFetch EXCEPT !.stage = "getDocument",
                                             !.user = currentUser]
       ELSE UNCHANGED <<loaded, fetch>>
    /\ UNCHANGED <<currentUser, root, servers, instaUser, screens, save>>

\* What getDocument can yield: a queued write shows through, a document
\* without the text fields gives the defaults of InstagramUser, a missing one
\* the blank user, or the defaults while its creation is queued.
FetchedTexts(u) ==
    CASE info[u] = Nil -> {Blank, DefaultInfo}
      [] info[u] # Nil /\ Pending(u) # {} ->
            {save[s].newText : s \in
                {s \in Pending(u) : \A w \in Pending(u) : s \notin save[w].ahead}}
      [] info[u] = Unset /\ Pending(u) = {} -> {DefaultInfo}
      [] OTHER -> {info[u]}

GetDocumentReturns ==
    /\ fetch.stage = "getDocument"
    /\ \/ \E t \in FetchedTexts(fetch.user) :
             fetch' = [NoFetch EXCEPT !.stage = "assign", !.text = t]
       \/ fetch' = NoFetch      \* an error is only printed
    /\ UNCHANGED <<currentUser, root, servers, loaded, tab, instaUser, preview, screens, save>>

\* On the main queue; the didSet observer of instaUser runs updateUI.
AssignInstaUser ==
    /\ fetch.stage = "assign"
    /\ instaUser' = fetch.text
    /\ fetch' = NoFetch
    /\ preview' = IF currentUser # NoUser THEN Nil ELSE preview
    /\ UNCHANGED <<currentUser, root, servers, loaded, tab, screens, save>>

\* showAlert on the profile screen; UIKit refuses it when the screen presents
\* something already.
ProfileAlert == presented' = IF presented = "none" THEN "alert" ELSE presented

\* The listener on "posts" also runs updateUI.
PostsChanged ==
    /\ loaded /\ tab = 2
    /\ currentUser # NoUser
    /\ preview' = Nil
    /\ UNCHANGED <<currentUser, root, servers, loaded, tab, cached, screens, save>>

PostsListenerFails ==
    /\ loaded /\ tab = 2
    /\ ProfileAlert
    /\ UNCHANGED <<quietVars, editor, save>>

Touchable == root = InstagramScreen /\ loaded /\ tab = 2 /\ presented = "none"

\* The chains live on without the controllers of the tab bar.
SignOutButtonPressed ==
    /\ Touchable
    /\ currentUser' = NoUser
    /\ root' = LoginScreen
    /\ TabBarReleased
    /\ UNCHANGED <<servers, save>>

SignOutThrows ==
    /\ Touchable
    /\ ProfileAlert
    /\ UNCHANGED <<quietVars, editor, save>>

\* editProfilePictureButtonPressed: an action sheet, then the image picker.
PictureButtonPressed ==
    /\ Touchable
    /\ presented' = "sheet"
    /\ UNCHANGED <<quietVars, editor, save>>

PresentedAnswered ==
    /\ \/ presented = "sheet" /\ presented' \in {"picker", "none"}
       \/ presented \in {"picker", "alert"} /\ presented' = "none"
    /\ UNCHANGED <<quietVars, editor, save>>

\* The picked picture is shown, and nothing else is done with it.
DidFinishPicking(q) ==
    /\ presented = "picker"
    /\ preview' = q
    /\ presented' = "none"
    /\ UNCHANGED <<currentUser, root, servers, loaded, tab, cached, editor, save>>

\* EditProfileViewController(coder:, user: self.instaUser!)
EditButtonPressed(e) ==
    /\ Touchable
    /\ IF instaUser = Nil
       THEN Died
       ELSE /\ \A s \in Saves : save[s].editor # e   \* a new object
            /\ presented' = "editor"
            /\ editor' = [id |-> e, picture |-> Nil, over |-> "none",
                          text |-> IF currentUser = NoUser
                                   THEN Blank ELSE instaUser]
            /\ UNCHANGED <<root, tabVars, save>>
    /\ UNCHANGED <<currentUser, servers>>

-----------------------------------------------------------------------------
(* EditProfileViewController *)

\* The editor takes touches: nothing is presented on top of it.
EditorTouchable == editor.id # Nil /\ editor.over = "none"

EditTextFields(t) ==
    /\ EditorTouchable
    /\ editor' = [editor EXCEPT !.text = t]
    /\ UNCHANGED <<quietVars, presented, save>>

\* changeProfilePictureButton: an action sheet, then the image picker.
ChangePicture ==
    /\ EditorTouchable
    /\ editor' = [editor EXCEPT !.over = "sheet"]
    /\ UNCHANGED <<quietVars, presented, save>>

OverAnswered ==
    /\ \/ /\ editor.over = "sheet"
          /\ \E next \in {"picker", "none"} :
                editor' = [editor EXCEPT !.over = next]
       \/ /\ editor.over \in {"picker", "alert"}
          /\ editor' = [editor EXCEPT !.over = "none"]
    /\ UNCHANGED <<quietVars, presented, save>>

EditorPicks(q) ==
    /\ editor.over = "picker"
    /\ editor' = [editor EXCEPT !.picture = q, !.over = "none"]
    /\ UNCHANGED <<quietVars, presented, save>>

\* The Cancel button, or a swipe that pulls the sheet down.
CancelButtonPressed ==
    /\ EditorTouchable
    /\ presented' = "none"
    /\ editor' = NoEditor
    /\ UNCHANGED <<quietVars, save>>

\* Mutant of DoneButtonPressed: the fields are checked after the writes began.
DoneChecksTextsLast(s, encoded) ==
    /\ EditorTouchable
    /\ currentUser # NoUser
    /\ Idle(s)
    /\ save' = [save EXCEPT ![s] =
           [NoSave EXCEPT
               !.text = "updateData",
               !.pic = IF editor.picture # Nil /\ encoded
                       THEN "putData" ELSE "none",
               !.editor = editor.id, !.user = currentUser,
               !.newText = editor.text, !.ahead = Pending(currentUser),
               !.picture = IF encoded THEN editor.picture ELSE Nil]]
    /\ editor' = [editor EXCEPT
           !.over = IF editor.text = Blank THEN "alert" ELSE @]
    /\ UNCHANGED <<quietVars, presented>>

\* doneButtonPressed: the alert for an empty field, nothing without a user, or
\* the two chains; the first is skipped without a picked picture and ends at
\* once when the picture cannot be encoded.
DoneButtonPressed(s, encoded) ==
    /\ EditorTouchable
    /\ IF editor.text = Blank
       THEN editor' = [editor EXCEPT !.over = "alert"] /\ UNCHANGED save
       ELSE /\ currentUser # NoUser
            /\ Idle(s)
            /\ save' = [save EXCEPT ![s] =
                   [NoSave EXCEPT
                       !.text = "updateData",
                       !.pic = IF editor.picture # Nil /\ encoded
                               THEN "putData" ELSE "none",
                       !.editor = editor.id, !.user = currentUser,
                       !.newText = editor.text, !.ahead = Pending(currentUser),
                       !.picture = IF encoded THEN editor.picture ELSE Nil]]
            /\ UNCHANGED editor
    /\ UNCHANGED <<quietVars, presented>>

\* Mutant of Dismiss: the topmost screen is dismissed, whoever asks for it.
DismissTopmost(e) ==
    IF editor.over # "none"
    THEN /\ editor' = [editor EXCEPT !.over = "none"]
         /\ UNCHANGED presented
    ELSE presented' = "none" /\ editor' = NoEditor

\* self.dismiss in editor e: it dismisses what the editor presents, and only
\* if there is nothing the editor itself.
Dismiss(e) ==
    IF e # editor.id \/ e = Nil THEN UNCHANGED <<screens>>
    ELSE IF editor.over # "none"
         THEN /\ editor' = [editor EXCEPT !.over = "none"]
              /\ UNCHANGED presented
         ELSE presented' = "none" /\ editor' = NoEditor

\* showAlert in editor e: UIKit refuses it when the editor is not on screen,
\* presents something already, or something is still being dismissed.
ShowAlert(e) ==
    \/ UNCHANGED editor
    \/ /\ e = editor.id /\ EditorTouchable
       /\ editor' = [editor EXCEPT !.over = "alert"]

\* A save whose two chains are over forgets what it carried.
Kept(v) == IF v.text = "none" /\ v.pic = "none" THEN NoSave ELSE v

TextStage(s, stage) ==
    save' = [save EXCEPT ![s] = Kept([@ EXCEPT !.text = stage])]

PicStage(s, stage) ==
    save' = [save EXCEPT ![s] = Kept([@ EXCEPT !.pic = stage, !.picture = Nil])]

\* The write of save s leaves Firestore's queue. Its callback queues an alert;
\* after a restart there is no callback.
TextAnswered(s) ==
    save' = [w \in Saves |->
        IF w # s THEN [save[w] EXCEPT !.ahead = @ \ {s}]
        ELSE Kept([save[s] EXCEPT
                      !.text = IF save[s].editor = Nil THEN "none" ELSE "alert",
                      !.newText = Blank, !.ahead = {}])]

\* The owner is signed in and nothing of theirs is queued before it.
Sendable(s) ==
    /\ Running
    /\ save[s].text = "updateData"
    /\ currentUser = save[s].user
    /\ save[s].ahead = {}

\* updateData needs a document. The callback queues the alert and dismisses
\* at once.
UpdateUserInfoAcknowledged(s) ==
    /\ Sendable(s)
    /\ info[save[s].user] # Nil
    /\ info' = [info EXCEPT ![save[s].user] = save[s].newText]
    /\ Dismiss(save[s].editor)
    /\ TextAnswered(s)
    /\ UNCHANGED <<currentUser, root, profilePhoto, photoURL, tabVars>>

UpdateUserInfoRejected(s) ==
    /\ Sendable(s)
    /\ TextAnswered(s)
    /\ UNCHANGED <<quietVars, screens>>

ShowTextAlert(s) ==
    /\ save[s].text = "alert"
    /\ ShowAlert(save[s].editor)
    /\ TextStage(s, "none")
    /\ UNCHANGED <<quietVars, presented>>

PutDataSucceeds(s) ==
    /\ save[s].pic = "putData"
    /\ profilePhoto' = [profilePhoto EXCEPT ![save[s].user] = save[s].picture]
    /\ PicStage(s, "downloadURL")
    /\ UNCHANGED <<currentUser, root, info, photoURL, tabVars, screens>>

\* Mutant of PutDataFails: the error is ignored and the URL requested.
PutDataErrorIgnored(s) ==
    /\ save[s].pic = "putData"
    /\ UNCHANGED profilePhoto
    /\ PicStage(s, "downloadURL")
    /\ UNCHANGED <<currentUser, root, info, photoURL, tabVars, screens>>

\* The upload fails, or succeeds and its answer is lost.
PutDataFails(s) ==
    /\ save[s].pic = "putData"
    /\ \/ UNCHANGED profilePhoto
       \/ profilePhoto' =
              [profilePhoto EXCEPT ![save[s].user] = save[s].picture]
    /\ PicStage(s, "alert")
    /\ UNCHANGED <<currentUser, root, info, photoURL, tabVars, screens>>

\* Auth.auth().currentUser?.createProfileChangeRequest() and commitChanges,
\* for whoever is signed in now, whether or not the screen still exists.
DownloadURLSucceeds(s) ==
    /\ save[s].pic = "downloadURL"
    /\ IF currentUser = NoUser
       THEN PicStage(s, "none")
       ELSE save' = [save EXCEPT ![s] =
                [@ EXCEPT !.pic = "commit", !.committer = currentUser,
                          !.captured = Exists(save[s].editor)]]
    /\ UNCHANGED <<quietVars, screens>>

DownloadURLFails(s) ==
    /\ save[s].pic = "downloadURL"
    /\ PicStage(s, "alert")
    /\ UNCHANGED <<quietVars, screens>>

\* The closure of commitChanges holds its screen unowned, and that screen is
\* gone: the process dies when the closure, or the block it queues, reads self.
UnownedSelfGone(s) == save[s].captured /\ ~Exists(save[s].editor)

\* Queueing the block for the main queue reads self.
CommitCallback(s) ==
    IF UnownedSelfGone(s)
    THEN Died
    ELSE /\ PicStage(s, IF save[s].captured THEN "alert" ELSE "none")
         /\ UNCHANGED <<root, tabVars, screens>>

CommitSucceeds(s) ==
    /\ save[s].pic = "commit"
    /\ photoURL' = [photoURL EXCEPT ![save[s].committer] = save[s].user]
    /\ CommitCallback(s)
    /\ UNCHANGED <<currentUser, info, profilePhoto>>

\* The commit fails, or succeeds and its answer is lost.
CommitFails(s) ==
    /\ save[s].pic = "commit"
    /\ \/ UNCHANGED photoURL
       \/ photoURL' = [photoURL EXCEPT ![save[s].committer] = save[s].user]
    /\ CommitCallback(s)
    /\ UNCHANGED <<currentUser, info, profilePhoto>>

\* Mutant of ShowPictureAlert: it waits until its screen can present it.
PictureAlertWaits(s) ==
    /\ save[s].pic = "alert"
    /\ save[s].editor = editor.id /\ EditorTouchable
    /\ editor' = [editor EXCEPT !.over = "alert"]
    /\ PicStage(s, "none")
    /\ UNCHANGED <<quietVars, presented>>

\* The alert of a failed upload holds its screen weakly, that of a commit
\* holds it unowned.
ShowPictureAlert(s) ==
    /\ save[s].pic = "alert"
    /\ IF UnownedSelfGone(s)
       THEN Died
       ELSE /\ ShowAlert(save[s].editor)
            /\ PicStage(s, "none")
            /\ UNCHANGED <<root, tabVars, presented>>
    /\ UNCHANGED <<currentUser, servers>>

-----------------------------------------------------------------------------

Session ==
    \/ SceneWillConnect
    \/ \E u \in Users : SignedIn(u) \/ DatabaseUserCreated(u)
    \/ NavigateToInstagram
    \/ Kill

ProfileScreen ==
    \/ \E i \in {0, 1, 2} : SelectTab(i)
    \/ GetDocumentReturns
    \/ AssignInstaUser
    \/ PostsChanged
    \/ PostsListenerFails
    \/ SignOutButtonPressed
    \/ SignOutThrows
    \/ PictureButtonPressed
    \/ PresentedAnswered
    \/ \E q \in Pictures : DidFinishPicking(q)
    \/ \E e \in Editors : EditButtonPressed(e)

EditScreen ==
    \/ \E t \in Texts : EditTextFields(t)
    \/ ChangePicture
    \/ OverAnswered
    \/ \E q \in Pictures : EditorPicks(q)
    \/ CancelButtonPressed
    \/ \E s \in Saves, encoded \in BOOLEAN : DoneButtonPressed(s, encoded)

TextReply(s) ==
    \/ UpdateUserInfoAcknowledged(s)
    \/ UpdateUserInfoRejected(s)
    \/ ShowTextAlert(s)

PictureReply(s) ==
    \/ PutDataSucceeds(s) \/ PutDataFails(s)
    \/ DownloadURLSucceeds(s) \/ DownloadURLFails(s)
    \/ CommitSucceeds(s) \/ CommitFails(s)
    \/ ShowPictureAlert(s)

Next ==
    \/ Session \/ ProfileScreen \/ EditScreen
    \/ \E s \in Saves : TextReply(s) \/ PictureReply(s)

Spec == Init /\ [][Next]_profileVars

\* Calls are answered or time out, a write that can be sent is eventually
\* answered, and the main queue runs every block.
Fairness ==
    \A s \in Saves :
        WF_profileVars(TextReply(s)) /\ WF_profileVars(PictureReply(s))

FairSpec == Spec /\ Fairness

-----------------------------------------------------------------------------
(* What holds *)

\* Whatever photoURL an account shows, an object is stored under it: although
\* the upload, the URL request and the commit are three calls, of which any
\* may fail, be outlived by its screen, or overlap with another press of Done
\* (updateProfilePicture).
PhotoURLHasObject ==
    \A u \in Users : photoURL[u] # Nil => profilePhoto[photoURL[u]] # Nil

\* What PhotoURLHasObject rests on: a chain that is past its upload left an
\* object behind under the id of the user who pressed Done, and a queued write
\* carries texts that passed the check for empty fields (doneButtonPressed).
SavesMatchServices ==
    \A s \in Saves :
        /\ save[s].text = "updateData" =>
               save[s].user \in Users /\ save[s].newText \in Infos
        /\ save[s].pic = "putData" =>
               save[s].user \in Users /\ save[s].picture \in Pictures
        /\ save[s].pic \in {"downloadURL", "commit"} =>
               save[s].user \in Users /\ profilePhoto[save[s].user] # Nil

\* Nothing is presented by a profile screen that is not visible: sign-out, a
\* crash in a late callback and a change of tab leave no screen behind
\* (showViewController, viewDidDisappear).
PresentedOnProfile ==
    /\ loaded => root = InstagramScreen
    /\ presented # "none" => loaded /\ tab = 2
    /\ editor.id # Nil => presented = "editor"

\* The edit screen leaves a running tab bar only when the user cancels it, or
\* when the texts that very screen sent are in the database: not when a write
\* is rejected, and not when a late reply to an earlier screen dismisses
\* (updateUserInfo, dismiss).
EditsStayUntilSaved ==
    [][ \A e \in Editors :
            editor.id = e /\ editor'.id # e /\ root' = root =>
                \/ editor.over = "none" /\ UNCHANGED <<save, servers>>
                \/ \E s \in Saves :
                      /\ save[s].editor = e /\ save[s].text = "updateData"
                      /\ info'[save[s].user] = save[s].newText
      ]_profileVars

\* Every press of Done comes to an end: both chains are over, whatever became
\* of the screen, unless the process dies or the write waits for its owner to
\* sign in again.
DoneResolves ==
    \A s \in Saves :
        ~Idle(s) ~> \/ Idle(s) \/ ~Running
                    \/ save[s].text = "updateData" /\ currentUser # save[s].user

-----------------------------------------------------------------------------
(* What the code says of itself, and does not keep *)

\* [unowned self] in the completion of commitChanges (EditProfile 174) asserts
\* that the screen outlives the commit and the alert that follows (176-182).
UnownedEditorsExist ==
    \A s \in Saves :
        save[s].pic \in {"commit", "alert"} /\ save[s].captured =>
            Exists(save[s].editor)

=============================================================================
