--------------------------- MODULE ProfileProofs ---------------------------
(***************************************************************************)
(* Theorems about Profile, for any sets of accounts, texts, pictures,      *)
(* screens and presses of Done: the type invariant, that a picture URL     *)
(* names a stored object, that nothing is presented off the profile        *)
(* screen, and that an edit screen stays until its texts are saved.        *)
(*                                                                         *)
(* The invariant falls into two halves that hardly know each other: what   *)
(* is on screen (ScreensOK) and what the chains of Done and the services   *)
(* hold (ServicesOK). Most actions leave one of them alone. On top of it,  *)
(* the text writes of each user stand in one line (QueuesInOrder): some    *)
(* write is always first, and what getDocument reads is the last.          *)
(***************************************************************************)
EXTENDS Profile, FiniteSetTheorems, WellFoundedInduction, TLAPS

ScreensOK ==
    /\ currentUser \in MaybeUser
    /\ root \in {"none", LoginScreen, InstagramScreen}
    /\ loaded \in BOOLEAN
    /\ tab \in {0, 1, 2}
    /\ instaUser \in Texts \cup {Nil}
    /\ fetch \in FetchRecord
    /\ fetch.stage = "getDocument" => fetch.user \in Users
    /\ preview \in Pictures \cup {Nil}
    /\ presented \in {"none", "sheet", "picker", "alert", "editor"}
    /\ editor \in EditorRecord
    /\ PresentedOnProfile

ServicesOK ==
    /\ info \in [Users -> Infos \cup {Unset, Nil}]
    /\ profilePhoto \in [Users -> Pictures \cup {Nil}]
    /\ photoURL \in [Users -> Users \cup {Nil}]
    /\ save \in [Saves -> SaveRecord]
    /\ PhotoURLHasObject
    /\ SavesMatchServices

ProfileInv == ScreensOK /\ ServicesOK

LEMMA InvHalves ==
    ProfileInv <=> /\ ProfileTypeOK
                   /\ PhotoURLHasObject /\ SavesMatchServices
                   /\ PresentedOnProfile
  BY DEF ProfileInv, ScreensOK, ServicesOK, ProfileTypeOK

LEMMA InitialRecords ==
    /\ NoFetch \in FetchRecord /\ NoFetch.stage = "none"
    /\ NoEditor \in EditorRecord /\ NoEditor.id = Nil
    /\ NoSave \in SaveRecord /\ NoSave.text = "none" /\ NoSave.pic = "none"
    /\ NoUser \in MaybeUser
  BY DEF NoFetch, FetchRecord, NoEditor, EditorRecord, NoSave, SaveRecord,
         MaybeUser, Texts

(***************************************************************************)
(* The initial state satisfies the invariant.                              *)
(***************************************************************************)
LEMMA ProfileInit == Init => ProfileInv
<1> SUFFICES ASSUME Init
             PROVE  ProfileInv
    OBVIOUS
<1>1. ScreensOK
    BY InitialRecords
    DEF Init, ScreensOK, PresentedOnProfile, LoginScreen, InstagramScreen
<1>2. /\ save \in [Saves -> SaveRecord]
      /\ \A s \in Saves : save[s].text = "none" /\ save[s].pic = "none"
    BY InitialRecords DEF Init
<1>3. ServicesOK
    BY <1>2 DEF Init, ServicesOK, PhotoURLHasObject, SavesMatchServices
<1>4. QED
    BY <1>1, <1>3 DEF ProfileInv

-----------------------------------------------------------------------------
(* What is on screen *)

(***************************************************************************)
(* A released tab bar has nothing on screen.                               *)
(***************************************************************************)
LEMMA ReleasedScreens ==
    ASSUME TabBarReleased, currentUser' \in MaybeUser,
           root' \in {"none", LoginScreen, InstagramScreen}
    PROVE  ScreensOK'
<1>1. fetch' \in FetchRecord /\ fetch'.stage = "none"
    BY InitialRecords DEF TabBarReleased
<1>2. editor' \in EditorRecord /\ editor'.id = Nil
    BY InitialRecords DEF TabBarReleased
<1>3. QED
    BY <1>1, <1>2 DEF TabBarReleased, ScreensOK, PresentedOnProfile

(***************************************************************************)
(* The session and the profile screen.                                     *)
(***************************************************************************)
LEMMA FetchedTextsType ==
    ASSUME ServicesOK, NEW u \in Users
    PROVE  FetchedTexts(u) \subseteq Texts
<1>1. \A s \in Pending(u) : save[s].newText \in Texts
    BY DEF ServicesOK, Pending, SaveRecord
<1>2. info[u] \in Infos \cup {Unset, Nil}
    BY DEF ServicesOK
<1>3. {Blank, DefaultInfo} \subseteq Texts
    BY ProfileAssumption DEF Texts
<1>4. CASE info[u] = Nil
    BY <1>3, <1>4 DEF FetchedTexts
<1>5. CASE info[u] # Nil /\ Pending(u) # {}
    BY <1>1, <1>5 DEF FetchedTexts
<1>6. CASE info[u] = Unset /\ Pending(u) = {}
    BY <1>3, <1>6, ProfileAssumption DEF FetchedTexts
<1>7. CASE info[u] \notin {Nil, Unset} /\ Pending(u) = {}
    BY <1>2, <1>7 DEF FetchedTexts, Texts
<1>8. QED
    BY <1>4, <1>5, <1>6, <1>7

LEMMA SessionScreens ==
    ASSUME ScreensOK, Session
    PROVE  ScreensOK'
<1> USE DEF ScreensOK, PresentedOnProfile, LoginScreen, InstagramScreen,
            tabVars, cached, screens, servers
<1>1. CASE SceneWillConnect
    BY <1>1 DEF SceneWillConnect, Running
<1>2. ASSUME NEW u \in Users, SignedIn(u)
      PROVE  ScreensOK'
    BY <1>2 DEF SignedIn, MaybeUser
<1>3. ASSUME NEW u \in Users, DatabaseUserCreated(u)
      PROVE  ScreensOK'
    BY <1>3 DEF DatabaseUserCreated
<1>4. CASE NavigateToInstagram
    BY <1>4 DEF NavigateToInstagram
<1>5. CASE Kill
    BY <1>5, ReleasedScreens DEF Kill, Died
<1>6. QED
    BY <1>1, <1>2, <1>3, <1>4, <1>5 DEF Session

LEMMA ProfileScreens ==
    ASSUME ScreensOK, ServicesOK, ProfileScreen
    PROVE  ScreensOK'
<1> USE DEF ScreensOK, PresentedOnProfile, InstagramScreen, LoginScreen,
            tabVars, cached, screens, servers, quietVars
<1>1. ASSUME NEW i \in {0, 1, 2}, SelectTab(i)
      PROVE  ScreensOK'
  <2>1. fetch' \in FetchRecord
      BY <1>1 DEF SelectTab, FetchRecord, NoFetch, Texts, MaybeUser
  <2>2. fetch'.stage = "getDocument" => fetch'.user \in Users
      BY <1>1 DEF SelectTab, NoFetch, FetchRecord, MaybeUser
  <2>3. loaded' \in BOOLEAN
      BY <1>1 DEF SelectTab
  <2>4. QED
      BY <1>1, <2>1, <2>2, <2>3 DEF SelectTab
<1>2. CASE GetDocumentReturns
  <2>1. ASSUME NEW t \in FetchedTexts(fetch.user),
               fetch' = [NoFetch EXCEPT !.stage = "assign", !.text = t]
        PROVE  fetch' \in FetchRecord /\ fetch'.stage = "assign"
    <3>1. t \in Texts
        BY <1>2, <2>1, FetchedTextsType DEF GetDocumentReturns
    <3>2. QED
        BY <2>1, <3>1 DEF NoFetch, FetchRecord, MaybeUser
  <2>2. fetch' \in FetchRecord /\ fetch'.stage # "getDocument"
      BY <1>2, <2>1, InitialRecords DEF GetDocumentReturns
  <2>3. QED
      BY <1>2, <2>2 DEF GetDocumentReturns
<1>3. CASE AssignInstaUser
  <2>1. fetch.text \in Texts
      BY DEF FetchRecord
  <2>2. QED
      BY <1>3, <2>1, InitialRecords DEF AssignInstaUser
<1>4. CASE PostsChanged
    BY <1>4 DEF PostsChanged
<1>5. CASE PostsListenerFails
    BY <1>5 DEF PostsListenerFails, ProfileAlert
<1>6. CASE SignOutButtonPressed
    BY <1>6, ReleasedScreens DEF SignOutButtonPressed, MaybeUser
<1>7. CASE SignOutThrows
    BY <1>7 DEF SignOutThrows, ProfileAlert, Touchable
<1>8. CASE PictureButtonPressed
    BY <1>8 DEF PictureButtonPressed, Touchable
<1>9. CASE PresentedAnswered
    BY <1>9 DEF PresentedAnswered
<1>10. ASSUME NEW q \in Pictures, DidFinishPicking(q)
       PROVE  ScreensOK'
    BY <1>10 DEF DidFinishPicking
<1>11. ASSUME NEW e \in Editors, EditButtonPressed(e)
       PROVE  ScreensOK'
  <2>1. CASE instaUser = Nil
      BY <1>11, <2>1, ReleasedScreens DEF EditButtonPressed, Died
  <2>2. CASE instaUser # Nil
    <3>1. editor' \in EditorRecord
        BY <1>11, <2>2 DEF EditButtonPressed, EditorRecord, Texts
    <3>2. QED
        BY <1>11, <2>2, <3>1 DEF EditButtonPressed, Touchable
  <2>3. QED
      BY <2>1, <2>2
<1>12. QED
    BY <1>1, <1>2, <1>3, <1>4, <1>5, <1>6, <1>7, <1>8, <1>9, <1>10, <1>11
    DEF ProfileScreen

(***************************************************************************)
(* The edit screen, and what the replies to a save do to it.               *)
(***************************************************************************)
LEMMA DismissScreens ==
    ASSUME ScreensOK, NEW e \in Editors \cup {Nil}, Dismiss(e),
           UNCHANGED <<currentUser, root, tabVars>>
    PROVE  ScreensOK'
<1> USE DEF ScreensOK, PresentedOnProfile, tabVars, cached, screens
<1>1. CASE UNCHANGED screens
    BY <1>1
<1>2. CASE /\ editor' = [editor EXCEPT !.over = "none"]
           /\ UNCHANGED presented
  <2>1. editor' \in EditorRecord /\ editor'.id = editor.id
      BY <1>2 DEF EditorRecord
  <2>2. QED
      BY <1>2, <2>1
<1>3. CASE presented' = "none" /\ editor' = NoEditor
    BY <1>3, InitialRecords
<1>4. QED
    BY <1>1, <1>2, <1>3 DEF Dismiss

LEMMA ShowAlertScreens ==
    ASSUME ScreensOK, NEW e \in Editors \cup {Nil}, ShowAlert(e),
           UNCHANGED <<quietVars, presented>>
    PROVE  ScreensOK'
<1>1. editor' \in EditorRecord /\ editor'.id = editor.id
    BY DEF ShowAlert, ScreensOK, EditorRecord
<1>2. QED
    BY <1>1 DEF ScreensOK, PresentedOnProfile, quietVars, tabVars, cached

LEMMA EditScreens ==
    ASSUME ScreensOK, EditScreen
    PROVE  ScreensOK'
<1> DEFINE SameScreen == /\ editor' \in EditorRecord /\ editor'.id = editor.id
                         /\ UNCHANGED <<quietVars, presented>>
<1>0. SameScreen => ScreensOK'
    BY DEF ScreensOK, PresentedOnProfile, quietVars, tabVars, cached
<1>1. ASSUME NEW t \in Texts, EditTextFields(t)
      PROVE  SameScreen
    BY <1>1 DEF EditTextFields, ScreensOK, EditorRecord
<1>2. CASE ChangePicture
    BY <1>0, <1>2 DEF ChangePicture, ScreensOK, EditorRecord
<1>3. CASE OverAnswered
    BY <1>0, <1>3 DEF OverAnswered, ScreensOK, EditorRecord
<1>4. ASSUME NEW q \in Pictures, EditorPicks(q)
      PROVE  SameScreen
    BY <1>4 DEF EditorPicks, ScreensOK, EditorRecord
<1>5. CASE CancelButtonPressed
    BY <1>5, InitialRecords
    DEF CancelButtonPressed, ScreensOK, PresentedOnProfile, quietVars,
        tabVars, cached
<1>6. ASSUME NEW s \in Saves, NEW encoded \in BOOLEAN,
             DoneButtonPressed(s, encoded)
      PROVE  SameScreen
    BY <1>6 DEF DoneButtonPressed, ScreensOK, EditorRecord
<1>7. QED
    BY <1>0, <1>1, <1>2, <1>3, <1>4, <1>5, <1>6 DEF EditScreen

LEMMA ReplyScreens ==
    ASSUME ScreensOK, ServicesOK, NEW s \in Saves,
           TextReply(s) \/ PictureReply(s)
    PROVE  ScreensOK'
<1>1. save[s].editor \in Editors \cup {Nil}
    BY DEF ServicesOK, SaveRecord
<1>2. CASE UNCHANGED <<currentUser, root, tabVars, screens>>
    BY <1>2 DEF ScreensOK, PresentedOnProfile, tabVars, cached, screens
<1>3. CASE UpdateUserInfoAcknowledged(s)
    BY <1>1, <1>3, DismissScreens DEF UpdateUserInfoAcknowledged
<1>4. CASE UpdateUserInfoRejected(s)
    BY <1>2, <1>4 DEF UpdateUserInfoRejected, quietVars
<1>5. CASE ShowTextAlert(s)
    BY <1>1, <1>5, ShowAlertScreens DEF ShowTextAlert
<1>6. CASE PutDataSucceeds(s) \/ PutDataFails(s)
    BY <1>2, <1>6 DEF PutDataSucceeds, PutDataFails
<1>7. CASE DownloadURLSucceeds(s) \/ DownloadURLFails(s)
    BY <1>2, <1>7 DEF DownloadURLSucceeds, DownloadURLFails, quietVars
<1>8. CASE CommitSucceeds(s) \/ CommitFails(s)
  <2>1. currentUser' = currentUser
      BY <1>8 DEF CommitSucceeds, CommitFails
  <2>2. CASE Died
      BY <2>1, <2>2, ReleasedScreens DEF Died, ScreensOK
  <2>3. CASE ~Died
      BY <1>2, <1>8, <2>1, <2>3
      DEF CommitSucceeds, CommitFails, CommitCallback
  <2>4. QED
      BY <2>2, <2>3
<1>9. CASE ShowPictureAlert(s)
  <2>1. CASE Died
      BY <1>9, <2>1, ReleasedScreens DEF ShowPictureAlert, Died, ScreensOK
  <2>2. CASE ~Died
      BY <1>1, <1>9, <2>2, ShowAlertScreens DEF ShowPictureAlert, quietVars
  <2>3. QED
      BY <2>1, <2>2
<1>10. QED
    BY <1>3, <1>4, <1>5, <1>6, <1>7, <1>8, <1>9 DEF TextReply, PictureReply

(***************************************************************************)
(* Every step preserves what is on screen.                                 *)
(***************************************************************************)
LEMMA ScreensStep == ProfileInv /\ [Next]_profileVars => ScreensOK'
<1> SUFFICES ASSUME ProfileInv, [Next]_profileVars
             PROVE  ScreensOK'
    OBVIOUS
<1>1. ScreensOK /\ ServicesOK
    BY DEF ProfileInv
<1>2. CASE Session \/ ProfileScreen \/ EditScreen
    BY <1>1, <1>2, SessionScreens, ProfileScreens, EditScreens
<1>3. ASSUME NEW s \in Saves, TextReply(s) \/ PictureReply(s)
      PROVE  ScreensOK'
    BY <1>1, <1>3, ReplyScreens
<1>4. CASE UNCHANGED profileVars
    BY <1>1, <1>4
    DEF ScreensOK, PresentedOnProfile, profileVars, quietVars, tabVars,
        cached, screens
<1>5. QED
    BY <1>2, <1>3, <1>4 DEF Next

-----------------------------------------------------------------------------
(* What the chains of Done and the services hold *)

TextStages == {"none", "updateData", "alert"}
PicStages == {"none", "putData", "downloadURL", "commit", "alert"}

LEMMA KeptSave ==
    ASSUME NEW v \in SaveRecord
    PROVE  /\ Kept(v) \in SaveRecord
           /\ Kept(v).text = v.text /\ Kept(v).pic = v.pic
           /\ v.text # "none" \/ v.pic # "none" => Kept(v) = v
  BY InitialRecords DEF Kept

(***************************************************************************)
(* A stage change of one chain leaves the other chain, the owner and the   *)
(* texts as they are.                                                      *)
(***************************************************************************)
SameSave(new, old) ==
    new.text = old.text /\ new.user = old.user /\ new.newText = old.newText

SameUpload(new, old) ==
    new.pic = old.pic /\ new.user = old.user /\ new.picture = old.picture

LEMMA PicStageSaves ==
    ASSUME save \in [Saves -> SaveRecord],
           NEW s \in Saves, NEW stage \in PicStages, PicStage(s, stage)
    PROVE  /\ save' \in [Saves -> SaveRecord]
           /\ \A w \in Saves : w # s => save'[w] = save[w]
           /\ save'[s].pic = stage /\ save'[s].text = save[s].text
           /\ \/ SameSave(save'[s], save[s])
              \/ save'[s].text = "none" /\ stage = "none"
<1> DEFINE v == [save[s] EXCEPT !.pic = stage, !.picture = Nil]
<1>1. save[s] \in SaveRecord
    OBVIOUS
<1>2. /\ v \in SaveRecord /\ v.pic = stage
      /\ SameSave(v, save[s])
    BY <1>1 DEF SaveRecord, SameSave, PicStages
<1>3. save' = [save EXCEPT ![s] = Kept(v)]
    BY DEF PicStage
<1> HIDE DEF v
<1>4. QED
    BY <1>2, <1>3, KeptSave DEF SameSave

LEMMA TextStageSaves ==
    ASSUME save \in [Saves -> SaveRecord],
           NEW s \in Saves, TextStage(s, "none")
    PROVE  /\ save' \in [Saves -> SaveRecord]
           /\ \A w \in Saves : w # s => save'[w] = save[w]
           /\ save'[s].text = "none"
           /\ SameUpload(save'[s], save[s]) \/ save'[s].pic = "none"
<1> DEFINE v == [save[s] EXCEPT !.text = "none"]
<1>1. save[s] \in SaveRecord
    OBVIOUS
<1>2. /\ v \in SaveRecord /\ v.text = "none"
      /\ SameUpload(v, save[s])
    BY <1>1 DEF SaveRecord, SameUpload
<1>3. save' = [save EXCEPT ![s] = Kept(v)]
    BY DEF TextStage
<1> HIDE DEF v
<1>4. QED
    BY <1>2, <1>3, KeptSave DEF SameUpload

LEMMA TextAnsweredSaves ==
    ASSUME save \in [Saves -> SaveRecord],
           NEW s \in Saves, TextAnswered(s)
    PROVE  /\ save' \in [Saves -> SaveRecord]
           /\ \A w \in Saves \ {s} : /\ SameSave(save'[w], save[w])
                                    /\ SameUpload(save'[w], save[w])
           /\ save'[s].text # "updateData"
           /\ SameUpload(save'[s], save[s]) \/ save'[s].pic = "none"
<1> DEFINE stage == IF save[s].editor = Nil THEN "none" ELSE "alert"
           v == [save[s] EXCEPT !.text = stage, !.newText = Blank, !.ahead = {}]
           x(w) == [save[w] EXCEPT !.ahead = @ \ {s}]
<1>1. \A w \in Saves : save[w] \in SaveRecord
    OBVIOUS
<1>2. /\ v \in SaveRecord /\ v.text # "updateData"
      /\ SameUpload(v, save[s])
  <2>1. stage \in {"none", "alert"}
      OBVIOUS
  <2> HIDE DEF stage
  <2>2. Blank \in Texts /\ save[s] \in SaveRecord
      BY DEF Texts
  <2>3. QED
      BY <2>1, <2>2 DEF SaveRecord, SameUpload
<1>3. \A w \in Saves : /\ x(w) \in SaveRecord /\ SameSave(x(w), save[w])
                      /\ SameUpload(x(w), save[w])
    BY <1>1 DEF SaveRecord, SameSave, SameUpload
<1>4. save' = [w \in Saves |-> IF w # s THEN x(w) ELSE Kept(v)]
    BY DEF TextAnswered
<1> HIDE DEF v, x
<1>5. QED
    BY <1>2, <1>3, <1>4, KeptSave DEF SameUpload

(***************************************************************************)
(* The death of the process keeps queued writes and ends every upload.     *)
(***************************************************************************)
LEMMA DiedSaves ==
    ASSUME save \in [Saves -> SaveRecord], Died
    PROVE  /\ save' \in [Saves -> SaveRecord]
           /\ \A s \in Saves :
                 /\ save'[s].pic = "none"
                 /\ \/ save'[s].text = "none"
                    \/ SameSave(save'[s], save[s])
<1>1. \A s \in Saves : save[s] \in SaveRecord
    OBVIOUS
<1>2. \A s \in Saves : /\ Survives(save[s]) \in SaveRecord
                      /\ Survives(save[s]).pic = "none"
                      /\ \/ Survives(save[s]).text = "none"
                         \/ SameSave(Survives(save[s]), save[s])
  <2> TAKE s \in Saves
  <2>1. CASE save[s].text = "updateData"
    <3>1. Survives(save[s]) =
              [text |-> "updateData", pic |-> "none", editor |-> Nil,
               user |-> save[s].user, newText |-> save[s].newText,
               ahead |-> save[s].ahead, picture |-> Nil,
               committer |-> NoUser, captured |-> FALSE]
        BY <2>1 DEF Survives, NoSave
    <3>2. QED
        BY <1>1, <2>1, <3>1 DEF SaveRecord, SameSave, MaybeUser
  <2>2. CASE save[s].text # "updateData"
      BY <2>2, InitialRecords DEF Survives
  <2>3. QED
      BY <2>1, <2>2
<1>3. QED
    BY <1>2 DEF Died

(***************************************************************************)
(* What a step has to do to the services for the invariant to survive:     *)
(* keep every object, and name only stored objects.                        *)
(***************************************************************************)
ObjectsStay ==
    /\ profilePhoto' \in [Users -> Pictures \cup {Nil}]
    /\ \A u \in Users : profilePhoto[u] # Nil => profilePhoto'[u] # Nil

LEMMA Uploaded ==
    ASSUME ServicesOK, NEW s \in Saves, save[s].pic = "putData",
           profilePhoto' = [profilePhoto EXCEPT ![save[s].user] = save[s].picture]
    PROVE  ObjectsStay /\ profilePhoto'[save[s].user] # Nil
<1>1. save[s].user \in Users /\ save[s].picture \in Pictures
    BY DEF ServicesOK, SavesMatchServices
<1>2. save[s].picture # Nil
    BY <1>1, ProfileAssumption
<1>3. QED
    BY <1>1, <1>2 DEF ServicesOK, ObjectsStay

LEMMA URLsKept ==
    ASSUME ServicesOK, ObjectsStay, photoURL' = photoURL
    PROVE  /\ photoURL' \in [Users -> Users \cup {Nil}]
           /\ PhotoURLHasObject'
  BY DEF ServicesOK, ObjectsStay, PhotoURLHasObject

LEMMA QuietServices ==
    ASSUME ServicesOK, UNCHANGED <<servers, save>>
    PROVE  ServicesOK'
  BY DEF ServicesOK, servers, PhotoURLHasObject, SavesMatchServices

LEMMA DiedServices ==
    ASSUME ServicesOK, Died, ObjectsStay, UNCHANGED <<info, photoURL>>
    PROVE  ServicesOK'
<1>1. SavesMatchServices'
    BY DiedSaves DEF ServicesOK, SavesMatchServices, SameSave
<1>2. QED
    BY <1>1, DiedSaves, URLsKept DEF ServicesOK, ObjectsStay

LEMMA SessionServices ==
    ASSUME ServicesOK, Session
    PROVE  ServicesOK'
<1>1. CASE SceneWillConnect \/ NavigateToInstagram
    BY <1>1, QuietServices DEF SceneWillConnect, NavigateToInstagram
<1>2. ASSUME NEW u \in Users, SignedIn(u)
      PROVE  ServicesOK'
    BY <1>2, QuietServices DEF SignedIn
<1>3. ASSUME NEW u \in Users, DatabaseUserCreated(u)
      PROVE  ServicesOK'
    BY <1>3
    DEF DatabaseUserCreated, ServicesOK, PhotoURLHasObject, SavesMatchServices
<1>4. CASE Kill
  <2>1. CASE UNCHANGED profilePhoto
    <3>1. ObjectsStay
        BY <2>1 DEF ServicesOK, ObjectsStay
    <3>2. QED
        BY <1>4, <3>1, DiedServices DEF Kill
  <2>2. ASSUME NEW s \in Saves, save[s].pic = "putData",
               profilePhoto' =
                   [profilePhoto EXCEPT ![save[s].user] = save[s].picture]
        PROVE  ServicesOK'
      BY <1>4, <2>2, Uploaded, DiedServices DEF Kill
  <2>3. QED
      BY <1>4, <2>1, <2>2 DEF Kill
<1>5. QED
    BY <1>1, <1>2, <1>3, <1>4 DEF Session

LEMMA ProfileScreenServices ==
    ASSUME ServicesOK, ProfileScreen
    PROVE  ServicesOK'
<1> USE QuietServices DEF quietVars
<1>1. ASSUME NEW i \in {0, 1, 2}, SelectTab(i)
      PROVE  ServicesOK'
    BY <1>1 DEF SelectTab
<1>2. CASE GetDocumentReturns \/ AssignInstaUser
    BY <1>2 DEF GetDocumentReturns, AssignInstaUser
<1>3. CASE PostsChanged \/ PostsListenerFails
    BY <1>3 DEF PostsChanged, PostsListenerFails
<1>4. CASE SignOutButtonPressed \/ SignOutThrows
    BY <1>4 DEF SignOutButtonPressed, SignOutThrows
<1>5. CASE PictureButtonPressed \/ PresentedAnswered
    BY <1>5 DEF PictureButtonPressed, PresentedAnswered
<1>6. ASSUME NEW q \in Pictures, DidFinishPicking(q)
      PROVE  ServicesOK'
    BY <1>6 DEF DidFinishPicking
<1>7. ASSUME NEW e \in Editors, EditButtonPressed(e)
      PROVE  ServicesOK'
  <2>1. CASE instaUser = Nil
    <3>1. ObjectsStay
        BY <1>7 DEF EditButtonPressed, servers, ServicesOK, ObjectsStay
    <3>2. QED
        BY <1>7, <2>1, <3>1, DiedServices DEF EditButtonPressed, servers
  <2>2. CASE instaUser # Nil
      BY <1>7, <2>2 DEF EditButtonPressed
  <2>3. QED
      BY <2>1, <2>2
<1>8. QED
    BY <1>1, <1>2, <1>3, <1>4, <1>5, <1>6, <1>7 DEF ProfileScreen

(***************************************************************************)
(* Done starts two chains with what the fields and the picture view hold.  *)
(***************************************************************************)
LEMMA EditScreenServices ==
    ASSUME ScreensOK, ServicesOK, EditScreen
    PROVE  ServicesOK'
<1> USE QuietServices DEF quietVars
<1>1. ASSUME NEW t \in Texts, EditTextFields(t)
      PROVE  ServicesOK'
    BY <1>1 DEF EditTextFields
<1>2. CASE ChangePicture \/ OverAnswered \/ CancelButtonPressed
    BY <1>2 DEF ChangePicture, OverAnswered, CancelButtonPressed
<1>3. ASSUME NEW q \in Pictures, EditorPicks(q)
      PROVE  ServicesOK'
    BY <1>3 DEF EditorPicks
<1>4. ASSUME NEW s \in Saves, NEW encoded \in BOOLEAN,
             DoneButtonPressed(s, encoded)
      PROVE  ServicesOK'
  <2>1. CASE editor.text = Blank
      BY <1>4, <2>1 DEF DoneButtonPressed
  <2>2. CASE editor.text # Blank
    <3> DEFINE pic == IF editor.picture # Nil /\ encoded
                      THEN "putData" ELSE "none"
               picture == IF encoded THEN editor.picture ELSE Nil
               v == [text |-> "updateData", pic |-> pic,
                     editor |-> editor.id, user |-> currentUser,
                     newText |-> editor.text, ahead |-> Pending(currentUser),
                     picture |-> picture,
                     committer |-> NoUser, captured |-> FALSE]
    <3>1. save' = [save EXCEPT ![s] = v]
        BY <1>4, <2>2 DEF DoneButtonPressed, NoSave
    <3>2. /\ editor.id \in Editors \cup {Nil}
          /\ editor.picture \in Pictures \cup {Nil}
          /\ editor.text \in Infos
          /\ currentUser \in Users
        BY <1>4, <2>2
        DEF DoneButtonPressed, ScreensOK, EditorRecord, Texts, MaybeUser
    <3>3. /\ pic \in {"none", "putData"}
          /\ picture \in Pictures \cup {Nil}
          /\ pic = "putData" => picture \in Pictures
        BY <3>2
    <3> HIDE DEF pic, picture
    <3>4. /\ v \in SaveRecord
          /\ v.user = currentUser /\ v.newText = editor.text
          /\ v.pic = pic /\ v.picture = picture
        BY <3>2, <3>3 DEF SaveRecord, MaybeUser, Texts, Pending
    <3> HIDE DEF v
    <3>5. UNCHANGED servers
        BY <1>4 DEF DoneButtonPressed
    <3>6. QED
        BY <3>1, <3>2, <3>3, <3>4, <3>5
        DEF ServicesOK, servers, PhotoURLHasObject, SavesMatchServices
  <2>3. QED
      BY <2>1, <2>2
<1>5. QED
    BY <1>1, <1>2, <1>3, <1>4 DEF EditScreen

LEMMA TextReplyServices ==
    ASSUME ServicesOK, NEW s \in Saves, TextReply(s)
    PROVE  ServicesOK'
<1>1. CASE TextAnswered(s) /\ UNCHANGED <<profilePhoto, photoURL>>
    <2>1. save' \in [Saves -> SaveRecord]
        BY <1>1, TextAnsweredSaves DEF ServicesOK
    <2>2. SavesMatchServices'
        BY <1>1, TextAnsweredSaves
        DEF ServicesOK, SavesMatchServices, SameSave, SameUpload
    <2>3. info' \in [Users -> Infos \cup {Unset, Nil}] => ServicesOK'
        BY <1>1, <2>1, <2>2 DEF ServicesOK, PhotoURLHasObject
    <2>4. CASE UpdateUserInfoAcknowledged(s)
      <3>1. save[s].user \in Users /\ save[s].newText \in Infos
          BY <2>4
          DEF UpdateUserInfoAcknowledged, Sendable, ServicesOK,
              SavesMatchServices
      <3>2. QED
          BY <2>3, <2>4, <3>1 DEF UpdateUserInfoAcknowledged, ServicesOK
    <2>5. CASE UpdateUserInfoRejected(s)
        BY <2>3, <2>5
        DEF UpdateUserInfoRejected, ServicesOK, quietVars, servers
    <2>6. CASE ShowTextAlert(s)
        BY <2>3, <2>6 DEF ShowTextAlert, ServicesOK, quietVars, servers
    <2>7. QED
        BY <2>4, <2>5, <2>6 DEF TextReply
<1>2. CASE ShowTextAlert(s)
  <2>1. UNCHANGED servers /\ TextStage(s, "none")
      BY <1>2 DEF ShowTextAlert, quietVars
  <2>2. SavesMatchServices'
      BY <2>1, TextStageSaves
      DEF ServicesOK, SavesMatchServices, SameUpload, servers
  <2>3. QED
      BY <2>1, <2>2, TextStageSaves DEF ServicesOK, PhotoURLHasObject, servers
<1>3. QED
    BY <1>1, <1>2
    DEF TextReply, UpdateUserInfoAcknowledged, UpdateUserInfoRejected,
        quietVars, servers

(***************************************************************************)
(* A picture chain goes from stage to stage. Only the upload stores an     *)
(* object, and only the commit names one.                                  *)
(***************************************************************************)
LEMMA PicStageServices ==
    ASSUME ServicesOK, ObjectsStay, NEW s \in Saves, NEW stage \in PicStages,
           PicStage(s, stage),
           stage # "putData",
           stage \in {"downloadURL", "commit"} =>
               save[s].user \in Users /\ profilePhoto'[save[s].user] # Nil
    PROVE  save' \in [Saves -> SaveRecord] /\ SavesMatchServices'
<1>1. /\ save' \in [Saves -> SaveRecord]
      /\ \A w \in Saves : w # s => save'[w] = save[w]
      /\ save'[s].pic = stage /\ save'[s].text = save[s].text
      /\ \/ SameSave(save'[s], save[s])
         \/ save'[s].text = "none" /\ stage = "none"
    BY PicStageSaves DEF ServicesOK
<1>2. QED
    BY <1>1 DEF ServicesOK, ObjectsStay, SavesMatchServices, SameSave

LEMMA UploadServices ==
    ASSUME ServicesOK, NEW s \in Saves, PutDataSucceeds(s) \/ PutDataFails(s)
    PROVE  ServicesOK'
<1>1. save[s].user \in Users
    BY DEF PutDataSucceeds, PutDataFails, ServicesOK, SavesMatchServices
<1>2. ObjectsStay
    BY Uploaded
    DEF PutDataSucceeds, PutDataFails, ServicesOK, ObjectsStay
<1>3. CASE PutDataSucceeds(s)
  <2>1. profilePhoto'[save[s].user] # Nil
      BY <1>3, Uploaded DEF PutDataSucceeds
  <2>2. save' \in [Saves -> SaveRecord] /\ SavesMatchServices'
      BY <1>1, <1>2, <1>3, <2>1, PicStageServices
      DEF PutDataSucceeds, PicStages
  <2>3. QED
      BY <1>2, <1>3, <2>2, URLsKept
      DEF PutDataSucceeds, ServicesOK, ObjectsStay
<1>4. CASE PutDataFails(s)
  <2>1. save' \in [Saves -> SaveRecord] /\ SavesMatchServices'
      BY <1>2, <1>4, PicStageServices DEF PutDataFails, PicStages
  <2>2. QED
      BY <1>2, <1>4, <2>1, URLsKept DEF PutDataFails, ServicesOK, ObjectsStay
<1>5. QED
    BY <1>3, <1>4

LEMMA DownloadServices ==
    ASSUME ServicesOK, currentUser \in MaybeUser, NEW s \in Saves,
           DownloadURLSucceeds(s) \/ DownloadURLFails(s)
    PROVE  ServicesOK'
<1>1. UNCHANGED servers
    BY DEF DownloadURLSucceeds, DownloadURLFails, quietVars
<1>2. ObjectsStay
    BY <1>1 DEF ServicesOK, ObjectsStay, servers
<1>3. CASE PicStage(s, "none") \/ PicStage(s, "alert")
    BY <1>1, <1>2, <1>3, PicStageServices
    DEF PicStages, ServicesOK, PhotoURLHasObject, servers
<1>4. CASE DownloadURLSucceeds(s) /\ currentUser # NoUser
  <2> DEFINE shown == Exists(save[s].editor)
             v == [save[s] EXCEPT !.pic = "commit", !.committer = currentUser,
                                  !.captured = shown]
  <2>1. save' = [save EXCEPT ![s] = v]
      BY <1>4 DEF DownloadURLSucceeds
  <2>2. shown \in BOOLEAN
      BY DEF Exists
  <2>3. save[s] \in SaveRecord
      BY DEF ServicesOK
  <2> HIDE DEF shown
  <2>4. SameSave(v, save[s]) /\ v.pic = "commit"
      BY <2>3 DEF SaveRecord, SameSave
  <2>5. v \in SaveRecord
      BY <2>2, <2>3 DEF SaveRecord
  <2> HIDE DEF v
  <2>6. save[s].user \in Users /\ profilePhoto[save[s].user] # Nil
      BY <1>4 DEF DownloadURLSucceeds, ServicesOK, SavesMatchServices
  <2>7. SavesMatchServices'
      BY <1>1, <2>1, <2>4, <2>6
      DEF ServicesOK, SavesMatchServices, SameSave, servers
  <2>8. QED
      BY <1>1, <2>1, <2>5, <2>7 DEF ServicesOK, PhotoURLHasObject, servers
<1>5. QED
    BY <1>3, <1>4 DEF DownloadURLSucceeds, DownloadURLFails

LEMMA CommitServices ==
    ASSUME ServicesOK, NEW s \in Saves, CommitSucceeds(s) \/ CommitFails(s)
    PROVE  ServicesOK'
<1>1. /\ save[s].user \in Users /\ profilePhoto[save[s].user] # Nil
      /\ UNCHANGED <<info, profilePhoto>>
    BY DEF CommitSucceeds, CommitFails, ServicesOK, SavesMatchServices
<1>2. \/ photoURL' = photoURL
      \/ photoURL' = [photoURL EXCEPT ![save[s].committer] = save[s].user]
    BY DEF CommitSucceeds, CommitFails
<1>3. photoURL' \in [Users -> Users \cup {Nil}] /\ PhotoURLHasObject'
    BY <1>1, <1>2 DEF ServicesOK, PhotoURLHasObject
<1>4. ObjectsStay
    BY <1>1 DEF ServicesOK, ObjectsStay
<1>5. save' \in [Saves -> SaveRecord] /\ SavesMatchServices'
  <2>1. CASE Died
      BY <2>1, DiedSaves DEF ServicesOK, SavesMatchServices, SameSave
  <2>2. CASE PicStage(s, "alert") \/ PicStage(s, "none")
      BY <1>4, <2>2, PicStageServices DEF PicStages
  <2>3. QED
      BY <2>1, <2>2 DEF CommitSucceeds, CommitFails, CommitCallback
<1>6. QED
    BY <1>1, <1>3, <1>5 DEF ServicesOK

LEMMA PictureReplyServices ==
    ASSUME ServicesOK, currentUser \in MaybeUser, NEW s \in Saves,
           PictureReply(s)
    PROVE  ServicesOK'
<1>1. CASE ShowPictureAlert(s)
  <2>1. UNCHANGED servers /\ (Died \/ PicStage(s, "none"))
      BY <1>1 DEF ShowPictureAlert
  <2>2. ObjectsStay
      BY <2>1 DEF ServicesOK, ObjectsStay, servers
  <2>3. CASE Died
      BY <2>1, <2>2, <2>3, DiedServices DEF servers
  <2>4. CASE PicStage(s, "none")
      BY <2>1, <2>2, <2>4, PicStageServices
      DEF PicStages, ServicesOK, PhotoURLHasObject, servers
  <2>5. QED
      BY <2>1, <2>3, <2>4
<1>2. QED
    BY <1>1, UploadServices, DownloadServices, CommitServices
    DEF PictureReply

(***************************************************************************)
(* Every step preserves what the chains and the services hold.             *)
(***************************************************************************)
LEMMA ServicesStep == ProfileInv /\ [Next]_profileVars => ServicesOK'
<1> SUFFICES ASSUME ProfileInv, [Next]_profileVars
             PROVE  ServicesOK'
    OBVIOUS
<1>1. ScreensOK /\ ServicesOK
    BY DEF ProfileInv
<1>2. CASE Session \/ ProfileScreen \/ EditScreen
    BY <1>1, <1>2, SessionServices, ProfileScreenServices, EditScreenServices
<1>3. ASSUME NEW s \in Saves, TextReply(s) \/ PictureReply(s)
      PROVE  ServicesOK'
    BY <1>1, <1>3, TextReplyServices, PictureReplyServices DEF ScreensOK
<1>4. CASE UNCHANGED profileVars
    BY <1>1, <1>4, QuietServices DEF profileVars, quietVars
<1>5. QED
    BY <1>2, <1>3, <1>4 DEF Next

-----------------------------------------------------------------------------
(* The theorems *)

LEMMA ProfileInvariant == Spec => []ProfileInv
<1>1. ProfileInv /\ [Next]_profileVars => ProfileInv'
    BY ScreensStep, ServicesStep DEF ProfileInv
<1>2. QED
    BY ProfileInit, <1>1, PTL DEF Spec

(***************************************************************************)
(* Every variable keeps its type. In particular no edit screen ever shows  *)
(* a user that was not fetched.                                            *)
(***************************************************************************)
THEOREM ProfileTypeCorrect == Spec => []ProfileTypeOK
  BY ProfileInvariant, InvHalves, PTL

(***************************************************************************)
(* Whatever picture URL an account shows, an object is stored under it     *)
(* (EditProfileViewController.updateProfilePicture).                       *)
(***************************************************************************)
THEOREM PhotoURLsResolve == Spec => []PhotoURLHasObject
  BY ProfileInvariant, InvHalves, PTL

(***************************************************************************)
(* What each stage of a save may rely on (StorageService.uploadPhoto,      *)
(* EditProfileViewController.doneButtonPressed).                           *)
(***************************************************************************)
THEOREM SavesMatch == Spec => []SavesMatchServices
  BY ProfileInvariant, InvHalves, PTL

(***************************************************************************)
(* Nothing is presented by a profile screen that is not visible            *)
(* (showViewController, viewDidDisappear).                                 *)
(***************************************************************************)
THEOREM PresentedOnlyOnProfile == Spec => []PresentedOnProfile
  BY ProfileInvariant, InvHalves, PTL

\* The two sides of EditsStayUntilSaved.
Leaves(e) == editor.id = e /\ editor'.id # e /\ root' = root

Saved(e) ==
    \/ editor.over = "none" /\ UNCHANGED <<save, servers>>
    \/ \E s \in Saves :
          /\ save[s].editor = e /\ save[s].text = "updateData"
          /\ info'[save[s].user] = save[s].newText

LEMMA LeavingStep ==
    ASSUME ProfileInv, Next, NEW e \in Editors, Leaves(e)
    PROVE  Saved(e)
<1>1. /\ editor.id = e /\ editor.id # Nil
      /\ presented = "editor" /\ root = InstagramScreen
      /\ editor \in EditorRecord
    BY ProfileAssumption
    DEF Leaves, ProfileInv, ScreensOK, PresentedOnProfile
<1>2. editor' # editor /\ ~Died
    BY <1>1 DEF Leaves, Died, InstagramScreen
<1>3. ~Touchable
    BY <1>1 DEF Touchable
<1>4. ~Session
    BY <1>2
    DEF Session, SceneWillConnect, SignedIn, DatabaseUserCreated,
        NavigateToInstagram, Kill, screens
<1>5. ~ProfileScreen
    BY <1>1, <1>2, <1>3
    DEF ProfileScreen, SelectTab, GetDocumentReturns, AssignInstaUser,
        PostsChanged, PostsListenerFails, SignOutButtonPressed,
        SignOutThrows, PictureButtonPressed, PresentedAnswered,
        DidFinishPicking, EditButtonPressed, screens
<1>6. CASE EditScreen
  <2>1. \A new : editor' = [editor EXCEPT !.text = new] \/
                 editor' = [editor EXCEPT !.over = new] => editor'.id = e
      BY <1>1 DEF EditorRecord
  <2>2. \A q, new : editor' = [editor EXCEPT !.picture = q, !.over = new]
                        => editor'.id = e
      BY <1>1 DEF EditorRecord
  <2>3. CASE CancelButtonPressed
      BY <2>3 DEF CancelButtonPressed, EditorTouchable, Saved, quietVars
  <2>4. QED
      BY <1>2, <1>6, <2>1, <2>2, <2>3
      DEF EditScreen, EditTextFields, ChangePicture, OverAnswered,
          EditorPicks, DoneButtonPressed, Leaves
<1>7. ASSUME NEW s \in Saves, TextReply(s) \/ PictureReply(s)
      PROVE  Saved(e)
  <2>1. \A new : editor' = [editor EXCEPT !.over = new] => editor'.id = e
      BY <1>1 DEF EditorRecord
  <2>2. ~PictureReply(s)
      BY <1>2, <2>1
      DEF PictureReply, PutDataSucceeds, PutDataFails, DownloadURLSucceeds,
          DownloadURLFails, CommitSucceeds, CommitFails, CommitCallback,
          ShowPictureAlert, ShowAlert, screens, Leaves
  <2>3. UpdateUserInfoAcknowledged(s)
      BY <1>2, <1>7, <2>1, <2>2
      DEF TextReply, UpdateUserInfoRejected, ShowTextAlert, ShowAlert,
          screens, Leaves
  <2>4. save[s].editor = e
      BY <1>1, <1>2, <2>3 DEF UpdateUserInfoAcknowledged, Dismiss, screens
  <2>5. save[s].user \in Users /\ save[s].text = "updateData"
      BY <2>3
      DEF UpdateUserInfoAcknowledged, Sendable, ProfileInv, ServicesOK,
          SavesMatchServices
  <2>6. info'[save[s].user] = save[s].newText
      BY <2>3, <2>5 DEF UpdateUserInfoAcknowledged, ProfileInv, ServicesOK
  <2>7. QED
      BY <2>4, <2>5, <2>6 DEF Saved
<1>8. QED
    BY <1>4, <1>5, <1>6, <1>7 DEF Next

(***************************************************************************)
(* An edit screen leaves a running tab bar only by Cancel, or once its own *)
(* texts are saved (EditProfileViewController.updateUserInfo).             *)
(***************************************************************************)
THEOREM EditsStay == Spec => EditsStayUntilSaved
<1>1. ProfileInv /\ [Next]_profileVars =>
          [\A e \in Editors : Leaves(e) => Saved(e)]_profileVars
    BY LeavingStep
<1>2. QED
    BY ProfileInvariant, <1>1, PTL
    DEF Spec, EditsStayUntilSaved, Leaves, Saved

-----------------------------------------------------------------------------
(* The queue of text writes *)

Queued(s) == save[s].text = "updateData"

SameQueue(s, t) == Queued(s) /\ Queued(t) /\ save[s].user = save[t].user

(***************************************************************************)
(* The writes of each user stand in one line: of any two one is ahead of   *)
(* the other, with everything that is ahead of it, and none is ahead of    *)
(* itself. No write waits for one that has left, or for another user's.    *)
(* Each write records by itself what was queued when Done was pressed;     *)
(* answers, restarts and reused slots must leave these records in accord.  *)
(***************************************************************************)
InLine(s, t) ==
    /\ s \in save[t].ahead =>
          SameQueue(s, t) /\ save[s].ahead \subseteq save[t].ahead
    /\ SameQueue(s, t) /\ s # t =>
          s \in save[t].ahead \/ t \in save[s].ahead
    /\ s \notin save[s].ahead

QueuesInOrder == \A s, t \in Saves : InLine(s, t)

\* A step of a chain that neither joins nor leaves the queue.
StaysInLine(new, old) ==
    /\ new.text = "updateData" <=> old.text = "updateData"
    /\ new.text = "updateData" => new.user = old.user /\ new.ahead = old.ahead
    /\ new.text # "updateData" => new.ahead \subseteq old.ahead

LEMMA LineKept ==
    ASSUME QueuesInOrder, \A s \in Saves : StaysInLine(save'[s], save[s])
    PROVE  QueuesInOrder'
<1>1. \A s, t \in Saves :
          /\ SameQueue(s, t)' <=> SameQueue(s, t)
          /\ Queued(t) => save'[t].ahead = save[t].ahead
          /\ save'[t].ahead \subseteq save[t].ahead
    BY DEF SameQueue, Queued, StaysInLine
<1>2. SUFFICES ASSUME NEW s \in Saves, NEW t \in Saves
               PROVE  InLine(s, t)'
    BY DEF QueuesInOrder
<1>3. SameQueue(s, t) => Queued(s) /\ Queued(t)
    BY DEF SameQueue
<1> QED
    BY <1>1, <1>3 DEF QueuesInOrder, InLine

LEMMA LineJoined ==
    ASSUME QueuesInOrder, save \in [Saves -> SaveRecord],
           NEW s \in Saves, ~Queued(s), Queued(s)',
           save'[s].ahead = Pending(save'[s].user),
           \A w \in Saves \ {s} : save'[w] = save[w]
    PROVE  QueuesInOrder'
<1>1. \A w, x \in Saves : x \in save[w].ahead => x # s /\ w # s
    BY DEF QueuesInOrder, InLine, SameQueue
<1>2. \A w \in Saves : w \in save'[s].ahead <=>
          Queued(w) /\ save[w].user = save'[s].user
    BY DEF Pending, Queued
<1>3. \A w \in Saves \ {s} : Queued(w)' <=> Queued(w)
    BY DEF Queued
<1>4. SUFFICES ASSUME NEW w \in Saves, NEW x \in Saves
               PROVE  InLine(w, x)'
    BY DEF QueuesInOrder, InLine
<1>5. CASE w # s /\ x # s
    BY <1>1, <1>3, <1>5 DEF QueuesInOrder, InLine, SameQueue
<1>6. CASE w # s /\ x = s
  <2>1. SameQueue(w, s)' <=> w \in save'[s].ahead
      BY <1>2, <1>3, <1>6 DEF SameQueue
  <2>2. ASSUME w \in save'[s].ahead PROVE save'[w].ahead \subseteq save'[s].ahead
    <3>1. \A y \in save[w].ahead : y \in Saves /\ SameQueue(y, w)
        BY DEF QueuesInOrder, InLine, SaveRecord
    <3> QED
        BY <1>2, <1>6, <2>2, <3>1 DEF SameQueue
  <2>3. w \notin save'[w].ahead
      BY <1>6 DEF QueuesInOrder, InLine
  <2> QED
      BY <1>6, <2>1, <2>2, <2>3 DEF InLine
<1>7. CASE w = s /\ x # s
  <2>1. w \notin save'[x].ahead /\ w \notin save'[w].ahead
      BY <1>1, <1>2, <1>7
  <2>2. SameQueue(w, x)' => x \in save'[w].ahead
      BY <1>2, <1>3, <1>7 DEF SameQueue
  <2> QED
      BY <2>1, <2>2 DEF InLine
<1>8. CASE w = s /\ x = s
  <2>1. s \notin save'[s].ahead
      BY <1>2
  <2> QED
      BY <1>8, <2>1 DEF InLine
<1> QED
    BY <1>5, <1>6, <1>7, <1>8

LEMMA LineLeft ==
    ASSUME QueuesInOrder, NEW s \in Saves, ~Queued(s)', save'[s].ahead = {},
           \A w \in Saves \ {s} :
               /\ save'[w].text = save[w].text /\ save'[w].user = save[w].user
               /\ save'[w].ahead = save[w].ahead \ {s}
    PROVE  QueuesInOrder'
<1>1. \A w, x \in Saves \ {s} : SameQueue(w, x)' <=> SameQueue(w, x)
    BY DEF SameQueue, Queued
<1>2. \A w \in Saves : ~SameQueue(w, s)' /\ ~SameQueue(s, w)'
    BY DEF SameQueue
<1>3. SUFFICES ASSUME NEW w \in Saves, NEW x \in Saves
               PROVE  InLine(w, x)'
    BY DEF QueuesInOrder, InLine
<1>4. CASE w # s /\ x # s
    BY <1>1, <1>4 DEF QueuesInOrder, InLine
<1>5. CASE w = s \/ x = s
    BY <1>2, <1>5 DEF QueuesInOrder, InLine
<1> QED
    BY <1>4, <1>5

LEMMA DiedInLine ==
    ASSUME save \in [Saves -> SaveRecord], Died
    PROVE  \A s \in Saves : StaysInLine(save'[s], save[s])
<1>1. \A s \in Saves : save'[s] = Survives(save[s])
    BY DEF Died
<1>2. /\ NoSave.text = "none" /\ NoSave.ahead = {}
    BY DEF NoSave
<1>3. ASSUME NEW s \in Saves PROVE StaysInLine(save'[s], save[s])
  <2>1. CASE save[s].text = "updateData"
    <3>1. Survives(save[s]) =
              [text |-> "updateData", pic |-> "none", editor |-> Nil,
               user |-> save[s].user, newText |-> save[s].newText,
               ahead |-> save[s].ahead, picture |-> Nil,
               committer |-> NoUser, captured |-> FALSE]
        BY <2>1 DEF Survives, NoSave
    <3> QED
        BY <1>1, <2>1, <3>1 DEF StaysInLine
  <2>2. CASE save[s].text # "updateData"
    <3>1. Survives(save[s]) = NoSave
        BY <2>2 DEF Survives
    <3> QED
        BY <1>1, <1>2, <2>2, <3>1 DEF StaysInLine
  <2> QED
      BY <2>1, <2>2
<1> QED
    BY <1>3

\* One chain of one save moves on; Kept may clear the record.
LEMMA ChainInLine ==
    ASSUME save \in [Saves -> SaveRecord], NEW s \in Saves,
           NEW v \in SaveRecord, StaysInLine(v, save[s]),
           save' = [save EXCEPT ![s] = v] \/ save' = [save EXCEPT ![s] = Kept(v)]
    PROVE  \A w \in Saves : StaysInLine(save'[w], save[w])
<1>1. \A w \in Saves : StaysInLine(save[w], save[w])
    BY DEF StaysInLine
<1>2. StaysInLine(Kept(v), save[s])
  <2>1. NoSave.text = "none" /\ NoSave.ahead = {}
      BY DEF NoSave
  <2> QED
      BY <2>1 DEF Kept, StaysInLine
<1> QED
    BY <1>1, <1>2

LEMMA PictureReplyInLine ==
    ASSUME save \in [Saves -> SaveRecord], NEW s \in Saves, PictureReply(s)
    PROVE  \A w \in Saves : StaysInLine(save'[w], save[w])
<1>1. save[s] \in SaveRecord
    OBVIOUS
<1>2. ASSUME NEW stage \in PicStages, PicStage(s, stage)
      PROVE  \A w \in Saves : StaysInLine(save'[w], save[w])
  <2> DEFINE v == [save[s] EXCEPT !.pic = stage, !.picture = Nil]
  <2>1. v \in SaveRecord /\ StaysInLine(v, save[s])
      BY <1>1 DEF SaveRecord, PicStages, StaysInLine
  <2>2. save' = [save EXCEPT ![s] = Kept(v)]
      BY <1>2 DEF PicStage
  <2> HIDE DEF v
  <2> QED
      BY <2>1, <2>2, ChainInLine
<1>3. CASE save' = [save EXCEPT ![s] =
                [@ EXCEPT !.pic = "commit", !.committer = currentUser,
                          !.captured = Exists(save[s].editor)]]
  <2> DEFINE shown == Exists(save[s].editor)
             v == [save[s] EXCEPT !.pic = "commit", !.committer = currentUser,
                                  !.captured = shown]
  <2>1. save' = [save EXCEPT ![s] = v]
      BY <1>3
  <2> HIDE DEF shown
  <2>2. v.text = save[s].text /\ v.user = save[s].user /\ v.ahead = save[s].ahead
      BY <1>1 DEF SaveRecord
  <2> HIDE DEF v
  <2> QED
      BY <2>1, <2>2 DEF StaysInLine
<1>4. CASE Died
    BY <1>4, DiedInLine
<1> QED
    BY <1>2, <1>3, <1>4
    DEF PicStages, PictureReply, PutDataSucceeds, PutDataFails,
        DownloadURLSucceeds, DownloadURLFails, CommitSucceeds, CommitFails,
        CommitCallback, ShowPictureAlert

LEMMA TextReplyInLine ==
    ASSUME save \in [Saves -> SaveRecord], QueuesInOrder,
           NEW s \in Saves, TextReply(s)
    PROVE  QueuesInOrder'
<1>1. save[s] \in SaveRecord
    OBVIOUS
<1>2. CASE ShowTextAlert(s)
  <2> DEFINE v == [save[s] EXCEPT !.text = "none"]
  <2>1. v \in SaveRecord /\ StaysInLine(v, save[s])
      BY <1>1, <1>2 DEF ShowTextAlert, SaveRecord, StaysInLine
  <2>2. save' = [save EXCEPT ![s] = Kept(v)]
      BY <1>2 DEF ShowTextAlert, TextStage
  <2> HIDE DEF v
  <2> QED
      BY <2>1, <2>2, ChainInLine, LineKept
<1>3. CASE TextAnswered(s)
  <2>1. save'[s].text # "updateData"
      BY <1>3, TextAnsweredSaves
  <2>2. save'[s].ahead = {}
    <3> DEFINE v == [save[s] EXCEPT
                        !.text = IF save[s].editor = Nil THEN "none" ELSE "alert",
                        !.newText = Blank, !.ahead = {}]
    <3>1. save'[s] = Kept(v)
        BY <1>3 DEF TextAnswered
    <3>2. v.ahead = {} /\ NoSave.ahead = {}
        BY <1>1 DEF SaveRecord, NoSave
    <3> HIDE DEF v
    <3> QED
        BY <3>1, <3>2 DEF Kept
  <2>3. \A w \in Saves \ {s} :
            /\ save'[w].text = save[w].text /\ save'[w].user = save[w].user
            /\ save'[w].ahead = save[w].ahead \ {s}
    <3> DEFINE x(w) == [save[w] EXCEPT !.ahead = @ \ {s}]
    <3>1. \A w \in Saves : /\ x(w).text = save[w].text /\ x(w).user = save[w].user
                            /\ x(w).ahead = save[w].ahead \ {s}
        BY DEF SaveRecord
    <3>2. \A w \in Saves \ {s} : save'[w] = x(w)
        BY <1>3 DEF TextAnswered
    <3> HIDE DEF x
    <3> QED
        BY <3>1, <3>2
  <2> QED
      BY <2>1, <2>2, <2>3, LineLeft DEF Queued
<1> QED
    BY <1>2, <1>3 DEF TextReply, UpdateUserInfoAcknowledged, UpdateUserInfoRejected

LEMMA DoneInLine ==
    ASSUME ProfileInv, QueuesInOrder, NEW s \in Saves, NEW encoded \in BOOLEAN,
           DoneButtonPressed(s, encoded)
    PROVE  QueuesInOrder'
<1>1. CASE editor.text = Blank
  <2>1. save' = save
      BY <1>1 DEF DoneButtonPressed
  <2> QED
      BY <2>1, LineKept DEF StaysInLine
<1>2. CASE editor.text # Blank
  <2> DEFINE pic == IF editor.picture # Nil /\ encoded THEN "putData" ELSE "none"
             picture == IF encoded THEN editor.picture ELSE Nil
             v == [text |-> "updateData", pic |-> pic,
                   editor |-> editor.id, user |-> currentUser,
                   newText |-> editor.text, ahead |-> Pending(currentUser),
                   picture |-> picture,
                   committer |-> NoUser, captured |-> FALSE]
  <2>1. save' = [save EXCEPT ![s] = v]
      BY <1>2 DEF DoneButtonPressed, NoSave
  <2> HIDE DEF pic, picture
  <2>2. save \in [Saves -> SaveRecord] /\ save[s].text = "none"
      BY <1>2 DEF DoneButtonPressed, Idle, ProfileInv, ServicesOK
  <2>3. save'[s] = v /\ \A w \in Saves \ {s} : save'[w] = save[w]
      BY <2>1, <2>2
  <2>4. ~Queued(s) /\ Queued(s)' /\ save'[s].ahead = Pending(save'[s].user)
      BY <2>2, <2>3 DEF Queued
  <2> HIDE DEF v
  <2> QED
      BY <2>2, <2>3, <2>4, LineJoined
<1> QED
    BY <1>1, <1>2

LEMMA QueuesStep ==
    ASSUME ProfileInv, QueuesInOrder, [Next]_profileVars
    PROVE  QueuesInOrder'
<1>1. save \in [Saves -> SaveRecord]
    BY DEF ProfileInv, ServicesOK
<1>2. CASE UNCHANGED save
    BY <1>2, LineKept DEF StaysInLine
<1>3. CASE Died
    BY <1>1, <1>3, DiedInLine, LineKept
<1>4. ASSUME NEW s \in Saves, NEW encoded \in BOOLEAN, DoneButtonPressed(s, encoded)
      PROVE  QueuesInOrder'
    BY <1>4, DoneInLine
<1>5. ASSUME NEW s \in Saves, TextReply(s) \/ PictureReply(s)
      PROVE  QueuesInOrder'
    BY <1>1, <1>5, TextReplyInLine, PictureReplyInLine, LineKept
<1>6. CASE Session
  <2>1. UNCHANGED save \/ Died
      BY <1>6 DEF Session, SceneWillConnect, SignedIn, DatabaseUserCreated,
         NavigateToInstagram, Kill
  <2> QED
      BY <1>2, <1>3, <2>1
<1>7. CASE ProfileScreen
  <2>1. ASSUME NEW i \in {0, 1, 2}, SelectTab(i) PROVE UNCHANGED save
      BY <2>1 DEF SelectTab
  <2>2. CASE GetDocumentReturns \/ AssignInstaUser \/ PostsChanged \/ PostsListenerFails
    <3>1. CASE GetDocumentReturns
        BY <1>2, <3>1 DEF GetDocumentReturns
    <3>2. CASE AssignInstaUser
        BY <1>2, <3>2 DEF AssignInstaUser
    <3>3. CASE PostsChanged \/ PostsListenerFails
        BY <1>2, <3>3 DEF PostsChanged, PostsListenerFails
    <3> QED
        BY <2>2, <3>1, <3>2, <3>3
  <2>3. CASE SignOutButtonPressed \/ SignOutThrows \/ PictureButtonPressed
             \/ PresentedAnswered
      BY <1>2, <2>3
      DEF SignOutButtonPressed, SignOutThrows, PictureButtonPressed, PresentedAnswered
  <2>4. ASSUME NEW q \in Pictures, DidFinishPicking(q) PROVE UNCHANGED save
      BY <2>4 DEF DidFinishPicking
  <2>5. ASSUME NEW e \in Editors, EditButtonPressed(e)
        PROVE  UNCHANGED save \/ Died
    <3>1. CASE instaUser = Nil
        BY <2>5, <3>1 DEF EditButtonPressed
    <3>2. CASE instaUser # Nil
        BY <2>5, <3>2 DEF EditButtonPressed
    <3> QED
        BY <3>1, <3>2
  <2> QED
      BY <1>2, <1>3, <1>7, <2>1, <2>2, <2>3, <2>4, <2>5 DEF ProfileScreen
<1>8. CASE EditScreen
  <2>1. ASSUME NEW t \in Texts, EditTextFields(t) PROVE UNCHANGED save
      BY <2>1 DEF EditTextFields
  <2>2. CASE ChangePicture \/ OverAnswered \/ CancelButtonPressed
      BY <1>2, <2>2 DEF ChangePicture, OverAnswered, CancelButtonPressed
  <2>3. ASSUME NEW q \in Pictures, EditorPicks(q) PROVE UNCHANGED save
      BY <2>3 DEF EditorPicks
  <2> QED
      BY <1>2, <1>4, <1>8, <2>1, <2>2, <2>3 DEF EditScreen
<1>9. CASE UNCHANGED profileVars
    BY <1>2, <1>9 DEF profileVars
<1> QED
    BY <1>5, <1>6, <1>7, <1>8, <1>9 DEF Next

(***************************************************************************)
(* Through presses of Done, answers in any number and restarts, the text   *)
(* writes of each user stand in one line.                                  *)
(***************************************************************************)
THEOREM QueuesStayInOrder == Spec => []QueuesInOrder
<1>1. Init => QueuesInOrder
    BY DEF Init, NoSave, QueuesInOrder, InLine, SameQueue, Queued
<1>2. ProfileInv /\ QueuesInOrder /\ [Next]_profileVars => QueuesInOrder'
    BY QueuesStep
<1> QED
    BY <1>1, <1>2, ProfileInvariant, PTL DEF Spec

-----------------------------------------------------------------------------
(* The first and the last of a line *)

\* Of finitely many in a line, one comes before all others. The relation is
\* given by the set of those before each.
LEMMA LineHasFirst ==
    ASSUME NEW line, IsFiniteSet(line), line # {},
           NEW before, before \in [line -> SUBSET line],
           \A x, y \in line : y \in before[x] => before[y] \subseteq before[x],
           \A x \in line : x \notin before[x]
    PROVE  \E x \in line : before[x] = {}
<1> DEFINE R == StrictSubsetOrdering(line)
           T == {before[x] : x \in line}
<1>1. IsWellFoundedOn(R, SUBSET line)
  <2>1. IsWellFoundedOn(StrictSubsetOrdering(line), FiniteSubsetsOf(line))
      BY ONLY FS_StrictSubsetOrderingWellFounded, Zenon
  <2>2. FiniteSubsetsOf(line) = SUBSET line
      BY FS_FiniteSubsetsOfFinite
  <2> QED
      BY <2>1, <2>2
<1>2. T \subseteq SUBSET line /\ T # {}
    OBVIOUS
<1>3. PICK b \in T : \A c \in T : <<c, b>> \notin R
  <2> HIDE DEF R, T
  <2> QED
      BY <1>1, <1>2, WFMin
<1>4. PICK x \in line : before[x] = b
    OBVIOUS
<1>5. SUFFICES ASSUME NEW y \in line, y \in before[x]
               PROVE  FALSE
    BY <1>4
<1>6. before[y] \in SUBSET before[x] /\ before[y] # before[x]
    BY <1>5
<1>7. <<before[y], before[x]>> \in R
    BY <1>6 DEF StrictSubsetOrdering
<1> QED
    BY <1>3, <1>4, <1>7

LEMMA PendingInLine ==
    ASSUME QueuesInOrder, save \in [Saves -> SaveRecord], NEW u,
           NEW s \in Saves, NEW t \in Saves, s \in Pending(u), t \in Pending(u)
    PROVE  /\ save[s].ahead \subseteq Pending(u)
           /\ s \in save[t].ahead =>
                 s # t /\ t \notin save[s].ahead /\ save[s].ahead \subseteq save[t].ahead
           /\ s # t => s \in save[t].ahead \/ t \in save[s].ahead
<1>1. save[s].ahead \subseteq Saves
    BY DEF SaveRecord
<1>2. \A w \in save[s].ahead : SameQueue(w, s)
    BY <1>1 DEF QueuesInOrder, InLine
<1>3. save[s].ahead \subseteq Pending(u)
    BY <1>1, <1>2 DEF SameQueue, Queued, Pending
<1>4. SameQueue(s, t)
    BY DEF SameQueue, Queued, Pending
<1> QED
    BY <1>3, <1>4 DEF QueuesInOrder, InLine

(***************************************************************************)
(* Nobody waits in a circle: among the text writes a user has queued one   *)
(* has nothing ahead of it, so Firestore can send it as soon as the user   *)
(* is signed in. With fair answers this is why the text chain of every     *)
(* press of Done comes to an end (DoneResolves).                           *)
(***************************************************************************)
SomeWriteIsFirst ==
    \A u \in Users : Pending(u) # {} =>
        \E s \in Pending(u) : /\ save[s].ahead = {}
                              /\ Running /\ currentUser = u => Sendable(s)

THEOREM QueuesMoveOn ==
    ASSUME IsFiniteSet(Saves)
    PROVE  Spec => []SomeWriteIsFirst
<1>1. ASSUME ProfileInv, QueuesInOrder PROVE SomeWriteIsFirst
  <2>1. SUFFICES ASSUME NEW u \in Users, Pending(u) # {}
                 PROVE  \E s \in Pending(u) : save[s].ahead = {}
      BY DEF SomeWriteIsFirst, Sendable, Pending
  <2>2. save \in [Saves -> SaveRecord]
      BY <1>1 DEF ProfileInv, ServicesOK
  <2>3. Pending(u) \in SUBSET Saves /\ IsFiniteSet(Pending(u))
      BY FS_Subset DEF Pending
  <2> DEFINE before == [s \in Pending(u) |-> save[s].ahead]
  <2>4. \A s \in Pending(u) : before[s] = save[s].ahead
      OBVIOUS
  <2>5. before \in [Pending(u) -> SUBSET Pending(u)]
      BY <1>1, <2>2, <2>3, PendingInLine
  <2>6. \A s, t \in Pending(u) :
            /\ t \in before[s] => before[t] \subseteq before[s]
            /\ s \notin before[s]
      BY <1>1, <2>2, <2>3, <2>4, PendingInLine
  <2> HIDE DEF before
  <2>7. \E s \in Pending(u) : before[s] = {}
      BY <2>1, <2>3, <2>5, <2>6, LineHasFirst
  <2> QED
      BY <2>4, <2>7
<1> QED
    BY <1>1, ProfileInvariant, QueuesStayInOrder, PTL

(***************************************************************************)
(* While writes of a user are queued, what getDocument finds of a document *)
(* that exists is one value: the texts of the last of them.                *)
(***************************************************************************)
LastTextsShow ==
    \A u \in Users : info[u] # Nil /\ Pending(u) # {} =>
        \E s \in Pending(u) : /\ FetchedTexts(u) = {save[s].newText}
                              /\ Pending(u) = save[s].ahead \cup {s}

THEOREM LastTextsAreShown ==
    ASSUME IsFiniteSet(Saves)
    PROVE  Spec => []LastTextsShow
<1>1. ASSUME ProfileInv, QueuesInOrder PROVE LastTextsShow
  <2>1. SUFFICES ASSUME NEW u \in Users, info[u] # Nil, Pending(u) # {}
                 PROVE  \E s \in Pending(u) :
                           /\ FetchedTexts(u) = {save[s].newText}
                           /\ Pending(u) = save[s].ahead \cup {s}
      BY DEF LastTextsShow
  <2>2. save \in [Saves -> SaveRecord]
      BY <1>1 DEF ProfileInv, ServicesOK
  <2>3. Pending(u) \in SUBSET Saves /\ IsFiniteSet(Pending(u))
      BY FS_Subset DEF Pending
  <2> DEFINE behind == [s \in Pending(u) |->
                           {t \in Pending(u) : s \in save[t].ahead}]
  <2>4. \A s \in Pending(u) : behind[s] = {t \in Pending(u) : s \in save[t].ahead}
      OBVIOUS
  <2>5. behind \in [Pending(u) -> SUBSET Pending(u)]
      OBVIOUS
  <2>6. \A s, t \in Pending(u) :
            /\ t \in behind[s] => behind[t] \subseteq behind[s]
            /\ s \notin behind[s]
      BY <1>1, <2>2, <2>3, <2>4, PendingInLine
  <2> HIDE DEF behind
  <2>7. PICK s \in Pending(u) : behind[s] = {}
      BY <2>1, <2>3, <2>5, <2>6, LineHasFirst
  <2>8. \A t \in Pending(u) : s \notin save[t].ahead
      BY <2>4, <2>7
  <2>9. Pending(u) = save[s].ahead \cup {s}
      BY <1>1, <2>2, <2>3, <2>8, PendingInLine
  <2>10. {t \in Pending(u) : \A w \in Pending(u) : t \notin save[w].ahead} = {s}
      BY <2>8, <2>9
  <2>11. FetchedTexts(u) = {save[s].newText}
      BY <2>1, <2>10 DEF FetchedTexts
  <2> QED
      BY <2>9, <2>11
<1> QED
    BY <1>1, ProfileInvariant, QueuesStayInOrder, PTL

=============================================================================
