--------------------------- MODULE PostingProofs ---------------------------
(***************************************************************************)
(* Theorems about Posting, for any sets of accounts, posts, pictures and   *)
(* captions: the type invariant, that a photo is the submitted one, that a *)
(* stranded post stays without, that no failure costs the user the draft,  *)
(* and that the chain of callbacks implements Publication.                 *)
(*                                                                         *)
(* PhotoMatchesPost is not inductive alone: the URL written into a post    *)
(* was asked for two steps after the picture was uploaded.                 *)
(* ServicesMatchChain says what the services hold at each stage.           *)
(***************************************************************************)
EXTENDS Posting, TLAPS

PostingInv ==
    /\ PostingTypeOK
    /\ PhotoMatchesPost
    /\ ServicesMatchChain

LEMMA InitialRecords ==
    /\ NoFetch \in [stage: {"none", "getDocument", "assign"}, user: MaybeUser]
    /\ NoFlow \in FlowRecord
    /\ NoUser \in MaybeUser
  BY DEF NoFetch, NoFlow, FlowRecord, Stages, MaybeUser

(***************************************************************************)
(* The initial state satisfies the invariant.                              *)
(***************************************************************************)
LEMMA PostingInit == Init => PostingInv
<1> SUFFICES ASSUME Init
             PROVE  PostingInv
    OBVIOUS
<1>1. PostingTypeOK
    BY InitialRecords DEF Init, PostingTypeOK
<1>2. \A p \in PostIds : flow[p].stage = "none" /\ posts[p] = Nil
    BY DEF Init, NoFlow
<1>3. PhotoMatchesPost /\ ServicesMatchChain
    BY <1>2 DEF PhotoMatchesPost, HasPhoto, ServicesMatchChain
<1>4. QED
    BY <1>1, <1>3 DEF PostingInv

(***************************************************************************)
(* What the controller's screen, the author fetch and the session do       *)
(* preserves the types, and touches neither the chains nor the services.   *)
(***************************************************************************)
QuietStep ==
    \/ SceneWillConnect \/ NavigateToInstagram
    \/ \E u \in Users : SignedIn(u)
    \/ \E i \in {0, 1, 2} : SelectTab(i)
    \/ \E c \in Captions \cup {Nil} : EditCaption(c)
    \/ CancelButtonPressed
    \/ PhotoButtonPressed
    \/ \E choice \in {"none", "picker"} : SheetAnswered(choice)
    \/ PresentedDismissed
    \/ \E i \in Images : DidFinishPicking(i)
    \/ FetchReply
    \/ AssignInstaUser
    \/ UNCHANGED postingVars

LEMMA QuietTypes ==
    ASSUME PostingTypeOK, QuietStep
    PROVE  PostingTypeOK' /\ UNCHANGED <<flow, posts, stored>>
<1> USE DEF PostingTypeOK, MaybeUser, draftVars, authorVars, serverVars
<1>1. CASE SceneWillConnect \/ NavigateToInstagram
    BY <1>1 DEF SceneWillConnect, NavigateToInstagram
<1>2. ASSUME NEW u \in Users, SignedIn(u)
      PROVE  PostingTypeOK' /\ UNCHANGED <<flow, posts, stored>>
    BY <1>2 DEF SignedIn
<1>3. ASSUME NEW i \in {0, 1, 2}, SelectTab(i)
      PROVE  PostingTypeOK' /\ UNCHANGED <<flow, posts, stored>>
  <2>1. fetch' \in [stage: {"none", "getDocument", "assign"}, user: MaybeUser]
      BY <1>3 DEF SelectTab
  <2>2. loaded' \in BOOLEAN /\ nextEnabled' \in BOOLEAN
      BY <1>3 DEF SelectTab
  <2>3. QED
      BY <1>3, <2>1, <2>2 DEF SelectTab
<1>4. ASSUME NEW c \in Captions \cup {Nil}, EditCaption(c)
      PROVE  PostingTypeOK' /\ UNCHANGED <<flow, posts, stored>>
    BY <1>4 DEF EditCaption
<1>5. CASE CancelButtonPressed \/ PhotoButtonPressed \/ PresentedDismissed
    BY <1>5 DEF CancelButtonPressed, PhotoButtonPressed, PresentedDismissed
<1>6. ASSUME NEW choice \in {"none", "picker"}, SheetAnswered(choice)
      PROVE  PostingTypeOK' /\ UNCHANGED <<flow, posts, stored>>
    BY <1>6 DEF SheetAnswered
<1>7. ASSUME NEW i \in Images, DidFinishPicking(i)
      PROVE  PostingTypeOK' /\ UNCHANGED <<flow, posts, stored>>
    BY <1>7 DEF DidFinishPicking
<1>8. CASE FetchReply
  <2>1. ASSUME NEW found \in BOOLEAN, GetDocumentReturns(found)
        PROVE  PostingTypeOK' /\ UNCHANGED <<flow, posts, stored>>
      BY <2>1 DEF GetDocumentReturns
  <2>2. CASE GetDocumentFails
      BY <2>2 DEF GetDocumentFails, NoFetch
  <2>3. QED
      BY <1>8, <2>1, <2>2 DEF FetchReply
<1>9. CASE AssignInstaUser
    BY <1>9 DEF AssignInstaUser, NoFetch
<1>10. CASE UNCHANGED postingVars
    BY <1>10 DEF postingVars
<1>11. QED
    BY <1>1, <1>2, <1>3, <1>4, <1>5, <1>6, <1>7, <1>8, <1>9, <1>10
    DEF QuietStep

(***************************************************************************)
(* A released controller leaves variables of the right type behind.        *)
(***************************************************************************)
ScreenTypeOK ==
    /\ loaded \in BOOLEAN
    /\ tab \in {0, 1, 2}
    /\ presented \in {"none", "sheet", "picker", "alert"}
    /\ selectedImage \in Images \cup {Nil}
    /\ captionText \in Captions \cup {Nil}
    /\ nextEnabled \in BOOLEAN
    /\ instaUser \in MaybeUser
    /\ fetch \in [stage: {"none", "getDocument", "assign"}, user: MaybeUser]

LEMMA ReleasedTypes == ControllerReleased => ScreenTypeOK'
<1> SUFFICES ASSUME ControllerReleased
             PROVE  ScreenTypeOK'
    OBVIOUS
<1>1. loaded' \in BOOLEAN /\ nextEnabled' \in BOOLEAN
    BY DEF ControllerReleased
<1>2. /\ fetch' \in [stage: {"none", "getDocument", "assign"}, user: MaybeUser]
      /\ instaUser' \in MaybeUser
    BY InitialRecords DEF ControllerReleased
<1>3. QED
    BY <1>1, <1>2 DEF ControllerReleased, ScreenTypeOK

(***************************************************************************)
(* Sign Out and the death of the process end or keep each chain, and keep  *)
(* the posts.                                                              *)
(***************************************************************************)
LEMMA SignedOutStep ==
    ASSUME PostingInv, SignedOut
    PROVE  PostingInv'
<1>1. /\ \A p \in PostIds : /\ flow'[p].stage = flow[p].stage
                            /\ flow'[p].image = flow[p].image
                            /\ flow'[p].caption = flow[p].caption
                            /\ flow'[p].author = flow[p].author
      /\ flow' \in [PostIds -> FlowRecord]
  <2>1. flow \in [PostIds -> FlowRecord]
      BY DEF PostingInv, PostingTypeOK
  <2>2. flow' = [p \in PostIds |-> [flow[p] EXCEPT !.live = FALSE]]
      BY DEF SignedOut
  <2>3. ASSUME NEW f \in FlowRecord
        PROVE  LET g == [f EXCEPT !.live = FALSE]
               IN  /\ g \in FlowRecord
                   /\ g.stage = f.stage /\ g.image = f.image
                   /\ g.caption = f.caption /\ g.author = f.author
      BY DEF FlowRecord
  <2>4. QED
      BY <2>1, <2>2, <2>3
<1>2. posts' = posts /\ stored' = stored
    BY DEF SignedOut, serverVars
<1>3. PostingTypeOK'
    BY <1>1, <1>2, ReleasedTypes
    DEF SignedOut, PostingInv, PostingTypeOK, ScreenTypeOK, MaybeUser
<1>4. QED
    BY <1>1, <1>2, <1>3
    DEF PostingInv, PhotoMatchesPost, ServicesMatchChain, HasPhoto,
        PhotoReference

LEMMA KillChains ==
    ASSUME PostingTypeOK, Kill
    PROVE  /\ flow' \in [PostIds -> FlowRecord]
           /\ stored' \in [PostIds -> Images \cup {Nil}]
           /\ posts' = posts
           /\ \A p \in PostIds :
                 /\ \/ flow'[p].stage = "ended" /\ flow[p].stage # "none"
                    \/ /\ flow'[p].stage = flow[p].stage
                       /\ flow[p].stage \in {"none", "createPost", "updateData"}
                 /\ flow'[p].image = flow[p].image
                 /\ flow'[p].caption = flow[p].caption
                 /\ flow'[p].author = flow[p].author
                 /\ ~flow'[p].live
                 /\ \/ stored'[p] = stored[p]
                    \/ flow[p].stage = "putData" /\ stored'[p] = flow[p].image
<1>1. \A f \in FlowRecord :
          /\ Survives(f) \in FlowRecord
          /\ \/ Survives(f).stage = "ended" /\ f.stage # "none"
             \/ /\ Survives(f).stage = f.stage
                /\ f.stage \in {"none", "createPost", "updateData"}
          /\ Survives(f).image = f.image
          /\ Survives(f).caption = f.caption
          /\ Survives(f).author = f.author
          /\ ~Survives(f).live
  <2> TAKE f \in FlowRecord
  <2>1. CASE f.stage \in {"none", "createPost", "updateData"}
      BY <2>1 DEF Survives, FlowRecord, Stages
  <2>2. CASE f.stage \notin {"none", "createPost", "updateData"}
      BY <2>2 DEF Survives, FlowRecord, Stages
  <2>3. QED
      BY <2>1, <2>2
<1>2. /\ \A p \in PostIds : flow[p] \in FlowRecord /\ flow'[p] = Survives(flow[p])
      /\ flow' \in [PostIds -> FlowRecord]
    BY <1>1 DEF Kill, PostingTypeOK
<1>3. PICK arrived \in SUBSET {p \in PostIds : flow[p].stage = "putData"} :
          stored' = [p \in PostIds |->
                        IF p \in arrived THEN flow[p].image ELSE stored[p]]
    BY DEF Kill
<1>4. \A p \in PostIds : flow[p].image \in Images \cup {Nil}
    BY DEF PostingTypeOK, FlowRecord
<1>5. stored' \in [PostIds -> Images \cup {Nil}]
    BY <1>3, <1>4 DEF PostingTypeOK
<1>6. \A p \in PostIds :
          \/ stored'[p] = stored[p]
          \/ flow[p].stage = "putData" /\ stored'[p] = flow[p].image
    BY <1>3
<1>7. QED
    BY <1>1, <1>2, <1>5, <1>6 DEF Kill

LEMMA KillStep ==
    ASSUME PostingInv, Kill
    PROVE  PostingInv'
<1>1. PostingTypeOK'
    BY KillChains, ReleasedTypes
    DEF Kill, PostingInv, PostingTypeOK, ScreenTypeOK
<1>2. PhotoMatchesPost'
    BY KillChains
    DEF PostingInv, PhotoMatchesPost, ServicesMatchChain, HasPhoto,
        PhotoReference
<1>3. ServicesMatchChain'
    BY KillChains
    DEF PostingInv, ServicesMatchChain, HasPhoto, PhotoReference
<1>4. QED
    BY <1>1, <1>2, <1>3 DEF PostingInv

(***************************************************************************)
(* One step of the chain of post p, as the change of its record: its stage *)
(* and its owner, and what the step writes to the services.                *)
(***************************************************************************)
ChainMoves(p) ==
    /\ flow' \in [PostIds -> FlowRecord]
    /\ \A q \in PostIds \ {p} : flow'[q] = flow[q]
    /\ flow'[p].image = flow[p].image
    /\ flow'[p].caption = flow[p].caption
    /\ flow'[p].author = flow[p].author
    /\ flow'[p].live = flow[p].live

LEMMA AdvanceMoves ==
    ASSUME PostingTypeOK, NEW p \in PostIds, NEW s \in Stages, Advance(p, s)
    PROVE  ChainMoves(p) /\ flow'[p].stage = s
  BY DEF PostingTypeOK, Advance, ChainMoves, FlowRecord

(***************************************************************************)
(* Every step of the posting chain preserves the invariant.                *)
(***************************************************************************)
LEMMA NextButtonStep ==
    ASSUME PostingInv, NEW p \in PostIds, NextButtonPressed(p)
    PROVE  PostingInv'
<1>1. /\ flow' \in [PostIds -> FlowRecord]
      /\ \A q \in PostIds \ {p} : flow'[q] = flow[q]
      /\ flow'[p].stage = "createPost"
      /\ flow'[p].image \in Images /\ flow'[p].caption \in Captions
      /\ posts[p] = Nil
    BY DEF NextButtonPressed, PostingInv, PostingTypeOK, FlowRecord, Stages,
           ServicesMatchChain
<1>2. posts' = posts /\ stored' = stored
    BY DEF NextButtonPressed, serverVars
<1>3. PostingTypeOK'
    BY <1>1, <1>2
    DEF NextButtonPressed, draftVars, authorVars, PostingInv, PostingTypeOK
<1>4. PhotoMatchesPost'
    BY <1>1, <1>2 DEF PostingInv, PhotoMatchesPost, HasPhoto, PhotoReference
<1>5. ServicesMatchChain'
    BY <1>1, <1>2 DEF PostingInv, ServicesMatchChain, HasPhoto, PhotoReference
<1>6. QED
    BY <1>3, <1>4, <1>5 DEF PostingInv

LEMMA CreatePostStep ==
    ASSUME PostingInv, NEW p \in PostIds, NEW encoded \in BOOLEAN,
           CreatePostAcknowledged(p, encoded)
    PROVE  PostingInv'
<1> DEFINE doc == [author |-> flow[p].author, caption |-> flow[p].caption,
                   photoURL |-> Nil]
<1>1. flow[p].stage = "createPost" /\ flow[p].caption \in Captions
    BY DEF CreatePostAcknowledged, PostingInv, ServicesMatchChain
<1>2. doc \in PostRecord /\ doc # Nil
    BY <1>1, PostingAssumption
    DEF PostingInv, PostingTypeOK, FlowRecord, PostRecord, MaybeUser
<1>3. PICK s \in {"putData", "ended"} : Advance(p, s)
    BY DEF CreatePostAcknowledged
<1>4. ChainMoves(p) /\ flow'[p].stage \in {"putData", "ended"}
    BY <1>3, AdvanceMoves DEF PostingInv, Stages
<1>5. /\ posts' = [posts EXCEPT ![p] = doc]
      /\ stored' = stored
    BY DEF CreatePostAcknowledged
<1>6. /\ posts' \in [PostIds -> PostRecord \cup {Nil}]
      /\ posts'[p] = doc
      /\ \A q \in PostIds \ {p} : posts'[q] = posts[q]
    BY <1>2, <1>5 DEF PostingInv, PostingTypeOK
<1>7. tab' \in {0, 1, 2}
    BY DEF CreatePostAcknowledged, PostingInv, PostingTypeOK
<1>8. PostingTypeOK'
    BY <1>4, <1>5, <1>6, <1>7
    DEF CreatePostAcknowledged, draftVars, authorVars, PostingInv,
        PostingTypeOK, ChainMoves
<1>9. PhotoMatchesPost'
    BY <1>4, <1>5, <1>6
    DEF PostingInv, PhotoMatchesPost, HasPhoto, PhotoReference, ChainMoves
<1>10. ServicesMatchChain'
    BY <1>1, <1>2, <1>4, <1>5, <1>6
    DEF PostingInv, ServicesMatchChain, HasPhoto, PhotoReference, ChainMoves
<1>11. QED
    BY <1>8, <1>9, <1>10 DEF PostingInv

LEMMA PutDataStep ==
    ASSUME PostingInv, NEW p \in PostIds,
           PutDataSucceeds(p) \/ PutDataFails(p)
    PROVE  PostingInv'
<1>1. flow[p].stage = "putData" /\ flow[p].image \in Images
    BY DEF PutDataSucceeds, PutDataFails, PostingInv, ServicesMatchChain
<1>2. ChainMoves(p) /\ flow'[p].stage \in {"downloadURL", "alert"}
    BY AdvanceMoves DEF PutDataSucceeds, PutDataFails, PostingInv, Stages
<1>3. /\ stored' \in [PostIds -> Images \cup {Nil}]
      /\ \A q \in PostIds \ {p} : stored'[q] = stored[q]
      /\ PutDataSucceeds(p) => stored'[p] = flow[p].image
    BY <1>1
    DEF PutDataSucceeds, PutDataFails, PhotoReference, PostingInv,
        PostingTypeOK
<1>4. PutDataFails(p) => flow'[p].stage = "alert"
    BY AdvanceMoves DEF PutDataFails, PostingInv, Stages
<1>5. posts' = posts
    BY DEF PutDataSucceeds, PutDataFails
<1>6. PostingTypeOK'
    BY <1>2, <1>3, <1>5
    DEF PutDataSucceeds, PutDataFails, draftVars, authorVars, PostingInv,
        PostingTypeOK, ChainMoves
<1>7. PhotoMatchesPost'
    BY <1>1, <1>2, <1>3, <1>5
    DEF PostingInv, PhotoMatchesPost, ServicesMatchChain, HasPhoto,
        PhotoReference, ChainMoves
<1>8. ServicesMatchChain'
    BY <1>1, <1>2, <1>3, <1>4, <1>5
    DEF PostingInv, ServicesMatchChain, HasPhoto, PhotoReference, ChainMoves
<1>9. QED
    BY <1>6, <1>7, <1>8 DEF PostingInv

LEMMA UpdateImageURLStep ==
    ASSUME PostingInv, NEW p \in PostIds, UpdateImageURLAcknowledged(p)
    PROVE  /\ PostingInv'
           /\ posts[p].photoURL = Nil
           /\ posts'[p].photoURL = p
<1>1. /\ flow[p].stage = "updateData"
      /\ posts[p] # Nil /\ posts[p].photoURL = Nil
      /\ stored[p] = flow[p].image
    BY DEF UpdateImageURLAcknowledged, PostingInv, ServicesMatchChain,
           PhotoReference
<1>2. ChainMoves(p) /\ flow'[p].stage = "finish"
    BY AdvanceMoves DEF UpdateImageURLAcknowledged, PostingInv, Stages
<1>3. posts[p] \in PostRecord
    BY <1>1 DEF PostingInv, PostingTypeOK
<1>4. /\ posts' \in [PostIds -> PostRecord \cup {Nil}]
      /\ \A q \in PostIds \ {p} : posts'[q] = posts[q]
      /\ posts'[p] \in PostRecord
      /\ posts'[p].author = posts[p].author
      /\ posts'[p].caption = posts[p].caption
      /\ posts'[p].photoURL = p
    BY <1>3
    DEF UpdateImageURLAcknowledged, PhotoReference, PostingInv, PostingTypeOK,
        PostRecord
<1>5. posts'[p] # Nil /\ p # Nil
    BY <1>4, PostingAssumption DEF PostRecord, MaybeUser
<1>6. stored' = stored
    BY DEF UpdateImageURLAcknowledged
<1>7. PostingTypeOK'
    BY <1>2, <1>4, <1>6
    DEF UpdateImageURLAcknowledged, draftVars, authorVars, PostingInv,
        PostingTypeOK, ChainMoves
<1>8. PhotoMatchesPost'
    BY <1>1, <1>2, <1>4, <1>5, <1>6
    DEF PostingInv, PhotoMatchesPost, HasPhoto, PhotoReference, ChainMoves
<1>9. ServicesMatchChain'
    BY <1>1, <1>2, <1>4, <1>5, <1>6
    DEF PostingInv, ServicesMatchChain, HasPhoto, PhotoReference, ChainMoves
<1>10. QED
    BY <1>1, <1>4, <1>7, <1>8, <1>9 DEF PostingInv

\* The steps that only move the chain on: nothing is written to a service.
PassiveStep(p) ==
    \/ WriteRejected(p)
    \/ DownloadURLSucceeds(p)
    \/ DownloadURLFails(p)
    \/ ClearDraft(p)
    \/ ShowPostAlert(p)

LEMMA PassiveMoves ==
    ASSUME PostingTypeOK, NEW p \in PostIds, PassiveStep(p)
    PROVE  /\ ChainMoves(p)
           /\ \/ /\ flow'[p].stage \in {"alert", "ended"}
                 /\ flow[p].stage # "none"
              \/ /\ flow[p].stage = "downloadURL"
                 /\ flow[p].live
                 /\ flow'[p].stage = "updateData"
           /\ posts' = posts
           /\ stored' = stored
           /\ PostingTypeOK'
<1>1. CASE WriteRejected(p) \/ DownloadURLFails(p)
    BY <1>1, AdvanceMoves
    DEF WriteRejected, DownloadURLFails, Stages, draftVars, authorVars,
        serverVars, PostingTypeOK, ChainMoves
<1>2. CASE DownloadURLSucceeds(p)
  <2>1. CASE flow[p].live
    <3> DEFINE f == [flow[p] EXCEPT !.stage = "updateData",
                                   !.owner = currentUser]
    <3>1. flow[p] \in FlowRecord /\ currentUser \in MaybeUser
        BY DEF PostingTypeOK
    <3>2. /\ f \in FlowRecord
          /\ f.stage = "updateData"
          /\ f.image = flow[p].image /\ f.caption = flow[p].caption
          /\ f.author = flow[p].author /\ f.live = flow[p].live
        BY <3>1 DEF FlowRecord, Stages
    <3>3. flow' = [flow EXCEPT ![p] = f] /\ flow[p].stage = "downloadURL"
        BY <1>2, <2>1 DEF DownloadURLSucceeds
    <3>4. posts' = posts /\ stored' = stored
        BY <1>2 DEF DownloadURLSucceeds, serverVars
    <3> HIDE DEF f
    <3>5. ChainMoves(p) /\ flow'[p].stage = "updateData"
        BY <3>2, <3>3 DEF PostingTypeOK, ChainMoves
    <3>6. flow' \in [PostIds -> FlowRecord]
        BY <3>5 DEF ChainMoves
    <3>7. PostingTypeOK'
        BY <1>2, <3>4, <3>6
        DEF DownloadURLSucceeds, draftVars, authorVars, PostingTypeOK
    <3>8. QED
        BY <2>1, <3>3, <3>4, <3>5, <3>7
  <2>2. CASE ~flow[p].live
    <3>1. Advance(p, "ended") /\ flow[p].stage = "downloadURL"
        BY <1>2, <2>2 DEF DownloadURLSucceeds
    <3>2. ChainMoves(p) /\ flow'[p].stage = "ended"
        BY <3>1, AdvanceMoves DEF Stages
    <3>3. QED
        BY <1>2, <3>1, <3>2
        DEF DownloadURLSucceeds, draftVars, authorVars, serverVars,
            PostingTypeOK, ChainMoves
  <2>3. QED
      BY <2>1, <2>2
<1>3. CASE ClearDraft(p)
  <2>1. /\ ChainMoves(p) /\ flow'[p].stage = "ended"
        /\ flow[p].stage # "none"
      BY <1>3, AdvanceMoves DEF ClearDraft, Stages
  <2>2. posts' = posts /\ stored' = stored
      BY <1>3 DEF ClearDraft, serverVars
  <2>3. flow' \in [PostIds -> FlowRecord]
      BY <2>1 DEF ChainMoves
  <2>4. PostingTypeOK'
      BY <1>3, <2>2, <2>3
      DEF ClearDraft, draftVars, authorVars, PostingTypeOK
  <2>5. QED
      BY <2>1, <2>2, <2>4
<1>4. CASE ShowPostAlert(p)
    BY <1>4, AdvanceMoves
    DEF ShowPostAlert, Stages, draftVars, authorVars, serverVars,
        PostingTypeOK, ChainMoves
<1>5. QED
    BY <1>1, <1>2, <1>3, <1>4 DEF PassiveStep

LEMMA PassiveKeeps ==
    ASSUME PostingInv, NEW p \in PostIds, PassiveStep(p)
    PROVE  PostingInv'
<1>1. PostingTypeOK'
    BY PassiveMoves DEF PostingInv
<1>2. PhotoMatchesPost'
    BY PassiveMoves
    DEF PostingInv, PhotoMatchesPost, HasPhoto, ChainMoves
<1>3. ServicesMatchChain'
    BY PassiveMoves
    DEF PostingInv, ServicesMatchChain, HasPhoto, PhotoReference, ChainMoves
<1>4. QED
    BY <1>1, <1>2, <1>3 DEF PostingInv

(***************************************************************************)
(* The steps of Posting, by what they do to the chains and the services.   *)
(***************************************************************************)
LEMMA StepCases ==
    ASSUME [Next]_postingVars
    PROVE  \/ QuietStep
           \/ SignedOut
           \/ Kill
           \/ \E p \in PostIds :
                 \/ NextButtonPressed(p)
                 \/ \E encoded \in BOOLEAN : CreatePostAcknowledged(p, encoded)
                 \/ PutDataSucceeds(p) \/ PutDataFails(p)
                 \/ UpdateImageURLAcknowledged(p)
                 \/ PassiveStep(p)
  BY DEF Next, Session, Controller, Screen, WriteReply, StorageReply,
         MainQueue, QuietStep, PassiveStep

(***************************************************************************)
(* Every step preserves the invariant.                                     *)
(***************************************************************************)
LEMMA PostingStep == PostingInv /\ [Next]_postingVars => PostingInv'
<1> SUFFICES ASSUME PostingInv, [Next]_postingVars
             PROVE  PostingInv'
    OBVIOUS
<1>1. CASE QuietStep
    BY <1>1, QuietTypes
    DEF PostingInv, PhotoMatchesPost, ServicesMatchChain, HasPhoto,
        PhotoReference
<1>2. QED
    BY <1>1, StepCases, SignedOutStep, KillStep, NextButtonStep,
       CreatePostStep, PutDataStep, UpdateImageURLStep, PassiveKeeps

(***************************************************************************)
(* The inductive invariant holds in every state.                           *)
(***************************************************************************)
THEOREM PostingInvariant == Spec => []PostingInv
  BY PostingInit, PostingStep, PTL DEF Spec

(***************************************************************************)
(* Every variable keeps its type.                                          *)
(***************************************************************************)
THEOREM PostingTypeCorrect == Spec => []PostingTypeOK
  BY PostingInvariant, PTL DEF PostingInv

(***************************************************************************)
(* The photo of a post is the picture that was selected when Next was      *)
(* pressed for it, uploaded for it, and in place.                          *)
(***************************************************************************)
THEOREM PhotosMatch == Spec => []PhotoMatchesPost
  BY PostingInvariant, PTL DEF PostingInv

(***************************************************************************)
(* At every stage of a chain the database and the object store hold what   *)
(* the finished steps wrote, and nothing of the later ones.                *)
(***************************************************************************)
THEOREM ServicesMatch == Spec => []ServicesMatchChain
  BY PostingInvariant, PTL DEF PostingInv

(***************************************************************************)
(* A stranded post stays stranded: only a live chain asks for the write of *)
(* a URL.                                                                  *)
(***************************************************************************)
LEMMA StrandedStep ==
    ASSUME PostingInv, [Next]_postingVars, NEW p \in PostIds, Stranded(p)
    PROVE  Stranded(p)'
<1> USE DEF Stranded, HasPhoto
<1>1. CASE QuietStep
    BY <1>1, QuietTypes DEF PostingInv
<1>2. CASE SignedOut
    BY <1>2 DEF SignedOut, serverVars, PostingInv, PostingTypeOK, FlowRecord
<1>3. CASE Kill
    BY <1>3, KillChains DEF PostingInv
<1>4. ASSUME NEW q \in PostIds, NextButtonPressed(q)
      PROVE  Stranded(p)'
    BY <1>4 DEF NextButtonPressed, serverVars, PostingInv, PostingTypeOK
<1>5. ASSUME NEW q \in PostIds, NEW encoded \in BOOLEAN,
             CreatePostAcknowledged(q, encoded)
      PROVE  Stranded(p)'
  <2>1. CASE q = p
    <3>1. Advance(p, "ended")
        BY <1>5, <2>1 DEF CreatePostAcknowledged
    <3>2. ChainMoves(p) /\ flow'[p].stage = "ended"
        BY <3>1, AdvanceMoves DEF PostingInv, Stages
    <3>3. posts'[p].photoURL = Nil
        BY <1>5, <2>1 DEF CreatePostAcknowledged, PostingInv, PostingTypeOK
    <3>4. QED
        BY <3>2, <3>3 DEF ChainMoves
  <2>2. CASE q # p
    <3>1. PICK s \in {"putData", "ended"} : Advance(q, s)
        BY <1>5 DEF CreatePostAcknowledged
    <3>2. flow'[p] = flow[p]
        BY <2>2, <3>1 DEF Advance, PostingInv, PostingTypeOK
    <3>3. posts'[p] = posts[p]
        BY <1>5, <2>2 DEF CreatePostAcknowledged, PostingInv, PostingTypeOK
    <3>4. QED
        BY <3>2, <3>3
  <2>3. QED
      BY <2>1, <2>2
<1>6. ASSUME NEW q \in PostIds, PutDataSucceeds(q) \/ PutDataFails(q)
      PROVE  Stranded(p)'
  <2>1. ChainMoves(q) /\ flow'[q].stage \in {"downloadURL", "alert"}
      BY <1>6, AdvanceMoves DEF PutDataSucceeds, PutDataFails, PostingInv, Stages
  <2>2. posts' = posts
      BY <1>6 DEF PutDataSucceeds, PutDataFails
  <2>3. QED
      BY <2>1, <2>2 DEF ChainMoves
<1>7. ASSUME NEW q \in PostIds, UpdateImageURLAcknowledged(q)
      PROVE  Stranded(p)'
  <2>1. q # p
      BY <1>7 DEF UpdateImageURLAcknowledged
  <2>2. flow'[p] = flow[p] /\ posts'[p] = posts[p]
      BY <1>7, <2>1
      DEF UpdateImageURLAcknowledged, Advance, PostingInv, PostingTypeOK
  <2>3. QED
      BY <2>2
<1>8. ASSUME NEW q \in PostIds, PassiveStep(q)
      PROVE  Stranded(p)'
    BY <1>8, PassiveMoves DEF PostingInv, ChainMoves
<1>9. QED
    BY <1>1, <1>2, <1>3, <1>4, <1>5, <1>6, <1>7, <1>8, StepCases

(***************************************************************************)
(* A post whose controller is gone gets its photo only through a write     *)
(* that was already pending.                                               *)
(***************************************************************************)
THEOREM StrandedForever == Spec => StrandedPostStaysPhotoless
<1>1. PostingInv /\ [Next]_postingVars
          => [\A p \in PostIds : Stranded(p) => Stranded(p)']_postingVars
    BY StrandedStep
<1>2. QED
    BY <1>1, PostingInvariant, PTL DEF Spec, StrandedPostStaysPhotoless

\* The step ends the chain of p, whose controller lives and whose post is
\* stored with its photo.
EndsComplete(p) ==
    /\ flow[p].live /\ HasPhoto(p)
    /\ flow[p].stage = "finish" /\ flow'[p].stage = "ended"

(***************************************************************************)
(* What a step may do to the selected picture: leave it, replace it by     *)
(* another, drop it by ending a live chain, or lose the controller.        *)
(***************************************************************************)
LEMMA SelectionStep ==
    ASSUME PostingInv, [Next]_postingVars
    PROVE  \/ selectedImage' = selectedImage
           \/ selectedImage' # Nil
           \/ ~Shown'
           \/ \E p \in PostIds : EndsComplete(p)
<1>1. CASE \E i \in Images : DidFinishPicking(i)
    BY <1>1, PostingAssumption DEF DidFinishPicking
<1>2. CASE QuietStep /\ ~(\E i \in Images : DidFinishPicking(i))
    BY <1>2 DEF QuietStep, SceneWillConnect, NavigateToInstagram, SignedIn,
                SelectTab, EditCaption, CancelButtonPressed, PhotoButtonPressed,
                SheetAnswered, PresentedDismissed, FetchReply,
                GetDocumentReturns, GetDocumentFails, AssignInstaUser,
                draftVars, postingVars
<1>3. CASE SignedOut \/ Kill
  <2>1. root' # InstagramScreen
      BY <1>3 DEF SignedOut, Kill, LoginScreen, InstagramScreen
  <2> QED
      BY <2>1 DEF Shown
<1>4. ASSUME NEW p \in PostIds,
             \/ NextButtonPressed(p)
             \/ \E encoded \in BOOLEAN : CreatePostAcknowledged(p, encoded)
             \/ PutDataSucceeds(p) \/ PutDataFails(p)
             \/ UpdateImageURLAcknowledged(p)
             \/ WriteRejected(p) \/ DownloadURLSucceeds(p) \/ DownloadURLFails(p)
             \/ ShowPostAlert(p)
      PROVE  selectedImage' = selectedImage
    BY <1>4 DEF NextButtonPressed, CreatePostAcknowledged, PutDataSucceeds,
                PutDataFails, UpdateImageURLAcknowledged, WriteRejected,
                DownloadURLSucceeds, DownloadURLFails, ShowPostAlert, draftVars
<1>5. ASSUME NEW p \in PostIds, ClearDraft(p)
      PROVE  selectedImage' = selectedImage \/ EndsComplete(p)
  <2>1. HasPhoto(p)
      BY <1>5 DEF ClearDraft, PostingInv, ServicesMatchChain
  <2>2. flow[p].live \/ selectedImage' = selectedImage
      BY <1>5 DEF ClearDraft, draftVars
  <2>3. flow[p].stage = "finish" /\ flow'[p].stage = "ended"
      BY <1>5 DEF ClearDraft, Advance, PostingInv, PostingTypeOK, FlowRecord
  <2> QED
      BY <2>1, <2>2, <2>3 DEF EndsComplete
<1> QED
    BY <1>1, <1>2, <1>3, <1>4, <1>5, StepCases DEF PassiveStep

(***************************************************************************)
(* While the controller lives, a draft is dropped only by the very step    *)
(* that ends a chain of this controller whose post is stored with its      *)
(* photo: no failure, Cancel or other tab costs the user the draft.        *)
(***************************************************************************)
THEOREM DraftsSurvive == Spec => DraftSurvivesFailure
<1>1. PostingInv /\ [Next]_postingVars
          => [(Shown /\ Shown' /\ selectedImage # Nil /\ selectedImage' = Nil) =>
                 \E p \in PostIds :
                     /\ flow[p].live /\ HasPhoto(p)
                     /\ flow[p].stage = "finish"
                     /\ flow'[p].stage = "ended"]_postingVars
    BY SelectionStep DEF EndsComplete
<1>2. QED
    BY <1>1, PostingInvariant, PTL DEF Spec, DraftSurvivesFailure

-----------------------------------------------------------------------------
(***************************************************************************)
(* Posting implements Publication: what a reader of the feed sees of a     *)
(* post changes only by the submission of its draft, its publication as    *)
(* text, and the attachment of the submitted picture.                      *)
(*                                                                         *)
(* A step maps to a stutter when it changes neither the draft a post was   *)
(* submitted with nor what is visible of it. Writes to the object store    *)
(* are invisible by PhotoMatchesPost: the objects that visible URLs name   *)
(* are the submitted pictures before and after the step.                   *)
(***************************************************************************)

Submitted == [p \in PostIds |-> SubmittedDraft(p)]
Board == [p \in PostIds |-> VisiblePost(p)]

\* What readers see of post q, and its draft, before and after a step.
SameView(q) ==
    /\ SubmittedDraft(q)' = SubmittedDraft(q)
    /\ VisiblePost(q)' = VisiblePost(q)

LEMMA UntouchedPost ==
    ASSUME PostingInv, PostingInv', NEW q \in PostIds,
           flow'[q].image = flow[q].image,
           flow'[q].caption = flow[q].caption,
           flow'[q].author = flow[q].author,
           flow'[q].stage = "none" <=> flow[q].stage = "none",
           posts'[q] = posts[q]
    PROVE  SameView(q)
<1>1. SubmittedDraft(q)' = SubmittedDraft(q)
    BY DEF SubmittedDraft
<1>2. HasPhoto(q)' <=> HasPhoto(q)
    BY DEF HasPhoto
<1>3. CASE HasPhoto(q)
  <2>1. stored[posts[q].photoURL] = stored'[posts'[q].photoURL]
      BY <1>2, <1>3 DEF PostingInv, PhotoMatchesPost
  <2>2. QED
      BY <1>1, <1>2, <2>1 DEF SameView, VisiblePost
<1>4. CASE ~HasPhoto(q)
    BY <1>1, <1>2, <1>4 DEF SameView, VisiblePost
<1>5. QED
    BY <1>3, <1>4

LEMMA InvisibleStep ==
    ASSUME \A q \in PostIds : SameView(q)
    PROVE  Submitted' = Submitted /\ Board' = Board
  BY DEF SameView, Submitted, Board

(***************************************************************************)
(* The initial states map to the initial state.                            *)
(***************************************************************************)
LEMMA PublicationInit == Init => Pub!Init
  BY DEF Init, NoFlow, Pub!Init, SubmittedDraft, VisiblePost

(***************************************************************************)
(* Pressing Next submits the draft.                                        *)
(***************************************************************************)
LEMMA NextButtonSubmits ==
    ASSUME PostingInv, PostingInv', NEW p \in PostIds, NextButtonPressed(p)
    PROVE  Pub!Submit(p)
<1> DEFINE draft == [author |-> instaUser, caption |-> captionText,
                     image |-> selectedImage]
<1>1. /\ flow[p].stage = "none"
      /\ flow' = [flow EXCEPT ![p] =
             [stage |-> "createPost", image |-> selectedImage,
              caption |-> captionText, author |-> instaUser,
              owner |-> currentUser, live |-> TRUE]]
      /\ posts' = posts
    BY DEF NextButtonPressed, serverVars
<1>2. draft \in Pub!Drafts
    BY DEF NextButtonPressed, PostingInv, PostingTypeOK, Pub!Drafts
<1>3. SubmittedDraft(p) = Nil /\ SubmittedDraft(p)' = draft
    BY <1>1 DEF SubmittedDraft, PostingInv, PostingTypeOK
<1>4. \A q \in PostIds \ {p} : SameView(q)
    BY <1>1, UntouchedPost DEF PostingInv, PostingTypeOK
<1>5. VisiblePost(p)' = VisiblePost(p)
  <2>1. posts[p] = Nil
      BY <1>1 DEF PostingInv, ServicesMatchChain
  <2>2. QED
      BY <1>1, <2>1 DEF VisiblePost
<1>6. Submitted' = [Submitted EXCEPT ![p] = draft]
    BY <1>3, <1>4 DEF Submitted, SameView
<1>7. Board' = Board
    BY <1>4, <1>5 DEF Board, SameView
<1>8. QED
    BY <1>2, <1>3, <1>6, <1>7 DEF Submitted, Board, Pub!Submit

(***************************************************************************)
(* The acknowledgement of createPost publishes the draft's text.           *)
(***************************************************************************)
LEMMA CreatePostPublishes ==
    ASSUME PostingInv, PostingInv', NEW p \in PostIds,
           NEW encoded \in BOOLEAN, CreatePostAcknowledged(p, encoded)
    PROVE  Pub!Publish(p)
<1> DEFINE doc == [author |-> flow[p].author, caption |-> flow[p].caption,
                   photoURL |-> Nil]
           text == [author |-> flow[p].author, caption |-> flow[p].caption,
                    photo |-> Nil]
<1>1. /\ flow[p].stage = "createPost"
      /\ posts[p] = Nil
      /\ flow[p].image \in Images
    BY DEF CreatePostAcknowledged, PostingInv, ServicesMatchChain
<1>2. PICK s \in {"putData", "ended"} : Advance(p, s)
    BY DEF CreatePostAcknowledged
<1>3. ChainMoves(p) /\ flow'[p].stage = s
    BY <1>2, AdvanceMoves DEF PostingInv, Stages
<1>4. /\ posts'[p] = doc
      /\ \A q \in PostIds \ {p} : posts'[q] = posts[q]
    BY DEF CreatePostAcknowledged, PostingInv, PostingTypeOK
<1>5. \A q \in PostIds \ {p} : SameView(q)
    BY <1>3, <1>4, UntouchedPost DEF ChainMoves
<1>6. SubmittedDraft(p)' = SubmittedDraft(p)
    BY <1>1, <1>3 DEF SubmittedDraft, ChainMoves
<1>7. doc # Nil
  <2>1. doc \in [author: Users \cup {NoUser}, caption: Captions,
                 photoURL: PostIds \cup {Nil}]
      BY <1>1 DEF PostingInv, PostingTypeOK, ServicesMatchChain, FlowRecord,
                  MaybeUser
  <2>2. QED
      BY <2>1, PostingAssumption
<1>8. VisiblePost(p) = Nil /\ VisiblePost(p)' = text
    BY <1>1, <1>4, <1>7 DEF VisiblePost, HasPhoto
<1>9. /\ SubmittedDraft(p) = [author |-> flow[p].author,
                             caption |-> flow[p].caption,
                             image |-> flow[p].image]
      /\ SubmittedDraft(p) # Nil
  <2>1. [author |-> flow[p].author, caption |-> flow[p].caption,
         image |-> flow[p].image]
            \in [author: Users \cup {NoUser}, caption: Captions, image: Images]
      BY <1>1 DEF PostingInv, PostingTypeOK, ServicesMatchChain, FlowRecord,
                  MaybeUser
  <2>2. QED
      BY <1>1, <2>1, PostingAssumption DEF SubmittedDraft
<1>10. Submitted' = Submitted
    BY <1>5, <1>6 DEF Submitted, SameView
<1>11. Board' = [Board EXCEPT ![p] = text]
    BY <1>5, <1>8 DEF Board, SameView
<1>12. text = [author |-> Submitted[p].author,
               caption |-> Submitted[p].caption, photo |-> Nil]
    BY <1>9 DEF Submitted
<1>13. Submitted[p] # Nil /\ Board[p] = Nil
    BY <1>8, <1>9 DEF Submitted, Board
<1>14. QED
    BY <1>10, <1>11, <1>12, <1>13 DEF Submitted, Board, Pub!Publish

(***************************************************************************)
(* The acknowledgement of the URL attaches the submitted picture.          *)
(***************************************************************************)
LEMMA UpdateImageURLAttaches ==
    ASSUME PostingInv, PostingInv', NEW p \in PostIds,
           UpdateImageURLAcknowledged(p)
    PROVE  Pub!AttachPhoto(p)
<1> DEFINE before == [author |-> posts[p].author, caption |-> posts[p].caption,
                      photo |-> Nil]
           after == [author |-> posts[p].author, caption |-> posts[p].caption,
                     photo |-> flow[p].image]
<1>1. /\ flow[p].stage = "updateData"
      /\ posts[p] # Nil /\ posts[p].photoURL = Nil
      /\ stored[p] = flow[p].image
      /\ stored' = stored
    BY DEF UpdateImageURLAcknowledged, PostingInv, ServicesMatchChain,
           PhotoReference
<1>2. ChainMoves(p) /\ flow'[p].stage = "finish"
    BY AdvanceMoves DEF UpdateImageURLAcknowledged, PostingInv, Stages
<1>3. posts[p] \in PostRecord
    BY <1>1 DEF PostingInv, PostingTypeOK
<1>4. /\ posts'[p].author = posts[p].author
      /\ posts'[p].caption = posts[p].caption
      /\ posts'[p].photoURL = p
      /\ \A q \in PostIds \ {p} : posts'[q] = posts[q]
    BY <1>3
    DEF UpdateImageURLAcknowledged, PhotoReference, PostingInv, PostingTypeOK,
        PostRecord
<1>5. HasPhoto(p)'
    BY <1>2 DEF PostingInv, ServicesMatchChain
<1>6. \A q \in PostIds \ {p} : SameView(q)
    BY <1>2, <1>4, UntouchedPost DEF ChainMoves
<1>7. SubmittedDraft(p)' = SubmittedDraft(p)
    BY <1>1, <1>2 DEF SubmittedDraft, ChainMoves
<1>8. VisiblePost(p) = before /\ VisiblePost(p)' = after
    BY <1>1, <1>4, <1>5 DEF VisiblePost, HasPhoto
<1>9. before # Nil
  <2>1. before \in [author: Users \cup {NoUser}, caption: Captions,
                    photo: Images \cup {Nil}]
      BY <1>3 DEF PostRecord, MaybeUser
  <2>2. QED
      BY <2>1, PostingAssumption
<1>10. SubmittedDraft(p).image = flow[p].image
    BY <1>1 DEF SubmittedDraft
<1>11. Submitted' = Submitted
    BY <1>6, <1>7 DEF Submitted, SameView
<1>12. Board' = [Board EXCEPT ![p].photo = Submitted[p].image]
  <2>1. [VisiblePost(p) EXCEPT !.photo = SubmittedDraft(p).image] = after
      BY <1>8, <1>10
  <2>2. \A q \in PostIds \ {p} : VisiblePost(q)' = VisiblePost(q)
      BY <1>6 DEF SameView
  <2>3. [Board EXCEPT ![p].photo = Submitted[p].image]
            = [q \in PostIds |-> IF q = p THEN after ELSE VisiblePost(q)]
      BY <2>1 DEF Board, Submitted
  <2>4. QED
      BY <1>8, <2>2, <2>3 DEF Board
<1>13. QED
    BY <1>8, <1>9, <1>11, <1>12 DEF Submitted, Board, Pub!AttachPhoto

(***************************************************************************)
(* Every step of Posting is a step of Publication, or changes nothing that *)
(* it speaks of.                                                           *)
(***************************************************************************)
LEMMA PublicationStep ==
    ASSUME PostingInv, PostingInv', [Next]_postingVars
    PROVE  [Pub!Next]_<<Submitted, Board>>
<1>1. CASE QuietStep
    BY <1>1, QuietTypes, UntouchedPost, InvisibleStep DEF PostingInv
<1>2. CASE SignedOut
  <2>1. /\ posts' = posts
        /\ \A q \in PostIds : /\ flow'[q].stage = flow[q].stage
                              /\ flow'[q].image = flow[q].image
                              /\ flow'[q].caption = flow[q].caption
                              /\ flow'[q].author = flow[q].author
      BY <1>2 DEF SignedOut, serverVars, PostingInv, PostingTypeOK, FlowRecord
  <2>2. QED
      BY <2>1, UntouchedPost, InvisibleStep
<1>3. CASE Kill
  <2>1. \A q \in PostIds : SameView(q)
      BY <1>3, KillChains, UntouchedPost DEF PostingInv
  <2>2. QED
      BY <2>1, InvisibleStep
<1>4. ASSUME NEW p \in PostIds, NextButtonPressed(p)
      PROVE  Pub!Next
    BY <1>4, NextButtonSubmits DEF Pub!Next
<1>5. ASSUME NEW p \in PostIds, NEW encoded \in BOOLEAN,
             CreatePostAcknowledged(p, encoded)
      PROVE  Pub!Next
    BY <1>5, CreatePostPublishes DEF Pub!Next
<1>6. ASSUME NEW p \in PostIds, UpdateImageURLAcknowledged(p)
      PROVE  Pub!Next
    BY <1>6, UpdateImageURLAttaches DEF Pub!Next
<1>7. ASSUME NEW p \in PostIds, PutDataSucceeds(p) \/ PutDataFails(p)
      PROVE  Submitted' = Submitted /\ Board' = Board
  <2>1. /\ ChainMoves(p)
        /\ flow[p].stage = "putData"
        /\ flow'[p].stage \in {"downloadURL", "alert"}
        /\ posts' = posts
      BY <1>7, AdvanceMoves DEF PutDataSucceeds, PutDataFails, PostingInv, Stages
  <2>2. \A q \in PostIds : SameView(q)
      BY <2>1, UntouchedPost DEF ChainMoves
  <2>3. QED
      BY <2>2, InvisibleStep
<1>8. ASSUME NEW p \in PostIds, PassiveStep(p)
      PROVE  Submitted' = Submitted /\ Board' = Board
  <2>1. \A q \in PostIds : SameView(q)
      BY <1>8, PassiveMoves, UntouchedPost DEF PostingInv, ChainMoves
  <2>2. QED
      BY <2>1, InvisibleStep
<1>9. QED
    BY <1>1, <1>2, <1>3, <1>4, <1>5, <1>6, <1>7, <1>8, StepCases

(***************************************************************************)
(* The chain of callbacks implements Publication.                          *)
(***************************************************************************)
THEOREM PostingImplementsPublication == Spec => PublishesDrafts
<1>1. PostingInv /\ PostingInv' /\ [Next]_postingVars
          => [Pub!Next]_<<[p \in PostIds |-> SubmittedDraft(p)],
                          [p \in PostIds |-> VisiblePost(p)]>>
    BY PublicationStep DEF Submitted, Board
<1>2. QED
    BY <1>1, PublicationInit, PostingInvariant, PTL
    DEF Spec, PublishesDrafts, Pub!Spec

=============================================================================
