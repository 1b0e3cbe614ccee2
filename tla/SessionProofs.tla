--------------------------- MODULE SessionProofs ---------------------------
(***************************************************************************)
(* Theorems about Session, for any sets of accounts and request slots.     *)
(*                                                                         *)
(* InstagramNeedsUser and DocumentsNeedAccounts are not inductive alone:   *)
(* a late navigation shows the tab bar, and a late setData adds a          *)
(* document, from what a chain recorded several steps earlier.             *)
(* ChainsMatchSession says what is still true of that record.              *)
(***************************************************************************)
EXTENDS Session, TLAPS

SessionInv ==
    /\ SessionTypeOK
    /\ InstagramNeedsUser
    /\ DocumentsNeedAccounts
    /\ ChainsMatchSession

USE NoUserAssumption

(***************************************************************************)
(* The steps of one chain, as changes of its record: stage and owner are   *)
(* all that Advance, Finish and CreateUser ever assign.                    *)
(***************************************************************************)
LEMMA RequestTypes ==
    ASSUME SessionTypeOK, NEW r \in Requests
    PROVE  /\ Idle \in RequestRecord
           /\ request[r] \in RequestRecord
           /\ \A s \in Stages : [request EXCEPT ![r].stage = s]
                                    \in [Requests -> RequestRecord]
           /\ [request EXCEPT ![r] = Idle] \in [Requests -> RequestRecord]
  BY DEF SessionTypeOK, RequestRecord, Idle, Stages

LEMMA ReleasedTypes ==
    ASSUME NEW reqs \in [Requests -> RequestRecord]
    PROVE  /\ Released(reqs) \in [Requests -> RequestRecord]
           /\ \A r \in Requests :
                 /\ ~Released(reqs)[r].live
                 /\ Released(reqs)[r].stage = reqs[r].stage
                 /\ Released(reqs)[r].user = reqs[r].user
  BY DEF Released, RequestRecord

(***************************************************************************)
(* The initial state satisfies the invariant.                              *)
(***************************************************************************)
LEMMA SessionInit == Init => SessionInv
  BY DEF Init, SessionInv, SessionTypeOK, InstagramNeedsUser,
         DocumentsNeedAccounts, ChainsMatchSession, Idle, RequestRecord,
         Stages, LoginScreen, InstagramScreen

(***************************************************************************)
(* A chain that only ends preserves the invariant.                         *)
(***************************************************************************)
LEMMA ChainEnds ==
    ASSUME SessionInv, NEW r \in Requests, Finish(r),
           UNCHANGED <<registered, userDocs, currentUser, root, accountState>>
    PROVE  SessionInv'
  BY RequestTypes
  DEF Finish, Idle, SessionInv, SessionTypeOK, InstagramNeedsUser,
      DocumentsNeedAccounts, ChainsMatchSession, LoginScreen,
      InstagramScreen, RequestRecord

(***************************************************************************)
(* Every step of the session preserves the invariant.                      *)
(***************************************************************************)
LEMMA SessionStep == SessionInv /\ [Next]_sessionVars => SessionInv'
<1> USE DEF SessionInv, InstagramNeedsUser, DocumentsNeedAccounts,
            ChainsMatchSession, LoginScreen, InstagramScreen
<1> SUFFICES ASSUME SessionInv, [Next]_sessionVars
             PROVE  SessionInv'
    OBVIOUS
<1>1. CASE SceneWillConnect
  <2>1. request \in [Requests -> RequestRecord]
      BY DEF SessionTypeOK
  <2>2. QED
      BY <1>1, <2>1, ReleasedTypes
      DEF SceneWillConnect, ShowViewController, SessionTypeOK, Running
<1>2. CASE Kill
  <2>1. \A r \in Requests : Survives(request[r]) \in RequestRecord
      BY DEF SessionTypeOK, RequestRecord, Survives, Idle, Stages
  <2>2. registered' \in SUBSET Users /\ registered \subseteq registered'
      BY <1>2 DEF Kill, SessionTypeOK
  <2>3. SessionTypeOK'
      BY <1>2, <2>1, <2>2 DEF Kill, SessionTypeOK
  <2>4. \A r \in Requests :
            /\ ~request'[r].live
            /\ \/ request'[r].stage = "idle"
               \/ /\ request'[r].stage = "setData"
                  /\ request[r].stage = "setData"
                  /\ request'[r].user = request[r].user
      BY <1>2 DEF Kill, Survives, Idle, SessionTypeOK, RequestRecord
  <2>5. QED
      BY <1>2, <2>2, <2>3, <2>4 DEF Kill
<1>3. CASE SignUpButtonPressed
    BY <1>3 DEF SignUpButtonPressed, SessionTypeOK
<1>4. CASE SignOutButtonPressed
  <2>1. request \in [Requests -> RequestRecord]
      BY DEF SessionTypeOK
  <2>2. QED
      BY <1>4, <2>1, ReleasedTypes
      DEF SignOutButtonPressed, ShowViewController, SessionTypeOK
<1>5. ASSUME NEW r \in Requests, NEW u \in Users, LoginButtonPressed(r, u)
      PROVE  SessionInv'
    BY <1>5 DEF LoginButtonPressed, SessionTypeOK, RequestRecord, Stages,
                ServerStages, MainQueueStages
<1>6. ASSUME NEW r \in Requests, SignInSucceeds(r)
      PROVE  SessionInv'
    BY <1>6, RequestTypes
    DEF SignInSucceeds, Advance, SessionTypeOK, RequestRecord, Stages,
        MainQueueStages
<1>7. ASSUME NEW r \in Requests, CreateUserSucceeds(r)
      PROVE  SessionInv'
    BY <1>7, RequestTypes
    DEF CreateUserSucceeds, Advance, SessionTypeOK, RequestRecord, Stages,
        MainQueueStages
<1>8. ASSUME NEW r \in Requests, AuthFails(r)
      PROVE  SessionInv'
    BY <1>8, ChainEnds DEF AuthFails
<1>9. ASSUME NEW r \in Requests, CreateUserAnswerLost(r)
      PROVE  SessionInv'
    BY <1>9, RequestTypes
    DEF CreateUserAnswerLost, Finish, Idle, SessionTypeOK, RequestRecord
<1>10. ASSUME NEW r \in Requests, SetDataAcknowledged(r)
       PROVE  SessionInv'
    BY <1>10, RequestTypes
    DEF SetDataAcknowledged, Advance, SessionTypeOK, RequestRecord, Stages,
        MainQueueStages
<1>11. ASSUME NEW r \in Requests, SetDataRejected(r)
       PROVE  SessionInv'
    BY <1>11, RequestTypes
    DEF SetDataRejected, Advance, SessionTypeOK, RequestRecord, Stages,
        MainQueueStages
<1>12. ASSUME NEW r \in Requests, CreateUser(r)
       PROVE  SessionInv'
  <2>1. CASE request[r].live
      BY <1>12, <2>1
      DEF CreateUser, SessionTypeOK, RequestRecord, Stages, ServerStages
  <2>2. CASE ~request[r].live
      BY <1>12, <2>2, ChainEnds DEF CreateUser
  <2>3. QED
      BY <2>1, <2>2
<1>13. ASSUME NEW r \in Requests, ShowCreateUserAlert(r)
       PROVE  SessionInv'
    BY <1>13, ChainEnds DEF ShowCreateUserAlert
<1>14. ASSUME NEW r \in Requests, NavigateToInstagram(r)
       PROVE  SessionInv'
  <2>1. CASE request[r].live
    <3>1. [request EXCEPT ![r] = Idle] \in [Requests -> RequestRecord]
        BY RequestTypes
    <3>2. currentUser # NoUser
        BY <1>14, <2>1 DEF NavigateToInstagram
    <3>3. /\ root' = InstagramScreen
          /\ accountState' = "existingUser"
          /\ request' = Released([request EXCEPT ![r] = Idle])
          /\ UNCHANGED <<registered, userDocs, currentUser>>
        BY <1>14, <2>1 DEF NavigateToInstagram, ShowViewController
    <3>4. SessionTypeOK'
        BY <3>1, <3>3, ReleasedTypes DEF SessionTypeOK
    <3>5. \A q \in Requests :
              /\ ~request'[q].live
              /\ \/ request'[q].stage = "idle"
                 \/ /\ request'[q].stage = request[q].stage
                    /\ request'[q].user = request[q].user
        BY <3>1, <3>3, ReleasedTypes DEF SessionTypeOK, Idle
    <3>6. QED
        BY <3>2, <3>3, <3>4, <3>5
  <2>2. CASE ~request[r].live
      BY <1>14, <2>2, ChainEnds DEF NavigateToInstagram
  <2>3. QED
      BY <2>1, <2>2
<1>15. CASE UNCHANGED sessionVars
    BY <1>15 DEF sessionVars, SessionTypeOK
<1>16. QED
    BY <1>1, <1>2, <1>3, <1>4, <1>5, <1>6, <1>7, <1>8, <1>9, <1>10, <1>11,
       <1>12, <1>13, <1>14, <1>15
    DEF Next, AuthReply, WriteReply, MainQueue

(***************************************************************************)
(* The inductive invariant holds in every state of the session.            *)
(***************************************************************************)
THEOREM SessionInvariant == Spec => []SessionInv
  BY SessionInit, SessionStep, PTL DEF Spec

(***************************************************************************)
(* Every variable keeps its type.                                          *)
(***************************************************************************)
THEOREM SessionTypeCorrect == Spec => []SessionTypeOK
  BY SessionInvariant, PTL DEF SessionInv

(***************************************************************************)
(* The tab bar is never shown without a signed-in user, whatever late      *)
(* replies, sign-outs and restarts interleave with login chains.           *)
(***************************************************************************)
THEOREM TabBarNeedsUser == Spec => []InstagramNeedsUser
  BY SessionInvariant, PTL DEF SessionInv

(***************************************************************************)
(* Sign-up writes documents only for accounts that exist, and only such an *)
(* account is ever signed in.                                              *)
(***************************************************************************)
THEOREM AccountsFirst == Spec => []DocumentsNeedAccounts
  BY SessionInvariant, PTL DEF SessionInv

(***************************************************************************)
(* What a chain recorded steps ago is still true when it goes on: a live   *)
(* chain has the login screen to itself, and a pending document has an     *)
(* account.                                                                *)
(***************************************************************************)
THEOREM ChainsStayConsistent == Spec => []ChainsMatchSession
  BY SessionInvariant, PTL DEF SessionInv

(***************************************************************************)
(* A step never gives an orphaned account its document: after the one      *)
(* createDatabaseUser of the sign-up no chain for the account can reach    *)
(* setData again.                                                          *)
(***************************************************************************)
LEMMA OrphanStep ==
    ASSUME SessionTypeOK, [Next]_sessionVars, NEW u \in Users, Orphan(u)
    PROVE  Orphan(u)'
<1> USE DEF Orphan
<1>1. CASE SceneWillConnect
    BY <1>1, ReleasedTypes
    DEF SceneWillConnect, ShowViewController, SessionTypeOK
<1>2. CASE Kill
  <2>1. registered \subseteq registered' /\ userDocs' = userDocs
      BY <1>2 DEF Kill
  <2>2. \A r \in Requests :
            \/ request'[r].stage = "idle"
            \/ /\ request'[r].stage = request[r].stage
               /\ request'[r].user = request[r].user
      BY <1>2 DEF Kill, Survives, Idle, SessionTypeOK, RequestRecord
  <2>3. QED
      BY <2>1, <2>2
<1>3. CASE SignUpButtonPressed
    BY <1>3 DEF SignUpButtonPressed
<1>4. CASE SignOutButtonPressed
    BY <1>4, ReleasedTypes
    DEF SignOutButtonPressed, ShowViewController, SessionTypeOK
<1>5. ASSUME NEW r \in Requests, NEW v \in Users, LoginButtonPressed(r, v)
      PROVE  Orphan(u)'
    BY <1>5 DEF LoginButtonPressed, SessionTypeOK
<1>6. ASSUME NEW r \in Requests,
             \/ AuthReply(r) \/ CreateUserAnswerLost(r) \/ WriteReply(r)
             \/ CreateUser(r) \/ ShowCreateUserAlert(r)
      PROVE  Orphan(u)'
    BY <1>6
    DEF AuthReply, SignInSucceeds, CreateUserSucceeds, AuthFails,
        CreateUserAnswerLost, WriteReply, SetDataAcknowledged,
        SetDataRejected, CreateUser, ShowCreateUserAlert, Advance, Finish,
        Idle, SessionTypeOK, RequestRecord
<1>7. ASSUME NEW r \in Requests, NavigateToInstagram(r)
      PROVE  Orphan(u)'
  <2>1. CASE request[r].live
    <3>1. [request EXCEPT ![r] = Idle] \in [Requests -> RequestRecord]
        BY RequestTypes
    <3>2. /\ request' = Released([request EXCEPT ![r] = Idle])
          /\ UNCHANGED <<registered, userDocs>>
        BY <1>7, <2>1 DEF NavigateToInstagram, ShowViewController
    <3>3. \A q \in Requests :
              \/ request'[q].stage = "idle"
              \/ /\ request'[q].stage = request[q].stage
                 /\ request'[q].user = request[q].user
        BY <3>1, <3>2, ReleasedTypes DEF SessionTypeOK, Idle
    <3>4. QED
        BY <3>2, <3>3
  <2>2. CASE ~request[r].live
      BY <1>7, <2>2 DEF NavigateToInstagram, Finish, Idle, SessionTypeOK
  <2>3. QED
      BY <2>1, <2>2
<1>8. CASE UNCHANGED sessionVars
    BY <1>8 DEF sessionVars
<1>9. QED
    BY <1>1, <1>2, <1>3, <1>4, <1>5, <1>6, <1>7, <1>8 DEF Next, MainQueue

(***************************************************************************)
(* An account that missed its document during sign-up never gets one.      *)
(***************************************************************************)
THEOREM OrphansForever == Spec => OrphansStayOrphans
<1>1. SessionInv /\ [Next]_sessionVars
          => [\A u \in Users : Orphan(u) => Orphan(u)']_sessionVars
    BY OrphanStep DEF SessionInv
<1>2. QED
    BY <1>1, SessionInvariant, PTL DEF Spec, OrphansStayOrphans

=============================================================================
