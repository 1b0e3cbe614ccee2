# TLA+ models of the Instagram clone

The program is an iOS app (`src/InstagramProject/InstagramProject`, about 1700
lines of Swift) on top of Firebase Auth, Firestore and Storage, whose client
libraries are vendored under `src/InstagramProject/Pods`. The app's own logic is
event handlers and completion closures on the main queue; its difficulty is that
a closure runs long after the button press that created it, when another account
may be signed in, another screen may be shown, or the process may have been
restarted. Everything the closures are told comes from the Firestore client:
writes that wait on disk, are sent again and may be answered late, and listeners
that share one watch stream. The models are about both, and about what the one
relies on in the other.

Paths of the app below are relative to `src/InstagramProject/InstagramProject`,
those of the SDK to `src/InstagramProject/Pods`; the C++ files named are under
`FirebaseFirestore/Firestore/core/src/firebase/firestore`.

## Inventory

| Part | Files | State | Operations | Talks to |
|---|---|---|---|---|
| Login and sign-up | `ViewControllers/LoginViewController`, `FirebaseServices/AuthenticationSession` | `accountState`, keyboard flags, the closures in flight | login button, sign-up toggle, keyboard notifications | Auth, Database service, window |
| Window and scene | `SceneDelegate`, `Extensions/UIViewController+Navigation`, `AppDelegate`, `TabBarController` | root view controller | choose the first screen, `showViewController` | every controller: replacing the root releases the old one |
| Session of the Firebase SDK | vendored `FIRAuth.m`, `sync_engine.cc` | `currentUser` (keychain), mutation queue of each user (on disk) | sign in, create account, sign out, send, acknowledge or reject writes | all services |
| Posting a photo | `ViewControllers/AddPhotoViewController`, `FirebaseServices/StorageService` | `selectedImage`, caption, `nextButton.isEnabled`, `instaUser`, what is presented, the chains in flight | pick, caption, Next, Cancel, four callbacks | Database service, Storage, tab bar |
| Database service | `FirebaseServices/DatabaseService` | none of its own (collections `users`, `posts`) | `createDatabaseUser`, `fetchCurrentUser`, `updateUserInfo`, `createPost` | Firestore |
| Profile screen | `ViewControllers/ProfileViewController` | `instaUser`, `userPosts`, `listener`, `selectedImage` | Sign Out, Edit, picture button, snapshot listener | Auth, Firestore, window |
| Edit profile screen | `ViewControllers/EditProfileViewController` | text fields, `selectedImage`, a copy of the user | Done, Cancel, picture button | Storage, Auth, Database service |
| Feed screen | `ViewControllers/InstagramFeedViewController`, `Views/*Cell` | `instagramPosts`, `listener`, cells | snapshot listener, data source | Firestore, Kingfisher |
| Firestore write pipeline | `core/sync_engine.cc`, `local/local_store.cc`, `local/leveldb_mutation_queue.cc`, `remote/remote_store.cc`, `remote/stream.cc`, `remote/write_stream.cc` | mutation queues, `next_batch_id_`, `mutation_callbacks_`, `write_pipeline_`, state of the stream | write, handshake, results, errors, backoff, idle timeout, user change, start | Firestore backend, credentials |
| Firestore credentials | `auth/firebase_credentials_provider_apple.mm`, `core/firestore_client.cc`, `remote/stream.cc`, `FIRAuth.m` | `current_user`, `token_counter`, `close_count_`, two queues | user change, token request and callback, stream start and close | FIRAuth, both streams |
| Firestore listeners | `core/event_manager.cc`, `core/query_listener.cc`, `core/view.cc`, `core/sync_engine.cc`, `remote/remote_store.cc`, `remote/remote_event.cc`, `remote/online_state_tracker.cc`, `remote/watch_stream.cc` | listeners of a query, its view, its target, answers due, online state | add and remove a listener, watch changes, stream errors, timeout, user change | Firestore backend, the two screens |
| Alerts, layout | `ViewExtras/*`, `Views/ProfileView` | what is presented | `showAlert` | UIKit |

What makes each part correct, and what is hard about it:

- **Login, window, session.** The tab bar needs a signed-in user; a `users`
  document needs an account; every press is answered. Hard: several presses in
  flight, replies after the screen is gone (`[weak self]` is nil), a sign-out or
  process death between any two callbacks, an account created without its
  document.
- **Posting.** What the feed shows of a post is one submitted draft, with its
  own picture or none. Hard: four calls on two services with no transaction,
  the draft editable meanwhile, another user signing in meanwhile, writes that
  survive a restart without their callbacks, uploads whose answer is lost.
- **Profile and edit profile.** Edits reach the account they were made for and
  are not undone by stale copies. Hard: two independent updates per Done, a
  cached user that is fetched once, a commit to whoever is current.
- **Feed and gallery.** One listener per screen on show, none after it has gone,
  nothing shown to a screen that has gone, and every post in the end. Hard: two
  queues between a call and its effect, a reload on a later turn of the main
  queue, the order in which UIKit calls two screens that change places.
- **Write pipeline.** Each call has one fate, in the order of the calls, and its
  own caller hears of it. Hard: answers without a name, writes sent again after
  a lost answer, errors in the middle of a pipeline, batch ids given out again,
  a user change or restart at any point.
- **Credentials.** A stream speaks for the user whose writes it carries. Hard:
  the user and its token travel over three queues and may be out of date at
  either end.
- **Listeners.** Three classes keep records of the same listens and must agree;
  no first event is missed; an old answer is not taken for a new one. Hard:
  one target id for successive listens, rejections, a stream that stays silent.

The hazards, each at its line, with the properties that watch it, are in
`PROJECT.json`.

## Modules

| Module | Models | Depends on |
|---|---|---|
| `Session` | login chains, currentUser, root window, accounts and `users` documents | |
| `Publication` | abstract specification: what readers of the feed may see of a post | |
| `Posting` | the posting screen, its chain and the `posts` and Storage contents; implements `Publication` | `Publication` |
| `Profile` | the profile and edit screens, the two chains of Done, the account's picture | |
| `App` | `Session` and `Posting` in one process, sharing `currentUser` and `root` | both |
| `PendingWrites` | abstract specification: what Firestore promises to the callers of `setData` and `updateData` | |
| `WritePipeline` | mutation queues, callbacks, pipeline and write stream; implements `PendingWrites` | `PendingWrites` |
| `StreamCredentials` | the user and its tokens between FIRAuth, the main queue and the worker queue | |
| `Listening` | listeners, view, target, watch stream and online state of one query | |
| `Feed` | the two screens that listen to the posts, on top of `Listening` | `Listening` |
| `SessionProofs`, `PostingProofs`, `ProfileProofs`, `AppProofs`, `WritePipelineProofs`, `StreamCredentialsProofs`, `ListeningProofs`, `FeedProofs` | theorems | the module in their name |
| `MC...` | model values and symmetry for TLC | |

How the layers fit. `Session`, `Posting` and `Profile` treat a Firestore write as
one record that is on disk once the call returns, is answered only while its
owner is the current user, in the order of the calls, and loses its callback
with the process. That is `PendingWrites`, which `WritePipeline` is proved to
implement. In one point the three are coarser: they take a write to be
applied when it is acknowledged. That the backend may apply it earlier, that a
write sent again may be refused after all, and that a caller may hear of a success
which the death of the process keeps from the disk, is in `PendingWrites` and
not in them. That the owner is the user the app had been told of is
`WritesBelongToCaller` of `StreamCredentials`. `Feed` needs of its listeners
what `Listening` shows.

### Session

A press of the login button occupies a slot `request[r]`; its `stage` is the
callback the chain waits for. `signIn`, `createUser` and `setData` wait for a
server, `createDatabaseUser`, `navigate` and `alert` for their turn on the main
queue (each `DispatchQueue.main.async` of `LoginViewController` 109-138).
`live` is the weak `self`: replacing the root view controller makes it false for
every chain (`Released`). Guards taken from the code: `CreateUser` and
`NavigateToInstagram` do nothing without a live controller, the button is never
disabled, an error is only printed.

Facts taken from the SDK: `currentUser` changes before the callback is queued
(`FIRAuth.m` 1756-1781); a write joins the mutation queue of the user signed in
at that moment, is on disk, and is sent and answered only while that user is
signed in (`sync_engine.cc` 200-205, 348-377, 417-432). So `Kill` keeps exactly
the chains in `setData`, without their callbacks; dying between the call and the
disk has the same effect as dying just before the call.

Text fields, the missing-fields alert and the alert's dismissal change nothing
the properties read and are left out. A password is not modelled: a wrong one is
one of the reasons `AuthFails` may be taken.

### Posting

`flow[p]` is the chain of the post with the generated id `p`: `createPost`,
`putData`, `downloadURL`, `updateData`, then `finish` or `alert` on the main
queue, then `ended`. Its `image`, `caption` and `author` are what the closures
captured in `nextButtonPressed`. `presented` is what covers the screen (action
sheet, picker, alert); UIKit refuses an alert when something is presented or the
view is not in the window (`ShowPostAlert`), so the alert for a failed upload,
whose chain has already selected the first tab, is normally never seen.
`CreatePostAcknowledged(p, FALSE)` is `jpegData` returning nil, where
`uploadPhoto` returns without calling its completion. `fetch` is
`fetchCurrentUser`, started once in `viewDidLoad`, that is at the first visit
of the tab.

`currentUser` and `root` belong to the environment here: `SceneWillConnect`,
`SignedIn`, `NavigateToInstagram`, `SignedOut` and `Kill` let them change in any
order that `Session` can produce, and more.

The post's username is a function of its user id and is not modelled separately.
A URL is the object's path, so the upload of one post always produces the same
URL (`PhotoReference`).

### Profile

`editor` is the `EditProfileViewController` on screen, `save[s]` a press of its
Done button. Done starts two chains that know nothing of each other: `text`, the
write of the text fields, and `pic`, the upload of the picture, the request for
its URL and the commit of that URL to an account. The closures of the text chain
hold the screen, those of the picture chain do not (`Exists`), except that the
completion of `commitChanges` and the block it queues for the main queue hold it
unowned (`captured`): if the screen is gone when either runs, the process dies
(`CommitCallback`, `ShowPictureAlert`). `ahead`
keeps Firestore's order of queued writes; a queued write shows through in
`getDocument` (`FetchedTexts`). The URL is committed to `committer`, whoever is
signed in when it arrives (`EditProfileViewController.swift:171`), through that
user's own token (`FIRUser.m` 1514-1556).

The three text fields are one value: a member of `Infos` when none is empty,
`Blank` when one is. `presented` and `editor.over` say what covers the two
screens; UIKit refuses an alert when something is presented already or the
screen is being dismissed, which `ShowAlert` leaves open. `dismiss` sent to a
screen closes what it presents, and only if there is nothing the screen itself
(`Dismiss`). A swipe that pulls the screen down is Cancel. The crash of
`instaUser!` is `EditButtonPressed` with a nil user.

Session and window are the environment, as in `Posting`. The gallery below the
picture is part of `Feed`; the title `user.displayName`
(`ProfileViewController.swift:108`) is never written by the app and is left out.

### App

Conjoins the two: `Kill` and Sign Out are one step of both, every other step of
one leaves the other's variables alone. `FetchReply` ties the answer of
`fetchCurrentUser` to `userDocs` and to writes of `users` documents still in the
local cache, which Firestore overlays on its answers. `refused` and `hosts` are
history variables: the users whose document the server refused, and the users
who have been signed in since this tab bar appeared (`HostsFollow`).

### WritePipeline

One task of the worker queue is one action. A mutation batch is `[id, write]`: the
id the queue gives it, and the call it came from, which only the properties look
at. `queue` is on disk and survives `Initialize`; `callbacks`, the pipeline and
the stream do not. The wire is `sent` (not yet received by the backend) and
`replies` (not yet read by the client); a stream that ends empties both, so an
applied write may be sent again. `FillWritePipeline` is the whole function of
`remote_store.cc`, with the start of the stream or the writes to it, and is part
of every action that calls it. A result is handled in one task
(`HandleWriteResult`), but the process may die in the middle of it. For a success
the caller is told first and the batch leaves the disk after (`sync_engine.cc`
348-352, `DiesBeforeAcknowledgeBatch`); a rejection leaves the disk before the
caller is told (360-372, `DiesBeforeNotifyUser`). Both kinds of result are read
through the front of the pipeline, never through the message that was answered:
that the two are the same is what `WireMatchesPipeline` says. `applied` and
`appliedSince` record what the backend did, and in which order.

A permanent error takes `HandleWriteError`'s path (`StreamRejects`), any other
error the backoff (`StreamFails`). The error of a handshake is always treated as
one of the latter: a handshake error that is permanent clears the stream token,
which is not modelled, and otherwise does the same.

### StreamCredentials

Three threads: FIRAuth (`authUser`, token requests), the main queue
(`providerUser`, `tokenCounter`; notifications and token callbacks) and the worker
queue (`currentUser`, the stream, `closeCount`; user changes, tokens, writes).
`mainQueue` and `workerQueue` are FIFO, as the code's are; the order in which
things are put on them is free. A token carries the counter and the close count
at the time it was asked for. `streamUser`, `caller` and `owner` are history.

### Listening

The query is the one both screens use, all posts, so there is one view and one
target. The result is a version, 0 when there are no posts; `cache` is the version
in the local cache. `Notify` is `QueryListener` for each listener: the first event
waits until `ShouldRaiseInitialEvent`, later ones need changed documents.
`outstanding` is the aggregator's count of answers still due, which decides
whether a target is active; `current` is its flag. The backend answers listens and
unlistens in order, adds a target by sending `added`, the documents and a
snapshot, and refuses one if `permitted` is false. Every action that changes the
online state tells the view and the listeners (`HandleOnlineStateChange`). Of a
change of user only RemoteStore's part is here, the new streams
(`HandleCredentialChange`). Before it SyncEngine exchanges the mutation queue and
emits snapshots (`sync_engine.cc` 247-255), which changes what the view overlays
of the app's own pending writes, and none of the documents the watch stream has
delivered.

### Feed

`phase` is where UIKit is with each of the two screens. The feed adds its listener
in `viewDidAppear` and removes it in `viewWillDisappear`, the profile screen in
`viewWillAppear` and `viewDidDisappear`; when the tab changes UIKit's calls to the
two may interleave, so any interleaving is allowed. A call reaches `Listening`
over `workerQueue`; what listeners hear comes back over `mainQueue`, where
`OnSnapshot` checks that the registration is not muted (`event_listener.h`) and
replaces the array, and `ReloadData` runs on a later turn.

## Runs

| Run | Instance | What it shows |
|---|---|---|
| `session` | 2 accounts, 3 chains | `InstagramNeedsUser`, `ChainsMatchSession`, `OrphansStayOrphans`, and, with fairness, `LoginResolves` |
| `posting` | 1 account, 2 posts, 2 pictures, 1 caption, symmetric | `PhotoMatchesPost`, `ServicesMatchChain`, `StrandedPostStaysPhotoless`, `DraftSurvivesFailure`, refinement of `Publication` |
| `app` | 2 accounts, 2 chains, 1 post, 1 picture, within `Bounds` | `AuthorsHaveDocuments`, `AuthorWasSignedIn`, refinement of `Session` and of `Posting`, and, with fairness, `PostsResolve` |
| `profile` | 1 account, 1 picture, 2 edit screens, 2 presses of Done, symmetric | `PhotoURLHasObject`, `SavesMatchServices`, `PresentedOnProfile`, `EditsStayUntilSaved` |
| `profile_live` | 1 account, 2 edit screens, 1 press | `DoneResolves` |
| `profile_unowned` | 1 account, 1 edit screen, 1 press | expected violation of `UnownedEditorsExist` (below) |
| `writes` | 2 users, 3 calls, a pipeline of 2, 3 faults | `PipelineIsFrontOfQueue`, `WireMatchesPipeline`, `CallbacksBelongToBatches`, `AcknowledgedInOrder`, refinement of `PendingWrites`, and, with fairness, `WritesSettle` |
| `credentials` | 2 users, 1 call, 2 changes of the user or its token, 1 other close | `StartingHasToken`, `StreamSpeaksForCurrentUser`, `TokenFindsStreamStarting`, `WritesBelongToCaller`, and, with fairness, `StartingResolves` |
| `listen` | 3 calls of `addSnapshotListener`, 2 changes of the posts, 2 faults | `ListensAgree`, `OutstandingMatchesWire`, `SyncedMeansCaughtUp`, `ListenersSeeTheView`, `OnlineStateSound`, `QuietStreamIsUpToDate` |
| `listen_offline` | 2 listens, no fault | expected violation of `OfflineWithinTimeout` (below) |
| `listen_current` | 2 listens, no fault | expected violation of `CurrentMeansCaughtUp` (below) |
| `feed` | 2 listens, 1 change of the posts, 1 fault | `RegistrationsFollowScreens`, `QuietScreensShowTheCache`, `OffScreenStaysQuiet`, `DeliveredPostsNeverGoBack`, and, with fairness, `ScreensCatchUp` |

Type invariants are not repeated in the runs: each is proved, or is part of an
inductive invariant that is. Every run but `app` explores all reachable states of
its instance. In the modules of the
app the only bounds are the sizes of the constant sets. `PostIds` limits how many
posts are ever submitted; `Requests`, `Saves` and `Editors` limit what is alive
at once, and are used again. The modules of the SDK bound calls (`MaxWrites`,
`MaxListens`, `Calls`), changes of the environment (`MaxVersion`, `MaxChanges`)
and failures (`MaxFaults`, `MaxCloses`), each by a guard that names the bound;
they may stop when the bounds are reached, so their runs do not look for
deadlock.

*Why these sizes.* Two chains are what it takes for one to replace the window or
the session under the other, a third may then meet the second. Two accounts are
needed for a write to wait in the queue of somebody else. Two posts and two
pictures are needed for a chain to use the wrong picture or to clear another
draft. In `posting` one account suffices because nobody being signed in already
separates a write from its owner. Two edit screens are needed for a late reply
to an earlier one to meet a later one, two presses of Done for writes to queue
and uploads to overlap. Three writes against a pipeline of two leave one waiting
for room; three faults let a write be sent, lost, sent again and lost again, or
the user change and change back around a restart. Three listens give a query
listened to, given up and listened to again, or a late listener beside an early
one; two versions tell the documents before a relisten from those after it. In
`feed` two listens are both screens, or one twice; its invariants were also
checked once with three (4.5 million states).

The run `app` stays within three bounds (`Bounds` of `MCApp`). `AliceFirst` loses
nothing: the two accounts differ only in name, so one of them may be taken to be
the first that is registered. `ChainBound` allows two login chains in flight
until the post is submitted, and one from then on: the second is what signs
somebody in behind the tab bar, before the author is fetched or after, and the
fate of a submitted post under other sign-ins is explored with one. `CaptionBound`
has the caption typed before the picture is picked; the order matters to `Posting`
alone, whose run is not bounded so. `PostsResolve` is checked for the behaviours
that stay within the bounds; the theorems about `App` need none of them.

A post does not always name the user in whose name it is written. Nothing disables
the login button, so the late answer to a second press changes `currentUser`
under a visible tab bar, and the post screen keeps the author it fetched before.
`AuthorWasSignedIn` says how far this goes: the author is nobody, or somebody who
was signed in while this very tab bar was on screen, never a user of an earlier
one; and a user comes into that company behind the tab bar only through such a
late answer.

**Fairness.** Safety is checked without it: an invariant does not depend on it.
The liveness properties of the app assume weak fairness of replies (Firebase
calls are answered or time out), of writes that can be sent (Firestore retries
while the owner is signed in), and of blocks on the main queue. User actions,
sign-outs and process death are never fair, and the properties exempt a process
that is not running and a write whose owner is not signed in. In the modules of
the SDK the worker queue and the main queue run what is on them, timers fire, a
token that was asked for arrives or fails (FIRAuth always calls back), and a
backend that is connected answers. Lost connections are bounded, so that what is
fair holds once they stop; a stream that is refused a token forever settles
nothing, and the code does not claim it does. `listen_offline` assumes fairness
of the client only: the backend may stay silent, which is what it is about.

**Divergences.** Three runs end in a violation of what the source says of itself.

`[unowned self]` (`EditProfileViewController.swift:174`) asserts that the screen
outlives the commit of its picture. The text write runs beside it and its
acknowledgement dismisses the screen (line 199), as does Cancel; the completion
of the commit, or the block it queues (176-182), then finds its screen released
(`profile_unowned`).

"If the timeout is reached, we transition to Offline rather than waiting
indefinitely" (`remote/online_state_tracker.cc:44-46`). The timer is set only when
a watch stream is started. If the last listener leaves while the stream is being
set up, `StopListening` clears it (`remote_store.cc:168`), and a listener that
comes next finds the stream started and does not set it again. A screen that
opens then, with a network that stays silent, waits without an event
(`listen_offline`). Changing the tab while the first connection is made is
enough.

A target that is current "implies that the Watch backend has sent us all changes
up to the point at which the target was added" (`remote/remote_event.h:158-161`),
and for a freshly added target "we need to reset any state that we had previously"
(`remote_event.cc:158-159`). When a query is given up and listened to again on
one stream, `ClearPendingChanges` keeps `current_`, so the fresh target is current
before the backend has sent anything for it (`listen_current`). It does no harm
to the views: `SyncedMeansCaughtUp` holds, because no snapshot can come between.

Each property has a mutant in `PROJECT.json`: an operator next to the one it
replaces, with the mistake it makes, that TLC refutes the property under.

## Proofs

Each theorem holds for every value of the constants that meets the assumptions
named below. The argument is always the same: a stronger invariant, of the
initial states and of every step, with one lemma per action or per kind of
action, and the property as a consequence.

`SessionProofs` proves, for any sets of accounts and slots, the type invariant,
the safety properties of the run `session`, and `DocumentsNeedAccounts`, that
documents and sessions exist only for known accounts. This and
`InstagramNeedsUser` are not inductive: a navigation or a `setData` acts on
what its chain recorded several steps earlier. `ChainsMatchSession` strengthens
them (a live chain has the login screen to itself; once past Firebase Auth,
somebody is signed in; the account of a pending document exists). The only
assumption is `NoUserAssumption`.

`PostingProofs` proves, for any sets of accounts, posts, pictures and captions,
the type invariant, `PhotoMatchesPost`, `ServicesMatchChain`,
`StrandedPostStaysPhotoless` and `DraftSurvivesFailure`. `PhotoMatchesPost` is
not inductive: the URL is written two callbacks after the upload it names.
`ServicesMatchChain` says what the database and the object store hold at each
stage; it also gives `DraftSurvivesFailure`: a step that clears the selected
picture under a living controller is the end of one of its chains, the stage
`finish` of that chain says that its post has the photo, and no other step, Cancel
and failures included, clears it. The
steps are sorted by what they do to the chains and the services (`QuietStep`,
`PassiveStep`, and those that write), so that each of the few that write has a
lemma of its own.

It also proves that `Posting` implements `Publication`. Pressing Next maps to
`Submit`, the acknowledgement of `createPost` to `Publish`, that of the URL to
`AttachPhoto`; every other step is a stutter, uploads included, because by
`PhotoMatchesPost` the objects that visible URLs name hold the same pictures
before and after. The only assumption is `PostingAssumption`: the marker of an
absent value is none of the values.

`ProfileProofs` proves, for any sets of accounts, texts, pictures, screens and
presses of Done, all safety properties of the run `profile`. The invariant
falls into two halves that hardly know each other: `ScreensOK` (what is on
screen) and `ServicesOK` (what the chains and the services hold); most actions
leave one of them alone. `PhotoURLHasObject` is not inductive, because the
commit relies on an upload two callbacks before; `SavesMatchServices` says what
each stage may rely on, and also that the texts of a queued write are none of
them empty, without which the type of the documents would not be kept.
`EditsStayUntilSaved` needs `PresentedOnProfile`: only then is it known that no
crash or sign-out of a running tab bar takes the screen away. The only
assumption is `ProfileAssumption`: the markers are none of the values, and the
defaults of `InstagramUser` are texts.

Three more theorems are about the line in which Firestore keeps the text writes
of a user. Each write only records what was queued when `Done` was pressed;
`QueuesStayInOrder` shows, by an invariant of its own on top of the first, that
answers, restarts and reused slots keep these records in accord: of two queued
writes of a user one is ahead of the other, with all that is ahead of it, and
none waits for a write that is gone. A finite set so ordered by inclusion has a
least and a greatest member, hence `QueuesMoveOn` (some write is first, and can
be sent once its user is signed in) and `LastTextsAreShown` (what `getDocument`
finds is one value, the texts of the last write). These two assume
`IsFiniteSet(Saves)`: only finitely many presses of `Done` are ever under way.

`AppProofs` proves that the composition implements both its parts, and the two
properties that need both. Every theorem about `Session` and `Posting` is then one
about `App`: `AppIsSound` draws that conclusion for their invariants,
`AppPublishesDrafts` for the refinement of `Publication`, `AppKeepsItsWord` for
the action properties. None of these repeats an argument: what the environment of
`Posting` leaves open is filled in by the session, and nothing it promises is
lost. That Posting's environment is what the session does needs Session's own
invariant, taken from `SessionProofs` by `INSTANCE`. For `AuthorsHaveDocuments`
the invariant follows the author from the answer of `fetchCurrentUser` into the
chain and the post. `AuthorWasSignedIn` has a second one (`HostInv`): while the
tab bar is shown, its present user, the user being fetched and the user fetched
are all in `hosts`. That a user joins `hosts` only through a late answer comes
from `ChainsMatchSession`: a chain that is live has the login screen to itself.

`WritePipelineProofs` proves all safety properties of the run `writes`, for any
users, number of calls and faults and any limit of the pipeline. The invariant
`PipelineInv` needs `CallsInOrder`: batch ids are bounded, so the highest one on
disk exists and the next one is new. On top of it `OrderInv` follows each write
from the queue to the wire and back (what is decided, answered and acknowledged is
a prefix of its user's calls), and both together map each step to one of
`PendingWrites`: enqueueing to the call, the processing of an answer to the
decision, everything on the wire to a stutter, resending included. A death between
the word to a caller and the disk maps to `DieBeforeSuccess` or
`DieAfterRejection`; for this `OrderInv` also says that a caller who was told of a
write still pending was told of the oldest one of its user, and
`AcknowledgedInOrder` holds from the word on, not only from the disk. The same
invariants say what a caller hears: success only for a write the backend has
applied, an error only for one that was rejected (`CallersAreToldTheTruth`), and
at most once (`DecidedOnce`). What a caller has heard is final for the caller, not
for the write: one whose success did not reach the disk is sent again and may be
refused. `NobodyWaitsForNothing` says that a queue that is not empty always has a
token, the end of a backoff, an answer, or a message to a serving backend on its
way, which is the part of `WritesSettle` that is not about fairness. Assumptions:
`MaxWritesAssumption`, `MaxPendingAssumption` (the pipeline holds at least one
batch), `MaxFaultsAssumption`.

`StreamCredentialsProofs` proves all safety properties of the run `credentials`,
for queues of any length. The invariant is about what a queue has yet to tell its
consumer: `UserAt` is the user a thread will know of when it gets to a position
of its queue, and a valid token, and a write, are always at a position where that
user is theirs. The proof shows that `close_count_` plays no part in
`StreamSpeaksForCurrentUser`: `token_counter_` and the close on every change of
user suffice. It is what `TokenFindsStreamStarting` needs: there is at most one
token of the current count on its way (`TokenInv`). `StartingHasToken` is the
other half: there is at least one while the stream is in state Starting, so a
stream that starts is always answered. It is inductive as it stands: a start
asks for a token of the present count, queues only hand tokens on, and whatever
raises the count, or takes a token of it, moves the stream out of Starting.
Assumptions: `NoneAssumption` (the absent user is no user), and that the bounds
are naturals.

`ListeningProofs` proves all safety properties of the run `listen`, for any
number of listeners and any length of the wire. `ListeningInv` is about the
client alone: what is listened to, what the listeners have heard, and the online
state. `WireInv` adds what is on its way. Its first half counts: the answers
still due are the requests not yet received and the answers not yet read
(`OutstandingMatchesWire`), so a target is active only when all that is left on
the wire belongs to the present listen. Its second half orders the documents on
the wire, and says that what is read after the last answer due is new enough.
From both it follows that the local cache never goes back to older posts
(`CacheNeverGoesBack`), which is about the order of documents and not about
any one message. `NewestInv` is about what must not be missing: once the requests
of an open stream are answered, the newest posts are at the end of the wire, or
are the pending documents of an active target whose snapshot comes next, or are
in a synced view. It needs the count of `WireInv`, because a target with answers
due drops the documents it is sent. `QuietStreamIsUpToDate` follows: a stream with
nothing left to read has told every listener exactly what the backend holds.
Assumptions: `HeardAssumption` and `BoundsAssumption` (the markers are distinct
and no versions, the bounds are naturals).

`FeedProofs` proves that the screens use `Listening` as its specification allows
(`FeedUsesListening`), so that all its theorems hold under them, and the safety
properties of the run `feed`. `RegistrationsFollowScreens` speaks of sets of
tasks; the invariant follows each call instead: `ScreensInv` says that a screen's
`listener` is its only live registration, `TasksInv` that for each call the engine
has done, or has a task to do, what follows from it, adds in the order of the
calls and each before its removal. `OffScreenStaysQuiet` follows from both and
from `BlocksInv`, that events are for listeners that were added: one that is not
muted is the listener its screen has now. `DeliveredPostsNeverGoBack` and
`QuietScreensShowTheCache` speak of the two ends of a path with a queue in the
middle, so the invariant `NewsInv` describes the path: view, array, the events on
the main queue from front to back, and the cache hold documents in this order,
documents being those the watch stream has delivered; for a live listener the last
of its events is what it has heard; a reload follows an array the view does not
show. Its steps use `CacheNeverGoesBack`, since a new listener starts from the
cache. `QuietScreensShowTheNewest` joins it with `QuietStreamIsUpToDate`: a screen
with nothing on its way to it, over the wire or either queue, shows exactly what
the backend holds. The assumptions are those of `Listening`.

Only model-checked, because fairness is out of the prover's reach: the liveness
properties `LoginResolves`, `PostsResolve`, `DoneResolves`, `WritesSettle`,
`StartingResolves` and `ScreensCatchUp`. Of four of them the part that is a
safety property is proved: no state of `WritesSettle`, `StartingResolves` and
`ScreensCatchUp` waits for something that is not on its way
(`NobodyWaitsForNothing`, `StartsAreAnswered`, `QuietScreensShowTheNewest`), and
no text chain of `DoneResolves` waits in a circle (`QueuesMoveOn`); that what is
on its way arrives is what their runs check. The three properties that
are violated have runs only.

## Not modelled

*Of the app.* Layout, colours and image rescaling; the keyboard arithmetic of
`LoginViewController` 53-92 and `EditProfileViewController` 72-113, which only
moves constraints; `Model/Comment.swift`, which nothing uses; the image loads of
the cells, which Kingfisher runs and the app does not look at. Deletion of
accounts, posts or documents, which the app cannot do, and security rules, which
are not in the repository (a rejection is a possible answer to every write).
Replacing the root while an alert or sheet is presented is taken to release the
old controller. Full-screen presentations over the feed or the profile, and a
disappearance that UIKit begins and cancels, do not occur in `Feed`; `Posting`
and `Profile` are not in one state space, so a late completion of one that
dismisses what the other has presented is not seen.

*Of Firestore.* Transactions, `waitForPendingWrites`, enabling and disabling the
network; stream tokens; limbo documents, existence filters and limits of a query.
The app uses none of the first three, and its listeners neither limit nor filter.
A listener sees the pending writes of the signed-in user over the documents that
were delivered; these are not modelled, so nothing here says that a screen keeps
them. It does not: a post that is refused (`sync_engine.cc` 360-376), and one that
waits when the user changes (247-255), goes from a screen that showed it.

*Of the other pods.* gRPC, BoringSSL, abseil, leveldb, protobuf, nanopb,
Kingfisher and the rest of Firebase are taken for what their interfaces say: a
stream delivers in order until it ends, a transaction of leveldb is atomic. They
are nearly all of the C, C++ and Objective-C lines of the repository, generated
tables and certificates among them, and none of them is the logic of this
program; so the models stand for a small share of those lines.

## Further work

1. `Posting` and `Profile` in one state space: a late completion of a post
   dismisses what another tab has presented (`AddPhotoViewController.swift:115`).
2. Own writes in the view of `Listening`: the screens listen to the collection
   they write to, and see a post before it is acknowledged.
3. An abstract specification of an edit: both its parts reach the account, or
   either is missing, and neither is invented.
