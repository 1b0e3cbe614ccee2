---------------------- MODULE StreamCredentialsProofs ----------------------
(***************************************************************************)
(* Proofs about StreamCredentials, for any users, any number of changes    *)
(* and closes, and queues of any length.                                   *)
(*                                                                         *)
(* The argument is about what a queue has yet to tell its consumer: the    *)
(* user it will know of when it gets to position i. A token that is still  *)
(* valid, and a write, are always at a position where that user is theirs. *)
(* The close count plays no part in it: the check of token_counter and the *)
(* close on every user change are enough. What the close count is needed   *)
(* for comes last: that a start of the stream gets one token.              *)
(***************************************************************************)
EXTENDS StreamCredentials, TLAPS

\* A consumer that knows of user will know of u when it gets to position i of
\* the queue, on which entries of the given kind announce users.
UserAt(queue, kind, user, i, u) ==
    \/ /\ u = user
       /\ \A j \in 1..(i - 1) : queue[j].kind # kind
    \/ \E j \in 1..(i - 1) :
          /\ queue[j].kind = kind /\ queue[j].user = u
          /\ \A k \in (j + 1)..(i - 1) : queue[k].kind # kind

ProviderUserAt(i, u) == UserAt(mainQueue, "notify", providerUser, i, u)

EngineUserAt(i, u) == UserAt(workerQueue, "user", currentUser, i, u)

\* Each side will know of the user the other one has announced.
UsersInStep ==
    /\ ProviderUserAt(Len(mainQueue) + 1, authUser)
    /\ EngineUserAt(Len(workerQueue) + 1, providerUser)

\* A token with the provider's counter that has no notification ahead of it is
\* the provider's user's.
RequestsInStep ==
    \A r \in requests :
        /\ r.counter <= tokenCounter
        /\ r.user # None /\ r.counter = tokenCounter /\ Notifications = {}
              => r.user = providerUser

BlocksInStep ==
    \A i \in 1..Len(mainQueue) : mainQueue[i].kind = "token" =>
        /\ mainQueue[i].request.counter <= tokenCounter
        /\ mainQueue[i].request.counter = tokenCounter =>
              \/ mainQueue[i].request.user = providerUser
              \/ \E j \in 1..(i - 1) : mainQueue[j].kind = "notify"

\* The engine gets to a valid token, and to a write, as their user.
TasksInStep ==
    \A i \in 1..Len(workerQueue) :
        /\ workerQueue[i].kind = "token" /\ workerQueue[i].ok
              => EngineUserAt(i, workerQueue[i].user)
        /\ workerQueue[i].kind = "write"
              => /\ caller[workerQueue[i].call] # None
                 /\ EngineUserAt(i, caller[workerQueue[i].call])

CredentialsInv ==
    /\ CredentialsTypeOK
    /\ UsersInStep
    /\ RequestsInStep
    /\ BlocksInStep
    /\ TasksInStep
    /\ StreamSpeaksForCurrentUser
    /\ WritesBelongToCaller

-----------------------------------------------------------------------------
(* Queues *)

\* What is appended changes nothing for the positions there are.
LEMMA UserAtAppend ==
    ASSUME NEW S, NEW queue \in Seq(S), NEW x \in S, NEW kind, NEW user, NEW u,
           NEW i \in 1..(Len(queue) + 1),
           UserAt(queue, kind, user, i, u)
    PROVE  UserAt(Append(queue, x), kind, user, i, u)
<1>1. \A j \in 1..(i - 1) : Append(queue, x)[j] = queue[j]
    OBVIOUS
<1>2. CASE u = user /\ \A j \in 1..(i - 1) : queue[j].kind # kind
    BY <1>1, <1>2 DEF UserAt
<1>3. ASSUME NEW j \in 1..(i - 1),
             queue[j].kind = kind, queue[j].user = u,
             \A k \in (j + 1)..(i - 1) : queue[k].kind # kind
      PROVE  UserAt(Append(queue, x), kind, user, i, u)
  <2>1. /\ Append(queue, x)[j].kind = kind
        /\ Append(queue, x)[j].user = u
      BY <1>1, <1>3
  <2>2. \A k \in (j + 1)..(i - 1) : Append(queue, x)[k].kind # kind
      BY <1>1, <1>3
  <2> QED
      BY <1>3, <2>1, <2>2 DEF UserAt
<1> QED
    BY <1>2, <1>3 DEF UserAt

\* An entry of another kind at the end announces nobody.
LEMMA UserAtEnd ==
    ASSUME NEW S, NEW queue \in Seq(S), NEW x \in S, NEW kind, NEW user, NEW u,
           x.kind # kind,
           UserAt(queue, kind, user, Len(queue) + 1, u)
    PROVE  UserAt(Append(queue, x), kind, user, Len(Append(queue, x)) + 1, u)
<1> DEFINE q == Append(queue, x)
           n == Len(queue) + 1
<1>1. /\ Len(q) = n /\ n \in Nat
      /\ \A j \in 1..(n - 1) : q[j] = queue[j]
      /\ q[n] = x
    OBVIOUS
<1> HIDE DEF q, n
<1>2. UserAt(queue, kind, user, n, u)
    BY DEF n
<1>3. CASE u = user /\ \A j \in 1..(n - 1) : queue[j].kind # kind
  <2>1. \A j \in 1..n : q[j].kind # kind
      BY <1>1, <1>3
  <2> QED
      BY <1>1, <1>3, <2>1 DEF UserAt, q
<1>4. ASSUME NEW j \in 1..(n - 1),
             queue[j].kind = kind, queue[j].user = u,
             \A k \in (j + 1)..(n - 1) : queue[k].kind # kind
      PROVE  UserAt(q, kind, user, n + 1, u)
  <2>1. j \in 1..n /\ q[j].kind = kind /\ q[j].user = u
      BY <1>1, <1>4
  <2>2. \A k \in (j + 1)..n : q[k].kind # kind
      BY <1>1, <1>4
  <2> QED
      BY <1>1, <2>1, <2>2 DEF UserAt
<1> QED
    BY <1>1, <1>2, <1>3, <1>4 DEF UserAt, q

\* An announcement at the end is what a later position knows of.
LEMMA UserAnnounced ==
    ASSUME NEW S, NEW queue \in Seq(S), NEW x \in S, NEW kind, NEW user,
           x.kind = kind
    PROVE  UserAt(Append(queue, x), kind, user, Len(Append(queue, x)) + 1, x.user)
<1>1. /\ Len(Append(queue, x)) = Len(queue) + 1
      /\ Append(queue, x)[Len(queue) + 1] = x
    OBVIOUS
<1> QED
    BY <1>1 DEF UserAt

\* Taking the front entry moves every position up, and its user becomes the
\* consumer's.
LEMMA UserAtTail ==
    ASSUME NEW S, NEW queue \in Seq(S), queue # <<>>, NEW kind, NEW user, NEW u,
           NEW i \in 1..Len(queue), NEW newUser,
           Head(queue).kind = kind => newUser = Head(queue).user,
           Head(queue).kind # kind => newUser = user,
           UserAt(queue, kind, user, i + 1, u)
    PROVE  UserAt(Tail(queue), kind, newUser, i, u)
<1>1. /\ Head(queue) = queue[1]
      /\ \A j \in 1..(i - 1) : Tail(queue)[j] = queue[j + 1]
    OBVIOUS
<1>2. CASE u = user /\ \A j \in 1..i : queue[j].kind # kind
  <2>1. newUser = user
      BY <1>1, <1>2
  <2>2. \A j \in 1..(i - 1) : Tail(queue)[j].kind # kind
      BY <1>1, <1>2
  <2> QED
      BY <1>2, <2>1, <2>2 DEF UserAt
<1>3. ASSUME NEW j \in 1..i,
             queue[j].kind = kind, queue[j].user = u,
             \A k \in (j + 1)..i : queue[k].kind # kind
      PROVE  UserAt(Tail(queue), kind, newUser, i, u)
  <2>1. CASE j = 1
    <3>1. newUser = u
        BY <1>1, <1>3, <2>1
    <3>2. \A k \in 1..(i - 1) : Tail(queue)[k].kind # kind
        BY <1>1, <1>3, <2>1
    <3> QED
        BY <3>1, <3>2 DEF UserAt
  <2>2. CASE j # 1
    <3>1. /\ (j - 1) \in 1..(i - 1)
          /\ Tail(queue)[j - 1].kind = kind /\ Tail(queue)[j - 1].user = u
        BY <1>1, <1>3, <2>2
    <3>2. ASSUME NEW k \in ((j - 1) + 1)..(i - 1)
          PROVE  Tail(queue)[k].kind # kind
      <4>1. k \in 1..(i - 1) /\ k + 1 \in (j + 1)..i
          OBVIOUS
      <4>2. Tail(queue)[k] = queue[k + 1]
          BY <1>1, <4>1
      <4>3. queue[k + 1].kind # kind
          BY <1>3, <4>1
      <4> QED
          BY <4>2, <4>3
    <3> QED
        BY <3>1, <3>2 DEF UserAt
  <2> QED
      BY <2>1, <2>2
<1>4. i + 1 - 1 = i
    OBVIOUS
<1> QED
    BY <1>2, <1>3, <1>4 DEF UserAt

-----------------------------------------------------------------------------
(* The queues of this module *)

LEMMA EntriesAreTyped ==
    /\ \A user \in Users : NotifyBlock(user) \in Block
    /\ \A r \in Answered, ok \in BOOLEAN : TokenBlock(r, ok) \in Block
    /\ \A user \in Users : UserTask(user) \in Task
    /\ \A closes \in Nat, user \in Users, ok \in BOOLEAN :
          TokenTask(closes, user, ok) \in Task
    /\ \A call \in Calls : WriteTask(call) \in Task
  BY DEF NotifyBlock, TokenBlock, UserTask, TokenTask, WriteTask, Block, Task

\* Entries of each kind have the fields of that kind.
LEMMA EntryFields ==
    /\ \A b \in Block : b.kind = "notify" => b.user \in Users
    /\ \A b \in Block : b.kind # "notify" =>
          b.kind = "token" /\ b.request \in Answered /\ b.ok \in BOOLEAN
    /\ \A t \in Task : t.kind = "user" => t.user \in Users
    /\ \A t \in Task : t.kind = "token" =>
          t.closes \in Nat /\ t.user \in Users /\ t.ok \in BOOLEAN
    /\ \A t \in Task : t.kind = "write" => t.call \in Calls
  BY DEF Block, Task

\* A task that fits the provider's user may join the queue.
LEMMA TaskAdded ==
    ASSUME CredentialsInv, NEW x \in Task,
           workerQueue' = Append(workerQueue, x),
           currentUser' = currentUser,
           \A i \in 1..Len(workerQueue) : workerQueue[i].kind = "write" =>
               caller'[workerQueue[i].call] = caller[workerQueue[i].call],
           x.kind = "token" /\ x.ok => x.user = providerUser,
           x.kind = "write" => /\ caller'[x.call] = providerUser
                               /\ providerUser # None
    PROVE  /\ TasksInStep'
           /\ workerQueue' \in Seq(Task)
<1>1. workerQueue \in Seq(Task)
    BY DEF CredentialsInv, CredentialsTypeOK
<1>2. /\ Len(workerQueue') = Len(workerQueue) + 1
      /\ \A i \in 1..Len(workerQueue) : workerQueue'[i] = workerQueue[i]
      /\ workerQueue'[Len(workerQueue) + 1] = x
      /\ workerQueue' \in Seq(Task)
    BY <1>1
<1>3. ASSUME NEW i \in 1..(Len(workerQueue) + 1), NEW u, EngineUserAt(i, u)
      PROVE  UserAt(workerQueue', "user", currentUser', i, u)
    BY <1>1, <1>3, UserAtAppend DEF EngineUserAt
<1>4. ASSUME NEW i \in 1..Len(workerQueue)
      PROVE  /\ workerQueue'[i].kind = "token" /\ workerQueue'[i].ok
                    => UserAt(workerQueue', "user", currentUser', i, workerQueue'[i].user)
             /\ workerQueue'[i].kind = "write"
                    => /\ caller'[workerQueue'[i].call] # None
                       /\ UserAt(workerQueue', "user", currentUser', i,
                                 caller'[workerQueue'[i].call])
  <2>1. i \in 1..(Len(workerQueue) + 1) /\ workerQueue'[i] = workerQueue[i]
      BY <1>1, <1>2
  <2>2. /\ workerQueue[i].kind = "token" /\ workerQueue[i].ok
              => EngineUserAt(i, workerQueue[i].user)
        /\ workerQueue[i].kind = "write"
              => /\ caller[workerQueue[i].call] # None
                 /\ EngineUserAt(i, caller[workerQueue[i].call])
      BY <1>4 DEF CredentialsInv, TasksInStep
  <2> QED
      BY <1>3, <2>1, <2>2
<1>5. UserAt(workerQueue', "user", currentUser', Len(workerQueue) + 1, providerUser)
  <2>1. EngineUserAt(Len(workerQueue) + 1, providerUser)
      BY DEF CredentialsInv, UsersInStep
  <2>2. Len(workerQueue) + 1 \in 1..(Len(workerQueue) + 1)
      BY <1>1
  <2> QED
      BY <1>3, <2>1, <2>2
<1>6. ASSUME NEW i \in 1..Len(workerQueue')
      PROVE  i \in 1..Len(workerQueue) \/ i = Len(workerQueue) + 1
    BY <1>1, <1>2
<1> QED
    BY <1>2, <1>4, <1>5, <1>6 DEF TasksInStep, EngineUserAt

\* The engine takes the front task and knows of its user from then on.
LEMMA TaskTaken ==
    ASSUME CredentialsInv, workerQueue # <<>>,
           workerQueue' = Tail(workerQueue),
           UNCHANGED <<caller, providerUser>>,
           Head(workerQueue).kind = "user" => currentUser' = Head(workerQueue).user,
           Head(workerQueue).kind # "user" => currentUser' = currentUser
    PROVE  /\ TasksInStep'
           /\ EngineUserAt(Len(workerQueue) + 1, providerUser)'
           /\ workerQueue' \in Seq(Task)
           /\ Head(workerQueue) \in Task /\ Head(workerQueue) = workerQueue[1]
           /\ 1 \in 1..Len(workerQueue)
<1>1. workerQueue \in Seq(Task)
    BY DEF CredentialsInv, CredentialsTypeOK
<1>2. /\ workerQueue' \in Seq(Task) /\ Len(workerQueue) = Len(workerQueue') + 1
      /\ Len(workerQueue') \in Nat
      /\ Head(workerQueue) \in Task /\ Head(workerQueue) = workerQueue[1]
      /\ \A i \in 1..Len(workerQueue') :
            workerQueue'[i] = workerQueue[i + 1] /\ i + 1 \in 1..Len(workerQueue)
    BY <1>1
<1>3. ASSUME NEW i \in 1..Len(workerQueue), NEW u, EngineUserAt(i + 1, u)
      PROVE  UserAt(workerQueue', "user", currentUser', i, u)
    BY <1>1, <1>3, UserAtTail DEF EngineUserAt
<1>4. ASSUME NEW i \in 1..Len(workerQueue')
      PROVE  /\ workerQueue'[i].kind = "token" /\ workerQueue'[i].ok
                    => UserAt(workerQueue', "user", currentUser', i, workerQueue'[i].user)
             /\ workerQueue'[i].kind = "write"
                    => /\ caller'[workerQueue'[i].call] # None
                       /\ UserAt(workerQueue', "user", currentUser', i,
                                 caller'[workerQueue'[i].call])
  <2>1. i \in 1..Len(workerQueue)
      BY <1>2
  <2>2. /\ workerQueue[i + 1].kind = "token" /\ workerQueue[i + 1].ok
              => EngineUserAt(i + 1, workerQueue[i + 1].user)
        /\ workerQueue[i + 1].kind = "write"
              => /\ caller[workerQueue[i + 1].call] # None
                 /\ EngineUserAt(i + 1, caller[workerQueue[i + 1].call])
      BY <1>2 DEF CredentialsInv, TasksInStep
  <2> QED
      BY <1>2, <1>3, <2>1, <2>2
<1>5. UserAt(workerQueue', "user", currentUser', Len(workerQueue') + 1, providerUser')
  <2>1. EngineUserAt(Len(workerQueue) + 1, providerUser)
      BY DEF CredentialsInv, UsersInStep
  <2>2. Len(workerQueue) \in 1..Len(workerQueue)
      BY <1>2
  <2>3. UserAt(workerQueue', "user", currentUser', Len(workerQueue), providerUser)
      BY <1>3, <2>1, <2>2
  <2> QED
      BY <1>2, <2>3
<1>6. 1 \in 1..Len(workerQueue)
    BY <1>2
<1> QED
    BY <1>2, <1>4, <1>5, <1>6 DEF TasksInStep, EngineUserAt

\* A block that fits joins the main queue: a notification of the new user of
\* FIRAuth, or a token.
LEMMA BlockAdded ==
    ASSUME CredentialsInv, NEW x \in Block,
           mainQueue' = Append(mainQueue, x),
           UNCHANGED providerVars,
           x.kind = "notify" => authUser' = x.user,
           x.kind # "notify" => authUser' = authUser,
           x.kind = "token" =>
               /\ x.request.counter <= tokenCounter
               /\ x.request.counter = tokenCounter /\ Notifications = {}
                      => x.request.user = providerUser
    PROVE  /\ mainQueue' \in Seq(Block)
           /\ BlocksInStep'
           /\ ProviderUserAt(Len(mainQueue) + 1, authUser)'
           /\ Notifications' = {} => Notifications = {} /\ x.kind # "notify"
<1>1. mainQueue \in Seq(Block)
    BY DEF CredentialsInv, CredentialsTypeOK
<1>2. /\ Len(mainQueue') = Len(mainQueue) + 1 /\ Len(mainQueue) \in Nat
      /\ \A i \in 1..Len(mainQueue) : mainQueue'[i] = mainQueue[i]
      /\ mainQueue'[Len(mainQueue) + 1] = x
      /\ mainQueue' \in Seq(Block)
    BY <1>1
<1>3. Notifications' = {} => Notifications = {} /\ x.kind # "notify"
  <2>1. SUFFICES ASSUME Notifications' = {}
                 PROVE  Notifications = {} /\ x.kind # "notify"
      OBVIOUS
  <2>2. \A i \in 1..(Len(mainQueue) + 1) : mainQueue'[i].kind # "notify"
      BY <1>2, <2>1 DEF Notifications
  <2> QED
      BY <1>2, <2>2 DEF Notifications
<1>4. UserAt(mainQueue', "notify", providerUser', Len(mainQueue') + 1, authUser')
  <2>1. providerUser' = providerUser
      BY DEF providerVars
  <2>2. CASE x.kind = "notify"
      BY <1>1, <2>1, <2>2, UserAnnounced
  <2>3. CASE x.kind # "notify"
    <3>1. UserAt(mainQueue, "notify", providerUser, Len(mainQueue) + 1, authUser)
        BY DEF CredentialsInv, UsersInStep, ProviderUserAt
    <3> QED
        BY <1>1, <2>1, <2>3, <3>1, UserAtEnd
  <2> QED
      BY <2>2, <2>3
<1>5. ASSUME NEW i \in 1..Len(mainQueue'), mainQueue'[i].kind = "token"
      PROVE  /\ mainQueue'[i].request.counter <= tokenCounter
             /\ mainQueue'[i].request.counter = tokenCounter =>
                   \/ mainQueue'[i].request.user = providerUser
                   \/ \E j \in 1..(i - 1) : mainQueue'[j].kind = "notify"
  <2>1. CASE i \in 1..Len(mainQueue)
    <3>1. /\ mainQueue[i].request.counter <= tokenCounter
          /\ mainQueue[i].request.counter = tokenCounter =>
                \/ mainQueue[i].request.user = providerUser
                \/ \E j \in 1..(i - 1) : mainQueue[j].kind = "notify"
        BY <1>2, <1>5, <2>1 DEF CredentialsInv, BlocksInStep
    <3>2. \A j \in 1..(i - 1) : mainQueue'[j] = mainQueue[j]
        BY <1>2, <2>1
    <3> QED
        BY <1>2, <2>1, <3>1, <3>2
  <2>2. CASE i = Len(mainQueue) + 1
    <3>1. mainQueue'[i] = x
        BY <1>2, <2>2
    <3>2. CASE Notifications = {}
        BY <1>5, <3>1, <3>2
    <3>3. CASE Notifications # {}
      <4>1. PICK j \in 1..Len(mainQueue) : mainQueue[j].kind = "notify"
          BY <3>3 DEF Notifications
      <4>2. j \in 1..(i - 1) /\ mainQueue'[j].kind = "notify"
          BY <1>2, <2>2, <4>1
      <4> QED
          BY <1>5, <3>1, <4>2
    <3> QED
        BY <3>2, <3>3
  <2> QED
      BY <1>2, <2>1, <2>2
<1> QED
    BY <1>2, <1>3, <1>4, <1>5 DEF BlocksInStep, ProviderUserAt, providerVars

\* The provider takes the front block and knows of its user from then on.
LEMMA BlockTaken ==
    ASSUME CredentialsInv, mainQueue # <<>>,
           mainQueue' = Tail(mainQueue),
           UNCHANGED authUser,
           Head(mainQueue).kind = "notify" =>
               /\ providerUser' = Head(mainQueue).user
               /\ tokenCounter' = tokenCounter + 1,
           Head(mainQueue).kind # "notify" => UNCHANGED providerVars
    PROVE  /\ mainQueue' \in Seq(Block)
           /\ BlocksInStep'
           /\ ProviderUserAt(Len(mainQueue) + 1, authUser)'
           /\ Notifications' = {} /\ Head(mainQueue).kind # "notify"
                  => Notifications = {}
           /\ Head(mainQueue) \in Block /\ Head(mainQueue) = mainQueue[1]
           /\ 1 \in 1..Len(mainQueue)
<1>1. mainQueue \in Seq(Block) /\ tokenCounter \in Nat
    BY DEF CredentialsInv, CredentialsTypeOK
<1>2. /\ mainQueue' \in Seq(Block) /\ Len(mainQueue) = Len(mainQueue') + 1
      /\ Len(mainQueue') \in Nat
      /\ Head(mainQueue) \in Block /\ Head(mainQueue) = mainQueue[1]
      /\ \A i \in 1..Len(mainQueue') :
            mainQueue'[i] = mainQueue[i + 1] /\ i + 1 \in 1..Len(mainQueue)
    BY <1>1
<1>3. UserAt(mainQueue', "notify", providerUser', Len(mainQueue') + 1, authUser')
  <2>1. UserAt(mainQueue, "notify", providerUser, Len(mainQueue) + 1, authUser)
      BY DEF CredentialsInv, UsersInStep, ProviderUserAt
  <2>2. Len(mainQueue) \in 1..Len(mainQueue)
      BY <1>2
  <2>3. UserAt(Tail(mainQueue), "notify", providerUser', Len(mainQueue), authUser)
      BY <1>1, <2>1, <2>2, UserAtTail DEF providerVars
  <2> QED
      BY <1>2, <2>3
<1>4. ASSUME NEW i \in 1..Len(mainQueue'), mainQueue'[i].kind = "token"
      PROVE  /\ mainQueue'[i].request.counter <= tokenCounter'
             /\ mainQueue'[i].request.counter = tokenCounter' =>
                   \/ mainQueue'[i].request.user = providerUser'
                   \/ \E j \in 1..(i - 1) : mainQueue'[j].kind = "notify"
  <2>1. /\ mainQueue'[i] = mainQueue[i + 1] /\ mainQueue[i + 1] \in Block
        /\ mainQueue[i + 1].request.counter <= tokenCounter
        /\ mainQueue[i + 1].request.counter = tokenCounter =>
              \/ mainQueue[i + 1].request.user = providerUser
              \/ \E j \in 1..(i + 1 - 1) : mainQueue[j].kind = "notify"
      BY <1>1, <1>2, <1>4 DEF CredentialsInv, BlocksInStep
  <2>2. mainQueue[i + 1].request.counter \in Nat
      BY <1>4, <2>1, EntryFields DEF Answered
  <2>3. CASE Head(mainQueue).kind = "notify"
      BY <1>1, <2>1, <2>2, <2>3
  <2>4. CASE Head(mainQueue).kind # "notify"
    <3>1. tokenCounter' = tokenCounter /\ providerUser' = providerUser
        BY <2>4 DEF providerVars
    <3>2. ASSUME NEW j \in 1..i, mainQueue[j].kind = "notify"
          PROVE  j - 1 \in 1..(i - 1) /\ mainQueue'[j - 1].kind = "notify"
        BY <1>2, <2>4, <3>2
    <3> QED
        BY <2>1, <3>1, <3>2
  <2> QED
      BY <2>3, <2>4
<1>5. Notifications' = {} /\ Head(mainQueue).kind # "notify" => Notifications = {}
  <2>1. SUFFICES ASSUME Notifications' = {}, Head(mainQueue).kind # "notify",
                        NEW i \in 1..Len(mainQueue), mainQueue[i].kind = "notify"
                 PROVE  FALSE
      BY DEF Notifications
  <2>2. i - 1 \in 1..Len(mainQueue') /\ mainQueue'[i - 1].kind = "notify"
      BY <1>2, <2>1
  <2> QED
      BY <2>1, <2>2 DEF Notifications
<1>6. 1 \in 1..Len(mainQueue)
    BY <1>2
<1> QED
    BY <1>2, <1>3, <1>4, <1>5, <1>6 DEF BlocksInStep, ProviderUserAt

-----------------------------------------------------------------------------
(* FIRAuth *)

LEMMA AuthStateChangesSafe ==
    ASSUME CredentialsInv, NEW user \in Users, AuthStateChanges(user)
    PROVE  CredentialsInv'
<1>1. /\ authUser' = user /\ mainQueue' = Append(mainQueue, NotifyBlock(user))
      /\ UNCHANGED <<requests, providerVars, workerQueue, currentUser,
                     streamVars, callVars>>
    BY DEF AuthStateChanges
<1>2. /\ NotifyBlock(user) \in Block
      /\ NotifyBlock(user).kind = "notify" /\ NotifyBlock(user).user = user
    BY EntriesAreTyped DEF NotifyBlock
<1>3. /\ mainQueue' \in Seq(Block)
      /\ BlocksInStep'
      /\ ProviderUserAt(Len(mainQueue) + 1, authUser)'
      /\ Notifications' # {}
    BY <1>1, <1>2, BlockAdded
<1>4. UsersInStep' /\ RequestsInStep' /\ TasksInStep'
    BY <1>1, <1>3 DEF CredentialsInv, UsersInStep, RequestsInStep, TasksInStep,
       EngineUserAt, providerVars, callVars
<1>5. CredentialsTypeOK'
    BY <1>1, <1>3 DEF CredentialsInv, CredentialsTypeOK, providerVars, streamVars,
       callVars
<1> QED
    BY <1>1, <1>3, <1>4, <1>5 DEF CredentialsInv, StreamSpeaksForCurrentUser,
       WritesBelongToCaller, streamVars, callVars

LEMMA AuthTakesRequestSafe ==
    ASSUME CredentialsInv, NEW request \in requests, AuthTakesRequest(request)
    PROVE  CredentialsInv'
<1> DEFINE taken == [request EXCEPT !.user = authUser]
<1>1. /\ requests' = (requests \ {request}) \cup {taken}
      /\ UNCHANGED <<authUser, mainQueue, providerVars, workerQueue, currentUser,
                     streamVars, callVars>>
    BY DEF AuthTakesRequest
<1>2. /\ request \in Request /\ request.counter <= tokenCounter
      /\ authUser \in Users
    BY DEF CredentialsInv, CredentialsTypeOK, RequestsInStep
<1>3. /\ taken \in Request /\ taken.counter = request.counter
      /\ taken.user = authUser
    BY <1>2 DEF Request
<1>4. Notifications = {} => authUser = providerUser
    BY DEF CredentialsInv, UsersInStep, ProviderUserAt, UserAt, Notifications
<1> HIDE DEF taken
<1>5. RequestsInStep'
    BY <1>1, <1>2, <1>3, <1>4
    DEF CredentialsInv, RequestsInStep, Notifications, providerVars
<1>6. CredentialsTypeOK'
    BY <1>1, <1>3 DEF CredentialsInv, CredentialsTypeOK, providerVars, streamVars,
       callVars
<1> QED
    BY <1>1, <1>5, <1>6
    DEF CredentialsInv, UsersInStep, ProviderUserAt, EngineUserAt, BlocksInStep,
        TasksInStep, StreamSpeaksForCurrentUser, WritesBelongToCaller,
        providerVars, streamVars, callVars

LEMMA AuthAnswersSafe ==
    ASSUME CredentialsInv, NEW request \in requests, NEW ok \in BOOLEAN,
           AuthAnswers(request, ok)
    PROVE  CredentialsInv'
<1> DEFINE block == TokenBlock(request, ok)
<1>1. /\ requests' = requests \ {request}
      /\ mainQueue' = Append(mainQueue, block)
      /\ request.user # None
      /\ UNCHANGED <<authUser, providerVars, workerQueue, currentUser,
                     streamVars, callVars>>
    BY DEF AuthAnswers
<1>2. /\ request \in Answered
      /\ request.counter <= tokenCounter
      /\ request.counter = tokenCounter /\ Notifications = {}
             => request.user = providerUser
  <2>1. request \in Request
      BY DEF CredentialsInv, CredentialsTypeOK
  <2>2. request \in Answered
      BY <1>1, <2>1 DEF Request, Answered
  <2> QED
      BY <1>1, <2>2 DEF CredentialsInv, RequestsInStep
<1>3. /\ block \in Block /\ block.kind = "token" /\ block.request = request
    BY <1>2, EntriesAreTyped DEF TokenBlock
<1> HIDE DEF block
<1>4. /\ mainQueue' \in Seq(Block)
      /\ BlocksInStep'
      /\ ProviderUserAt(Len(mainQueue) + 1, authUser)'
      /\ Notifications' = {} => Notifications = {}
    BY <1>1, <1>2, <1>3, BlockAdded
<1>5. RequestsInStep'
    BY <1>1, <1>4 DEF CredentialsInv, RequestsInStep, providerVars
<1>6. UsersInStep' /\ TasksInStep'
    BY <1>1, <1>4 DEF CredentialsInv, UsersInStep, TasksInStep, EngineUserAt,
       providerVars, callVars
<1>7. CredentialsTypeOK'
    BY <1>1, <1>4 DEF CredentialsInv, CredentialsTypeOK, providerVars, streamVars,
       callVars
<1> QED
    BY <1>1, <1>4, <1>5, <1>6, <1>7 DEF CredentialsInv, StreamSpeaksForCurrentUser,
       WritesBelongToCaller, streamVars, callVars

-----------------------------------------------------------------------------
(* The main queue *)

LEMMA OnAuthStateDidChangeSafe ==
    ASSUME CredentialsInv, OnAuthStateDidChange
    PROVE  CredentialsInv'
<1> DEFINE user == Head(mainQueue).user
<1>1. /\ mainQueue # <<>> /\ Head(mainQueue).kind = "notify"
      /\ mainQueue' = Tail(mainQueue)
      /\ providerUser' = user /\ tokenCounter' = tokenCounter + 1
      /\ workerQueue' = Append(workerQueue, UserTask(user))
      /\ UNCHANGED <<authVars, currentUser, streamVars, callVars>>
    BY DEF OnAuthStateDidChange
<1>2. UNCHANGED authUser
    BY <1>1 DEF authVars
<1>3. /\ mainQueue' \in Seq(Block)
      /\ BlocksInStep'
      /\ ProviderUserAt(Len(mainQueue) + 1, authUser)'
      /\ Head(mainQueue) \in Block
    BY <1>1, <1>2, BlockTaken
<1>4. user \in Users
    BY <1>1, <1>3, EntryFields
<1> HIDE DEF user
<1>5. /\ UserTask(user) \in Task
      /\ UserTask(user).kind = "user" /\ UserTask(user).user = user
    BY <1>4, EntriesAreTyped DEF UserTask
<1>6. TasksInStep' /\ workerQueue' \in Seq(Task)
    BY <1>1, <1>5, TaskAdded DEF callVars
<1>7. EngineUserAt(Len(workerQueue) + 1, providerUser)'
  <2>1. workerQueue \in Seq(Task)
      BY DEF CredentialsInv, CredentialsTypeOK
  <2>2. UserAt(workerQueue', "user", currentUser', Len(workerQueue') + 1, user)
      BY <1>1, <1>5, <2>1, UserAnnounced
  <2> QED
      BY <1>1, <2>2 DEF EngineUserAt
<1>8. RequestsInStep'
  <2>1. \A r \in requests : r.counter \in Nat /\ r.counter <= tokenCounter
      BY DEF CredentialsInv, CredentialsTypeOK, RequestsInStep, Request
  <2>2. tokenCounter \in Nat
      BY DEF CredentialsInv, CredentialsTypeOK
  <2> QED
      BY <1>1, <2>1, <2>2 DEF RequestsInStep, authVars
<1>9. CredentialsTypeOK'
    BY <1>1, <1>3, <1>4, <1>6 DEF CredentialsInv, CredentialsTypeOK, authVars,
       streamVars, callVars
<1> QED
    BY <1>1, <1>3, <1>6, <1>7, <1>8, <1>9
    DEF CredentialsInv, UsersInStep, StreamSpeaksForCurrentUser,
        WritesBelongToCaller, streamVars, callVars

LEMMA OnTokenSafe ==
    ASSUME CredentialsInv, OnToken
    PROVE  CredentialsInv'
<1> DEFINE request == Head(mainQueue).request
           ok == Head(mainQueue).ok /\ request.counter = tokenCounter
           task == TokenTask(request.closes, request.user, ok)
<1>1. /\ mainQueue # <<>> /\ Head(mainQueue).kind = "token"
      /\ mainQueue' = Tail(mainQueue)
      /\ workerQueue' = Append(workerQueue, task)
      /\ UNCHANGED <<authVars, providerVars, currentUser, streamVars, callVars>>
    BY DEF OnToken
<1>2. UNCHANGED authUser
    BY <1>1 DEF authVars
<1>3. /\ mainQueue' \in Seq(Block)
      /\ BlocksInStep'
      /\ ProviderUserAt(Len(mainQueue) + 1, authUser)'
      /\ Notifications' = {} => Notifications = {}
      /\ Head(mainQueue) \in Block /\ Head(mainQueue) = mainQueue[1]
      /\ 1 \in 1..Len(mainQueue)
    BY <1>1, <1>2, BlockTaken
<1>4. request \in Answered
    BY <1>1, <1>3, EntryFields
<1>5. request.counter = tokenCounter => request.user = providerUser
    BY <1>1, <1>3 DEF CredentialsInv, BlocksInStep
<1>6. /\ task \in Task /\ task.kind = "token"
      /\ task.ok => task.user = providerUser
  <2>1. ok \in BOOLEAN /\ request.closes \in Nat /\ request.user \in Users
      BY <1>4 DEF Answered
  <2>2. task \in Task
      BY <2>1, EntriesAreTyped
  <2> QED
      BY <1>5, <2>2 DEF TokenTask
<1> HIDE DEF task
<1>7. TasksInStep' /\ workerQueue' \in Seq(Task)
    BY <1>1, <1>6, TaskAdded DEF callVars
<1>8. EngineUserAt(Len(workerQueue) + 1, providerUser)'
  <2>1. workerQueue \in Seq(Task)
      BY DEF CredentialsInv, CredentialsTypeOK
  <2>2. UserAt(workerQueue, "user", currentUser, Len(workerQueue) + 1, providerUser)
      BY DEF CredentialsInv, UsersInStep, EngineUserAt
  <2>3. UserAt(workerQueue', "user", currentUser, Len(workerQueue') + 1, providerUser)
      BY <1>1, <1>6, <2>1, <2>2, UserAtEnd
  <2> QED
      BY <1>1, <2>3 DEF EngineUserAt, providerVars
<1>9. RequestsInStep'
    BY <1>1, <1>3 DEF CredentialsInv, RequestsInStep, authVars, providerVars
<1>10. CredentialsTypeOK'
    BY <1>1, <1>3, <1>7 DEF CredentialsInv, CredentialsTypeOK, authVars,
       providerVars, streamVars, callVars
<1> QED
    BY <1>1, <1>3, <1>7, <1>8, <1>9, <1>10
    DEF CredentialsInv, UsersInStep, StreamSpeaksForCurrentUser,
        WritesBelongToCaller, streamVars, callVars

LEMMA AppWritesSafe ==
    ASSUME CredentialsInv, NEW call \in Calls, AppWrites(call)
    PROVE  CredentialsInv'
<1>1. /\ caller[call] = None
      /\ caller' = [caller EXCEPT ![call] = providerUser]
      /\ workerQueue' = Append(workerQueue, WriteTask(call))
      /\ UNCHANGED <<authVars, mainQueue, providerVars, currentUser, streamVars,
                     owner>>
    BY DEF AppWrites
<1>2. /\ caller \in [Calls -> Users \cup {None}] /\ providerUser \in Users
      /\ providerUser # None
      /\ owner \in [Calls -> Users \cup {None}]
      /\ workerQueue \in Seq(Task)
    BY NoneAssumption DEF CredentialsInv, CredentialsTypeOK
<1>3. /\ caller' \in [Calls -> Users \cup {None}] /\ caller'[call] = providerUser
      /\ \A c \in Calls : c # call => caller'[c] = caller[c]
    BY <1>1, <1>2
<1>4. /\ WriteTask(call) \in Task
      /\ WriteTask(call).kind = "write" /\ WriteTask(call).call = call
    BY EntriesAreTyped DEF WriteTask
<1>5. \A i \in 1..Len(workerQueue) : workerQueue[i].kind = "write" =>
          caller'[workerQueue[i].call] = caller[workerQueue[i].call]
  <2>1. TAKE i \in 1..Len(workerQueue)
  <2>2. HAVE workerQueue[i].kind = "write"
  <2>3. workerQueue[i] \in Task
      BY <1>2
  <2>4. workerQueue[i].call \in Calls /\ caller[workerQueue[i].call] # None
      BY <2>2, <2>3, EntryFields DEF CredentialsInv, TasksInStep
  <2> QED
      BY <1>1, <1>3, <2>4
<1>6. TasksInStep' /\ workerQueue' \in Seq(Task)
    BY <1>1, <1>2, <1>3, <1>4, <1>5, TaskAdded
<1>7. EngineUserAt(Len(workerQueue) + 1, providerUser)'
  <2>1. UserAt(workerQueue, "user", currentUser, Len(workerQueue) + 1, providerUser)
      BY DEF CredentialsInv, UsersInStep, EngineUserAt
  <2>2. UserAt(workerQueue', "user", currentUser, Len(workerQueue') + 1, providerUser)
      BY <1>1, <1>2, <1>4, <2>1, UserAtEnd
  <2> QED
      BY <1>1, <2>2 DEF EngineUserAt, providerVars
<1>8. WritesBelongToCaller'
    BY <1>1, <1>2, <1>3 DEF CredentialsInv, WritesBelongToCaller
<1>9. CredentialsTypeOK'
    BY <1>1, <1>3, <1>6 DEF CredentialsInv, CredentialsTypeOK, authVars,
       providerVars, streamVars
<1> QED
    BY <1>1, <1>6, <1>7, <1>8, <1>9
    DEF CredentialsInv, UsersInStep, ProviderUserAt, RequestsInStep, BlocksInStep,
        Notifications, StreamSpeaksForCurrentUser, authVars, providerVars,
        streamVars

-----------------------------------------------------------------------------
(* The worker queue *)

LEMMA HandleCredentialChangeSafe ==
    ASSUME CredentialsInv, HandleCredentialChange
    PROVE  CredentialsInv'
<1>1. /\ workerQueue # <<>> /\ Head(workerQueue).kind = "user"
      /\ workerQueue' = Tail(workerQueue)
      /\ currentUser' = Head(workerQueue).user
      /\ UNCHANGED <<authVars, mainQueue, providerVars, callVars>>
    BY DEF HandleCredentialChange, TaskIs
<1>2. /\ TasksInStep'
      /\ EngineUserAt(Len(workerQueue) + 1, providerUser)'
      /\ workerQueue' \in Seq(Task)
      /\ Head(workerQueue) \in Task
    BY <1>1, TaskTaken DEF callVars, providerVars
<1>3. currentUser' \in Users
    BY <1>1, <1>2, EntryFields
<1>4. /\ streamState' \in StreamStates /\ streamState' # "Open"
      /\ closeCount' \in Nat
      /\ streamUser' \in Users \cup {None}
  <2>1. /\ streamState \in StreamStates /\ closeCount \in Nat
        /\ streamUser \in Users \cup {None}
      BY DEF CredentialsInv, CredentialsTypeOK
  <2>2. CASE IsStarted(streamState)
      BY <2>1, <2>2 DEF HandleCredentialChange, Close, StreamStates
  <2>3. CASE ~IsStarted(streamState)
      BY <2>1, <2>3 DEF HandleCredentialChange, streamVars, IsStarted
  <2> QED
      BY <2>2, <2>3
<1>5. CredentialsTypeOK'
    BY <1>1, <1>2, <1>3, <1>4 DEF CredentialsInv, CredentialsTypeOK, authVars,
       providerVars, callVars
<1> QED
    BY <1>1, <1>2, <1>4, <1>5
    DEF CredentialsInv, UsersInStep, ProviderUserAt, RequestsInStep, BlocksInStep,
        Notifications, StreamSpeaksForCurrentUser, WritesBelongToCaller,
        authVars, providerVars, callVars

LEMMA ResumeStartWithCredentialsSafe ==
    ASSUME CredentialsInv, ResumeStartWithCredentials
    PROVE  CredentialsInv'
<1> DEFINE token == Head(workerQueue)
<1>1. /\ workerQueue # <<>> /\ token.kind = "token"
      /\ workerQueue' = Tail(workerQueue)
      /\ UNCHANGED <<authVars, mainQueue, providerVars, currentUser, callVars>>
    BY DEF ResumeStartWithCredentials, TaskIs
<1>2. /\ TasksInStep'
      /\ EngineUserAt(Len(workerQueue) + 1, providerUser)'
      /\ workerQueue' \in Seq(Task)
      /\ token \in Task /\ token = workerQueue[1]
      /\ 1 \in 1..Len(workerQueue)
    BY <1>1, TaskTaken DEF callVars, providerVars
<1>3. token.user \in Users
    BY <1>1, <1>2, EntryFields
\* A valid token at the front is the current user's.
<1>4. token.ok => token.user = currentUser
    BY <1>1, <1>2 DEF CredentialsInv, TasksInStep, EngineUserAt, UserAt
<1>5. /\ streamState \in StreamStates /\ closeCount \in Nat
      /\ streamUser \in Users \cup {None}
      /\ streamState = "Open" => streamUser = currentUser
    BY DEF CredentialsInv, CredentialsTypeOK, StreamSpeaksForCurrentUser
<1>6. /\ streamState' \in StreamStates /\ closeCount' \in Nat
      /\ streamUser' \in Users \cup {None}
      /\ streamState' = "Open" => streamUser' = currentUser
  <2>1. CASE token.closes # closeCount
      BY <1>5, <2>1 DEF ResumeStartWithCredentials, streamVars
  <2>2. CASE token.closes = closeCount /\ ~token.ok
      BY <1>5, <2>2 DEF ResumeStartWithCredentials, Close, StreamStates
  <2>3. CASE token.closes = closeCount /\ token.ok
      BY <1>3, <1>4, <1>5, <2>3 DEF ResumeStartWithCredentials, StreamStates
  <2> QED
      BY <2>1, <2>2, <2>3
<1>7. CredentialsTypeOK'
    BY <1>1, <1>2, <1>6 DEF CredentialsInv, CredentialsTypeOK, authVars,
       providerVars, callVars
<1> QED
    BY <1>1, <1>2, <1>6, <1>7
    DEF CredentialsInv, UsersInStep, ProviderUserAt, RequestsInStep, BlocksInStep,
        Notifications, StreamSpeaksForCurrentUser, WritesBelongToCaller,
        authVars, providerVars, callVars

LEMMA WriteMutationsSafe ==
    ASSUME CredentialsInv, WriteMutations
    PROVE  CredentialsInv'
<1> DEFINE call == Head(workerQueue).call
<1>1. /\ workerQueue # <<>> /\ Head(workerQueue).kind = "write"
      /\ workerQueue' = Tail(workerQueue)
      /\ owner' = [owner EXCEPT ![call] = currentUser]
      /\ UNCHANGED <<authVars, mainQueue, providerVars, currentUser, streamVars,
                     caller>>
    BY DEF WriteMutations, TaskIs
<1>2. /\ TasksInStep'
      /\ EngineUserAt(Len(workerQueue) + 1, providerUser)'
      /\ workerQueue' \in Seq(Task)
      /\ Head(workerQueue) \in Task /\ Head(workerQueue) = workerQueue[1]
      /\ 1 \in 1..Len(workerQueue)
    BY <1>1, TaskTaken DEF providerVars
<1>3. call \in Calls
    BY <1>1, <1>2, EntryFields
\* A write at the front was made as the current user.
<1>4. caller[call] = currentUser
    BY <1>1, <1>2 DEF CredentialsInv, TasksInStep, EngineUserAt, UserAt
<1>5. /\ owner \in [Calls -> Users \cup {None}] /\ currentUser \in Users
    BY DEF CredentialsInv, CredentialsTypeOK
<1>6. WritesBelongToCaller'
    BY <1>1, <1>3, <1>4, <1>5 DEF CredentialsInv, WritesBelongToCaller
<1>7. CredentialsTypeOK'
    BY <1>1, <1>2, <1>5 DEF CredentialsInv, CredentialsTypeOK, authVars,
       providerVars, streamVars
<1> QED
    BY <1>1, <1>2, <1>6, <1>7
    DEF CredentialsInv, UsersInStep, ProviderUserAt, RequestsInStep, BlocksInStep,
        Notifications, StreamSpeaksForCurrentUser, authVars, providerVars,
        streamVars

\* A step of the stream that leaves the queues alone, and may ask for a token.
LEMMA StreamStepSafe ==
    ASSUME CredentialsInv,
           UNCHANGED <<authUser, mainQueue, providerVars, workerQueue,
                       currentUser, callVars>>,
           UNCHANGED requests \/ RequestCredentials(closeCount),
           streamState' \in StreamStates, closeCount' \in Nat,
           streamUser' \in Users \cup {None},
           streamState' = "Open" => streamState = "Open" /\ UNCHANGED streamUser
    PROVE  CredentialsInv'
<1>1. closeCount \in Nat /\ tokenCounter \in Nat /\ requests \in SUBSET Request
    BY DEF CredentialsInv, CredentialsTypeOK
<1>2. requests' \in SUBSET Request
    BY <1>1 DEF RequestCredentials, Request
<1>3. RequestsInStep'
  <2>1. CASE UNCHANGED requests
      BY <2>1 DEF CredentialsInv, RequestsInStep, Notifications, providerVars
  <2>2. CASE RequestCredentials(closeCount)
      BY <1>1, <2>2 DEF CredentialsInv, RequestsInStep, Notifications,
         providerVars, RequestCredentials
  <2> QED
      BY <2>1, <2>2
<1>4. CredentialsTypeOK'
    BY <1>2 DEF CredentialsInv, CredentialsTypeOK, providerVars, callVars
<1> QED
    BY <1>3, <1>4
    DEF CredentialsInv, UsersInStep, ProviderUserAt, EngineUserAt, BlocksInStep,
        TasksInStep, StreamSpeaksForCurrentUser, WritesBelongToCaller,
        providerVars, callVars

LEMMA StreamSafe ==
    ASSUME CredentialsInv,
           Start \/ BackoffElapsed \/ StreamEnds \/ InhibitBackoff
    PROVE  CredentialsInv'
<1>1. /\ streamState \in StreamStates /\ closeCount \in Nat
      /\ streamUser \in Users \cup {None}
    BY DEF CredentialsInv, CredentialsTypeOK
<1>2. CASE Start
  <2>1. /\ UNCHANGED <<authUser, mainQueue, providerVars, workerQueue,
                       currentUser, closeCount, streamUser, callVars>>
        /\ UNCHANGED requests \/ RequestCredentials(closeCount)
        /\ streamState' \in {"Backoff", "Starting"}
      BY <1>2 DEF Start
  <2> QED
      BY <1>1, <2>1, StreamStepSafe DEF StreamStates
<1>3. CASE BackoffElapsed
  <2>1. /\ UNCHANGED <<authUser, mainQueue, providerVars, workerQueue,
                       currentUser, closeCount, streamUser, callVars>>
        /\ RequestCredentials(closeCount)
        /\ streamState' = "Starting"
      BY <1>3 DEF BackoffElapsed
  <2> QED
      BY <1>1, <2>1, StreamStepSafe DEF StreamStates
<1>4. CASE StreamEnds
  <2>1. /\ UNCHANGED <<authVars, mainQueue, providerVars, workerQueue,
                       currentUser, callVars>>
        /\ streamState' \in {"Error", "Initial"}
        /\ closeCount' = closeCount + 1 /\ streamUser' = None
      BY <1>4 DEF StreamEnds, Close
  <2> QED
      BY <1>1, <2>1, StreamStepSafe DEF StreamStates, authVars
<1>5. CASE InhibitBackoff
  <2>1. /\ UNCHANGED <<authVars, mainQueue, providerVars, workerQueue,
                       currentUser, closeCount, streamUser, callVars>>
        /\ streamState' = "Initial"
      BY <1>5 DEF InhibitBackoff
  <2> QED
      BY <1>1, <2>1, StreamStepSafe DEF StreamStates, authVars
<1> QED
    BY <1>2, <1>3, <1>4, <1>5

-----------------------------------------------------------------------------
(* The specification *)

LEMMA CredentialsInitially ==
    ASSUME Init
    PROVE  CredentialsInv
<1>1. /\ mainQueue = <<>> /\ workerQueue = <<>> /\ requests = {}
      /\ providerUser = authUser /\ currentUser = authUser
      /\ streamState = "Initial"
      /\ owner = [c \in Calls |-> None]
    BY DEF Init
<1>2. CredentialsTypeOK
    BY DEF Init, CredentialsTypeOK, StreamStates
<1>3. UsersInStep
    BY <1>1 DEF UsersInStep, ProviderUserAt, EngineUserAt, UserAt
<1>4. RequestsInStep /\ BlocksInStep /\ TasksInStep
    BY <1>1 DEF RequestsInStep, BlocksInStep, TasksInStep
<1>5. StreamSpeaksForCurrentUser /\ WritesBelongToCaller
    BY <1>1 DEF StreamSpeaksForCurrentUser, WritesBelongToCaller
<1> QED
    BY <1>2, <1>3, <1>4, <1>5 DEF CredentialsInv

LEMMA CredentialsStutter ==
    ASSUME CredentialsInv, UNCHANGED vars
    PROVE  CredentialsInv'
<1>1. UNCHANGED <<authUser, requests, mainQueue, providerVars, workerQueue,
                  currentUser, streamVars, callVars>>
    BY DEF vars, authVars
<1>2. CredentialsTypeOK'
    BY <1>1 DEF CredentialsInv, CredentialsTypeOK, providerVars, streamVars, callVars
<1> QED
    BY <1>1, <1>2
    DEF CredentialsInv, UsersInStep, ProviderUserAt, EngineUserAt, RequestsInStep,
        BlocksInStep, TasksInStep, Notifications, StreamSpeaksForCurrentUser,
        WritesBelongToCaller, providerVars, streamVars, callVars

LEMMA CredentialsStep ==
    ASSUME CredentialsInv, [Next]_vars
    PROVE  CredentialsInv'
<1>1. ASSUME NEW user \in Users, AuthStateChanges(user) PROVE CredentialsInv'
    BY <1>1, AuthStateChangesSafe
<1>2. CASE Auth
    BY <1>2, AuthTakesRequestSafe, AuthAnswersSafe DEF Auth
<1>3. CASE MainQueue
    BY <1>3, OnAuthStateDidChangeSafe, OnTokenSafe DEF MainQueue
<1>4. ASSUME NEW call \in Calls, AppWrites(call) PROVE CredentialsInv'
    BY <1>4, AppWritesSafe
<1>5. CASE WorkerQueue
    BY <1>5, HandleCredentialChangeSafe, ResumeStartWithCredentialsSafe,
       WriteMutationsSafe DEF WorkerQueue
<1>6. CASE Start \/ BackoffElapsed \/ StreamEnds \/ InhibitBackoff
    BY <1>6, StreamSafe
<1>7. CASE UNCHANGED vars
    BY <1>7, CredentialsStutter
<1> QED
    BY <1>1, <1>2, <1>3, <1>4, <1>5, <1>6, <1>7 DEF Next

(***************************************************************************)
(* What each queue has yet to announce agrees, at every moment, with whom  *)
(* the tokens and the writes on it belong to.                              *)
(***************************************************************************)
THEOREM CredentialsInvariant == Spec => []CredentialsInv
<1>1. Init => CredentialsInv
    BY CredentialsInitially
<1>2. CredentialsInv /\ [Next]_vars => CredentialsInv'
    BY CredentialsStep
<1> QED
    BY <1>1, <1>2, PTL DEF Spec

(***************************************************************************)
(* The variables of StreamCredentials keep their types; in particular only *)
(* an answered request reaches the main queue.                             *)
(***************************************************************************)
THEOREM CredentialsAreTyped == Spec => []CredentialsTypeOK
<1>1. CredentialsInv => CredentialsTypeOK
    BY DEF CredentialsInv
<1> QED
    BY <1>1, CredentialsInvariant, PTL

(***************************************************************************)
(* An open stream carries a token of the user whose mutation queue is      *)
(* being sent, however the notification and the token race each other.     *)
(***************************************************************************)
THEOREM StreamsSpeakForCurrentUser == Spec => []StreamSpeaksForCurrentUser
<1>1. CredentialsInv => StreamSpeaksForCurrentUser
    BY DEF CredentialsInv
<1> QED
    BY <1>1, CredentialsInvariant, PTL

(***************************************************************************)
(* A write reaches the mutation queue of the user Firestore had been told  *)
(* of when the app made the call.                                          *)
(***************************************************************************)
THEOREM WritesReachTheirCaller == Spec => []WritesBelongToCaller
<1>1. CredentialsInv => WritesBelongToCaller
    BY DEF CredentialsInv
<1> QED
    BY <1>1, CredentialsInvariant, PTL

-----------------------------------------------------------------------------
(* One token for each start of the stream *)

\* The requests, blocks and tasks of the current close count.
ValidRequests == {r \in requests : r.closes = closeCount}
ValidBlocks == {i \in 1..Len(mainQueue) :
                   /\ mainQueue[i].kind = "token"
                   /\ mainQueue[i].request.closes = closeCount}
ValidTasks == {i \in 1..Len(workerQueue) :
                  /\ workerQueue[i].kind = "token"
                  /\ workerQueue[i].closes = closeCount}

\* No token is from the future, and a close makes all of them invalid.
NoneIsNewer ==
    /\ \A r \in requests : r.closes <= closeCount
    /\ \A i \in 1..Len(mainQueue) : mainQueue[i].kind = "token" =>
          mainQueue[i].request.closes <= closeCount
    /\ \A i \in 1..Len(workerQueue) : workerQueue[i].kind = "token" =>
          workerQueue[i].closes <= closeCount

\* At most one valid token is on its way, and then the stream waits for it.
OneOnItsWay ==
    /\ \A r, s \in ValidRequests : r = s
    /\ \A i, j \in ValidBlocks : i = j
    /\ \A i, j \in ValidTasks : i = j
    /\ ValidRequests = {} \/ (ValidBlocks = {} /\ ValidTasks = {})
    /\ ValidBlocks = {} \/ ValidTasks = {}
    /\ streamState # "Starting" =>
          ValidRequests = {} /\ ValidBlocks = {} /\ ValidTasks = {}

TokenInv == NoneIsNewer /\ OneOnItsWay

LEMMA BlockJoins ==
    ASSUME CredentialsTypeOK, NoneIsNewer, NEW x \in Block,
           mainQueue' = Append(mainQueue, x), closeCount' = closeCount,
           x.kind = "token" => x.request.closes <= closeCount
    PROVE  /\ ValidBlocks' =
                  IF x.kind = "token" /\ x.request.closes = closeCount
                  THEN ValidBlocks \cup {Len(mainQueue) + 1} ELSE ValidBlocks
           /\ \A i \in 1..Len(mainQueue') : mainQueue'[i].kind = "token" =>
                 mainQueue'[i].request.closes <= closeCount'
<1>1. mainQueue \in Seq(Block)
    BY DEF CredentialsTypeOK
<1>2. /\ Len(mainQueue') = Len(mainQueue) + 1 /\ Len(mainQueue) \in Nat
      /\ \A i \in 1..Len(mainQueue) : mainQueue'[i] = mainQueue[i]
      /\ mainQueue'[Len(mainQueue) + 1] = x
    BY <1>1
<1>3. 1..Len(mainQueue') = 1..Len(mainQueue) \cup {Len(mainQueue) + 1}
    BY <1>2
<1>4. \A i \in 1..Len(mainQueue') : mainQueue'[i].kind = "token" =>
          mainQueue'[i].request.closes <= closeCount'
    BY <1>2, <1>3 DEF NoneIsNewer
<1>5. ValidBlocks' =
          IF x.kind = "token" /\ x.request.closes = closeCount
          THEN ValidBlocks \cup {Len(mainQueue) + 1} ELSE ValidBlocks
    BY <1>2, <1>3 DEF ValidBlocks
<1> QED
    BY <1>4, <1>5

LEMMA BlockLeaves ==
    ASSUME CredentialsTypeOK, NoneIsNewer, mainQueue # <<>>,
           mainQueue' = Tail(mainQueue), closeCount' = closeCount
    PROVE  /\ \A i \in ValidBlocks' : i + 1 \in ValidBlocks /\ i \in Nat /\ i # 0
           /\ \A i \in 1..Len(mainQueue') : mainQueue'[i].kind = "token" =>
                 mainQueue'[i].request.closes <= closeCount'
           /\ Head(mainQueue) = mainQueue[1] /\ 1 \in 1..Len(mainQueue)
           /\ Head(mainQueue) \in Block
<1>1. mainQueue \in Seq(Block)
    BY DEF CredentialsTypeOK
<1>2. /\ Len(mainQueue) = Len(mainQueue') + 1 /\ Len(mainQueue') \in Nat
      /\ Head(mainQueue) = mainQueue[1] /\ Head(mainQueue) \in Block
      /\ \A i \in 1..Len(mainQueue') :
            mainQueue'[i] = mainQueue[i + 1] /\ i + 1 \in 1..Len(mainQueue)
    BY <1>1
<1>3. \A i \in ValidBlocks' : i + 1 \in ValidBlocks /\ i \in Nat /\ i # 0
    BY <1>2 DEF ValidBlocks
<1>4. \A i \in 1..Len(mainQueue') : mainQueue'[i].kind = "token" =>
          mainQueue'[i].request.closes <= closeCount'
    BY <1>2 DEF NoneIsNewer
<1>5. 1 \in 1..Len(mainQueue)
    BY <1>2
<1> QED
    BY <1>2, <1>3, <1>4, <1>5

LEMMA TaskJoins ==
    ASSUME CredentialsTypeOK, NoneIsNewer, NEW x \in Task,
           workerQueue' = Append(workerQueue, x), closeCount' = closeCount,
           x.kind = "token" => x.closes <= closeCount
    PROVE  /\ ValidTasks' =
                  IF x.kind = "token" /\ x.closes = closeCount
                  THEN ValidTasks \cup {Len(workerQueue) + 1} ELSE ValidTasks
           /\ \A i \in 1..Len(workerQueue') : workerQueue'[i].kind = "token" =>
                 workerQueue'[i].closes <= closeCount'
<1>1. workerQueue \in Seq(Task)
    BY DEF CredentialsTypeOK
<1>2. /\ Len(workerQueue') = Len(workerQueue) + 1 /\ Len(workerQueue) \in Nat
      /\ \A i \in 1..Len(workerQueue) : workerQueue'[i] = workerQueue[i]
      /\ workerQueue'[Len(workerQueue) + 1] = x
    BY <1>1
<1>3. 1..Len(workerQueue') = 1..Len(workerQueue) \cup {Len(workerQueue) + 1}
    BY <1>2
<1>4. \A i \in 1..Len(workerQueue') : workerQueue'[i].kind = "token" =>
          workerQueue'[i].closes <= closeCount'
    BY <1>2, <1>3 DEF NoneIsNewer
<1>5. ValidTasks' =
          IF x.kind = "token" /\ x.closes = closeCount
          THEN ValidTasks \cup {Len(workerQueue) + 1} ELSE ValidTasks
    BY <1>2, <1>3 DEF ValidTasks
<1> QED
    BY <1>4, <1>5

\* closeCount may grow at the same time.
LEMMA TaskLeaves ==
    ASSUME CredentialsTypeOK, NoneIsNewer, workerQueue # <<>>,
           workerQueue' = Tail(workerQueue),
           closeCount' \in {closeCount, closeCount + 1}
    PROVE  /\ closeCount' = closeCount =>
                 \A i \in ValidTasks' : i + 1 \in ValidTasks /\ i \in Nat /\ i # 0
           /\ \A i \in 1..Len(workerQueue') : workerQueue'[i].kind = "token" =>
                 workerQueue'[i].closes <= closeCount
           /\ Head(workerQueue) = workerQueue[1] /\ 1 \in 1..Len(workerQueue)
           /\ workerQueue' \in Seq(Task)
<1>1. workerQueue \in Seq(Task)
    BY DEF CredentialsTypeOK
<1>2. /\ Len(workerQueue) = Len(workerQueue') + 1 /\ Len(workerQueue') \in Nat
      /\ Head(workerQueue) = workerQueue[1] /\ workerQueue' \in Seq(Task)
      /\ \A i \in 1..Len(workerQueue') :
            workerQueue'[i] = workerQueue[i + 1] /\ i + 1 \in 1..Len(workerQueue)
    BY <1>1
<1>3. closeCount' = closeCount =>
          \A i \in ValidTasks' : i + 1 \in ValidTasks /\ i \in Nat /\ i # 0
    BY <1>2 DEF ValidTasks
<1>4. \A i \in 1..Len(workerQueue') : workerQueue'[i].kind = "token" =>
          workerQueue'[i].closes <= closeCount
    BY <1>2 DEF NoneIsNewer
<1>5. 1 \in 1..Len(workerQueue)
    BY <1>2
<1> QED
    BY <1>2, <1>3, <1>4, <1>5

\* After a close nothing on its way is valid.
LEMMA ClosedTokens ==
    ASSUME NoneIsNewer, closeCount \in Nat, closeCount' = closeCount + 1,
           requests' = requests, mainQueue' = mainQueue,
           \A r \in requests : r.closes \in Nat,
           \A i \in 1..Len(mainQueue) : mainQueue[i].kind = "token" =>
               mainQueue[i].request.closes \in Nat,
           \A i \in 1..Len(workerQueue') : workerQueue'[i].kind = "token" =>
               /\ workerQueue'[i].closes \in Nat
               /\ workerQueue'[i].closes <= closeCount
    PROVE  TokenInv'
<1>1. NoneIsNewer'
    BY DEF NoneIsNewer
<1>2. ValidRequests' = {} /\ ValidBlocks' = {} /\ ValidTasks' = {}
    BY DEF NoneIsNewer, ValidRequests, ValidBlocks, ValidTasks
<1> QED
    BY <1>1, <1>2 DEF TokenInv, OneOnItsWay


\* What a close meets is typed, so that counts can be compared.
LEMMA TokensAreCounted ==
    ASSUME CredentialsTypeOK
    PROVE  /\ closeCount \in Nat
           /\ \A r \in requests : r.closes \in Nat
           /\ \A i \in 1..Len(mainQueue) : mainQueue[i].kind = "token" =>
                 mainQueue[i].request.closes \in Nat
           /\ \A i \in 1..Len(workerQueue) : workerQueue[i] \in Task
           /\ \A i \in 1..Len(workerQueue) : workerQueue[i].kind = "token" =>
                 workerQueue[i].closes \in Nat
<1>1. mainQueue \in Seq(Block) /\ workerQueue \in Seq(Task) /\ closeCount \in Nat
    BY DEF CredentialsTypeOK
<1>2. \A r \in requests : r.closes \in Nat
    BY DEF CredentialsTypeOK, Request
<1>3. \A i \in 1..Len(mainQueue) : mainQueue[i] \in Block
    BY <1>1
<1>4. \A i \in 1..Len(workerQueue) : workerQueue[i] \in Task
    BY <1>1
<1>5. \A b \in Block : b.kind = "token" => b.request.closes \in Nat
    BY DEF Block, Answered
<1> QED
    BY <1>1, <1>2, <1>3, <1>4, <1>5, EntryFields

LEMMA AuthStateChangesToken ==
    ASSUME CredentialsTypeOK, TokenInv, NEW user \in Users, AuthStateChanges(user)
    PROVE  TokenInv'
<1>1. /\ NotifyBlock(user) \in Block /\ NotifyBlock(user).kind # "token"
      /\ mainQueue' = Append(mainQueue, NotifyBlock(user))
      /\ UNCHANGED <<requests, workerQueue, streamState, closeCount>>
    BY EntriesAreTyped DEF NotifyBlock, AuthStateChanges, streamVars
<1>2. /\ ValidBlocks' = ValidBlocks
      /\ \A i \in 1..Len(mainQueue') : mainQueue'[i].kind = "token" =>
            mainQueue'[i].request.closes <= closeCount'
    BY <1>1, BlockJoins DEF TokenInv
<1>3. ValidRequests' = ValidRequests /\ ValidTasks' = ValidTasks
    BY <1>1 DEF ValidRequests, ValidTasks
<1>4. NoneIsNewer'
    BY <1>1, <1>2 DEF TokenInv, NoneIsNewer
<1>5. OneOnItsWay'
    BY <1>1, <1>2, <1>3 DEF TokenInv, OneOnItsWay
<1> QED
    BY <1>4, <1>5 DEF TokenInv

LEMMA AuthTakesRequestToken ==
    ASSUME CredentialsTypeOK, TokenInv, NEW request \in requests,
           AuthTakesRequest(request)
    PROVE  TokenInv'
<1> DEFINE taken == [request EXCEPT !.user = authUser]
<1>1. /\ requests' = (requests \ {request}) \cup {taken}
      /\ taken.closes = request.closes
      /\ UNCHANGED <<mainQueue, workerQueue, streamState, closeCount>>
  <2>1. request \in Request
      BY DEF CredentialsTypeOK
  <2> QED
      BY <2>1 DEF AuthTakesRequest, Request, streamVars
<1> HIDE DEF taken
<1>2. ValidBlocks' = ValidBlocks /\ ValidTasks' = ValidTasks
    BY <1>1 DEF ValidBlocks, ValidTasks
<1>3. NoneIsNewer'
    BY <1>1 DEF TokenInv, NoneIsNewer
<1>4. \A r \in ValidRequests' :
          \/ r = taken /\ request \in ValidRequests
          \/ r # request /\ r \in ValidRequests
  <2>1. ASSUME NEW r \in requests', r.closes = closeCount
        PROVE  \/ r = taken /\ request.closes = closeCount
               \/ r # request /\ r \in requests
      BY <1>1, <2>1
  <2> QED
      BY <1>1, <2>1 DEF ValidRequests
<1>5. /\ \A r, s \in ValidRequests' : r = s
      /\ ValidRequests = {} => ValidRequests' = {}
    BY <1>4 DEF TokenInv, OneOnItsWay
<1>6. OneOnItsWay'
    BY <1>1, <1>2, <1>5 DEF TokenInv, OneOnItsWay
<1> QED
    BY <1>3, <1>6 DEF TokenInv

LEMMA AuthAnswersToken ==
    ASSUME CredentialsTypeOK, TokenInv, NEW request \in requests,
           NEW ok \in BOOLEAN, AuthAnswers(request, ok)
    PROVE  TokenInv'
<1> DEFINE block == TokenBlock(request, ok)
<1>1. /\ request \in Answered
      /\ requests' = requests \ {request}
      /\ mainQueue' = Append(mainQueue, block)
      /\ UNCHANGED <<workerQueue, streamState, closeCount>>
    BY DEF AuthAnswers, CredentialsTypeOK, Request, Answered, streamVars
<1>2. /\ block \in Block /\ block.kind = "token" /\ block.request = request
    BY <1>1, EntriesAreTyped DEF TokenBlock
<1> HIDE DEF block
<1>3. request.closes <= closeCount
    BY DEF TokenInv, NoneIsNewer
<1>4. /\ ValidBlocks' = IF request.closes = closeCount
                        THEN ValidBlocks \cup {Len(mainQueue) + 1} ELSE ValidBlocks
      /\ \A i \in 1..Len(mainQueue') : mainQueue'[i].kind = "token" =>
            mainQueue'[i].request.closes <= closeCount'
    BY <1>1, <1>2, <1>3, BlockJoins DEF TokenInv
<1>5. ValidTasks' = ValidTasks /\ ValidRequests' = ValidRequests \ {request}
    BY <1>1 DEF ValidTasks, ValidRequests
<1>6. NoneIsNewer'
    BY <1>1, <1>4 DEF TokenInv, NoneIsNewer
<1>7. CASE request.closes = closeCount
  <2>1. request \in ValidRequests
      BY <1>7 DEF ValidRequests
  <2>2. /\ ValidRequests' = {} /\ ValidBlocks = {} /\ ValidTasks = {}
        /\ streamState = "Starting"
      BY <1>5, <2>1 DEF TokenInv, OneOnItsWay
  <2> QED
      BY <1>1, <1>4, <1>5, <1>6, <1>7, <2>2 DEF TokenInv, OneOnItsWay
<1>8. CASE request.closes # closeCount
  <2>1. ValidBlocks' = ValidBlocks /\ ValidRequests' = ValidRequests
      BY <1>4, <1>5, <1>8 DEF ValidRequests
  <2> QED
      BY <1>1, <1>5, <1>6, <2>1 DEF TokenInv, OneOnItsWay
<1> QED
    BY <1>7, <1>8

LEMMA OnAuthStateDidChangeToken ==
    ASSUME CredentialsTypeOK, TokenInv, OnAuthStateDidChange
    PROVE  TokenInv'
<1> DEFINE task == UserTask(Head(mainQueue).user)
<1>1. /\ mainQueue # <<>> /\ mainQueue' = Tail(mainQueue)
      /\ Head(mainQueue).kind = "notify"
      /\ workerQueue' = Append(workerQueue, task)
      /\ UNCHANGED <<requests, streamState, closeCount>>
    BY DEF OnAuthStateDidChange, authVars, streamVars
<1>2. /\ \A i \in ValidBlocks' : i + 1 \in ValidBlocks /\ i \in Nat /\ i # 0
      /\ \A i \in 1..Len(mainQueue') : mainQueue'[i].kind = "token" =>
            mainQueue'[i].request.closes <= closeCount'
      /\ Head(mainQueue) \in Block
    BY <1>1, BlockLeaves DEF TokenInv
<1>3. task \in Task /\ task.kind # "token"
    BY <1>1, <1>2, EntryFields, EntriesAreTyped DEF UserTask
<1> HIDE DEF task
<1>4. /\ ValidTasks' = ValidTasks
      /\ \A i \in 1..Len(workerQueue') : workerQueue'[i].kind = "token" =>
            workerQueue'[i].closes <= closeCount'
    BY <1>1, <1>3, TaskJoins DEF TokenInv
<1>5. ValidRequests' = ValidRequests
    BY <1>1 DEF ValidRequests
<1>6. NoneIsNewer'
    BY <1>1, <1>2, <1>4 DEF TokenInv, NoneIsNewer
<1>7. /\ \A i, j \in ValidBlocks' : i = j
      /\ ValidBlocks = {} => ValidBlocks' = {}
  <2>1. \A i, j \in ValidBlocks' : i + 1 = j + 1
      BY <1>2 DEF TokenInv, OneOnItsWay
  <2> QED
      BY <1>2, <2>1
<1>8. OneOnItsWay'
    BY <1>1, <1>4, <1>5, <1>7 DEF TokenInv, OneOnItsWay
<1> QED
    BY <1>6, <1>8 DEF TokenInv

LEMMA OnTokenToken ==
    ASSUME CredentialsTypeOK, TokenInv, OnToken
    PROVE  TokenInv'
<1> DEFINE request == Head(mainQueue).request
           task == TokenTask(request.closes, request.user,
                             Head(mainQueue).ok /\ request.counter = tokenCounter)
<1>1. /\ mainQueue # <<>> /\ mainQueue' = Tail(mainQueue)
      /\ Head(mainQueue).kind = "token"
      /\ workerQueue' = Append(workerQueue, task)
      /\ UNCHANGED <<requests, streamState, closeCount>>
    BY DEF OnToken, authVars, streamVars
<1>2. /\ \A i \in ValidBlocks' : i + 1 \in ValidBlocks /\ i \in Nat /\ i # 0
      /\ \A i \in 1..Len(mainQueue') : mainQueue'[i].kind = "token" =>
            mainQueue'[i].request.closes <= closeCount'
      /\ Head(mainQueue) \in Block /\ Head(mainQueue) = mainQueue[1]
      /\ 1 \in 1..Len(mainQueue)
    BY <1>1, BlockLeaves DEF TokenInv
<1>3. request \in Answered
    BY <1>1, <1>2, EntryFields
<1>4. request.closes <= closeCount
    BY <1>1, <1>2 DEF TokenInv, NoneIsNewer
<1>5. task \in Task /\ task.kind = "token" /\ task.closes = request.closes
  <2>1. request.closes \in Nat /\ request.user \in Users
      BY <1>3 DEF Answered
  <2> HIDE DEF request
  <2>2. (Head(mainQueue).ok /\ request.counter = tokenCounter) \in BOOLEAN
      OBVIOUS
  <2> QED
      BY <2>1, <2>2, EntriesAreTyped DEF TokenTask
<1>6. request.closes = closeCount <=> 1 \in ValidBlocks
    BY <1>1, <1>2 DEF ValidBlocks
<1> HIDE DEF task, request
<1>7. /\ ValidTasks' = IF request.closes = closeCount
                       THEN ValidTasks \cup {Len(workerQueue) + 1} ELSE ValidTasks
      /\ \A i \in 1..Len(workerQueue') : workerQueue'[i].kind = "token" =>
            workerQueue'[i].closes <= closeCount'
    BY <1>1, <1>4, <1>5, TaskJoins DEF TokenInv
<1>8. ValidRequests' = ValidRequests
    BY <1>1 DEF ValidRequests
<1>9. NoneIsNewer'
    BY <1>1, <1>2, <1>7 DEF TokenInv, NoneIsNewer
<1>10. CASE request.closes = closeCount
  <2>1. /\ 1 \in ValidBlocks /\ ValidTasks = {} /\ ValidRequests = {}
        /\ streamState = "Starting"
      BY <1>6, <1>10 DEF TokenInv, OneOnItsWay
  <2>2. ValidBlocks' = {}
    <3>1. \A i \in ValidBlocks' : i + 1 = 1 /\ i \in Nat /\ i # 0
        BY <1>2, <2>1 DEF TokenInv, OneOnItsWay
    <3> QED
        BY <3>1
  <2>3. ValidTasks' = {Len(workerQueue) + 1}
      BY <1>7, <1>10, <2>1
  <2>4. ValidRequests' = {} /\ streamState' = "Starting"
      BY <1>1, <1>8, <2>1
  <2> QED
      BY <1>9, <2>2, <2>3, <2>4 DEF TokenInv, OneOnItsWay
<1>11. CASE request.closes # closeCount
  <2>1. /\ \A i, j \in ValidBlocks' : i = j
        /\ ValidBlocks = {} => ValidBlocks' = {}
    <3>1. \A i, j \in ValidBlocks' : i + 1 = j + 1
        BY <1>2 DEF TokenInv, OneOnItsWay
    <3> QED
        BY <1>2, <3>1
  <2>2. ValidTasks' = ValidTasks
      BY <1>7, <1>11
  <2> QED
      BY <1>1, <1>8, <1>9, <2>1, <2>2 DEF TokenInv, OneOnItsWay
<1> QED
    BY <1>10, <1>11

LEMMA AppWritesToken ==
    ASSUME CredentialsTypeOK, TokenInv, NEW call \in Calls, AppWrites(call)
    PROVE  TokenInv'
<1>1. /\ WriteTask(call) \in Task /\ WriteTask(call).kind # "token"
      /\ workerQueue' = Append(workerQueue, WriteTask(call))
      /\ UNCHANGED <<requests, mainQueue, streamState, closeCount>>
    BY EntriesAreTyped DEF WriteTask, AppWrites, authVars, streamVars
<1>2. /\ ValidTasks' = ValidTasks
      /\ \A i \in 1..Len(workerQueue') : workerQueue'[i].kind = "token" =>
            workerQueue'[i].closes <= closeCount'
    BY <1>1, TaskJoins DEF TokenInv
<1>3. ValidRequests' = ValidRequests /\ ValidBlocks' = ValidBlocks
    BY <1>1 DEF ValidRequests, ValidBlocks
<1>4. NoneIsNewer'
    BY <1>1, <1>2 DEF TokenInv, NoneIsNewer
<1>5. OneOnItsWay'
    BY <1>1, <1>2, <1>3 DEF TokenInv, OneOnItsWay
<1> QED
    BY <1>4, <1>5 DEF TokenInv

\* A stream that starts asks for the only token.
LEMMA StartToken ==
    ASSUME CredentialsTypeOK, TokenInv, Start \/ BackoffElapsed
    PROVE  TokenInv'
<1>1. UNCHANGED <<mainQueue, workerQueue, closeCount>> /\ streamState # "Starting"
    BY DEF Start, BackoffElapsed, IsStarted
<1>2. ValidRequests = {} /\ ValidBlocks = {} /\ ValidTasks = {}
    BY <1>1 DEF TokenInv, OneOnItsWay
<1>3. ValidBlocks' = {} /\ ValidTasks' = {}
    BY <1>1, <1>2 DEF ValidBlocks, ValidTasks
<1>4. CASE UNCHANGED requests
  <2>1. ValidRequests' = {}
      BY <1>1, <1>2, <1>4 DEF ValidRequests
  <2>2. NoneIsNewer'
      BY <1>1, <1>4 DEF TokenInv, NoneIsNewer
  <2> QED
      BY <1>3, <2>1, <2>2 DEF TokenInv, OneOnItsWay
<1>5. CASE RequestCredentials(closeCount) /\ streamState' = "Starting"
  <2> DEFINE new == [counter |-> tokenCounter, closes |-> closeCount, user |-> None]
  <2>1. requests' = requests \cup {new} /\ new.closes = closeCount
      BY <1>5 DEF RequestCredentials
  <2> HIDE DEF new
  <2>2. ValidRequests' = {new}
      BY <1>1, <1>2, <2>1 DEF ValidRequests
  <2>3. NoneIsNewer'
    <3>1. closeCount <= closeCount
        BY TokensAreCounted
    <3> QED
        BY <1>1, <2>1, <3>1 DEF TokenInv, NoneIsNewer
  <2> QED
      BY <1>3, <1>5, <2>2, <2>3 DEF TokenInv, OneOnItsWay
<1> QED
    BY <1>4, <1>5 DEF Start, BackoffElapsed

LEMMA StreamEndsToken ==
    ASSUME CredentialsTypeOK, TokenInv, StreamEnds \/ InhibitBackoff
    PROVE  TokenInv'
<1>1. CASE StreamEnds
  <2>1. /\ closeCount' = closeCount + 1
        /\ UNCHANGED <<requests, mainQueue, workerQueue>>
      BY <1>1 DEF StreamEnds, Close, authVars
  <2>2. NoneIsNewer
      BY DEF TokenInv
  <2>3. \A i \in 1..Len(workerQueue') : workerQueue'[i].kind = "token" =>
            workerQueue'[i].closes \in Nat /\ workerQueue'[i].closes <= closeCount
      BY <2>1, <2>2, TokensAreCounted DEF NoneIsNewer
  <2> QED
      BY <2>1, <2>2, <2>3, TokensAreCounted, ClosedTokens
<1>2. CASE InhibitBackoff
  <2>1. /\ UNCHANGED <<requests, mainQueue, workerQueue, closeCount>>
        /\ streamState # "Starting"
      BY <1>2 DEF InhibitBackoff, authVars
  <2> QED
      BY <2>1 DEF TokenInv, NoneIsNewer, OneOnItsWay, ValidRequests, ValidBlocks,
                  ValidTasks
<1> QED
    BY <1>1, <1>2

\* The engine takes a task: a token of another close count, or no token, leaves
\* the rest as it was; a valid one was the only one; a close ends them all.
LEMMA WorkerQueueToken ==
    ASSUME CredentialsTypeOK, TokenInv, WorkerQueue
    PROVE  TokenInv'
<1>1. /\ workerQueue # <<>> /\ workerQueue' = Tail(workerQueue)
      /\ UNCHANGED <<requests, mainQueue>>
    BY DEF WorkerQueue, HandleCredentialChange, ResumeStartWithCredentials,
           WriteMutations, TaskIs, authVars
<1>2. \/ /\ closeCount' = closeCount /\ streamState' = streamState
         /\ ~(Head(workerQueue).kind = "token" /\ Head(workerQueue).closes = closeCount)
      \/ /\ closeCount' = closeCount
         /\ Head(workerQueue).kind = "token" /\ Head(workerQueue).closes = closeCount
      \/ closeCount' = closeCount + 1
  <2>1. CASE HandleCredentialChange
      BY <2>1 DEF HandleCredentialChange, TaskIs, Close, streamVars
  <2>2. CASE ResumeStartWithCredentials
      BY <2>2 DEF ResumeStartWithCredentials, TaskIs, Close, streamVars
  <2>3. CASE WriteMutations
      BY <2>3 DEF WriteMutations, TaskIs, streamVars
  <2> QED
      BY <2>1, <2>2, <2>3 DEF WorkerQueue
<1>3. /\ closeCount' = closeCount =>
            \A i \in ValidTasks' : i + 1 \in ValidTasks /\ i \in Nat /\ i # 0
      /\ \A i \in 1..Len(workerQueue') : workerQueue'[i].kind = "token" =>
            workerQueue'[i].closes <= closeCount
      /\ Head(workerQueue) = workerQueue[1] /\ 1 \in 1..Len(workerQueue)
      /\ workerQueue' \in Seq(Task)
    BY <1>1, <1>2, TaskLeaves DEF TokenInv
<1>4. CASE closeCount' = closeCount + 1
  <2>1. NoneIsNewer
      BY DEF TokenInv
  <2>2. \A i \in 1..Len(workerQueue') : workerQueue'[i] \in Task
      BY <1>3
  <2>3. \A i \in 1..Len(workerQueue') : workerQueue'[i].kind = "token" =>
            workerQueue'[i].closes \in Nat /\ workerQueue'[i].closes <= closeCount
      BY <1>3, <2>2, EntryFields
  <2> QED
      BY <1>1, <1>4, <2>1, <2>3, TokensAreCounted, ClosedTokens
<1>5. CASE closeCount' = closeCount
  <2>1. ValidRequests' = ValidRequests /\ ValidBlocks' = ValidBlocks
      BY <1>1, <1>5 DEF ValidRequests, ValidBlocks
  <2>2. NoneIsNewer'
      BY <1>1, <1>3, <1>5 DEF TokenInv, NoneIsNewer
  <2>3. /\ \A i, j \in ValidTasks' : i = j
        /\ ValidTasks = {} => ValidTasks' = {}
    <3>1. \A i, j \in ValidTasks' : i + 1 = j + 1
        BY <1>3, <1>5 DEF TokenInv, OneOnItsWay
    <3> QED
        BY <1>3, <1>5, <3>1
  <2>4. CASE 1 \in ValidTasks
    <3>1. ValidRequests = {} /\ ValidBlocks = {}
        BY <2>4 DEF TokenInv, OneOnItsWay
    <3>2. \A i \in ValidTasks' : i + 1 = 1 /\ i \in Nat /\ i # 0
        BY <1>3, <1>5, <2>4 DEF TokenInv, OneOnItsWay
    <3>3. ValidTasks' = {}
        BY <3>2
    <3> QED
        BY <2>1, <2>2, <3>1, <3>3 DEF TokenInv, OneOnItsWay
  <2>5. CASE 1 \notin ValidTasks
    <3>1. ~(Head(workerQueue).kind = "token" /\ Head(workerQueue).closes = closeCount)
        BY <1>3, <2>5 DEF ValidTasks
    <3>2. UNCHANGED streamState
        BY <1>2, <1>5, <3>1, TokensAreCounted
    <3> QED
        BY <2>1, <2>2, <2>3, <3>2 DEF TokenInv, OneOnItsWay
  <2> QED
      BY <2>4, <2>5
<1> QED
    BY <1>2, <1>4, <1>5

LEMMA TokenStep ==
    ASSUME CredentialsTypeOK, TokenInv, [Next]_vars
    PROVE  TokenInv'
<1>1. ASSUME NEW user \in Users, AuthStateChanges(user) PROVE TokenInv'
    BY <1>1, AuthStateChangesToken
<1>2. CASE Auth
    BY <1>2, AuthTakesRequestToken, AuthAnswersToken DEF Auth
<1>3. CASE MainQueue
    BY <1>3, OnAuthStateDidChangeToken, OnTokenToken DEF MainQueue
<1>4. ASSUME NEW call \in Calls, AppWrites(call) PROVE TokenInv'
    BY <1>4, AppWritesToken
<1>5. CASE WorkerQueue
    BY <1>5, WorkerQueueToken
<1>6. CASE Start \/ BackoffElapsed
    BY <1>6, StartToken
<1>7. CASE StreamEnds \/ InhibitBackoff
    BY <1>7, StreamEndsToken
<1>8. CASE UNCHANGED vars
  <2>1. UNCHANGED <<requests, mainQueue, workerQueue, closeCount, streamState>>
      BY <1>8 DEF vars, authVars, streamVars
  <2> QED
      BY <2>1 DEF TokenInv, NoneIsNewer, OneOnItsWay, ValidRequests, ValidBlocks,
                  ValidTasks
<1> QED
    BY <1>1, <1>2, <1>3, <1>4, <1>5, <1>6, <1>7, <1>8 DEF Next

(***************************************************************************)
(* "State should still be 'Starting'" (stream.cc): a token that passes the *)
(* check of the close count finds the stream waiting for it. At most one   *)
(* token of the current count is on its way, and only while it does.       *)
(***************************************************************************)
THEOREM TokensFindTheirStream == Spec => []TokenFindsStreamStarting
<1>1. Init => TokenInv
  <2>1. ASSUME Init PROVE TokenInv
    <3>1. /\ requests = {} /\ Len(mainQueue) = 0 /\ Len(workerQueue) = 0
        BY <2>1 DEF Init
    <3>2. ValidRequests = {} /\ ValidBlocks = {} /\ ValidTasks = {}
        BY <3>1 DEF ValidRequests, ValidBlocks, ValidTasks
    <3> QED
        BY <3>1, <3>2 DEF TokenInv, NoneIsNewer, OneOnItsWay
  <2> QED
      BY <2>1
<1>2. CredentialsTypeOK /\ TokenInv /\ [Next]_vars => TokenInv'
    BY TokenStep
<1>3. CredentialsTypeOK /\ TokenInv => TokenFindsStreamStarting
  <2>1. ASSUME CredentialsTypeOK, TokenInv, TaskIs("token"),
               Head(workerQueue).closes = closeCount
        PROVE  streamState = "Starting"
    <3>1. workerQueue \in Seq(Task) /\ workerQueue # <<>>
        BY <2>1 DEF CredentialsTypeOK, TaskIs
    <3>2. Head(workerQueue) = workerQueue[1] /\ 1 \in 1..Len(workerQueue)
        BY <3>1
    <3>3. 1 \in ValidTasks
        BY <2>1, <3>2 DEF ValidTasks, TaskIs
    <3> QED
        BY <2>1, <3>3 DEF TokenInv, OneOnItsWay
  <2> QED
      BY <2>1 DEF TokenFindsStreamStarting
<1> QED
    BY <1>1, <1>2, <1>3, CredentialsAreTyped, PTL DEF Spec

-----------------------------------------------------------------------------
(* A stream that starts has a token on its way *)

\* Adding to a queue loses nothing, running its head only the head.
LEMMA JoinKeeps ==
    ASSUME NEW T, NEW q \in Seq(T), NEW x \in T, NEW r, r = Append(q, x)
    PROVE  /\ \A i \in 1..Len(q) : i \in 1..Len(r) /\ r[i] = q[i]
           /\ Len(r) \in 1..Len(r) /\ r[Len(r)] = x
  OBVIOUS

LEMMA TailKeeps ==
    ASSUME NEW T, NEW q \in Seq(T), q # <<>>
    PROVE  /\ 1 \in 1..Len(q) /\ Head(q) = q[1]
           /\ \A i \in 1..Len(q) : i # 1 =>
                 i - 1 \in 1..Len(Tail(q)) /\ Tail(q)[i - 1] = q[i]
  OBVIOUS

\* FIRAuth and the main queue hand a token on, they do not lose it.
LEMMA TokenHandedOn ==
    ASSUME CredentialsTypeOK, StartingHasToken,
           \/ \E user \in Users : AuthStateChanges(user)
           \/ Auth \/ MainQueue
           \/ \E call \in Calls : AppWrites(call)
    PROVE  StartingHasToken'
<1> DEFINE Kept == /\ ValidRequests # {} => ValidRequests' # {}
                   /\ ValidBlocks # {} => ValidBlocks' # {}
                   /\ ValidTasks # {} => ValidTasks' # {}
           Coming == ValidRequests # {} \/ ValidBlocks # {} \/ ValidTasks # {}
           Comes == (ValidRequests # {} \/ ValidBlocks # {} \/ ValidTasks # {})'
<1> USE DEF ValidRequests, ValidBlocks, ValidTasks
<1>1. mainQueue \in Seq(Block) /\ workerQueue \in Seq(Task) /\ requests \subseteq Request
    BY DEF CredentialsTypeOK
<1>2. UNCHANGED <<streamState, closeCount>>
    BY DEF AuthStateChanges, Auth, AuthTakesRequest, AuthAnswers, MainQueue,
       OnAuthStateDidChange, OnToken, AppWrites, streamVars
<1>3. ASSUME NEW user \in Users, AuthStateChanges(user) PROVE Coming => Comes
  <2>1. /\ mainQueue' = Append(mainQueue, NotifyBlock(user))
        /\ NotifyBlock(user) \in Block
        /\ UNCHANGED <<requests, workerQueue>>
      BY <1>3, EntriesAreTyped DEF AuthStateChanges
  <2>2. \A i \in 1..Len(mainQueue) :
            i \in 1..Len(mainQueue') /\ mainQueue'[i] = mainQueue[i]
      BY <1>1, <2>1, JoinKeeps
  <2> QED
      BY <1>2, <2>1, <2>2
<1>4. ASSUME NEW request \in requests, AuthTakesRequest(request)
      PROVE  Coming => Comes
  <2> DEFINE taken == [request EXCEPT !.user = authUser]
  <2>1. /\ taken \in requests' /\ taken.closes = request.closes
        /\ \A r \in requests : r # request => r \in requests'
        /\ UNCHANGED <<mainQueue, workerQueue>>
      BY <1>1, <1>4 DEF AuthTakesRequest, Request
  <2> HIDE DEF taken
  <2> QED
      BY <1>2, <2>1
<1>5. ASSUME NEW request \in requests, NEW ok \in BOOLEAN, AuthAnswers(request, ok)
      PROVE  Coming => Comes
  <2>1. /\ mainQueue' = Append(mainQueue, TokenBlock(request, ok))
        /\ requests' = requests \ {request}
        /\ UNCHANGED workerQueue
      BY <1>5 DEF AuthAnswers
  <2>2. TokenBlock(request, ok) \in Block
      BY <1>1, <1>5 DEF AuthAnswers, Request, Answered, TokenBlock, Block
  <2>3. /\ TokenBlock(request, ok).kind = "token"
        /\ TokenBlock(request, ok).request = request
      BY DEF TokenBlock
  <2>4. /\ \A i \in 1..Len(mainQueue) :
              i \in 1..Len(mainQueue') /\ mainQueue'[i] = mainQueue[i]
        /\ Len(mainQueue') \in 1..Len(mainQueue')
        /\ mainQueue'[Len(mainQueue')] = TokenBlock(request, ok)
      BY <1>1, <2>1, <2>2, JoinKeeps
  <2> QED
      BY <1>2, <2>1, <2>3, <2>4
<1>6. ASSUME OnAuthStateDidChange PROVE Coming => Comes
  <2>1. /\ mainQueue # <<>> /\ Head(mainQueue).kind = "notify"
        /\ mainQueue' = Tail(mainQueue)
        /\ workerQueue' = Append(workerQueue, UserTask(Head(mainQueue).user))
        /\ UNCHANGED requests
      BY <1>6 DEF OnAuthStateDidChange, authVars
  <2>2. UserTask(Head(mainQueue).user) \in Task
    <3>1. Head(mainQueue) \in Block
        BY <1>1, <2>1
    <3> QED
        BY <2>1, <3>1 DEF Block, UserTask, Task
  <2>3. \A i \in 1..Len(workerQueue) :
            i \in 1..Len(workerQueue') /\ workerQueue'[i] = workerQueue[i]
      BY <1>1, <2>1, <2>2, JoinKeeps
  <2>4. \A i \in 1..Len(mainQueue) : mainQueue[i].kind = "token" =>
            i - 1 \in 1..Len(mainQueue') /\ mainQueue'[i - 1] = mainQueue[i]
      BY <1>1, <2>1, TailKeeps
  <2>5. ASSUME ValidRequests # {} PROVE Comes
      BY <1>2, <2>1, <2>5
  <2>6. ASSUME ValidTasks # {} PROVE Comes
    <3> PICK i \in ValidTasks : TRUE
        BY <2>6
    <3>1. i \in ValidTasks'
        BY <1>2, <2>3
    <3> QED
        BY <3>1
  <2>7. ASSUME ValidBlocks # {} PROVE Comes
    <3> PICK i \in ValidBlocks : TRUE
        BY <2>7
    <3>1. i - 1 \in ValidBlocks'
        BY <1>2, <2>4
    <3> QED
        BY <3>1
  <2> QED
      BY <2>5, <2>6, <2>7
<1>7. ASSUME OnToken PROVE Coming => Comes
  <2> DEFINE block == Head(mainQueue)
             ok == block.ok /\ block.request.counter = tokenCounter
             task == TokenTask(block.request.closes, block.request.user, ok)
  <2>1. /\ mainQueue # <<>> /\ block.kind = "token"
        /\ mainQueue' = Tail(mainQueue)
        /\ workerQueue' = Append(workerQueue, task)
        /\ UNCHANGED requests
      BY <1>7 DEF OnToken, authVars
  <2>2. task \in Task /\ task.kind = "token" /\ task.closes = block.request.closes
    <3>1. block \in Block
        BY <1>1, <2>1
    <3> QED
        BY <2>1, <3>1 DEF Block, Answered, TokenTask, Task
  <2> HIDE DEF task
  <2>3. /\ \A i \in 1..Len(workerQueue) :
              i \in 1..Len(workerQueue') /\ workerQueue'[i] = workerQueue[i]
        /\ Len(workerQueue') \in 1..Len(workerQueue')
        /\ workerQueue'[Len(workerQueue')] = task
      BY <1>1, <2>1, <2>2, JoinKeeps
  <2>4. /\ block = mainQueue[1]
        /\ \A i \in 1..Len(mainQueue) : i # 1 =>
              i - 1 \in 1..Len(mainQueue') /\ mainQueue'[i - 1] = mainQueue[i]
      BY <1>1, <2>1, TailKeeps
  <2> HIDE DEF block
  <2>5. ASSUME ValidRequests # {} PROVE Comes
      BY <1>2, <2>1, <2>5
  <2>6. ASSUME ValidTasks # {} PROVE Comes
    <3> PICK i \in ValidTasks : TRUE
        BY <2>6
    <3>1. i \in ValidTasks'
        BY <1>2, <2>3
    <3> QED
        BY <3>1
  <2>7. ASSUME ValidBlocks # {} PROVE Comes
    <3> PICK i \in ValidBlocks : TRUE
        BY <2>7
    <3>1. CASE i = 1
      <4>1. task.closes = closeCount'
          BY <1>2, <2>2, <2>4, <3>1
      <4>2. Len(workerQueue') \in ValidTasks'
          BY <2>2, <2>3, <4>1
      <4> QED
          BY <4>2
    <3>2. CASE i # 1
      <4>1. i - 1 \in ValidBlocks'
          BY <1>2, <2>4, <3>2
      <4> QED
          BY <4>1
    <3> QED
        BY <3>1, <3>2
  <2> QED
      BY <2>5, <2>6, <2>7
<1>8. ASSUME NEW call \in Calls, AppWrites(call) PROVE Coming => Comes
  <2>1. /\ workerQueue' = Append(workerQueue, WriteTask(call))
        /\ WriteTask(call) \in Task
        /\ UNCHANGED <<requests, mainQueue>>
      BY <1>8, EntriesAreTyped DEF AppWrites, authVars
  <2>2. \A i \in 1..Len(workerQueue) :
            i \in 1..Len(workerQueue') /\ workerQueue'[i] = workerQueue[i]
      BY <1>1, <2>1, JoinKeeps
  <2> QED
      BY <1>2, <2>1, <2>2
<1>9. Coming => Comes
    BY <1>3, <1>4, <1>5, <1>6, <1>7, <1>8 DEF Auth, MainQueue
<1>10. /\ StartingHasToken <=> (streamState = "Starting" => Coming)
       /\ StartingHasToken' <=> (streamState' = "Starting" => Comes)
    BY DEF StartingHasToken
<1> QED
    BY <1>2, <1>9, <1>10

\* The worker queue asks for the token in the task that makes the stream start,
\* and drops none that is for this start.
LEMMA StreamAsksForToken ==
    ASSUME CredentialsTypeOK, StartingHasToken,
           WorkerQueue \/ Start \/ BackoffElapsed \/ StreamEnds \/ InhibitBackoff
    PROVE  StartingHasToken'
<1>1. CASE Start \/ BackoffElapsed
  <2>1. CASE streamState' = "Starting"
    <3>1. RequestCredentials(closeCount) /\ closeCount' = closeCount
        BY <1>1, <2>1 DEF Start, BackoffElapsed
    <3> DEFINE asked == [counter |-> tokenCounter, closes |-> closeCount,
                         user |-> None]
    <3>2. asked.closes = closeCount' /\ asked \in requests'
        BY <3>1 DEF RequestCredentials
    <3> HIDE DEF asked
    <3> QED
        BY <3>2 DEF StartingHasToken
  <2> QED
      BY <2>1 DEF StartingHasToken
<1>2. CASE StreamEnds \/ InhibitBackoff \/ HandleCredentialChange
  <2>1. streamState' # "Starting"
      BY <1>2 DEF StreamEnds, InhibitBackoff, HandleCredentialChange, Close,
         IsStarted, streamVars
  <2> QED
      BY <2>1 DEF StartingHasToken
<1>3. CASE ResumeStartWithCredentials \/ WriteMutations
  <2>1. /\ workerQueue \in Seq(Task) /\ workerQueue # <<>>
        /\ workerQueue' = Tail(workerQueue)
        /\ UNCHANGED <<requests, mainQueue>>
      BY <1>3 DEF CredentialsTypeOK, ResumeStartWithCredentials, WriteMutations,
         TaskIs, authVars
  <2>2. /\ Head(workerQueue) = workerQueue[1]
        /\ \A i \in 1..Len(workerQueue) : i # 1 =>
              /\ i - 1 \in 1..Len(workerQueue')
              /\ workerQueue'[i - 1] = workerQueue[i]
      BY <2>1, TailKeeps
  <2>3. CASE streamState' = "Starting"
    <3>1. UNCHANGED <<streamState, closeCount>>
        BY <1>3, <2>3
        DEF ResumeStartWithCredentials, WriteMutations, Close, streamVars
    <3>2. ~(Head(workerQueue).kind = "token" /\ Head(workerQueue).closes = closeCount)
        BY <1>3, <2>3 DEF ResumeStartWithCredentials, WriteMutations, TaskIs, Close
    <3> QED
        BY <2>1, <2>2, <2>3, <3>1, <3>2 DEF StartingHasToken
  <2> QED
      BY <2>3 DEF StartingHasToken
<1> QED
    BY <1>1, <1>2, <1>3 DEF WorkerQueue

(***************************************************************************)
(* A stream in state Starting always has a token on its way that it will   *)
(* take. With TokensFindTheirStream: exactly one, and with fair queues     *)
(* this is why a start never waits for ever.                               *)
(***************************************************************************)
THEOREM StartsAreAnswered == Spec => []StartingHasToken
<1>1. Init => StartingHasToken
    BY DEF Init, StartingHasToken
<1>2. CredentialsTypeOK /\ StartingHasToken /\ [Next]_vars => StartingHasToken'
  <2>1. ASSUME StartingHasToken, UNCHANGED vars PROVE StartingHasToken'
      BY <2>1 DEF StartingHasToken, vars, authVars, streamVars
  <2> QED
      BY <2>1, TokenHandedOn, StreamAsksForToken DEF Next
<1> QED
    BY <1>1, <1>2, CredentialsAreTyped, PTL DEF Spec

=============================================================================
