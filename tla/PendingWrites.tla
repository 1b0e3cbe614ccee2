--------------------------- MODULE PendingWrites ---------------------------
(***************************************************************************)
(* What Firestore promises to a caller of setData and updateData, without  *)
(* the streams and retries that do it. Each user has a queue of writes,    *)
(* kept on disk. Only the queue of the current user is worked on. The      *)
(* backend may apply a pending write any number of times, but its fate is  *)
(* decided once, in the order of the calls, and only a write that was      *)
(* applied is ever acknowledged. The caller is told the outcome at most    *)
(* once, and is not told at all only when the process died in between.     *)
(*                                                                         *)
(* The word and the decision are one step unless the process dies between  *)
(* them: a caller is told of a success before it is on disk, and then the  *)
(* write, though applied, is still pending and may even be rejected; a     *)
(* rejection is on disk before the caller is told, who then never hears.   *)
(***************************************************************************)
EXTENDS Naturals, Sequences

CONSTANTS Users, Writes

VARIABLES
    currentUser,    \* whose queue is worked on
    pending,        \* the undecided writes of each user, oldest first
    applied,        \* writes the backend has applied at least once
    listening,      \* undecided writes whose caller still waits
    outcome,        \* "none", "ok" or "rejected", for each write
    told            \* what the caller of each write has been told, if anything

vars == <<currentUser, pending, applied, listening, outcome, told>>

Init ==
    /\ currentUser \in Users
    /\ pending = [u \in Users |-> <<>>]
    /\ applied = {}
    /\ listening = {}
    /\ outcome = [w \in Writes |-> "none"]
    /\ told = [w \in Writes |-> "none"]

IsPending(w) == \E u \in Users : \E i \in 1..Len(pending[u]) : pending[u][i] = w

Issue(w) ==
    /\ ~IsPending(w)
    /\ outcome[w] = "none"
    /\ pending' = [pending EXCEPT ![currentUser] = Append(@, w)]
    /\ listening' = listening \cup {w}
    /\ UNCHANGED <<currentUser, applied, outcome, told>>

Apply ==
    /\ \E i \in 1..Len(pending[currentUser]) :
          applied' = applied \cup {pending[currentUser][i]}
    /\ UNCHANGED <<currentUser, pending, listening, outcome, told>>

\* The oldest pending write of the current user is decided.
Decide(status) ==
    /\ pending[currentUser] # <<>>
    /\ LET w == Head(pending[currentUser])
       IN  /\ status = "ok" => w \in applied
           /\ outcome' = [outcome EXCEPT ![w] = status]
           /\ told' = IF w \in listening
                      THEN [told EXCEPT ![w] = status] ELSE told
           /\ listening' = listening \ {w}
    /\ pending' = [pending EXCEPT ![currentUser] = Tail(@)]
    /\ UNCHANGED <<currentUser, applied>>

ChangeUser ==
    /\ currentUser' \in Users
    /\ UNCHANGED <<pending, applied, listening, outcome, told>>

Restart ==
    /\ currentUser' \in Users
    /\ listening' = {}
    /\ UNCHANGED <<pending, applied, outcome, told>>

\* The process dies when the caller of the oldest pending write has been told
\* of its success, which is not on disk yet.
DieBeforeSuccess ==
    /\ pending[currentUser] # <<>>
    /\ LET w == Head(pending[currentUser])
       IN  /\ w \in applied
           /\ told' = IF w \in listening THEN [told EXCEPT ![w] = "ok"] ELSE told
    /\ listening' = {}
    /\ currentUser' \in Users
    /\ UNCHANGED <<pending, applied, outcome>>

\* The process dies when the rejection of the oldest pending write is on disk,
\* and its caller has not been told.
DieAfterRejection ==
    /\ pending[currentUser] # <<>>
    /\ outcome' = [outcome EXCEPT ![Head(pending[currentUser])] = "rejected"]
    /\ pending' = [pending EXCEPT ![currentUser] = Tail(@)]
    /\ listening' = {}
    /\ currentUser' \in Users
    /\ UNCHANGED <<applied, told>>

Next ==
    \/ \E w \in Writes : Issue(w)
    \/ Apply
    \/ Decide("ok")
    \/ Decide("rejected")
    \/ ChangeUser
    \/ Restart
    \/ DieBeforeSuccess
    \/ DieAfterRejection

Spec == Init /\ [][Next]_vars

=============================================================================
