---------------------------- MODULE Publication ----------------------------
(***************************************************************************)
(* What posting a photo promises to the readers of the feed, without the   *)
(* chain of calls that does it: a submitted draft appears at most once, as *)
(* text, with exactly the author and caption that were submitted; its      *)
(* picture may follow later, is the submitted one, and then never changes. *)
(* Any step may also never happen: a post can stay without its picture.    *)
(***************************************************************************)

CONSTANTS PostIds, Authors, Captions, Images, Nil

VARIABLES
    submitted,  \* the draft of each post, Nil before it is submitted
    board       \* what a reader of the feed gets for each post

Init ==
    /\ submitted = [p \in PostIds |-> Nil]
    /\ board = [p \in PostIds |-> Nil]

Drafts == [author: Authors, caption: Captions, image: Images]

Submit(p) ==
    /\ submitted[p] = Nil
    /\ \E d \in Drafts : submitted' = [submitted EXCEPT ![p] = d]
    /\ UNCHANGED board

Publish(p) ==
    /\ submitted[p] # Nil
    /\ board[p] = Nil
    /\ board' = [board EXCEPT ![p] =
           [author |-> submitted[p].author, caption |-> submitted[p].caption,
            photo |-> Nil]]
    /\ UNCHANGED submitted

AttachPhoto(p) ==
    /\ board[p] # Nil
    /\ board[p].photo = Nil
    /\ board' = [board EXCEPT ![p].photo = submitted[p].image]
    /\ UNCHANGED submitted

Next == \E p \in PostIds : Submit(p) \/ Publish(p) \/ AttachPhoto(p)

Spec == Init /\ [][Next]_<<submitted, board>>

=============================================================================
