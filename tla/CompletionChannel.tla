-------------------------- MODULE CompletionChannel --------------------------
(***************************************************************************)
(* What the completion channel promises to the event loop, with no         *)
(* counter and no eventfd, and what RequestIO takes it for: a sequence     *)
(* that makes itself heard whenever it is not empty, from which the loop   *)
(* takes all there is at once and works it off one by one.                 *)
(***************************************************************************)
EXTENDS Naturals, Sequences

CONSTANT Items            \* completions; each is posted at most once

VARIABLES posted,         \* every completion so far, in order
          waiting,        \* those the loop has not taken
          taken,          \* those the loop is working off
          handled         \* those it is done with, in order

vars == <<posted, waiting, taken, handled>>

Members(s) == {s[i] : i \in DOMAIN s}

Init == posted = <<>> /\ waiting = <<>> /\ taken = <<>> /\ handled = <<>>

Post(item) ==
    /\ item \notin Members(posted)
    /\ posted' = Append(posted, item)
    /\ waiting' = Append(waiting, item)
    /\ UNCHANGED <<taken, handled>>

\* The loop hears of the channel only if there is something in it.
Take ==
    /\ taken = <<>> /\ waiting # <<>>
    /\ taken' = waiting
    /\ waiting' = <<>>
    /\ UNCHANGED <<posted, handled>>

Handle ==
    /\ taken # <<>>
    /\ handled' = Append(handled, Head(taken))
    /\ taken' = Tail(taken)
    /\ UNCHANGED <<posted, waiting>>

Next == \/ \E item \in Items : Post(item)
        \/ Take
        \/ Handle

\* Whatever is posted is taken, and whatever is taken is handled.
Spec == Init /\ [][Next]_vars /\ WF_vars(Take) /\ WF_vars(Handle)
=============================================================================
