----------------------------- MODULE FifoQueue -----------------------------
(***************************************************************************)
(* What a first-in first-out queue promises: elements come out in the      *)
(* order they went in, each once, until the queue is emptied.  This is the *)
(* abstract specification the ring buffer (workpool/queue) and the disk    *)
(* queue (diskqueue) are shown to implement.                               *)
(***************************************************************************)
EXTENDS Sequences

CONSTANTS Elem, Nil

VARIABLES
    items,   \* the elements in the queue, oldest first
    ret      \* the element the last Take handed out; Nil before the first

Init == items = <<>> /\ ret = Nil

Put(e) == items' = Append(items, e) /\ UNCHANGED ret

Take ==
    /\ items # <<>>
    /\ ret' = Head(items)
    /\ items' = Tail(items)

Clear == items' = <<>> /\ UNCHANGED ret

Next == (\E e \in Elem : Put(e)) \/ Take \/ Clear

Spec == Init /\ [][Next]_<<items, ret>>
=============================================================================
