------------------------------ MODULE MyQueue ------------------------------
(***************************************************************************)
(* The blocking queue of workpool/myqueue: a queue with a mutex and a      *)
(* condition variable, and a pop with a timeout that waits on a channel    *)
(* for a goroutine that pops.                                              *)
(*                                                                         *)
(* The buffer is a sequence: RingQueue shows that the ring it is kept in   *)
(* is one.  A value is the number of its Push.  A method holds the mutex   *)
(* from its beginning to its end, so it is one step; popChan alone can     *)
(* block inside, on the channel, and then keeps the mutex.                 *)
(***************************************************************************)
EXTENDS Integers, Sequences, FiniteSets, SequencesExt

CONSTANTS
    Users,       \* the goroutines that call the methods
    Poppers,     \* the goroutines TryPopTimeout can start
    Nobody,      \* the mutex is free
    MaxPuts      \* bound: accepted pushes

ASSUME QueueAssumption ==
    IsFiniteSet(Users) /\ IsFiniteSet(Poppers) /\ MaxPuts \in Nat

VARIABLES
    buffer, count, qclosed,   \* the fields of MyQueue; count is also read unlocked
    mu,          \* who keeps the mutex
    waiting,     \* who sleeps on popable, the longest first
    cc,          \* the channel of TryPopTimeout, of capacity 1
    at,          \* where each goroutine is
    hand,        \* the value a goroutine has taken
    puts,        \* pushes accepted
    got          \* values returned to callers

queue  == <<buffer, count, qclosed>>
qvars  == <<queue, mu, waiting, cc, at, hand, puts, got>>

Nil == 0                             \* the nil value
Goroutines == Users \cup Poppers

QInit ==
    /\ buffer = <<>> /\ count = 0 /\ qclosed = FALSE
    /\ mu = Nobody /\ waiting = <<>> /\ cc = <<>>
    /\ at = [g \in Goroutines |-> "idle"]
    /\ hand = [g \in Goroutines |-> Nil]
    /\ puts = 0 /\ got = {}

-----------------------------------------------------------------------------
\* popable.Signal wakes the longest sleeper.
Signalled == IF waiting = <<>> THEN <<>> ELSE Tail(waiting)

\* Fault: only the push that ends an empty queue signals.
AddFirstSignals ==
    /\ buffer' = Append(buffer, puts + 1)
    /\ count' = count + 1
    /\ puts' = puts + 1
    /\ waiting' = IF count = 0 THEN Signalled ELSE waiting

\* Push on an open queue.
Add ==
    /\ buffer' = Append(buffer, puts + 1)
    /\ count' = count + 1
    /\ puts' = puts + 1
    /\ waiting' = Signalled

\* A closed queue ignores the value.
Push ==
    /\ mu = Nobody /\ puts < MaxPuts
    /\ IF qclosed THEN UNCHANGED <<buffer, count, puts, waiting>> ELSE Add
    /\ UNCHANGED <<qclosed, mu, cc, at, hand, got>>

\* Close empties the count, not the buffer, and wakes everybody.
Close ==
    /\ mu = Nobody
    /\ qclosed' = TRUE /\ count' = 0 /\ waiting' = <<>>
    /\ UNCHANGED <<buffer, mu, cc, at, hand, puts, got>>

\* Goroutine g is in a blocking pop and not asleep: it takes the mutex, and
\* sleeps, or ends its loop.
Awake(g)  == at[g] = "pop" /\ g \notin ToSet(waiting)
MustSleep == count = 0 /\ ~qclosed

Sleep(g) ==
    /\ mu = Nobody /\ Awake(g) /\ MustSleep
    /\ waiting' = Append(waiting, g)
    /\ UNCHANGED <<queue, mu, cc, at, hand, puts, got>>

\* Peek and Remove; nil from a closed queue, whose elements stay.
Oldest == IF qclosed THEN Nil ELSE Head(buffer)
RemoveOldest ==
    IF qclosed THEN UNCHANGED <<buffer, count>>
    ELSE buffer' = Tail(buffer) /\ count' = count - 1

\* Pop, past its loop.
Pop(g) ==
    /\ mu = Nobody /\ Awake(g) /\ ~MustSleep
    /\ RemoveOldest
    /\ hand' = [hand EXCEPT ![g] = Oldest]
    /\ at' = [at EXCEPT ![g] = "popped"]
    /\ UNCHANGED <<qclosed, mu, waiting, cc, puts, got>>

-----------------------------------------------------------------------------
(* TryPopTimeout and the goroutine it starts *)

\* Fault: popChan drops the value when the channel is full.
PopChanDrops(g) ==
    /\ mu = Nobody /\ Awake(g) /\ ~MustSleep
    /\ RemoveOldest
    /\ at' = [at EXCEPT ![g] = "done"]
    /\ cc' = IF cc = <<>> THEN <<Oldest>> ELSE cc
    /\ UNCHANGED <<qclosed, mu, waiting, hand, puts, got>>

\* popChan, past its loop: it sends the value, or waits with the mutex held
\* for the channel to be empty.
PopChan(g) ==
    /\ mu = Nobody /\ Awake(g) /\ ~MustSleep
    /\ RemoveOldest
    /\ IF cc = <<>>
          THEN /\ cc' = <<Oldest>>
               /\ at' = [at EXCEPT ![g] = "done"]
               /\ UNCHANGED <<mu, hand>>
          ELSE /\ mu' = g
               /\ hand' = [hand EXCEPT ![g] = Oldest]
               /\ at' = [at EXCEPT ![g] = "send"]
               /\ UNCHANGED cc
    /\ UNCHANGED <<qclosed, waiting, puts, got>>

PopChanSend(g) ==
    /\ at[g] = "send" /\ cc = <<>>
    /\ cc' = <<hand[g]>>
    /\ hand' = [hand EXCEPT ![g] = Nil]
    /\ mu' = Nobody
    /\ at' = [at EXCEPT ![g] = "done"]
    /\ UNCHANGED <<queue, waiting, puts, got>>

TryPopTimeout(u) ==
    /\ at[u] = "idle"
    /\ \E g \in Poppers :
          /\ at[g] = "idle"
          /\ at' = [at EXCEPT ![u] = "select", ![g] = "pop"]
    /\ UNCHANGED <<queue, mu, waiting, cc, hand, puts, got>>

\* The select: a value, from whichever goroutine sent it, or the timeout,
\* which signals and leaves the goroutine behind.
Return(v) == got' = got \cup ({v} \ {Nil})

Receive(u) ==
    /\ at[u] = "select" /\ cc # <<>>
    /\ Return(Head(cc))
    /\ cc' = <<>>
    /\ at' = [at EXCEPT ![u] = "idle"]
    /\ UNCHANGED <<queue, mu, waiting, hand, puts>>

Timeout(u) ==
    /\ at[u] = "select"
    /\ waiting' = IF qclosed THEN waiting ELSE Signalled
    /\ at' = [at EXCEPT ![u] = "idle"]
    /\ UNCHANGED <<queue, mu, cc, hand, puts, got>>

-----------------------------------------------------------------------------
(* The methods called by Users *)

CallPop(u) ==
    /\ at[u] = "idle"
    /\ at' = [at EXCEPT ![u] = "pop"]
    /\ UNCHANGED <<queue, mu, waiting, cc, hand, puts, got>>

PopReturns(u) ==
    /\ at[u] = "popped"
    /\ Return(hand[u])
    /\ hand' = [hand EXCEPT ![u] = Nil]
    /\ at' = [at EXCEPT ![u] = "idle"]
    /\ UNCHANGED <<queue, mu, waiting, cc, puts>>

TryPop(u) ==
    /\ at[u] = "idle" /\ mu = Nobody
    /\ IF count > 0 THEN Return(Oldest) /\ RemoveOldest
                    ELSE UNCHANGED <<got, buffer, count>>
    /\ UNCHANGED <<qclosed, mu, waiting, cc, at, hand, puts>>

QNext ==
    \/ \E u \in Users :
          \/ CallPop(u) \/ Sleep(u) \/ Pop(u) \/ PopReturns(u)
          \/ TryPop(u)
          \/ TryPopTimeout(u) \/ Receive(u) \/ Timeout(u)
          \/ at[u] = "idle" /\ (Push \/ Close)
    \/ \E g \in Poppers : Sleep(g) \/ PopChan(g) \/ PopChanSend(g)

-----------------------------------------------------------------------------
(* Properties *)

InHand == {hand[g] : g \in Goroutines} \ {Nil}
InChan == ToSet(cc) \ {Nil}

\* Every accepted value is in exactly one place: the buffer, the channel, the
\* hand of a goroutine, or with a caller that got it.  A pop that timed out
\* leaves its value to the next one (myqueue.go:104-117).  Only the mutex keeps
\* count and buffer together, which Wait and IsDone read without it.
NothingLost ==
    /\ ToSet(buffer) \cup InChan \cup InHand \cup got = 1..puts
    /\ Len(buffer) + Cardinality(InChan) + Cardinality(InHand) + Cardinality(got) = puts
    /\ count = IF qclosed THEN 0 ELSE Len(buffer)

\* No wake-up is lost: while somebody sleeps on popable there are at least as
\* many goroutines on their way to the mutex as values to take, although
\* other pops take values and timeouts signal without one (myqueue.go:114,128).
NoLostWakeup ==
    waiting # <<>> =>
        /\ ~qclosed
        /\ Len(buffer) <= Cardinality({g \in Goroutines : Awake(g)})
=============================================================================
