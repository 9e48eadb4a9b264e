----------------------------- MODULE MCWorkPool -----------------------------
(* Small instances of WorkPool: the queue on its own, and pools of one and    *)
(* two workers, with and without timeouts.                                    *)
EXTENDS WorkPool

CONSTANTS w1, w2

QueueAlone == [pool |-> FALSE, workers |-> {}, timeout |-> FALSE, tasks |-> 3]
Pool(ws, timed, n) == [pool |-> TRUE, workers |-> ws, timeout |-> timed, tasks |-> n]

\* Four tasks fill the channel of a single worker.
AllSetups == {QueueAlone, Pool({w1}, FALSE, 4), Pool({w1}, TRUE, 3),
              Pool({w1, w2}, FALSE, 3), Pool({w1, w2}, TRUE, 2)}
=============================================================================
