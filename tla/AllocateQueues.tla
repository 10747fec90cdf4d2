--------------------------- MODULE AllocateQueues ---------------------------
(***************************************************************************)
(* allocateMQ: the queues of a topic are dealt out to the consumers that   *)
(* the command names, n queues to c consumers, both counted from 0. The    *)
(* share of a consumer is the set of the positions of its queues.          *)
(***************************************************************************)
EXTENDS Integers

\* What allocateMessageQueueAveragely computes for the consumer at an index.
averageSize(n, c, index) ==
    IF n <= c THEN 1
    ELSE IF index < n % c THEN n \div c + 1 ELSE n \div c

startIndex(n, c, index) ==
    index * averageSize(n, c, index)
        + (IF n % c > 0 /\ index >= n % c THEN n % c ELSE 0)

count(n, c, index) ==
    IF n - startIndex(n, c, index) < averageSize(n, c, index)
    THEN n - startIndex(n, c, index) ELSE averageSize(n, c, index)

allocateMessageQueueAveragely(n, c, index) ==
    startIndex(n, c, index) .. startIndex(n, c, index) + count(n, c, index) - 1

\* The capacity of the result is negative: make panics.
Panics(n, c, index) == n > 0 /\ count(n, c, index) < 0
=============================================================================
