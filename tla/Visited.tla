------------------------------ MODULE Visited ------------------------------
(***************************************************************************)
(* The per-thread visited marks of vecdb.c (visited_acquire and its use in *)
(* search_layer and csearch): one buffer per thread shared by all searches *)
(* of all databases, never cleared between them.  A node counts as visited *)
(* when its mark equals the current epoch; a 32-bit epoch wraps around.    *)
(***************************************************************************)
EXTENDS Integers

CONSTANTS
    W,         \* number of values of the epoch counter (2^32)
    MaxCap     \* bound on the capacity of any database searched

ASSUME VisitedAssumption == W \in Nat /\ W >= 2 /\ MaxCap \in Nat

VARIABLES
    cap,       \* tls_vis_cap
    vis,       \* tls_vis
    epoch,     \* tls_epoch
    req,       \* capacity of the database being searched, 0 when none is
    seen       \* nodes this search has visited (what the marks stand for)

marks == <<cap, vis, epoch, req, seen>>

Zeros(c) == [p \in 0 .. c - 1 |-> 0]

\* A database larger than every one before gets a new buffer and epoch 0.
Buffer(c) == IF cap < c THEN Zeros(c) ELSE vis
Capacity(c) == IF cap < c THEN c ELSE cap

\* ++tls_epoch, in W values, from the epoch the buffer starts with.
NextEpoch(c) == ((IF cap < c THEN 0 ELSE epoch) + 1) % W

ClearedNever(c) == Buffer(c)   \* mutant: the wrap clears nothing

\* After a wrap the whole buffer is cleared and the epoch restarts at 1.
Cleared(c) == IF NextEpoch(c) = 0 THEN Zeros(Capacity(c)) ELSE Buffer(c)
Current(c) == IF NextEpoch(c) = 0 THEN 1 ELSE NextEpoch(c)

MarksInit == /\ cap = 0 /\ vis = Zeros(0) /\ epoch = 0
             /\ req = 0 /\ seen = {}

\* visited_acquire for a database of capacity c.
Acquire(c) == /\ req = 0
              /\ req' = c
              /\ cap' = Capacity(c)
              /\ vis' = Cleared(c)
              /\ epoch' = Current(c)
              /\ seen' = {}

\* The search meets a node that is not marked and marks it.
Visit(p) == /\ p \in 0 .. req - 1
            /\ vis[p] # epoch
            /\ vis' = [vis EXCEPT ![p] = epoch]
            /\ seen' = seen \cup {p}
            /\ UNCHANGED <<cap, epoch, req>>

\* The layer search ends; nothing is cleared.
Finish == /\ req > 0
          /\ req' = 0
          /\ seen' = {}
          /\ UNCHANGED <<cap, vis, epoch>>

MarksNext == \/ \E c \in 1 .. MaxCap : Acquire(c)
             \/ \E p \in 0 .. MaxCap - 1 : Visit(p)
             \/ Finish

MarksSpec == MarksInit /\ [][MarksNext]_marks
-----------------------------------------------------------------------------
MarksTypeOK == /\ cap \in Nat /\ req \in 0 .. cap
               /\ epoch \in 0 .. W - 1
               /\ vis \in [0 .. cap - 1 -> 0 .. W - 1]
               /\ seen \subseteq 0 .. cap - 1

\* During a search the marked nodes are exactly the nodes this search visited:
\* no mark of an earlier search, of another database or of the epoch's
\* previous round hides a node from it.
MarksExact == req > 0 => {p \in 0 .. cap - 1 : vis[p] = epoch} = seen
=============================================================================
