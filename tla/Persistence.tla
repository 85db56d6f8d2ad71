---------------------------- MODULE Persistence ----------------------------
(***************************************************************************)
(* Saving and loading an index (vecdb_save, vecdb_load): one process with  *)
(* one handle and one file.  vecdb_save truncates the file and writes      *)
(* header, ids, vectors, nodes and tombstones in that order; it looks at   *)
(* the result of fopen only.  The process may die at any step, and the     *)
(* disk may fill up during a save.                                         *)
(*                                                                         *)
(* A file is the sequence of the values written: a number, an id, a vector *)
(* or a tombstone byte is one entry, the fixed-size header is one entry.   *)
(* What stdio still buffers when the process dies is lost, which leaves    *)
(* the same file as dying earlier.                                         *)
(*                                                                         *)
(* Which neighbours a new node gets, and which links a full list gives up, *)
(* is a matter of distances (module Hnsw); here any choice is possible     *)
(* that keeps to the number the code keeps.                                *)
(***************************************************************************)
EXTENDS VecBody, SequencesExt

CONSTANTS
    NoFile,     \* nothing at the path
    M,          \* links per node on the upper levels
    MaxLevel,   \* bound on the levels drawn
    AddsAt,     \* bound: the numbers of slots at which a vector is added
    Old         \* indexes that earlier runs may have left in the file

M0 == 2 * M
LinkCap(l) == IF l = 0 THEN M0 ELSE M

\* A node has one neighbour list per level, 0 .. lvl.
Node == [lvl : 0 .. MaxLevel, list : Seq(Seq(Nat))]

\* The lists of a node name slots of an index of n, and keep to their caps.
NodeSound(nd, n) ==
    /\ nd \in Node /\ Len(nd.list) = nd.lvl + 1
    /\ \A j \in 1 .. Len(nd.list) : /\ Len(nd.list[j]) <= LinkCap(j - 1)
                                    /\ \A i \in 1 .. Len(nd.list[j]) : nd.list[j][i] < n

\* What add, delete and the searches rely on: written storage, an exact id map
\* although an id may own several tombstones, an exact count of live vectors,
\* links that exist, an entry point on the top level.
HandleSound(x) ==
    /\ x = [body |-> x.body, node |-> x.node, entry |-> x.entry, top |-> x.top]
    /\ IsBody(x.body) /\ x.body.count <= x.body.cap /\ x.body.cap > 0
    /\ \A s \in 0 .. x.body.count - 1 : x.body.slot[s] \in Slot
    /\ MapExactFor(x.body, x.body.count)
    /\ x.body.alive = Cardinality(LiveSlots(x.body))
    /\ x.node \in Seq(Node) /\ Len(x.node) = x.body.count
    /\ \A j \in 1 .. Len(x.node) : NodeSound(x.node[j], Len(x.node))
    /\ x.entry \in -1 .. x.body.count - 1 /\ x.top \in -1 .. MaxLevel
    /\ x.entry # NoSlot => x.node[x.entry + 1].lvl = x.top

ASSUME PersistenceAssumption ==
    /\ Garbage \notin Slot
    /\ M \in Nat /\ M >= 2 /\ MaxLevel \in Nat
    /\ InitialCap \in Nat \ {0} /\ DefaultCap \in Nat \ {0}
    /\ AddsAt \subseteq Nat
    /\ \A x \in Old : HandleSound(x)

VARIABLES
    h,        \* the handle: [body, node, entry, top]
    pc,       \* "up", "saving" or "down" (no process)
    file,     \* the file, or NoFile
    todo,     \* what the save under way has still to write
    origin,   \* the index the file was last opened for writing with
    whole,    \* no write to the file was lost
    status    \* outcome of the last call

vars == <<h, pc, file, todo, origin, whole, status>>

New == [body |-> Fresh(InitialCap), node |-> <<>>, entry |-> NoSlot, top |-> -1]
-----------------------------------------------------------------------------
(***************************************************************************)
(* The graph, as sequences of nodes.  An operator that leaves something    *)
(* open gives the set of its outcomes.                                     *)
(***************************************************************************)
WithList(node, s, l, list) ==
    [node EXCEPT ![s + 1] = [lvl |-> @.lvl, list |-> [@.list EXCEPT ![l + 1] = list]]]

\* The ways to take one to k of S, each once.
Picks(S, k) == {q \in UNION {[1 .. n -> S] : n \in 1 .. k} : IsInjective(q)}

\* shrink_links: a list over its cap keeps as many links as the cap, the best
\* first.
Shrunk(list, l) ==
    IF Len(list) <= LinkCap(l) THEN {list}
    ELSE {q \in [1 .. LinkCap(l) -> ToSet(list)] : IsInjective(q)}

\* The link from a neighbour u that was selected back to slot s.
LinkedBack(node, u, s, l) ==
    {WithList(node, u, l, list) : list \in Shrunk(Append(node[u + 1].list[l + 1], s), l)}

\* One level of the loop of wire_node.
WiredLevel(node, s, l) ==
    LET living == {u \in 0 .. Len(node) - 1 : u # s /\ node[u + 1].lvl >= l}
    IN  UNION {FoldLeft(LAMBDA G, u : UNION {LinkedBack(n, u, s, l) : n \in G},
                        {WithList(node, s, l, sel)}, sel) : sel \in Picks(living, M)}

\* The levels from start down to 0.
Wired(node, s, start) ==
    FoldLeft(LAMBDA G, l : UNION {WiredLevel(n, s, l) : n \in G}, {node},
             [j \in 1 .. start + 1 |-> start + 1 - j])

\* vecdb_add of an absent id with level lv.
Added(h0, id, v, lv) ==
    LET s == h0.body.count
        new == [lvl |-> lv, list |-> [j \in 1 .. lv + 1 |-> <<>>]]
        start == IF lv < h0.top THEN lv ELSE h0.top
    IN  {[body |-> AddTo(h0.body, id, v),
          node |-> n,
          entry |-> IF lv > h0.top THEN s ELSE h0.entry,
          top |-> IF lv > h0.top THEN lv ELSE h0.top] :
            n \in Wired(Append(h0.node, new), s, start)}
-----------------------------------------------------------------------------
(***************************************************************************)
(* The format.                                                             *)
(***************************************************************************)
\* One field of every counted slot, in slot order.
Counted(h0, field) == [j \in 1 .. h0.body.count |-> h0.body.slot[j - 1][field]]
Joined(parts) == FoldLeft(LAMBDA a, p : a \o p, <<>>, parts)
ListImage(l) == <<Len(l)>> \o l
NodeImage(n) == <<n.lvl>> \o Joined([j \in DOMAIN n.list |-> ListImage(n.list[j])])

Image(h0, version) ==
    <<[version |-> version, top |-> h0.top, entry |-> h0.entry, count |-> h0.body.count]>>
    \o Counted(h0, "id")
    \o Counted(h0, "vec")
    \o Joined([j \in DOMAIN h0.node |-> NodeImage(h0.node[j])])
    \o (IF version = 1 THEN <<>> ELSE Counted(h0, "dead"))

\* Reading goes on at pos until the file is too short or a check fails.
Fail(r) == [r EXCEPT !.ok = FALSE]

LengthBelowCap(n, l) == n < LinkCap(l)   \* mutant: a full list is refused

LengthAllowed(n, l) == n <= LinkCap(l) + 1

LinksInRange(f, from, n, count) == \A j \in from .. from + n - 1 : f[j] < count

\* One neighbour list of level l: its length, then its links.
ReadList(f, r, l) ==
    IF ~ r.ok \/ r.pos > Len(f) THEN Fail(r)
    ELSE LET n == f[r.pos]
         IN  IF \/ ~ LengthAllowed(n, l)
                \/ r.pos + n > Len(f)
                \/ ~ LinksInRange(f, r.pos + 1, n, f[1].count)
             THEN Fail(r)
             ELSE [r EXCEPT !.pos = @ + n + 1,
                            !.list = Append(@, SubSeq(f, r.pos + 1, r.pos + n))]

ReadNode(f, r) ==
    IF ~ r.ok \/ r.pos > Len(f) THEN Fail(r)
    ELSE LET lv == f[r.pos]
             q == FoldLeft(LAMBDA a, l : ReadList(f, a, l), [r EXCEPT !.pos = @ + 1],
                           [j \in 1 .. lv + 1 |-> j - 1])
         IN  [q EXCEPT !.list = <<>>,
                       !.node = Append(@, [lvl |-> lv, list |-> q.list])]

ReadNodes(f) ==
    FoldLeft(LAMBDA r, j : ReadNode(f, r),
             [pos |-> 2 + 2 * f[1].count, ok |-> TRUE, node |-> <<>>, list |-> <<>>],
             [j \in 1 .. f[1].count |-> j])

DeadBytesNever(f) == FALSE   \* mutant: tombstones are not read back

DeadBytes(f) == f[1].version >= 2

\* A file vecdb_load accepts.
Loadable(f) ==
    /\ f # NoFile /\ f # <<>>
    /\ Len(f) >= 1 + 2 * f[1].count
    /\ LET r == ReadNodes(f)
       IN  r.ok /\ (DeadBytes(f) => r.pos + f[1].count - 1 <= Len(f))

RebuiltMapAll(slot, n) ==   \* mutant: tombstones are entered as well
    [id \in Ids |->
        LET mine == {s \in 0 .. n - 1 : slot[s].id = id}
        IN  IF mine = {} THEN NoSlot
            ELSE CHOOSE s \in mine : \A t \in mine : t <= s]

\* The id map is filled from the slots without a tombstone, in slot order.
RebuiltMap(slot, n) ==
    [id \in Ids |->
        LET mine == {s \in 0 .. n - 1 : ~ slot[s].dead /\ slot[s].id = id}
        IN  IF mine = {} THEN NoSlot
            ELSE CHOOSE s \in mine : \A t \in mine : t <= s]

Loaded(f) ==
    LET n == f[1].count
        r == ReadNodes(f)
        slot == [s \in 0 .. (IF n = 0 THEN DefaultCap ELSE n) - 1 |->
                   IF s >= n THEN Garbage
                   ELSE [id |-> f[2 + s], vec |-> f[2 + n + s],
                         dead |-> IF DeadBytes(f) THEN f[r.pos + s] ELSE FALSE]]
    IN  [body |-> [cap |-> IF n = 0 THEN DefaultCap ELSE n, count |-> n,
                   alive |-> Cardinality({s \in 0 .. n - 1 : ~ slot[s].dead}),
                   slot |-> slot, map |-> RebuiltMap(slot, n)],
         node |-> r.node, entry |-> f[1].entry, top |-> f[1].top]
-----------------------------------------------------------------------------
\* A file of version 1, which has no tombstones, or 2 may be there from before.
Init == /\ h = New
        /\ pc = "up"
        /\ \/ file = NoFile /\ origin = New
           \/ \E x \in Old, version \in {1, 2} :
                 /\ version = 1 => \A s \in 0 .. x.body.count - 1 : ~ x.body.slot[s].dead
                 /\ origin = x /\ file = Image(x, version)
        /\ todo = <<>>
        /\ whole = TRUE
        /\ status = "none"

\* vecdb_add.
Add(id, v, lv) == /\ pc = "up" /\ h.body.count \in AddsAt
                  /\ h' \in IF Absent(h.body, id) THEN Added(h, id, v, lv)
                            ELSE {[h EXCEPT !.body = AddTo(@, id, v)]}
                  /\ status' = IF Absent(h.body, id) THEN "added" ELSE "fail"
                  /\ UNCHANGED <<pc, file, todo, origin, whole>>

\* vecdb_delete of an id that is stored.
Delete(id) == /\ pc = "up" /\ ~ Absent(h.body, id)
              /\ h' = [h EXCEPT !.body = Bury(@, id)]
              /\ status' = "deleted"
              /\ UNCHANGED <<pc, file, todo, origin, whole>>

\* vecdb_save: fopen truncates the old file, or fails.
SaveOpen == /\ pc = "up"
            /\ pc' = "saving"
            /\ file' = <<>>
            /\ todo' = Image(h, 2)
            /\ origin' = h
            /\ whole' = TRUE
            /\ UNCHANGED <<h, status>>

SaveRefused == /\ pc = "up"
               /\ status' = "fail"
               /\ UNCHANGED <<h, pc, file, todo, origin, whole>>

SaveWrite == /\ pc = "saving" /\ todo # <<>>
             /\ file' = Append(file, Head(todo))
             /\ todo' = Tail(todo)
             /\ UNCHANGED <<h, pc, origin, whole, status>>

\* The disk is full: this write and the later ones are lost, unnoticed.
DiskFull == /\ pc = "saving" /\ todo # <<>>
            /\ todo' = <<>>
            /\ whole' = FALSE
            /\ UNCHANGED <<h, pc, file, origin, status>>

SaveClose == /\ pc = "saving" /\ todo = <<>>
             /\ pc' = "up"
             /\ status' = "saved"
             /\ UNCHANGED <<h, file, todo, origin, whole>>

\* The process dies, perhaps in the middle of a save.
Crash == /\ pc # "down"
         /\ pc' = "down"
         /\ h' = New
         /\ whole' = (whole /\ todo = <<>>)
         /\ todo' = <<>>
         /\ status' = "none"
         /\ UNCHANGED <<file, origin>>

Create == /\ pc = "down"
          /\ pc' = "up"
          /\ UNCHANGED <<h, file, todo, origin, whole, status>>

\* vecdb_load, as the first thing a process does or later, its result taking
\* the place of the handle.
Load == /\ pc # "saving"
        /\ IF Loadable(file)
           THEN h' = Loaded(file) /\ pc' = "up" /\ status' = "loaded"
           ELSE status' = "fail" /\ UNCHANGED <<h, pc>>
        /\ UNCHANGED <<file, todo, origin, whole>>

Next == \/ \E id \in Ids, v \in Vecs, lv \in 0 .. MaxLevel : Add(id, v, lv)
        \/ \E id \in Ids : Delete(id)
        \/ SaveOpen \/ SaveRefused \/ SaveWrite \/ DiskFull \/ SaveClose
        \/ Crash \/ Create \/ Load

Spec == Init /\ [][Next]_vars
-----------------------------------------------------------------------------
(***************************************************************************)
(* Properties.                                                             *)
(***************************************************************************)
\* Types; and a handle stays sound, also one that was loaded, and whatever is
\* done to it later.
IndexSound ==
    /\ HandleSound(h)
    /\ pc \in {"up", "saving", "down"} /\ whole \in BOOLEAN
    /\ status \in {"none", "added", "deleted", "saved", "loaded", "fail"}

\* The searchable part of two handles is the same.
SameIndex(x, y) ==
    /\ x.body.count = y.body.count
    /\ \A s \in 0 .. x.body.count - 1 : x.body.slot[s] = y.body.slot[s]
    /\ x.node = y.node /\ x.entry = y.entry /\ x.top = y.top

\* README.md:15: "save/load an index with vectors, IDs, levels, and neighbor
\* links".  A file that loads gives back the index it was written from, never
\* part of it, whatever crashes and full disks have left of the file.
LoadedIsSaved == [][Load /\ Loadable(file) => SameIndex(h', origin)]_vars

\* A file that was written to the end is accepted, also one of version 1, and
\* although a load refuses lists by their length and links by their range.
WholeFileLoads == file # NoFile /\ pc # "saving" /\ whole => Loadable(file)

\* vecdb.h: vecdb_save "Returns 0 on success".
SavedIsLoadable == status = "saved" => Loadable(file)
=============================================================================
