------------------------------ MODULE MindTree ------------------------------
(***************************************************************************)
(* The tree of a mind map while two replicas of its document edit it: the  *)
(* room's and another process's (or a browser's).  store/mindmapdoc.rs     *)
(* stores a parent pointer and an order key with each node, merges         *)
(* registers one by one, and repairs on reading what two legal edits       *)
(* together broke; fracdex.rs makes the order keys.                        *)
(*                                                                         *)
(* Node ids are numbers because the repair and the tie-break compare them. *)
(* Titles, prose, positions on the canvas and cross-links are left out:    *)
(* they do not decide the shape.  The merge is the yrs library's: of two   *)
(* concurrent writes to one register either may win, the same at every     *)
(* replica, and a removed node stays removed.                              *)
(***************************************************************************)
EXTENDS Integers, FiniteSets, SequencesExt

CONSTANTS
    MaxId,      \* bound: the largest node id
    Seeded,     \* the nodes both replicas start with, a ring under the root
    Replicas,   \* the two replicas
    Base,       \* digits of an order key; 62 in the code
    MaxKeyLen,  \* the longest order key taken seriously
    MaxDepth,   \* the deepest a node may be put
    MaxNodes,   \* the most nodes a document may hold
    MaxGrow,    \* the most nodes one call may add
    MaxEdits,   \* bound: how many edits there are
    MaxSpot     \* bound: the largest position asked for

Nodes == 1..MaxId
Root == 0       \* parent: None
Unsaid == -1    \* a field the caller left out

ASSUME TreeAssumption ==
    /\ Seeded \subseteq 1..MaxId
    /\ Cardinality(Replicas) = 2
    /\ Base \in Nat /\ Base >= 2
    /\ {MaxId, MaxKeyLen, MaxDepth, MaxNodes, MaxGrow, MaxEdits} \subseteq Nat \ {0}
    /\ MaxSpot \in Nat

VARIABLES
    doc,    \* doc[r]: the nodes replica r holds, and those it knows removed
    fresh,  \* fresh[r]: registers r wrote since it was last read by the other
    edits,  \* bound: edits so far
    aim     \* history: the node the last step placed, where, and by whom

treeVars == <<doc, fresh, edits, aim>>

NoAim == [by |-> CHOOSE r \in Replicas : TRUE, node |-> Root, at |-> Unsaid]

Registers == Nodes \X {"parent", "order"}

-----------------------------------------------------------------------------
(* Order keys: digit strings read as fractions.                            *)

Keys == UNION {[1..k -> 0..(Base - 1)] : k \in 0..(MaxKeyLen + 1)}

IsValid(key) == Len(key) \in 1..MaxKeyLen /\ Last(key) # 0

\* a sorts before b, byte by byte.
Less(a, b) ==
    \E i \in 0..Len(a) :
        /\ i < Len(b)
        /\ SubSeq(a, 1, i) = SubSeq(b, 1, i)
        /\ i < Len(a) => a[i + 1] < b[i + 1]

Shared(a, b) ==
    Max({i \in 0..Len(a) : i <= Len(b) /\ SubSeq(a, 1, i) = SubSeq(b, 1, i)})

Digit(key, i, none) == IF i \in DOMAIN key THEN key[i] ELSE none

\* How many of the first n digits come before one that is not in D.
Leading(key, n, D) == Max({i \in 0..n : \A j \in 1..i : key[j] \in D})

\* A key below b: b's digits while 0 or 1 leaves no room under them, then half
\* of the next, or half of what is under a last 1.
Under(b) ==
    LET k == Leading(b, Len(b) - 1, {0, 1})
    IN  SubSeq(b, 1, k) \o
        IF b[k + 1] > 1 THEN <<b[k + 1] \div 2>> ELSE <<0, Base \div 2>>

\* A key above a: a's digits while they are the highest, then half way up.
Over(a) ==
    LET k == Leading(a, Len(a), {Base - 1})
    IN  Append(SubSeq(a, 1, k), (Digit(a, k + 1, 0) + Base) \div 2)

\* midpoint, its recursion unrolled: a key above a and below b, where an empty b
\* is no bound.
Midpoint(a, b) ==
    LET same == Shared(a, b)
        low  == Digit(a, same + 1, 0)
        high == Digit(b, same + 1, Base)
        Rest(key) == SubSeq(key, same + 2, Len(key))
    IN  SubSeq(a, 1, same) \o
        IF high > low + 1 THEN <<(low + high) \div 2>>
        ELSE IF Len(b) > same + 1 THEN <<high>> \o Under(Rest(b))
        ELSE <<low>> \o Over(Rest(a))

\* An invalid neighbour counts as none; neighbours in the wrong order append.
Between(a, b) ==
    LET Usable(key) == IF IsValid(key) THEN key ELSE <<>>
    IN  IF Usable(a) # <<>> /\ Usable(b) # <<>> /\ ~Less(a, b)
        THEN Midpoint(a, <<>>)
        ELSE Midpoint(Usable(a), Usable(b))

-----------------------------------------------------------------------------
(* Reading: the stored pointers, repaired into a tree.                     *)

\* The walk from n's parent upwards, when every node's parent is p[n]: as many
\* steps as there are nodes, the root being where it stays.
Climb(p, n) ==
    LET climb[k \in 0..Cardinality(DOMAIN p)] ==
            IF k = 0 THEN p[n]
            ELSE IF climb[k - 1] = Root THEN Root ELSE p[climb[k - 1]]
    IN  climb

\* What lies above n, n itself included when its pointers lead back to it.
Above(p, n) == Range(Climb(p, n)) \ {Root}

\* A node whose parent is gone hangs off the root.
Adopted(d) ==
    [n \in d.live |-> IF d.parent[n] \in d.live THEN d.parent[n] ELSE Root]

\* Mutant: only a node that is its own parent.
Cut_Self(p) == {n \in DOMAIN p : p[n] = n}

\* The lowest member of every loop.
Cut(p) == {n \in DOMAIN p : LET above == Above(p, n) IN n \in above /\ n = Min(above)}

\* normalise: the parent each live node is shown with.
Shown(d) ==
    LET p == Adopted(d)
    IN  [n \in d.live |-> IF n \in Cut(p) THEN Root ELSE p[n]]

\* Siblings in order: usable keys first, equal or unusable keys by id.
Earlier(d, a, b) ==
    LET key == d.order[a]
        other == d.order[b]
    IN  IF IsValid(key) # IsValid(other) THEN IsValid(key)
        ELSE IF IsValid(key) /\ key # other THEN Less(key, other) ELSE a < b

\* Nodes in the order of siblings.
InOrder(d, nodes) ==
    LET Rank(n) == Cardinality({m \in nodes : Earlier(d, m, n)})
    IN  [i \in 1..Cardinality(nodes) |-> CHOOSE n \in nodes : Rank(n) = i - 1]

\* siblings_of: the children of `up' in the tree p.
Ring(d, p, up) == InOrder(d, {n \in d.live : p[n] = up})

\* The first ring is 1; the walk gives up past MaxDepth + 1.
DepthOf(p, n) ==
    LET steps == Cardinality(Above(p, n)) + 1
    IN  IF steps > MaxDepth + 1 THEN MaxDepth + 2 ELSE steps

Subtree(p, n) == {n} \cup {m \in DOMAIN p : n \in Above(p, m)}

\* Mutant: what hangs under the moved node is not measured.
Height_Ignored(p, n) == 0

Height(p, n) == Max({DepthOf(p, m) : m \in Subtree(p, n)}) - DepthOf(p, n)

-----------------------------------------------------------------------------
(* Writing.                                                                *)

\* Mutant: the node is counted among its own siblings.
RingWithout_Self(d, p, up, n) == Ring(d, p, up)

\* The ring a node would join, without the node itself.
RingWithout(d, p, up, n) == InOrder(d, {m \in d.live \ {n} : p[m] = up})

\* check_position
Reachable(at, ring) == at = Unsaid \/ at <= Len(ring)

OrderFor(d, ring, at) ==
    LET slot == IF at = Unsaid \/ at > Len(ring) THEN Len(ring) ELSE at
        Key(i) == IF i \in DOMAIN ring THEN d.order[ring[i]] ELSE <<>>
    IN  Between(Key(slot), Key(slot + 1))

\* mindmap_node_id makes an id nobody has seen.
Unborn == Nodes \ UNION {doc[r].live \cup doc[r].gone : r \in Replicas}

PutNode(d, add) ==
    [d EXCEPT !.live = @ \cup {add.node},
              !.parent[add.node] = add.parent,
              !.order[add.node] = OrderFor(d, Ring(d, Shown(d), add.parent), add.at)]

\* d with the nodes of a batch put into it one after the other.
Put(d, batch) ==
    LET put[k \in 0..Len(batch)] == IF k = 0 THEN d ELSE PutNode(put[k - 1], batch[k])
    IN  put[Len(batch)]

\* A batch is checked whole against the tree as it was, then written in turn.
AddNodes(r, batch) ==
    LET d == doc[r]
        p == Shown(d)
    IN  /\ edits < MaxEdits
        /\ Len(batch) \in 1..MaxGrow
        /\ Cardinality(d.live) + Len(batch) <= MaxNodes
        /\ \A i, j \in DOMAIN batch : i # j => batch[i].node # batch[j].node
        /\ \A i \in DOMAIN batch :
             /\ batch[i].node \in Unborn
             /\ batch[i].parent # Root =>
                  batch[i].parent \in d.live /\ DepthOf(p, batch[i].parent) < MaxDepth
             /\ Reachable(batch[i].at, Ring(d, p, batch[i].parent))
        /\ doc' = [doc EXCEPT ![r] = Put(d, batch)]
        /\ fresh' = [fresh EXCEPT ![r] =
                       @ \cup {batch[i].node : i \in DOMAIN batch} \X {"parent", "order"}]
        /\ edits' = edits + 1
        /\ aim' = [by |-> r, node |-> Last(batch).node, at |-> Last(batch).at]

\* parent: Unsaid keeps the parent, Root clears it.  A move without a
\* position goes to the end of its new ring.
PatchNode(r, n, parent, at) ==
    LET d == doc[r]
        p == Shown(d)
        ring == RingWithout(d, p, IF parent = Unsaid THEN p[n] ELSE parent, n)
    IN  /\ edits < MaxEdits
        /\ n \in d.live
        /\ parent # Unsaid \/ at # Unsaid
        /\ parent \in Nodes =>
             /\ parent \in d.live \ Subtree(p, n)
             /\ DepthOf(p, parent) + 1 + Height(p, n) <= MaxDepth
        /\ Reachable(at, ring)
        /\ doc' = [doc EXCEPT ![r].order[n] = OrderFor(d, ring, at),
                              ![r].parent[n] = IF parent = Unsaid THEN @ ELSE parent]
        /\ fresh' = [fresh EXCEPT ![r] = @ \cup {<<n, "order">>} \cup
                       (IF parent = Unsaid THEN {} ELSE {<<n, "parent">>})]
        /\ edits' = edits + 1
        /\ aim' = [by |-> r, node |-> n, at |-> at]

Without(d, doomed) ==
    [live |-> d.live \ doomed, gone |-> d.gone \cup doomed,
     parent |-> [n \in Nodes |-> IF n \in doomed THEN Root ELSE d.parent[n]],
     order |-> [n \in Nodes |-> IF n \in doomed THEN <<>> ELSE d.order[n]]]

DeleteNode(r, n) ==
    LET doomed == Subtree(Shown(doc[r]), n)
    IN  /\ edits < MaxEdits
        /\ n \in doc[r].live
        /\ doc' = [doc EXCEPT ![r] = Without(@, doomed)]
        /\ fresh' = [fresh EXCEPT ![r] = @ \ (doomed \X {"parent", "order"})]
        /\ edits' = edits + 1
        /\ aim' = NoAim

\* s reads what r has written.  `wins` are the registers both wrote of which
\* r's value prevails.
Deliver(r, s) ==
    \E wins \in SUBSET (fresh[r] \cap fresh[s]) :
        LET taken == (fresh[r] \ fresh[s]) \cup wins
            dead == doc[r].gone \cup doc[s].gone
            Merged(field) ==
                [n \in Nodes |-> IF <<n, field>> \in taken THEN doc[r][field][n] ELSE doc[s][field][n]]
            merged == [live |-> doc[r].live \cup doc[s].live, gone |-> doc[s].gone,
                       parent |-> Merged("parent"), order |-> Merged("order")]
        IN  /\ fresh[r] # {} \/ doc[r].gone \ doc[s].gone # {}
            /\ doc' = [doc EXCEPT ![s] = Without(merged, dead)]
            /\ fresh' = [fresh EXCEPT ![r] = {},
                                      ![s] = @ \ (taken \cup (dead \X {"parent", "order"}))]
            /\ aim' = NoAim
            /\ UNCHANGED edits

-----------------------------------------------------------------------------

\* sequence: n keys in ascending order.
SeedKeys[k \in 0..Cardinality(Seeded)] ==
    IF k = 0 THEN <<>>
    ELSE Append(SeedKeys[k - 1],
                Between(IF k = 1 THEN <<>> ELSE SeedKeys[k - 1][k - 1], <<>>))

Seed ==
    [live |-> Seeded, gone |-> {},
     parent |-> [n \in Nodes |-> Root],
     order |-> [n \in Nodes |->
        IF n \in Seeded THEN SeedKeys[Cardinality(Seeded)][Cardinality({m \in Seeded : m <= n})]
        ELSE <<>>]]

TreeInit ==
    /\ doc = [r \in Replicas |-> Seed]
    /\ fresh = [r \in Replicas |-> {}]
    /\ edits = 0
    /\ aim = NoAim

Spots == {Unsaid} \cup 0..MaxSpot

\* What callers send: a branch, its nodes after the first appended to the same
\* ring.
Batches(r) ==
    {batch \in BoundedSeq([node : Unborn, parent : doc[r].live \cup {Root}, at : Spots], MaxGrow) :
        \A i \in 2..Len(batch) : batch[i].parent = batch[1].parent /\ batch[i].at = Unsaid}

TreeNext ==
    \/ \E r \in Replicas :
         \/ \E batch \in Batches(r) : AddNodes(r, batch)
         \/ \E n \in Nodes :
              \/ \E parent \in Nodes \cup {Root, Unsaid}, at \in Spots : PatchNode(r, n, parent, at)
              \/ DeleteNode(r, n)
    \/ \E r, s \in Replicas : r # s /\ Deliver(r, s)

TreeSpec == TreeInit /\ [][TreeNext]_treeVars

-----------------------------------------------------------------------------
(* Properties.                                                             *)

TreeTypeOK ==
    /\ doc \in [Replicas -> [live : SUBSET Nodes, gone : SUBSET Nodes,
                             parent : [Nodes -> Nodes \cup {Root}], order : [Nodes -> Keys]]]
    /\ fresh \in [Replicas -> SUBSET Registers]
    /\ edits \in 0..MaxEdits
    /\ aim \in [by : Replicas, node : Nodes \cup {Root}, at : Spots]

\* Whatever two replicas did to each other's branches, every live node is
\* shown exactly once: its parent is live and no chain of parents closes, so
\* the walk of tree_order from the root loses nothing.
TreeIsWhole ==
    \A r \in Replicas :
        LET p == Shown(doc[r])
        IN  \A n \in doc[r].live :
                /\ p[n] \in doc[r].live \cup {Root}
                /\ n \notin Above(p, n)

\* The stored pointers need no repair.
Sound(d) == \A n \in d.live : d.parent[n] \in d.live \cup {Root} /\ n \notin Above(d.parent, n)

\* Moving a branch moves that branch: every other node keeps the parent it is
\* shown with, and nothing is put deeper than the cap that was not there
\* before.  (Of a tree that needs no repair and is not already too deep.)
MovesStayLocal ==
    [][LET r == aim'.by
           p == Shown(doc[r])
           q == Shown(doc'[r])
       IN  /\ aim'.node # Root /\ aim'.node \in doc[r].live
           /\ Sound(doc[r])
           /\ \A m \in doc[r].live : DepthOf(p, m) <= MaxDepth
           => \A m \in doc[r].live :
                (m # aim'.node => q[m] = p[m]) /\ DepthOf(q, m) <= MaxDepth]_treeVars

\* n's siblings, as the map is shown.
Kin(d, n) == LET p == Shown(d) IN {m \in d.live \ {n} : p[m] = p[n]}

\* A node put at a position has that many siblings before it afterwards, and
\* one put nowhere in particular comes last.  (Of a tree that needed no repair,
\* in a ring whose keys are distinct and usable.)
AimIsMet ==
    [][aim'.node # Root /\ Sound(doc[aim'.by]) =>
        LET n == aim'.node
            d == doc'[aim'.by]
        IN  \E kin \in {Kin(d, n)} :
                LET ring == kin \cup {n}
                IN  /\ \A m \in ring : IsValid(d.order[m])
                    /\ Cardinality({d.order[m] : m \in ring}) = Cardinality(ring)
                    => Cardinality({m \in kin : Earlier(d, m, n)}) =
                         IF aim'.at = Unsaid THEN Cardinality(kin) ELSE aim'.at]_treeVars
=============================================================================
