----------------------------- MODULE Proposals -----------------------------
(***************************************************************************)
(* What an agent offers to change in a text, and who accepts it.  An agent *)
(* reads the blocks of the text, thinks, and offers operations against     *)
(* block ids (docprops.rs, docs.rs and mindmaps.rs in src/api); the server *)
(* or a page applies them when somebody accepts (api/proposal_apply.rs,    *)
(* lib/doc-ops.ts and lib/plan-proposals.ts in web/src).  The server and   *)
(* every page hold a replica of the document.                              *)
(*                                                                         *)
(* A replica is the set of facts it has heard of: offers, decisions and    *)
(* changes of the text.  The merge is the yrs library's: all replicas show *)
(* the blocks they know in one common order; which of two decisions stays  *)
(* on a record is left out, since nothing asks but whether there is one.   *)
(* Left out too is what blocks say, and a page's repair of block ids,      *)
(* which tells apart the two blocks that two accepts may leave with one.   *)
(***************************************************************************)
EXTENDS Integers, Sequences, SequencesExt

CONSTANTS
    Blocks,       \* the ids of the blocks the text starts with
    FirstText,    \* the order they start in
    Offers,       \* ids of the proposals
    Drafts,       \* bound: the lists of operations an agent comes up with
    Server,
    Pages,
    MaxPending,   \* MAX_PENDING_PROPOSALS
    MaxUpsets,    \* bound: edits people make, and pages they close and open again
    NoDraft

Replicas == Pages \cup {Server}

\* `nodes' is how many blocks the markdown parses to: at least one.  `exotic'
\* markdown only the editor can parse.
Op == [op : {"replace", "insert_after", "delete"}, id : Blocks,
       nodes : Nat \ {0}, exotic : BOOLEAN]

ASSUME ProposalsAssumption ==
    /\ Server \notin Pages
    /\ FirstText \in Seq(Blocks) /\ Range(FirstText) = Blocks /\ IsInjective(FirstText)
    /\ Drafts \subseteq Seq(Op) /\ <<>> \notin Drafts
    /\ MaxPending \in Nat /\ MaxUpsets \in Nat
    \* What nobody proposed is about <<>>.
    /\ <<>> \notin Offers
    \* A minted id is a random one.
    /\ \A b \in Blocks : b \notin Offers \X Replicas \X Nat \X Nat \X Nat

VARIABLES
    knows,    \* replica -> the facts it has heard of
    sent,     \* page -> what it has written and the server not yet received
    order,    \* every block there ever was, in the order replicas show them
    reading,  \* proposal -> the block ids its agent read
    lost,     \* history: the changes that closed pages took with them
    edits, reloads      \* how many there were: bounded together

propVars == <<knows, sent, order, reading, lost, edits, reloads>>

\* A block keeps its identity; its id is an attribute that a replacement takes over.
Block0(b) == [id |-> b, of |-> <<>>]
NewBlock(p, r, k, i, id) == [id |-> id, of |-> <<p, r, reloads, k, i>>]
Minted(p, r, k, i) == NewBlock(p, r, k, i, <<p, r, reloads, k, i>>)

\* Facts.  A page that is opened again is a new writer: `life' tells it apart.
Offered(p, ops, facts) == [is |-> "offer", about |-> p, ops |-> ops, seen |-> facts]
Decided(p, r, status, dropped) ==
    [is |-> "decision", about |-> p, by |-> r, life |-> reloads,
     status |-> status, dropped |-> dropped]
Change(p, r, added, removed) ==
    [is |-> "change", about |-> p, by |-> r, life |-> reloads,
     added |-> added, removed |-> removed]
Typed(n, removed) ==
    [is |-> "change", about |-> <<>>, by |-> n, life |-> reloads,
     added |-> {}, removed |-> removed]

Facts(F, kind) == {f \in F : f.is = kind}
OfferIn(F, p) == {f \in Facts(F, "offer") : f.about = p}
OpsIn(F, p) == (CHOOSE f \in OfferIn(F, p) : TRUE).ops
DecisionsIn(F, p) == {f \in Facts(F, "decision") : f.about = p}
Pending(F, p) == OfferIn(F, p) # {} /\ DecisionsIn(F, p) = {}

\* The members of S in a sequence, in its order.
Only(S, all) ==
    LET only[n \in 0..Len(all)] ==
            IF n = 0 THEN <<>>
            ELSE IF all[n] \in S THEN Append(only[n - 1], all[n]) ELSE only[n - 1]
    IN  only[Len(all)]

\* The text a replica shows.
There(F) == {Block0(b) : b \in Blocks} \cup UNION {f.added : f \in Facts(F, "change")}
Gone(F) == UNION {f.removed : f \in Facts(F, "change")}
TextIn(F, all) == Only(There(F) \ Gone(F), all)

Ids(text) == {text[i].id : i \in DOMAIN text}

-----------------------------------------------------------------------------
(* Applying operations: `apply' and `applyOps' step by step.               *)

\* find_block: the first block with the id.
Found(text, id) == SelectInSeq(text, LAMBDA x : x.id = id)

\* The blocks an operation brings; the first of a replacement keeps the id.
Brought(p, r, k, op) ==
    [i \in 1..op.nodes |->
        IF op.op = "replace" /\ i = 1 THEN NewBlock(p, r, k, i, op.id) ELSE Minted(p, r, k, i)]

Spliced(text, at, new) == SubSeq(text, 1, at) \o new \o SubSeq(text, at + 1, Len(text))
Without(text, at) == SubSeq(text, 1, at - 1) \o SubSeq(text, at + 1, Len(text))

\* Mutant of Carried: what was put behind the block is forgotten.
Carried_None(trailing, id) == 0

\* How many blocks behind the one at an id belong to it.
Carried(trailing, id) == trailing[id]

\* One operation.  s: the text, `trailing', and the numbers of skipped operations.
Step(p, r, ops, s, k) ==
    LET op == ops[k]
        pos == Found(s.text, op.id)
        new == Brought(p, r, k, op)
        carried == Carried(s.trailing, op.id)
        behind == pos + carried
    IN  IF pos = 0
        THEN [s EXCEPT !.skipped = @ \cup {k}]
        ELSE IF op.op = "delete"
        THEN [s EXCEPT !.text = Without(@, pos), !.trailing[op.id] = 0]
        ELSE IF op.op = "replace"
        THEN [s EXCEPT !.text = Spliced(Without(@, pos), pos - 1, new),
                       !.trailing[op.id] = carried + op.nodes - 1]
        ELSE [s EXCEPT !.text =
                         Spliced(@, IF behind > Len(@) THEN Len(@) ELSE behind, new),
                       !.trailing[op.id] = carried + op.nodes]

Untouched(text) == [text |-> text, trailing |-> [b \in Blocks |-> 0], skipped |-> {}]

Apply(p, r, ops, text) ==
    LET after[k \in 0..Len(ops)] ==
            IF k = 0 THEN Untouched(text) ELSE Step(p, r, ops, after[k - 1], k)
    IN  after[Len(ops)]

\* The common order takes each new block in behind the one before it.
WovenIn(seq, text, i) ==
    IF Contains(seq, text[i]) THEN seq
    ELSE Spliced(seq, IF i = 1 THEN 0 ELSE SelectInSeq(seq, LAMBDA x : x = text[i - 1]),
                 <<text[i]>>)

Woven(all, text) ==
    LET with[i \in 0..Len(text)] ==
            IF i = 0 THEN all ELSE WovenIn(with[i - 1], text, i)
    IN  with[Len(text)]

-----------------------------------------------------------------------------
(* Offering.                                                               *)

ProposalsInit ==
    /\ knows = [r \in Replicas |-> {}]
    /\ sent = [g \in Pages |-> <<>>]
    /\ order = [i \in DOMAIN FirstText |-> Block0(FirstText[i])]
    /\ reading = [p \in Offers |-> NoDraft]
    /\ lost = {}
    /\ edits = 0 /\ reloads = 0

\* An agent is given the blocks of the live replica, and starts to think.
ReadBlocks(p) ==
    /\ reading[p] = NoDraft
    /\ reading' = [reading EXCEPT ![p] = Ids(TextIn(knows[Server], order)) \cap Blocks]
    /\ UNCHANGED <<knows, sent, order, lost, edits, reloads>>

\* validate_ops: against the text as it stands when the offer is written.
Known(p) == Ids(TextIn(knows[Server], order))

Validated(p, draft) == Only({op \in Range(draft) : op.id \in Known(p)}, draft)

PendingAt(F) == {p \in Offers : Pending(F, p)}

\* write_proposal, in the same change of the replica as the validation.
Propose(p, draft) ==
    /\ reading[p] # NoDraft /\ OfferIn(knows[Server], p) = {}
    /\ \A i \in DOMAIN draft : draft[i].id \in reading[p]
    /\ Validated(p, draft) # <<>>
    /\ Cardinality(PendingAt(knows[Server])) < MaxPending
    /\ knows' = [knows EXCEPT ![Server] =
                    @ \cup {Offered(p, Validated(p, draft), Facts(@, "change"))}]
    /\ UNCHANGED <<sent, order, reading, lost, edits, reloads>>

-----------------------------------------------------------------------------
(* Deciding.                                                               *)

\* prepare: what the server cannot build exactly, it refuses.
Buildable(r, ops) == r = Server => \A k \in DOMAIN ops : ~ops[k].exotic

\* Mutant of Acceptance: whatever is left of it is accepted.
Acceptance_Anything(ops, done) == TRUE

\* Nothing applied is not an acceptance.
Acceptance(ops, done) == done.skipped # DOMAIN ops

Accepted(r, p) ==
    LET ops == OpsIn(knows[r], p)
        text == TextIn(knows[r], order)
        done == Apply(p, r, ops, text)
    IN  [valid |-> Buildable(r, ops) /\ Acceptance(ops, done),
         order |-> Woven(order, done.text),
         decision |-> Decided(p, r, "accepted", done.skipped),
         change |-> Change(p, r, ToSet(done.text) \ ToSet(text),
                                 ToSet(text) \ ToSet(done.text))]

\* decide: the text and the record change in one transaction.
AcceptOnServer(p) ==
    /\ Pending(knows[Server], p)
    /\ LET acc == Accepted(Server, p) IN
         /\ acc.valid
         /\ knows' = [knows EXCEPT ![Server] = @ \cup {acc.decision, acc.change}]
         /\ order' = acc.order
    /\ UNCHANGED <<sent, reading, lost, edits, reloads>>

\* onAccept: the record is written first and the editor changes the text next,
\* in a transaction of its own.  Nothing else of the page runs in between.
AcceptOnPage(g, p) ==
    /\ Pending(knows[g], p)
    /\ LET acc == Accepted(g, p) IN
         /\ acc.valid
         /\ knows' = [knows EXCEPT ![g] = @ \cup {acc.decision, acc.change}]
         /\ sent' = [sent EXCEPT ![g] = @ \o <<acc.decision, acc.change>>]
         /\ order' = acc.order
    /\ UNCHANGED <<reading, lost, edits, reloads>>

\* A rejection only marks the record.
RejectOnServer(p) ==
    /\ Pending(knows[Server], p)
    /\ knows' = [knows EXCEPT ![Server] = @ \cup {Decided(p, Server, "rejected", {})}]
    /\ UNCHANGED <<sent, order, reading, lost, edits, reloads>>

RejectOnPage(g, p) ==
    /\ Pending(knows[g], p)
    /\ LET no == Decided(p, g, "rejected", {}) IN
         /\ knows' = [knows EXCEPT ![g] = @ \cup {no}]
         /\ sent' = [sent EXCEPT ![g] = Append(@, no)]
    /\ UNCHANGED <<order, reading, lost, edits, reloads>>

-----------------------------------------------------------------------------
(* People and the wire.                                                    *)

\* Somebody deletes a block in a page.
DeleteBlock(g) ==
    /\ edits + reloads < MaxUpsets /\ edits' = edits + 1
    /\ \E x \in ToSet(TextIn(knows[g], order)) :
         LET cut == Typed(edits, {x}) IN
           /\ knows' = [knows EXCEPT ![g] = @ \cup {cut}]
           /\ sent' = [sent EXCEPT ![g] = Append(@, cut)]
    /\ UNCHANGED <<order, reading, lost, reloads>>

\* The server receives a page's next update.
Receive(g) ==
    /\ sent[g] # <<>>
    /\ knows' = [knows EXCEPT ![Server] = @ \cup {Head(sent[g])}]
    /\ sent' = [sent EXCEPT ![g] = Tail(@)]
    /\ UNCHANGED <<order, reading, lost, edits, reloads>>

\* A page hears what the server has: the updates since, or all on connecting.
Hear(g) ==
    /\ ~(knows[Server] \subseteq knows[g])
    /\ knows' = [knows EXCEPT ![g] = @ \cup knows[Server]]
    /\ UNCHANGED <<sent, order, reading, lost, edits, reloads>>

\* A page is closed, with what it had not delivered, and opened again.
Reload(g) ==
    /\ edits + reloads < MaxUpsets /\ reloads' = reloads + 1
    /\ lost' = lost \cup ToSet(sent[g])
    /\ sent' = [sent EXCEPT ![g] = <<>>]
    /\ knows' = [knows EXCEPT ![g] = knows[Server]]
    /\ UNCHANGED <<order, reading, edits>>

ProposalsNext ==
    \/ \E p \in Offers :
          \/ ReadBlocks(p)
          \/ \E draft \in Drafts : Propose(p, draft)
          \/ AcceptOnServer(p)
          \/ RejectOnServer(p)
          \/ \E g \in Pages : AcceptOnPage(g, p) \/ RejectOnPage(g, p)
    \/ \E g \in Pages : DeleteBlock(g) \/ Receive(g) \/ Hear(g) \/ Reload(g)

ProposalsSpec == ProposalsInit /\ [][ProposalsNext]_propVars

-----------------------------------------------------------------------------
(* Properties.                                                             *)

\* How accepted operations are meant: every block has a tail, the blocks that
\* were put behind it, and an operation changes its block or adds to its tail.
\* Blocks that nobody named stay where they are.
Alone(text) == [i \in DOMAIN text |-> [head |-> <<text[i]>>, tail |-> <<>>]]

Named(groups, id) ==
    SelectInSeq(groups, LAMBDA x : x.head # <<>> /\ x.head[1].id = id)

Amended(p, r, ops, groups, k) ==
    LET op == ops[k]
        i == Named(groups, op.id)
        new == Brought(p, r, k, op)
    IN  IF i = 0 THEN groups
        ELSE IF op.op = "delete" THEN [groups EXCEPT ![i].head = <<>>]
        ELSE IF op.op = "replace"
        THEN [groups EXCEPT ![i] = [head |-> <<new[1]>>, tail |-> Tail(new) \o @.tail]]
        ELSE [groups EXCEPT ![i].tail = @ \o new]

Retold(groups) == FlattenSeq([i \in DOMAIN groups |-> groups[i].head \o groups[i].tail])

Meant(p, r, ops, text) ==
    LET after[k \in 0..Len(ops)] ==
            IF k = 0 THEN Alone(text) ELSE Amended(p, r, ops, after[k - 1], k)
    IN  Retold(after[Len(ops)])

\* The changes a replica makes to its own text by accepting.
Accepting(r) ==
    {f \in Facts(knows'[r] \ knows[r], "change") : f.about \in Offers /\ f.by = r /\ f.life = reloads}

\* An accept leaves the text as the operations mean it, in the server and in the
\* page alike, whatever else has happened to the text since they were written.
OpsLandAsMeant ==
    [][\A r \in Replicas : \A f \in Accepting(r) :
          TextIn(knows'[r], order') =
            Meant(f.about, r, OpsIn(knows[r], f.about), TextIn(knows[r], order))]_propVars

\* An accept drops an operation only because its block was taken away after it
\* was offered, or by an operation of the same proposal; a person who reads
\* `dropped' is told so.
DroppedWasTaken ==
    \A r \in Replicas : \A f \in Facts(knows[r], "decision") : \A k \in f.dropped :
        LET offer == CHOOSE o \in OfferIn(knows[r], f.about) : TRUE
            id == offer.ops[k].id
        IN  \/ \E j \in 1..(k - 1) : offer.ops[j].op = "delete" /\ offer.ops[j].id = id
            \/ \E c \in Facts(knows[r], "change") \ offer.seen :
                  \E x \in c.removed : x.id = id

\* The change that an acceptance brought about has reached the server, is on its
\* way from a page, or is lost with one.
Landed(f) ==
    \E c \in knows[Server] \cup lost \cup UNION {ToSet(sent[g]) : g \in Pages} :
        /\ c.is = "change" /\ c.about = f.about /\ c.by = f.by /\ c.life = f.life
        /\ c.added # {} \/ c.removed # {}

\* What is on record as accepted has changed the text: wherever it is known, the
\* change has reached the server, or is on its way from the page that accepted
\* it, unless that page was closed first.
AcceptedLanded ==
    \A r \in Replicas : \A f \in Facts(knows[r], "decision") :
        f.status = "accepted" => Landed(f)

\* What the records tell those who review a text is what happened to it.
RecordsAreTrue == DroppedWasTaken /\ AcceptedLanded
=============================================================================
