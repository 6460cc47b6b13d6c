--------------------------- MODULE Claims_proofs ---------------------------
(***************************************************************************)
(* What holds of Claims for every project, workflow, number of actors and  *)
(* clock skew, proved from the assumptions TicketRules and Claims name.    *)
(*                                                                         *)
(* The argument is one inductive invariant, Inv.  OnlyHolderMoves and      *)
(* LeaseShape speak of leases read through the clock; a request may carry  *)
(* a clock reading older than its commit and so act on a lease the present *)
(* calls expired.  Inv therefore speaks of the recorded holder, whatever   *)
(* the time: as long as the columns name somebody, nobody else has moved   *)
(* the ticket.  Whoever moves it under an expired claim clears it first.   *)
(***************************************************************************)
EXTENDS Claims, TLAPS

\* No state the workflow calls done or cancelled lets a ticket go on: true of
\* both shipped workflows, not demanded by Workflow::validate.
FinishedIsFinal == EndStates \subseteq Terminal

\* What every row keeps to: its type, the agreement of its claim columns, that
\* only the recorded holder has moved it, and that it ended without a holder.
GoodRow(t, tk, mv) ==
    /\ tk \in Row
    /\ tk.holder = NoOne => tk.expires = Never
    /\ tk.holder # NoOne => tk.lapsed = NoOne
    /\ tk.holder # NoOne /\ tk.expires = Never => t \in Epics
    /\ tk.holder # NoOne => mv \subseteq {tk.holder}
    /\ FinishedIsFinal /\ tk.state \in EndStates => tk.holder = NoOne

\* The columns no claim rule writes.
OtherColumns ==
    /\ parent \in [Tickets -> Tickets \cup {NoTicket}]
    /\ deps \in [Tickets -> SUBSET Tickets]
    /\ linked \subseteq Tickets
    /\ archived \subseteq Tickets
    /\ frozen \in BOOLEAN
    /\ now \in Nat

Movers == SUBSET (Actors \cup {System})

Inv == TypeOK /\ \A t \in Tickets : GoodRow(t, tickets[t], movers[t])

-----------------------------------------------------------------------------
(* The row operators keep a good row good. *)

\* Clearing an expired claim.
LEMMA ClearedRowIsGood ==
    ASSUME NEW t \in Tickets, NEW tk, NEW mv, NEW at \in Nat, GoodRow(t, tk, mv)
    PROVE  /\ GoodRow(t, ClearExpired(tk, at), mv)
           /\ ClearExpired(tk, at).state = tk.state
           /\ ClearExpired(tk, at).holder # NoOne =>
                 ClearExpired(tk, at) = tk /\ Active(tk, at)
BY CallerAssumption
   DEF GoodRow, ClearExpired, Expired, TimeUp, Active, Dropped, Row

\* A grant writes a row.
LEMMA GrantedTyped ==
    ASSUME NEW tk \in Row, NEW a \in Actors, NEW until \in Nat \cup {Never}
    PROVE  Granted(tk, a, until) \in Row
<1>1. tk.fence + 1 \in Nat
  BY DEF Row
<1>2. [tk EXCEPT !.fence = @ + 1] \in Row
  BY <1>1 DEF Row
<1>3. [tk EXCEPT !.fence = @ + 1, !.holder = a] \in Row
  BY <1>2 DEF Row
<1>4. [tk EXCEPT !.fence = @ + 1, !.holder = a, !.expires = until] \in Row
  BY <1>3 DEF Row
<1> QED BY <1>4 DEF Granted, Row

\* Taking a lease: nobody has moved the ticket under it yet, or only its holder.
LEMMA GrantedRowIsGood ==
    ASSUME NEW t \in Tickets, NEW tk \in Row, NEW a \in Actors,
           NEW until \in Nat \cup {Never}, until = Never => t \in Epics,
           NEW mv \in SUBSET {a}, FinishedIsFinal => tk.state \notin EndStates
    PROVE  GoodRow(t, Granted(tk, a, until), mv) /\ Granted(tk, a, until).state = tk.state
<1> DEFINE new == Granted(tk, a, until)
<1>1. /\ new.state = tk.state /\ new.holder = a /\ new.expires = until
      /\ new.lapsed = NoOne /\ new.fence = tk.fence + 1
  BY DEF Granted, Row
<1>2. new \in Row
  BY GrantedTyped
<1> QED BY <1>1, <1>2, CallerAssumption DEF GoodRow

\* Letting go of a lease, with or without raising the fence.
LEMMA DroppedRowIsGood ==
    ASSUME NEW t \in Tickets, NEW tk, NEW mv, NEW old, GoodRow(t, tk, old)
    PROVE  /\ GoodRow(t, Dropped(tk), mv)
           /\ GoodRow(t, Released(tk), mv)
           /\ GoodRow(t, Revoked(tk), mv)
<1>1. tk \in Row
  BY DEF GoodRow
<1>2. \A new \in Row : new.holder = NoOne /\ new.expires = Never => GoodRow(t, new, mv)
  BY DEF GoodRow
<1>3. Dropped(tk) \in Row /\ Dropped(tk).holder = NoOne /\ Dropped(tk).expires = Never
  BY <1>1 DEF Dropped, Row
<1>4. Released(tk) \in Row /\ Released(tk).holder = NoOne /\ Released(tk).expires = Never
  BY <1>3 DEF Released, Row
<1>5. Revoked(tk) \in Row /\ Revoked(tk).holder = NoOne /\ Revoked(tk).expires = Never
  BY <1>4 DEF Revoked, Row
<1> QED BY <1>2, <1>3, <1>4, <1>5

\* A new expiry for the recorded holder.
LEMMA ExtendedRowIsGood ==
    ASSUME NEW t \in Tickets, NEW tk, NEW mv, GoodRow(t, tk, mv), tk.holder # NoOne,
           NEW until \in Nat \cup {Never}, until = Never => t \in Epics
    PROVE  GoodRow(t, [tk EXCEPT !.expires = until], mv)
BY CallerAssumption DEF GoodRow, Row

\* A move by its holder, or one that ends the claim.
LEMMA MovedRowIsGood ==
    ASSUME NEW t \in Tickets, NEW row, NEW mv, GoodRow(t, row, mv), NEW a \in Actors,
           NEW to \in States, NEW echo, NEW at \in Nat, NEW guards,
           row.holder # NoOne => Active(row, at),
           MayMove(row, to, a, Scopes[a], echo, FALSE, guards, at)
    PROVE  /\ GoodRow(t, Moved(row, to, Scopes[a], FALSE), mv \cup {a})
           /\ Moved(row, to, Scopes[a], FALSE).state = to
           /\ to \in EndStates => Moved(row, to, Scopes[a], FALSE).holder = NoOne
<1> DEFINE ends == HumanAuthoritative(row.state, to, Scopes[a]) \/ to \in EndStates
           new == Moved(row, to, Scopes[a], FALSE)
<1>1. CASE ends
  <2>1. new = [Dropped(row) EXCEPT !.state = to]
    BY <1>1 DEF Moved
  <2>2. GoodRow(t, Dropped(row), mv) /\ Dropped(row).holder = NoOne
    BY DroppedRowIsGood DEF Dropped, GoodRow, Row
  <2> QED BY <2>1, <2>2 DEF GoodRow, Row
<1>2. CASE ~ends
  <2>1. new = [row EXCEPT !.state = to]
    BY <1>2 DEF Moved
  <2>2. row.holder # NoOne => row.holder = a
    BY <1>2 DEF MayMove, FenceAccepted
  <2>3. new \in Row /\ new.state = to /\ to \notin EndStates
    BY <2>1, <1>2 DEF GoodRow, Row
  <2>4. new.holder = row.holder /\ new.expires = row.expires /\ new.lapsed = row.lapsed
    BY <2>1 DEF GoodRow, Row
  <2>5. GoodRow(t, new, mv \cup {a})
    BY <2>2, <2>3, <2>4 DEF GoodRow
  <2> QED BY <2>3, <2>5
<1> QED BY <1>1, <1>2

-----------------------------------------------------------------------------
(* Steps that write one row, or every row. *)

\* The other rows stay good when one is written and nothing else is ill-typed.
LEMMA OneRowWritten ==
    ASSUME Inv, NEW t \in Tickets, NEW new, NEW mv \in Movers, GoodRow(t, new, mv),
           tickets' = [tickets EXCEPT ![t] = new],
           movers' = [movers EXCEPT ![t] = mv],
           OtherColumns'
    PROVE  Inv'
<1>1. new \in Row
  BY DEF GoodRow
<1>2. TypeOK'
  BY <1>1 DEF Inv, TypeOK, OtherColumns, Movers
<1>3. ASSUME NEW u \in Tickets PROVE GoodRow(u, tickets'[u], movers'[u])
  <2>1. CASE u = t
    <3>1. tickets'[u] = new /\ movers'[u] = mv
      BY <2>1 DEF Inv, TypeOK
    <3> QED BY <2>1, <3>1
  <2>2. CASE u # t
    <3>1. tickets'[u] = tickets[u] /\ movers'[u] = movers[u]
      BY <2>2 DEF Inv, TypeOK
    <3> QED BY <3>1 DEF Inv
  <2> QED BY <2>1, <2>2
<1> QED BY <1>2, <1>3 DEF Inv, GoodRow

\* The same for a step that leaves the history of moves alone.
LEMMA OneRowUnmoved ==
    ASSUME Inv, NEW t \in Tickets, NEW new, GoodRow(t, new, movers[t]),
           tickets' = [tickets EXCEPT ![t] = new], UNCHANGED movers, OtherColumns'
    PROVE  Inv'
<1>1. movers[t] \in Movers /\ movers' = [movers EXCEPT ![t] = movers[t]]
  BY DEF Inv, TypeOK, Movers
<1> QED BY <1>1, OneRowWritten

\* A pass over the whole table.
LEMMA EveryRowWritten ==
    ASSUME Inv, tickets' \in [Tickets -> Row], UNCHANGED movers, OtherColumns',
           \A t \in Tickets : GoodRow(t, tickets'[t], movers[t])
    PROVE  Inv'
<1>1. TypeOK'
  BY DEF Inv, TypeOK, OtherColumns, Movers
<1> QED BY <1>1 DEF Inv, GoodRow

-----------------------------------------------------------------------------
(* One lemma per kind of step. *)

\* What Inv says of one row and of the columns beside it.
LEMMA InvOfRow ==
    ASSUME Inv, NEW t \in Tickets
    PROVE  /\ tickets[t] \in Row
           /\ movers[t] \in Movers
           /\ GoodRow(t, tickets[t], movers[t])
           /\ OtherColumns
BY DEF Inv, TypeOK, Movers, OtherColumns

\* A clock reading is an instant not in the future.
LEMMA SampledIsPast ==
    ASSUME Inv, NEW at \in Sampled
    PROVE  at \in Nat /\ at <= now
BY DEF Inv, TypeOK, Sampled

\* The state a lease can be taken in is not one that ended the ticket.
LEMMA ClaimedStateGoesOn ==
    ASSUME NEW t \in Tickets, NEW a \in Actors, NEW at, ClaimGates(t, a, at)
    PROVE  FinishedIsFinal => tickets[t].state \notin EndStates
BY WorkflowAssumption DEF ClaimGates, MayResume, FinishedIsFinal

\* Until yields an expiry the row may carry.
LEMMA UntilIsTyped ==
    ASSUME NEW t, NEW ttl \in TTLsFor(t), NEW at \in Nat
    PROVE  /\ Until(ttl, at) \in Nat \cup {Never}
           /\ Until(ttl, at) = Never => t \in Epics
BY BoundAssumption, CallerAssumption DEF TTLsFor, Until

\* The row a grant writes.
LEMMA GrantRowIsGood ==
    ASSUME Inv, NEW t \in Tickets, NEW a \in Actors, NEW ttl \in TTLsFor(t), NEW at \in Nat,
           FinishedIsFinal => tickets[t].state \notin EndStates, NEW mv \in SUBSET {a}
    PROVE  /\ GoodRow(t, GrantRow(t, a, ttl, at), mv)
           /\ GrantRow(t, a, ttl, at).state = tickets[t].state
<1>1. /\ ClearExpired(tickets[t], at) \in Row
      /\ ClearExpired(tickets[t], at).state = tickets[t].state
  BY InvOfRow, ClearedRowIsGood DEF GoodRow
<1>2. /\ Until(ttl, at) \in Nat \cup {Never}
      /\ Until(ttl, at) = Never => t \in Epics
  BY UntilIsTyped
<1> QED BY <1>1, <1>2, GrantedRowIsGood DEF GrantRow

\* Claiming, by id or from the queue.
LEMMA GrantKeepsInv ==
    ASSUME Inv, NEW t \in Tickets, NEW a \in Actors, NEW ttl \in TTLsFor(t), NEW at \in Nat,
           FinishedIsFinal => tickets[t].state \notin EndStates,
           GrantTo(t, a, ttl, at), UNCHANGED <<tree, archived, frozen, now>>
    PROVE  Inv'
<1>1. GoodRow(t, GrantRow(t, a, ttl, at), {})
  BY GrantRowIsGood
<1>2. OtherColumns'
  BY InvOfRow DEF OtherColumns, tree
<1> QED BY <1>1, <1>2, OneRowWritten DEF GrantTo, Movers

\* Renewing and beating: a new expiry for a lease the caller holds.
LEMMA ExtendKeepsInv ==
    ASSUME Inv, NEW t \in Tickets, NEW a \in Actors, NEW at, HeldBy(tickets[t], a, at),
           NEW until \in Nat \cup {Never}, until = Never => t \in Epics,
           tickets' = [tickets EXCEPT ![t].expires = until],
           UNCHANGED <<tree, archived, frozen, now, movers>>
    PROVE  Inv'
<1>1. tickets[t].holder # NoOne
  BY DEF HeldBy, Active
<1>2. GoodRow(t, [tickets[t] EXCEPT !.expires = until], movers[t])
  BY <1>1, InvOfRow, ExtendedRowIsGood
<1>3. OtherColumns'
  BY InvOfRow DEF OtherColumns, tree
<1>4. tickets' = [tickets EXCEPT ![t] = [tickets[t] EXCEPT !.expires = until]]
  OBVIOUS
<1> QED BY <1>2, <1>3, <1>4, OneRowUnmoved

\* Releasing and force-releasing.
LEMMA LetGoKeepsInv ==
    ASSUME Inv, NEW t \in Tickets,
           \/ tickets' = [tickets EXCEPT ![t] = Released(@)]
           \/ tickets' = [tickets EXCEPT ![t] = Revoked(@)],
           UNCHANGED <<tree, archived, frozen, now, movers>>
    PROVE  Inv'
<1>1. GoodRow(t, Released(tickets[t]), movers[t]) /\ GoodRow(t, Revoked(tickets[t]), movers[t])
  BY InvOfRow, DroppedRowIsGood
<1>2. OtherColumns'
  BY InvOfRow DEF OtherColumns, tree
<1>3. CASE tickets' = [tickets EXCEPT ![t] = Released(tickets[t])]
  BY <1>1, <1>2, <1>3, OneRowUnmoved
<1>4. CASE tickets' = [tickets EXCEPT ![t] = Revoked(tickets[t])]
  BY <1>1, <1>2, <1>4, OneRowUnmoved
<1> QED BY <1>3, <1>4

\* The sweeper's pass.
LEMMA SweepKeepsInv ==
    ASSUME Inv, NEW at \in Nat, Sweep(at)
    PROVE  Inv'
<1>1. \A t \in Tickets : GoodRow(t, ClearExpired(tickets[t], at), movers[t])
  BY InvOfRow, ClearedRowIsGood
<1>2. CASE Tickets = {}
  BY <1>2 DEF Sweep
<1>3. CASE Tickets # {}
  <2>1. OtherColumns'
    BY <1>3, InvOfRow DEF Sweep, OtherColumns, tree
  <2>2. /\ \A t \in Tickets : tickets'[t] = ClearExpired(tickets[t], at)
        /\ tickets' \in [Tickets -> Row]
    BY <1>1 DEF Sweep, GoodRow
  <2> QED BY <1>1, <2>1, <2>2, EveryRowWritten DEF Sweep
<1> QED BY <1>2, <1>3

\* A transition by the holder, or with the authority to overrule it.
LEMMA TransitionKeepsInv ==
    ASSUME Inv, NEW t \in Tickets, NEW a \in Actors, NEW to \in States, NEW echo,
           NEW at \in Nat, Transition(a, t, to, echo, at)
    PROVE  Inv'
<1> DEFINE row == ClearExpired(tickets[t], at)
<1>1. GoodRow(t, row, movers[t]) /\ (row.holder # NoOne => Active(row, at))
  BY InvOfRow, ClearedRowIsGood
<1>2. MayMove(row, to, a, Scopes[a], echo, FALSE, GuardsHolding(t), at)
  BY DEF Transition
<1> HIDE DEF row
<1>3. GoodRow(t, Moved(row, to, Scopes[a], FALSE), movers[t] \cup {a})
  BY <1>1, <1>2, MovedRowIsGood
<1>4. /\ tickets' = [tickets EXCEPT ![t] = Moved(row, to, Scopes[a], FALSE)]
      /\ movers' = [movers EXCEPT ![t] = movers[t] \cup {a}]
      /\ UNCHANGED <<tree, archived, frozen, now>>
  BY DEF Transition, MoveTo, row
<1>5. movers[t] \cup {a} \in Movers
  BY InvOfRow DEF Movers
<1>6. OtherColumns'
  BY <1>4, InvOfRow DEF OtherColumns, tree
<1> QED BY <1>3, <1>4, <1>5, <1>6, OneRowWritten

\* Claim and move in one transaction: the row between the two is a fresh grant.
LEMMA StartKeepsInv ==
    ASSUME Inv, NEW t \in Tickets, NEW a \in Actors, NEW to \in States,
           NEW ttl \in TTLsFor(t), NEW at \in Nat, Start(a, t, to, ttl, at)
    PROVE  Inv'
<1> DEFINE row == GrantRow(t, a, ttl, at)
<1>1. GoodRow(t, row, {}) /\ row.holder = a /\ row.expires = Until(ttl, at)
  <2>1. FinishedIsFinal => tickets[t].state \notin EndStates
    BY ClaimedStateGoesOn DEF Start
  <2>2. GoodRow(t, row, {})
    BY <2>1, GrantRowIsGood
  <2>3. ClearExpired(tickets[t], at) \in Row
    BY InvOfRow, ClearedRowIsGood DEF GoodRow
  <2> QED BY <2>2, <2>3 DEF GrantRow, Granted, Row
<1>2. Active(row, at)
  <2>1. ttl \in TTLs => ttl \in Nat \ {0}
    BY BoundAssumption
  <2>2. ~TimeUp(row, at)
    BY <1>1, <2>1 DEF TimeUp, Until, TTLsFor
  <2> QED BY <1>1, <2>2, CallerAssumption DEF Active
<1>3. MayMove(row, to, a, Scopes[a], row.fence, FALSE, GuardsHolding(t), at)
  BY DEF Start
<1>4. /\ tickets' = [tickets EXCEPT ![t] = Moved(row, to, Scopes[a], FALSE)]
      /\ movers' = [movers EXCEPT ![t] = {a}]
      /\ UNCHANGED <<tree, archived, frozen, now>>
  BY DEF Start, MoveTo
<1> HIDE DEF row
<1>5. GoodRow(t, Moved(row, to, Scopes[a], FALSE), {} \cup {a})
  BY <1>1, <1>2, <1>3, MovedRowIsGood
<1>6. OtherColumns'
  BY <1>4, InvOfRow DEF OtherColumns, tree
<1>7. {} \cup {a} = {a} /\ {a} \in Movers
  BY DEF Movers
<1> QED BY <1>4, <1>5, <1>6, <1>7, OneRowWritten

\* PATCH clears an expired claim and writes beside the row, not into it.
LEMMA PatchKeepsInv ==
    ASSUME Inv, NEW t \in Tickets, NEW a, NEW echo, NEW at \in Nat,
           PatchRow(t, a, echo, at), UNCHANGED movers, OtherColumns'
    PROVE  Inv'
<1>1. GoodRow(t, ClearExpired(tickets[t], at), movers[t])
  BY InvOfRow, ClearedRowIsGood
<1>2. tickets' = [tickets EXCEPT ![t] = ClearExpired(tickets[t], at)]
  BY DEF PatchRow
<1> QED BY <1>1, <1>2, OneRowUnmoved

\* Archiving the project revokes what is active.
LEMMA ArchiveProjectKeepsInv ==
    ASSUME Inv, NEW a, NEW force, NEW at \in Nat, ArchiveProject(a, force, at)
    PROVE  Inv'
<1> DEFINE new == [t \in Tickets |->
              IF Active(tickets[t], at) THEN Revoked(tickets[t]) ELSE tickets[t]]
<1>1. tickets' = new /\ frozen' = TRUE /\ UNCHANGED <<tree, archived, now, movers>>
  BY DEF ArchiveProject
<1>2. \A t \in Tickets : GoodRow(t, new[t], movers[t])
  BY InvOfRow, DroppedRowIsGood
<1>3. new \in [Tickets -> Row]
  BY <1>2 DEF GoodRow
<1>4. OtherColumns'
  BY <1>1 DEF Inv, TypeOK, OtherColumns, tree
<1> HIDE DEF new
<1> QED BY <1>1, <1>2, <1>3, <1>4, EveryRowWritten

\* A step that leaves the rows and their history alone.
LEMMA RowsUntouched ==
    ASSUME Inv, UNCHANGED <<tickets, movers>>, OtherColumns'
    PROVE  Inv'
BY DEF Inv, TypeOK, OtherColumns, GoodRow

-----------------------------------------------------------------------------
(* The invariant. *)

LEMMA InitInv == Init => Inv
<1> SUFFICES ASSUME Init PROVE Inv
  OBVIOUS
<1>1. TypeOK
  BY TreeAssumption DEF Init, TypeOK, Row
<1>2. ASSUME NEW t \in Tickets PROVE GoodRow(t, tickets[t], movers[t])
  BY <1>1 DEF TypeOK, Init, GoodRow
<1> QED BY <1>1, <1>2 DEF Inv

LEMMA StepKeepsInv == Inv /\ [Next]_vars => Inv'
<1> SUFFICES ASSUME Inv, [Next]_vars PROVE Inv'
  OBVIOUS
<1> USE SampledIsPast
<1>1. ASSUME NEW at \in Sampled, LeaseStep(at) PROVE Inv'
  <2>1. ASSUME NEW a \in Actors, NEW t \in Tickets, NEW ttl \in TTLsFor(t), Claim(a, t, ttl, at)
        PROVE  Inv'
    BY <2>1, ClaimedStateGoesOn, GrantKeepsInv DEF Claim
  <2>2. ASSUME NEW a \in Actors, NEW t \in Tickets, NEW ttl \in TTLsFor(t), Renew(a, t, ttl, at)
        PROVE  Inv'
    BY <2>2, UntilIsTyped, ExtendKeepsInv DEF Renew
  <2>3. ASSUME NEW a \in Actors, NEW t \in Tickets, NEW ttl \in TTLs, NEW echo \in Echoes,
               Heartbeat(a, t, echo, ttl, at)
        PROVE  Inv'
    <3>1. at + ttl \in Nat
      BY BoundAssumption
    <3>2. at + ttl # Never
      BY <3>1, CallerAssumption
    <3> QED BY <2>3, <3>1, <3>2, ExtendKeepsInv DEF Heartbeat
  <2>4. ASSUME NEW a \in Actors, NEW t \in Tickets, NEW echo \in Echoes, Release(a, t, echo, at)
        PROVE  Inv'
    BY <2>4, LetGoKeepsInv DEF Release
  <2> QED BY <1>1, <2>1, <2>2, <2>3, <2>4 DEF LeaseStep
<1>2. ASSUME NEW at \in Sampled, MoveStep(at) PROVE Inv'
  BY <1>2, TransitionKeepsInv, StartKeepsInv DEF MoveStep
<1>3. ASSUME NEW at \in Sampled, PatchStep(at) PROVE Inv'
  <2>1. ASSUME NEW a \in Actors, NEW echo \in Echoes, NEW pair \in ReparentTo,
               Reparent(a, pair[1], pair[2], echo, at)
        PROVE  Inv'
    <3>1. pair[1] \in Tickets /\ pair[2] \in Tickets \cup {NoTicket}
      BY TreeAssumption
    <3>2. OtherColumns'
      BY <2>1, <3>1 DEF Reparent, PatchRow, Inv, TypeOK, OtherColumns
    <3> QED BY <2>1, <3>1, <3>2, PatchKeepsInv DEF Reparent
  <2>2. ASSUME NEW a \in Actors, NEW echo \in Echoes, NEW pair \in DepEdges,
               AddDep(a, pair[1], pair[2], echo, at) \/ RemoveDep(a, pair[1], pair[2], echo, at)
        PROVE  Inv'
    <3>1. pair[1] \in Tickets /\ pair[2] \in Tickets
      BY TreeAssumption
    <3>2. OtherColumns'
      BY <2>2, <3>1 DEF AddDep, RemoveDep, Inv, TypeOK, OtherColumns
    <3> QED BY <2>2, <3>2, RowsUntouched DEF AddDep, RemoveDep
  <2>3. ASSUME NEW a \in Actors, NEW echo \in Echoes, NEW t \in LinkWriters,
               PatchLink(a, t, echo, at)
        PROVE  Inv'
    <3>1. t \in Tickets
      BY TreeAssumption
    <3>2. OtherColumns'
      BY <2>3, <3>1 DEF PatchLink, PatchRow, Inv, TypeOK, OtherColumns
    <3> QED BY <2>3, <3>1, <3>2, PatchKeepsInv DEF PatchLink
  <2> QED BY <1>3, <2>1, <2>2, <2>3 DEF PatchStep
<1>4. ASSUME NEW a \in Actors, NEW F, NEW ttl \in TTLs, NEW at \in Sampled,
             ReadyClaim(a, F, ttl, at)
      PROVE  Inv'
  <2>1. PICK t \in Ready(at) : GrantTo(t, a, ttl, at) /\ UNCHANGED <<tree, archived, frozen, now>>
    BY <1>4 DEF ReadyClaim
  <2>2. t \in Tickets /\ tickets[t].state \in Claimable
    BY DEF Ready
  <2>3. tickets[t].state \notin EndStates
    BY <2>2, WorkflowAssumption
  <2>4. ttl \in TTLsFor(t)
    BY DEF TTLsFor
  <2> QED BY <2>1, <2>2, <2>3, <2>4, GrantKeepsInv
<1>5. ASSUME NEW at \in Sampled, Sweep(at) PROVE Inv'
  BY <1>5, SweepKeepsInv
<1>6. ASSUME NEW a \in Actors, NEW force \in BOOLEAN, NEW at \in Sampled,
             ArchiveProject(a, force, at)
      PROVE  Inv'
  BY <1>6, ArchiveProjectKeepsInv
<1>7. ASSUME NEW a \in Actors, NEW t \in Tickets, ForceRelease(a, t) PROVE Inv'
  BY <1>7, LetGoKeepsInv DEF ForceRelease
<1>8. ASSUME NEW t \in Archivable, ArchiveTicket(t) \/ UnarchiveTicket(t) PROVE Inv'
  <2>1. t \in Tickets
    BY TreeAssumption
  <2>2. OtherColumns' /\ UNCHANGED <<tickets, movers>>
    BY <1>8, <2>1 DEF ArchiveTicket, UnarchiveTicket, Inv, TypeOK, OtherColumns, tree
  <2> QED BY <2>2, RowsUntouched
<1>9. ASSUME NEW a \in Actors, UnarchiveProject(a) PROVE Inv'
  <2>1. OtherColumns' /\ UNCHANGED <<tickets, movers>>
    BY <1>9 DEF UnarchiveProject, Inv, TypeOK, OtherColumns, tree
  <2> QED BY <2>1, RowsUntouched
<1>10. CASE Tick
  <2>1. OtherColumns' /\ UNCHANGED <<tickets, movers>>
    BY <1>10 DEF Tick, Inv, TypeOK, OtherColumns, tree
  <2> QED BY <2>1, RowsUntouched
<1>11. CASE UNCHANGED vars
  <2>1. OtherColumns' /\ UNCHANGED <<tickets, movers>>
    BY <1>11 DEF vars, Inv, TypeOK, OtherColumns
  <2> QED BY <2>1, RowsUntouched
<1> QED
  BY <1>1, <1>2, <1>3, <1>4, <1>5, <1>6, <1>7, <1>8, <1>9, <1>10, <1>11 DEF Next

THEOREM InvHolds == Spec => []Inv
<1>1. Init => Inv
  BY InitInv
<1>2. Inv /\ [Next]_vars => Inv'
  BY StepKeepsInv
<1> QED BY <1>1, <1>2, PTL DEF Spec

-----------------------------------------------------------------------------
(* What it establishes. *)

\* The store never writes a claim column outside its type: every grant, move,
\* sweep and revocation of claims.rs and transition.rs, for any workflow that
\* Workflow::validate accepts.
THEOREM TypeCorrect == Spec => []TypeOK
<1>1. Inv => TypeOK
  BY DEF Inv
<1> QED BY <1>1, InvHolds, PTL

\* The claim columns never contradict each other, and only an epic is ever held
\* without an expiry (clamp_ttl_for, heartbeat, clear_expired_claim).
THEOREM LeaseShapeHolds == Spec => []LeaseShape
<1>1. Inv => LeaseShape
  BY DEF Inv, GoodRow, LeaseShape
<1> QED BY <1>1, InvHolds, PTL

\* Exclusive claimant: under an active lease nobody else has moved the ticket,
\* for any number of actors and however old the clock a request had read.
THEOREM OnlyHolderMovesHolds == Spec => []OnlyHolderMoves
<1>1. Inv => OnlyHolderMoves
  BY DEF Inv, GoodRow, OnlyHolderMoves, Active
<1> QED BY <1>1, InvHolds, PTL

\* In a workflow whose done and cancelled states are terminal, a ticket in one
\* of them is never held.  The hypothesis is needed: a lease that lapsed can be
\* resumed in a done state the workflow lets a ticket leave.
THEOREM EndedUnheldHolds ==
    ASSUME FinishedIsFinal
    PROVE  Spec => []EndedUnheld
<1>1. Inv => EndedUnheld
  BY DEF Inv, GoodRow, EndedUnheld
<1> QED BY <1>1, InvHolds, PTL

\* The queue's predicate implies every gate of a claim, read at the same instant.
LEMMA ReadyIsClaimable ==
    ASSUME NEW at, NEW t \in Ready(at), NEW a
    PROVE  ~frozen /\ ClaimGates(t, a, at)
<1>1. /\ t \in Tickets /\ ~frozen /\ tickets[t].state \in Claimable
      /\ t \notin Blocked(at)
      /\ t \in Epics => t \notin AboveClaimed(at)
      /\ tickets[t].holder = NoOne \/ Expired(tickets[t], at)
  BY DEF Ready
<1>2. ~Active(tickets[t], at)
  BY <1>1 DEF Expired, Active
<1>3. \A n \in {t} \cup Above(t) : ~HeldEpic(n, at) /\ \A b \in deps[n] : ~Open(b)
  BY <1>1 DEF Blocked
<1>4. ForeignEpicsAbove(t, a, at) = {}
  BY <1>3 DEF ForeignEpicsAbove, HeldEpic, HeldByOther
<1>5. OpenBlockers(t) = {}
  BY <1>3 DEF OpenBlockers
<1>6. ASSUME t \in Epics PROVE ForeignClaimsBelow(t, a, at) = {}
  <2> SUFFICES ASSUME NEW d \in Below(t), HeldByOther(tickets[d], a, at) PROVE FALSE
    BY DEF ForeignClaimsBelow
  <2>1. d \in Tickets /\ t \in Above(d) /\ Active(tickets[d], at)
    BY DEF Below, HeldByOther
  <2>2. t \in AboveClaimed(at)
    BY <2>1 DEF AboveClaimed
  <2> QED BY <1>1, <1>6, <2>2
<1> QED BY <1>1, <1>2, <1>4, <1>5, <1>6 DEF ClaimGates

\* The queue never offers what claim-by-id would refuse: the predicates of
\* ready_sql.rs imply the gates of claim_ticket_tx, in any state whatever.
THEOREM QueueIsHonestHolds == Spec => []QueueIsHonest
<1>1. QueueIsHonest
  BY ReadyIsClaimable DEF QueueIsHonest
<1> QED BY <1>1, PTL

-----------------------------------------------------------------------------
(* Archived projects. *)

\* Only a lease's end, an unarchiving or the clock touches an archived project's
\* rows; everything else asks ensure_project_writable first.
LEMMA FrozenSteps ==
    ASSUME [Next]_vars, frozen
    PROVE  \/ \E at \in Sampled : Sweep(at)
           \/ \E at \in Sampled, a \in Actors, t \in Tickets, echo \in Echoes : Release(a, t, echo, at)
           \/ \E a \in Actors, t \in Tickets : ForceRelease(a, t)
           \/ Tick
           \/ \E a \in Actors : UnarchiveProject(a)
           \/ UNCHANGED vars
<1>1. ASSUME NEW at \in Sampled, LeaseStep(at)
      PROVE  \E a \in Actors, t \in Tickets, echo \in Echoes : Release(a, t, echo, at)
  BY <1>1 DEF LeaseStep, Claim, Renew, Heartbeat
<1>2. ASSUME NEW at \in Sampled, MoveStep(at) PROVE FALSE
  BY <1>2 DEF MoveStep, Transition, Start
<1>3. ASSUME NEW at \in Sampled, PatchStep(at) PROVE FALSE
  BY <1>3 DEF PatchStep, Reparent, AddDep, RemoveDep, PatchLink, PatchRow
<1>4. ASSUME NEW at \in Sampled, NEW a, NEW F, NEW ttl, ReadyClaim(a, F, ttl, at) PROVE FALSE
  BY <1>4 DEF ReadyClaim, Ready
<1>5. ASSUME NEW at, NEW a, NEW force, ArchiveProject(a, force, at) PROVE FALSE
  BY <1>5 DEF ArchiveProject
<1>6. ASSUME NEW t, ArchiveTicket(t) \/ UnarchiveTicket(t) PROVE FALSE
  BY <1>6 DEF ArchiveTicket, UnarchiveTicket
<1> QED BY <1>1, <1>2, <1>3, <1>4, <1>5, <1>6 DEF Next

\* Time never brings a lease back.
LEMMA TimeOnlyEnds ==
    ASSUME NEW tk \in Row, NEW early \in Nat, NEW late \in Nat, early <= late, Active(tk, late)
    PROVE  Active(tk, early)
BY CallerAssumption DEF Active, TimeUp, Row

LEMMA StepKeepsFrozenUnheld ==
    ASSUME Inv, FrozenUnheld, [Next]_vars
    PROVE  FrozenUnheld'
<1> SUFFICES ASSUME frozen', NEW t \in Tickets, Active(tickets'[t], now') PROVE FALSE
  BY DEF FrozenUnheld
<1>1. tickets[t] \in Row /\ now \in Nat
  BY DEF Inv, TypeOK
<1>2. CASE frozen
  <2>1. ~Active(tickets[t], now)
    BY <1>2 DEF FrozenUnheld
  <2>2. ASSUME NEW at \in Sampled, Sweep(at) PROVE FALSE
    <3>1. tickets'[t] = ClearExpired(tickets[t], at) /\ now' = now
      BY <2>2 DEF Sweep
    <3>2. tickets'[t] = tickets[t] \/ tickets'[t].holder = NoOne
      BY <3>1, <1>1 DEF ClearExpired, Dropped, Row
    <3> QED BY <2>1, <3>1, <3>2 DEF Active
  <2>3. ASSUME NEW u \in Tickets, UNCHANGED now,
               \/ tickets' = [tickets EXCEPT ![u] = Released(@)]
               \/ tickets' = [tickets EXCEPT ![u] = Revoked(@)]
        PROVE  FALSE
    <3>1. tickets'[t] = tickets[t] \/ tickets'[t] = Released(tickets[t])
             \/ tickets'[t] = Revoked(tickets[t])
      BY <2>3 DEF Inv, TypeOK
    <3>2. Released(tickets[t]).holder = NoOne /\ Revoked(tickets[t]).holder = NoOne
      BY <1>1 DEF Released, Revoked, Dropped, Row
    <3> QED BY <2>1, <2>3, <3>1, <3>2 DEF Active
  <2>4. CASE Tick
    BY <2>1, <2>4, <1>1, TimeOnlyEnds DEF Tick
  <2>5. CASE \E a \in Actors : UnarchiveProject(a)
    BY <2>5 DEF UnarchiveProject
  <2>6. CASE UNCHANGED vars
    BY <2>1, <2>6 DEF vars
  <2> QED BY <1>2, <2>2, <2>3, <2>4, <2>5, <2>6, FrozenSteps DEF Release, ForceRelease
<1>3. CASE ~frozen
  <2>1. PICK a \in Actors, force \in BOOLEAN, at \in Sampled : ArchiveProject(a, force, at)
    <3>1. frozen' # frozen
      BY <1>3
    <3>2. ASSUME NEW at \in Sampled, LeaseStep(at) PROVE FALSE
      BY <3>1, <3>2 DEF LeaseStep, Claim, Renew, Heartbeat, Release
    <3>3. ASSUME NEW at \in Sampled, MoveStep(at) PROVE FALSE
      BY <3>1, <3>3 DEF MoveStep, Transition, Start, MoveTo
    <3>4. ASSUME NEW at \in Sampled, PatchStep(at) PROVE FALSE
      BY <3>1, <3>4 DEF PatchStep, Reparent, AddDep, RemoveDep, PatchLink
    <3>5. ASSUME NEW at \in Sampled, NEW a, NEW F, NEW ttl, ReadyClaim(a, F, ttl, at) PROVE FALSE
      BY <3>1, <3>5 DEF ReadyClaim
    <3>6. ASSUME NEW at, Sweep(at) PROVE FALSE
      BY <3>1, <3>6 DEF Sweep
    <3>7. ASSUME NEW a, NEW u, ForceRelease(a, u) PROVE FALSE
      BY <3>1, <3>7 DEF ForceRelease
    <3>8. ASSUME NEW u, ArchiveTicket(u) \/ UnarchiveTicket(u) PROVE FALSE
      BY <3>1, <3>8 DEF ArchiveTicket, UnarchiveTicket
    <3>9. ASSUME NEW a, UnarchiveProject(a) PROVE FALSE
      BY <1>3, <3>9 DEF UnarchiveProject
    <3>10. ~Tick /\ ~UNCHANGED vars
      BY <3>1 DEF Tick, vars
    <3> QED
      BY <3>2, <3>3, <3>4, <3>5, <3>6, <3>7, <3>8, <3>9, <3>10 DEF Next
  <2>2. at \in Nat /\ at <= now
    BY SampledIsPast
  <2>3. /\ now' = now
        /\ tickets'[t] = IF Active(tickets[t], at) THEN Revoked(tickets[t]) ELSE tickets[t]
    BY <2>1 DEF ArchiveProject
  <2>4. Revoked(tickets[t]).holder = NoOne
    BY <1>1 DEF Released, Revoked, Dropped, Row
  <2> QED BY <1>1, <2>2, <2>3, <2>4, TimeOnlyEnds DEF Active
<1> QED BY <1>2, <1>3

\* Archiving strands no worker mid-lease, and until the project is unarchived no
\* request grants or revives a lease in it (set_project_archived and the
\* archive gate in front of every write).
THEOREM FrozenUnheldHolds == Spec => []FrozenUnheld
<1>1. Init => FrozenUnheld
  BY DEF Init, FrozenUnheld
<1>2. Inv /\ FrozenUnheld /\ [Next]_vars => FrozenUnheld'
  BY StepKeepsFrozenUnheld
<1> QED BY <1>1, <1>2, InvHolds, PTL DEF Spec

\* What rests is held by nobody: a finished ticket, if done and cancelled states
\* are terminal, and every ticket of an archived project.
THEOREM RestingUnheldHolds ==
    ASSUME FinishedIsFinal
    PROVE  Spec => []RestingUnheld
<1>1. EndedUnheld /\ FrozenUnheld => RestingUnheld
  BY DEF RestingUnheld
<1> QED BY <1>1, EndedUnheldHolds, FrozenUnheldHolds, PTL

-----------------------------------------------------------------------------
(* Walking a graph: what the recursive CTEs return. *)

Graphs == [Tickets -> SUBSET Tickets]

\* What a walk finds is reached from the seed and goes on.
LEMMA LeastIsClosed ==
    ASSUME NEW step \in Graphs, NEW seed \in SUBSET Tickets
    PROVE  /\ Least(seed, step) \subseteq Tickets
           /\ seed \subseteq Least(seed, step)
           /\ \A y \in Least(seed, step) : step[y] \subseteq Least(seed, step)
<1>1. Least(seed, step) \subseteq Tickets /\ seed \subseteq Least(seed, step)
  BY DEF Least
<1>2. ASSUME NEW y \in Least(seed, step), NEW z \in step[y]
      PROVE  z \in Least(seed, step)
  <2>1. y \in Tickets /\ z \in Tickets
    BY <1>1 DEF Graphs
  <2>2. ASSUME NEW C \in SUBSET Tickets, seed \subseteq C, \A x \in C : step[x] \subseteq C
        PROVE  z \in C
    BY <2>2 DEF Least
  <2> QED BY <2>1, <2>2 DEF Least
<1> QED BY <1>1, <1>2

\* And it finds nothing else.
LEMMA LeastIsLeast ==
    ASSUME NEW step, NEW seed, NEW C \in SUBSET Tickets,
           seed \subseteq C, \A y \in C : step[y] \subseteq C
    PROVE  Least(seed, step) \subseteq C
BY DEF Least

\* Taking edges away closes no ring.
LEMMA FewerEdges ==
    ASSUME NEW step \in Graphs, RingFree(step), NEW new \in Graphs,
           \A x \in Tickets : new[x] \subseteq step[x]
    PROVE  /\ RingFree(new)
           /\ \A x \in Tickets : Least(new[x], new) \subseteq Least(step[x], step)
<1>1. ASSUME NEW x \in Tickets PROVE Least(new[x], new) \subseteq Least(step[x], step)
  <2> DEFINE C == Least(step[x], step)
  <2>1. step[x] \in SUBSET Tickets
    BY DEF Graphs
  <2>2. C \in SUBSET Tickets /\ step[x] \subseteq C /\ \A y \in C : step[y] \subseteq C
    BY <2>1, LeastIsClosed
  <2> HIDE DEF C
  <2>3. new[x] \subseteq C /\ \A y \in C : new[y] \subseteq C
    BY <2>2
  <2>4. Least(new[x], new) \subseteq C
    BY <2>2, <2>3, LeastIsLeast
  <2> QED BY <2>4 DEF C
<1> QED BY <1>1 DEF RingFree

\* Nor does an edge to a ticket the walk from which does not come back.
LEMMA NoNewRing ==
    ASSUME NEW step \in Graphs, RingFree(step), NEW t \in Tickets, NEW b \in Tickets,
           t \notin Least({b}, step), NEW new \in Graphs,
           new[t] \subseteq step[t] \cup {b},
           \A x \in Tickets \ {t} : new[x] \subseteq step[x]
    PROVE  RingFree(new)
<1> DEFINE Beyond(x) == Least(step[x], step)
           B == Least({b}, step)
<1>1. /\ B \in SUBSET Tickets /\ b \in B
      /\ \A y \in B : step[y] \subseteq B
  BY LeastIsClosed
<1>2. \A x \in Tickets : /\ Beyond(x) \in SUBSET Tickets /\ step[x] \subseteq Beyond(x)
                         /\ \A y \in Beyond(x) : step[y] \subseteq Beyond(x)
                         /\ x \notin Beyond(x)
  BY LeastIsClosed DEF Graphs, RingFree
<1>3. \A x \in B : Beyond(x) \subseteq B
  BY <1>1, LeastIsLeast
<1>4. t \notin B
  OBVIOUS
<1> HIDE DEF B, Beyond
<1>5. ASSUME NEW x \in Tickets PROVE x \notin Least(new[x], new)
  <2>1. CASE x # t /\ t \notin Beyond(x)
    <3>1. new[x] \subseteq Beyond(x) /\ \A y \in Beyond(x) : new[y] \subseteq Beyond(x)
      BY <1>2, <2>1
    <3>2. Least(new[x], new) \subseteq Beyond(x)
      BY <1>2, <3>1, LeastIsLeast
    <3> QED BY <1>2, <3>2
  <2>2. CASE x = t \/ t \in Beyond(x)
    <3> DEFINE C == Beyond(x) \cup B
    <3>1. /\ C \in SUBSET Tickets /\ new[x] \subseteq C
          /\ \A y \in C : new[y] \subseteq C
      <4>1. C \in SUBSET Tickets /\ new[x] \subseteq C
        BY <1>1, <1>2
      <4>2. ASSUME NEW y \in C PROVE new[y] \subseteq C
        <5>1. step[y] \subseteq C
          BY <1>1, <1>2
        <5>2. y \in Tickets
          BY <4>1
        <5> QED BY <1>1, <5>1, <5>2
      <4> QED BY <4>1, <4>2
    <3>2. x \notin C
      BY <1>2, <1>3, <1>4, <2>2
    <3> HIDE DEF C
    <3>3. Least(new[x], new) \subseteq C
      BY <3>1, LeastIsLeast
    <3> QED BY <3>2, <3>3
  <2> QED BY <2>1, <2>2
<1> QED BY <1>5 DEF RingFree

\* The two graphs of the store are of this kind, and NoRings is about them.
LEMMA StoreGraphs ==
    ASSUME Inv
    PROVE  /\ ParentsOf \in Graphs /\ deps \in Graphs
           /\ RingFree(ParentsOf) <=> TreeAcyclic
           /\ RingFree(deps) => DepsAcyclic
<1>1. ParentsOf \in Graphs /\ deps \in Graphs
  BY DEF ParentsOf, Graphs, Inv, TypeOK
<1>2. RingFree(ParentsOf) <=> TreeAcyclic
  BY DEF RingFree, TreeAcyclic, Above
<1>3. ASSUME RingFree(deps), NEW t \in Tickets, NEW b \in deps[t], t \in DependsOn(b)
      PROVE  FALSE
  <2> DEFINE C == Least(deps[t], deps)
  <2>1. deps[t] \in SUBSET Tickets
    BY <1>1 DEF Graphs
  <2>2. C \in SUBSET Tickets /\ deps[t] \subseteq C /\ \A y \in C : deps[y] \subseteq C
    BY <1>1, <2>1, LeastIsClosed
  <2>3. t \notin C
    BY <1>3 DEF RingFree
  <2> HIDE DEF C
  <2>4. Least({b}, deps) \subseteq C
    BY <2>2, LeastIsLeast
  <2> QED BY <1>3, <2>3, <2>4 DEF DependsOn
<1> QED BY <1>1, <1>2, <1>3 DEF DepsAcyclic

Acyclic == RingFree(ParentsOf) /\ RingFree(deps)

LEMMA InitAcyclic == Init => Acyclic
BY StartAssumption DEF Init, Acyclic, ParentsOf

\* PATCH of a parent: it is refused below the ticket.
LEMMA ReparentKeepsAcyclic ==
    ASSUME Inv, Acyclic, NEW t \in Tickets, NEW p \in Tickets \cup {NoTicket},
           p # t /\ (p \in Tickets => t \notin Above(p)),
           parent' = [parent EXCEPT ![t] = p], UNCHANGED deps
    PROVE  Acyclic'
<1> DEFINE old == ParentsOf
           new == [x \in Tickets |-> {parent'[x]} \cap Tickets]
<1>1. old \in Graphs /\ new \in Graphs /\ RingFree(old)
  BY StoreGraphs DEF Acyclic, Graphs
<1>2. \A x \in Tickets \ {t} : new[x] = old[x]
  BY DEF ParentsOf, Inv, TypeOK
<1>3. new[t] = {p} \cap Tickets
  BY DEF Inv, TypeOK
<1>4. p \in Tickets => t \notin Least(old[p], old)
  BY DEF Above
<1> HIDE DEF old, new
<1>5. CASE p \in Tickets
  <2> DEFINE C == {p} \cup Least(old[p], old)
  <2>1. old[p] \in SUBSET Tickets
    BY <1>1, <1>5 DEF Graphs
  <2>2. /\ Least(old[p], old) \in SUBSET Tickets /\ old[p] \subseteq Least(old[p], old)
        /\ \A y \in Least(old[p], old) : old[y] \subseteq Least(old[p], old)
    BY <1>1, <2>1, LeastIsClosed
  <2>3. C \in SUBSET Tickets /\ {p} \subseteq C /\ \A y \in C : old[y] \subseteq C
    BY <1>5, <2>2
  <2>4. t \notin C
    BY <1>4, <1>5
  <2> HIDE DEF C
  <2>5. t \notin Least({p}, old)
    BY <2>3, <2>4, LeastIsLeast
  <2>6. new[t] \subseteq old[t] \cup {p}
    BY <1>3
  <2>7. RingFree(new)
    BY <1>1, <1>2, <1>5, <2>5, <2>6, NoNewRing
  <2> QED BY <2>7 DEF Acyclic, ParentsOf, new
<1>6. CASE p \notin Tickets
  <2>1. \A x \in Tickets : new[x] \subseteq old[x]
    BY <1>2, <1>3, <1>6
  <2>2. RingFree(new)
    BY <1>1, <2>1, FewerEdges
  <2> QED BY <2>2 DEF Acyclic, ParentsOf, new
<1> QED BY <1>5, <1>6

\* add_dep and remove_dep.
LEMMA DepsKeepAcyclic ==
    ASSUME Inv, Acyclic, NEW t \in Tickets, NEW b \in Tickets, UNCHANGED parent,
           \/ t \notin DependsOn(b) /\ deps' = [deps EXCEPT ![t] = @ \cup {b}]
           \/ deps' = [deps EXCEPT ![t] = @ \ {b}]
    PROVE  Acyclic'
<1> DEFINE new == deps'
<1>1. deps \in Graphs /\ RingFree(deps)
  BY StoreGraphs DEF Acyclic
<1>2. new \in Graphs
  BY <1>1 DEF Graphs
<1>3. CASE t \notin DependsOn(b) /\ deps' = [deps EXCEPT ![t] = @ \cup {b}]
  <2>1. new[t] = deps[t] \cup {b} /\ \A x \in Tickets \ {t} : new[x] = deps[x]
    BY <1>1, <1>3 DEF Graphs
  <2>2. t \notin Least({b}, deps)
    BY <1>3 DEF DependsOn
  <2> HIDE DEF new
  <2>3. RingFree(new)
    BY <1>1, <1>2, <2>1, <2>2, NoNewRing
  <2> QED BY <2>3 DEF Acyclic, ParentsOf, RingFree, new
<1>4. CASE deps' = [deps EXCEPT ![t] = @ \ {b}]
  <2>1. \A x \in Tickets : new[x] \subseteq deps[x]
    BY <1>1, <1>4 DEF Graphs
  <2> HIDE DEF new
  <2>2. RingFree(new)
    BY <1>1, <1>2, <2>1, FewerEdges
  <2> QED BY <2>2 DEF Acyclic, ParentsOf, RingFree, new
<1> QED BY <1>3, <1>4

\* Who writes an edge: reparenting, add_dep and remove_dep.
LEMMA EdgeSteps ==
    ASSUME [Next]_vars
    PROVE  \/ \E pair \in ReparentTo :
                 LET t == pair[1] p == pair[2] IN
                 /\ p # t /\ (p \in Tickets => t \notin Above(p))
                 /\ parent' = [parent EXCEPT ![t] = p] /\ UNCHANGED deps
           \/ \E pair \in DepEdges :
                 LET t == pair[1] b == pair[2] IN
                 /\ UNCHANGED parent
                 /\ \/ t \notin DependsOn(b) /\ deps' = [deps EXCEPT ![t] = @ \cup {b}]
                    \/ deps' = [deps EXCEPT ![t] = @ \ {b}]
           \/ UNCHANGED <<parent, deps>>
<1>1. ASSUME NEW at \in Sampled, LeaseStep(at) PROVE UNCHANGED <<parent, deps>>
  BY <1>1 DEF LeaseStep, Claim, Renew, Heartbeat, Release, tree
<1>2. ASSUME NEW at \in Sampled, MoveStep(at) PROVE UNCHANGED <<parent, deps>>
  BY <1>2 DEF MoveStep, Transition, Start, MoveTo, tree
<1>3. ASSUME NEW at \in Sampled, NEW a, NEW F, NEW ttl, ReadyClaim(a, F, ttl, at)
      PROVE  UNCHANGED <<parent, deps>>
  BY <1>3 DEF ReadyClaim, tree
<1>4. ASSUME NEW at, NEW a, NEW force, ArchiveProject(a, force, at)
      PROVE  UNCHANGED <<parent, deps>>
  BY <1>4 DEF ArchiveProject, tree
<1>5. ASSUME NEW at, Sweep(at) PROVE UNCHANGED <<parent, deps>>
  BY <1>5 DEF Sweep, tree
<1>6. ASSUME NEW a, NEW t, ForceRelease(a, t) PROVE UNCHANGED <<parent, deps>>
  BY <1>6 DEF ForceRelease, tree
<1>7. ASSUME NEW t, ArchiveTicket(t) \/ UnarchiveTicket(t) PROVE UNCHANGED <<parent, deps>>
  BY <1>7 DEF ArchiveTicket, UnarchiveTicket, tree
<1>8. ASSUME NEW a, UnarchiveProject(a) PROVE UNCHANGED <<parent, deps>>
  BY <1>8 DEF UnarchiveProject, tree
<1>9. Tick \/ UNCHANGED vars => UNCHANGED <<parent, deps>>
  BY DEF Tick, vars, tree
<1>10. ASSUME NEW at \in Sampled, PatchStep(at)
       PROVE  \/ \E pair \in ReparentTo :
                 LET t == pair[1] p == pair[2] IN
                 /\ p # t /\ (p \in Tickets => t \notin Above(p))
                 /\ parent' = [parent EXCEPT ![t] = p] /\ UNCHANGED deps
              \/ \E pair \in DepEdges :
                 LET t == pair[1] b == pair[2] IN
                 /\ UNCHANGED parent
                 /\ \/ t \notin DependsOn(b) /\ deps' = [deps EXCEPT ![t] = @ \cup {b}]
                    \/ deps' = [deps EXCEPT ![t] = @ \ {b}]
              \/ UNCHANGED <<parent, deps>>
  BY <1>10 DEF PatchStep, Reparent, AddDep, RemoveDep, PatchLink
<1> QED BY <1>1, <1>2, <1>3, <1>4, <1>5, <1>6, <1>7, <1>8, <1>9, <1>10 DEF Next

LEMMA StepKeepsAcyclic == Inv /\ Acyclic /\ [Next]_vars => Acyclic'
<1> SUFFICES ASSUME Inv, Acyclic, [Next]_vars PROVE Acyclic'
  OBVIOUS
<1>1. ASSUME NEW pair \in ReparentTo,
             /\ pair[2] # pair[1] /\ (pair[2] \in Tickets => pair[1] \notin Above(pair[2]))
             /\ parent' = [parent EXCEPT ![pair[1]] = pair[2]] /\ UNCHANGED deps
      PROVE  Acyclic'
  <2>1. pair[1] \in Tickets /\ pair[2] \in Tickets \cup {NoTicket}
    BY TreeAssumption
  <2> QED BY <1>1, <2>1, ReparentKeepsAcyclic
<1>2. ASSUME NEW pair \in DepEdges,
             /\ UNCHANGED parent
             /\ \/ pair[1] \notin DependsOn(pair[2])
                     /\ deps' = [deps EXCEPT ![pair[1]] = @ \cup {pair[2]}]
                \/ deps' = [deps EXCEPT ![pair[1]] = @ \ {pair[2]}]
      PROVE  Acyclic'
  <2>1. pair[1] \in Tickets /\ pair[2] \in Tickets
    BY TreeAssumption
  <2> QED BY <1>2, <2>1, DepsKeepAcyclic
<1>3. CASE UNCHANGED <<parent, deps>>
  BY <1>3 DEF Acyclic, ParentsOf, RingFree
<1> QED BY <1>1, <1>2, <1>3, EdgeSteps

\* No sequence of accepted PATCHes closes a ring of parents and none of add_deps
\* one of dependencies, in a project of any size: the two cycle checks of
\* tickets.rs, each over its own kind of edge, are enough for the walks that
\* claims, queue and reservations make to end.
THEOREM NoRingsHolds == Spec => []NoRings
<1>1. Inv /\ Acyclic => NoRings
  BY StoreGraphs DEF Acyclic, NoRings
<1> QED BY <1>1, InitAcyclic, StepKeepsAcyclic, InvHolds, PTL DEF Spec

-----------------------------------------------------------------------------
(* Reservations.  A step that lets somebody hold what he did not hold went  *)
(* through the gates, or kept a lease that was late on him.                 *)

\* A ticket that is held after the step was held before it, by the same actor, or
\* was late on him.
HeldBefore(t) ==
    Active(tickets'[t], now') =>
        /\ tickets'[t].holder = tickets[t].holder
        /\ Active(tickets[t], now) \/ Lease!Rescue(t)

\* A lease is given out: what is above and below the ticket was free of others by
\* a clock that is not ahead.
Reserving(t, a, at) ==
    /\ at \in Sampled
    /\ tickets'[t].holder \in {a, NoOne}
    /\ ForeignEpicsAbove(t, a, at) = {}
    /\ t \in Epics => ForeignClaimsBelow(t, a, at) = {}
    /\ \A u \in Tickets \ {t} : HeldBefore(u)
    /\ UNCHANGED parent

\* The row of a grant, and of a grant that the same transaction moves on.
LEMMA GrantedHolder ==
    ASSUME Inv, NEW t \in Tickets, NEW a, NEW ttl, NEW at, NEW to, NEW sc
    PROVE  /\ GrantRow(t, a, ttl, at).holder \in {a, NoOne}
           /\ Moved(GrantRow(t, a, ttl, at), to, sc, FALSE).holder \in {a, NoOne}
<1> DEFINE row == GrantRow(t, a, ttl, at)
<1>1. tickets[t] \in Row
  BY InvOfRow
<1>2. row.holder = a /\ row.state = tickets[t].state
      /\ DOMAIN row = {"state", "holder", "expires", "lapsed", "fence"}
  BY <1>1 DEF GrantRow, Granted, ClearExpired, Dropped, Row
<1> HIDE DEF row
<1>3. Moved(row, to, sc, FALSE).holder \in {a, NoOne}
  BY <1>2 DEF Moved, Dropped
<1> QED BY <1>2, <1>3 DEF row

\* Writing one row leaves the others as they were.
LEMMA OthersHeldBefore ==
    ASSUME Inv, NEW t \in Tickets, NEW row, tickets' = [tickets EXCEPT ![t] = row], UNCHANGED now
    PROVE  tickets'[t] = row /\ \A u \in Tickets \ {t} : HeldBefore(u)
BY DEF HeldBefore, Inv, TypeOK

\* Clearing, ending or moving on a lease hands it to nobody.
LEMMA EndingHoldsBefore ==
    ASSUME NEW tk \in Row, NEW at, NEW until
    PROVE  /\ ClearExpired(tk, at) = tk \/ ClearExpired(tk, at).holder = NoOne
           /\ Released(tk).holder = NoOne /\ Revoked(tk).holder = NoOne
           /\ [tk EXCEPT !.expires = until].holder = tk.holder
BY DEF ClearExpired, Dropped, Released, Revoked, Row

LEMMA MovedHoldsBefore ==
    ASSUME NEW tk \in Row, NEW to, NEW sc
    PROVE  \/ Moved(tk, to, sc, FALSE).holder = NoOne
           \/ /\ Moved(tk, to, sc, FALSE).holder = tk.holder
              /\ Moved(tk, to, sc, FALSE).expires = tk.expires
BY DEF Dropped, Moved, Row

\* A lease given out through the gates is a reservation.
LEMMA GrantReserves ==
    ASSUME NEW t \in Tickets, NEW a \in Actors, NEW at \in Sampled,
           ClaimGates(t, a, at), UNCHANGED parent,
           tickets'[t].holder \in {a, NoOne}, \A u \in Tickets \ {t} : HeldBefore(u)
    PROVE  Reserving(t, a, at)
BY DEF Reserving, ClaimGates

\* A renewal or a beat keeps a lease that is active, or late and thereby rescued.
LEMMA ExtendingHoldsBefore ==
    ASSUME Inv, NEW t \in Tickets, NEW a, NEW at \in Sampled, NEW until,
           HeldBy(tickets[t], a, at), UNCHANGED now,
           tickets' = [tickets EXCEPT ![t].expires = until]
    PROVE  \A u \in Tickets : HeldBefore(u)
<1> DEFINE row == [tickets[t] EXCEPT !.expires = until]
<1>1. row.holder = tickets[t].holder /\ row.fence = tickets[t].fence
  BY InvOfRow DEF Row
<1>2. tickets' = [tickets EXCEPT ![t] = row]
  OBVIOUS
<1> HIDE DEF row
<1>3. tickets'[t] = row /\ \A u \in Tickets \ {t} : HeldBefore(u)
  BY <1>2, OthersHeldBefore
<1>4. ASSUME Active(row, now), ~Active(tickets[t], now)
      PROVE  Lease!Rescue(t)
  <2>1. Late(t) /\ tickets[t].holder # NoOne /\ Expired(tickets[t], now)
    BY <1>4 DEF HeldBy, Late, Active, Expired
  <2>2. Phase(t) = "late" /\ Owner(t) = tickets[t].holder
    BY <1>4, <2>1 DEF Phase, Owner, LapsedHolder
  <2>3. Phase(t)' = "held" /\ Owner(t)' = tickets[t].holder
    BY <1>1, <1>3, <1>4 DEF Phase, Owner
  <2>4. tickets'[t].fence = tickets[t].fence
    BY <1>1, <1>3
  <2> QED BY <2>2, <2>3, <2>4 DEF Lease!Rescue, Lease!Keep
<1>5. HeldBefore(t)
  BY <1>1, <1>3, <1>4 DEF HeldBefore
<1> QED BY <1>3, <1>5

\* No step but a grant lets anybody hold what he did not hold.
LEMMA StepReservesOrKeeps ==
    ASSUME Inv, [Next]_vars
    PROVE  \/ \E t \in Tickets, a \in Actors, at \in Sampled : Reserving(t, a, at)
           \/ \A u \in Tickets : HeldBefore(u)
<1>1. ASSUME NEW t \in Tickets, NEW row, tickets' = [tickets EXCEPT ![t] = row],
             UNCHANGED now,
             Active(row, now) => Active(tickets[t], now) /\ row.holder = tickets[t].holder
      PROVE  \A u \in Tickets : HeldBefore(u)
  <2>1. tickets'[t] = row /\ \A u \in Tickets \ {t} : HeldBefore(u)
    BY <1>1, OthersHeldBefore
  <2> QED BY <1>1, <2>1 DEF HeldBefore
<1>2. ASSUME UNCHANGED tickets, now' = now \/ now' = now + 1
      PROVE  \A u \in Tickets : HeldBefore(u)
  <2>1. now \in Nat /\ \A u \in Tickets : tickets[u] \in Row
    BY DEF Inv, TypeOK
  <2>2. now' \in Nat /\ now <= now'
    BY <1>2, <2>1
  <2> QED BY <1>2, <2>1, <2>2, TimeOnlyEnds DEF HeldBefore
<1>3. ASSUME NEW at \in Sampled, LeaseStep(at)
      PROVE  \/ \E t \in Tickets, a \in Actors : Reserving(t, a, at)
             \/ \A u \in Tickets : HeldBefore(u)
  <2>1. ASSUME NEW a \in Actors, NEW t \in Tickets, NEW ttl, Claim(a, t, ttl, at)
        PROVE  Reserving(t, a, at)
    <3> DEFINE row == GrantRow(t, a, ttl, at)
    <3>1. ClaimGates(t, a, at) /\ tickets' = [tickets EXCEPT ![t] = row]
          /\ UNCHANGED <<parent, now>>
      BY <2>1 DEF tree, Claim, GrantTo
    <3>2. row.holder \in {a, NoOne}
      BY GrantedHolder
    <3> HIDE DEF row
    <3>3. tickets'[t] = row /\ \A u \in Tickets \ {t} : HeldBefore(u)
      BY <3>1, OthersHeldBefore
    <3> QED BY <3>1, <3>2, <3>3, GrantReserves
  <2>2. ASSUME NEW a \in Actors, NEW t \in Tickets, NEW until, HeldBy(tickets[t], a, at),
               tickets' = [tickets EXCEPT ![t].expires = until], UNCHANGED now
        PROVE  \A u \in Tickets : HeldBefore(u)
    BY <1>3, <2>2, ExtendingHoldsBefore
  <2>3. ASSUME NEW a \in Actors, NEW t \in Tickets, NEW echo, Release(a, t, echo, at)
        PROVE  \A u \in Tickets : HeldBefore(u)
    <3>1. Released(tickets[t]).holder = NoOne
      BY InvOfRow, EndingHoldsBefore
    <3> QED BY <1>1, <2>3, <3>1 DEF Release, Active
  <2> QED BY <1>3, <2>1, <2>2, <2>3 DEF LeaseStep, Renew, Heartbeat
<1>4. ASSUME NEW at \in Sampled, MoveStep(at)
      PROVE  \/ \E t \in Tickets, a \in Actors : Reserving(t, a, at)
             \/ \A u \in Tickets : HeldBefore(u)
  <2>1. ASSUME NEW a \in Actors, NEW t \in Tickets, NEW to, NEW ttl, Start(a, t, to, ttl, at)
        PROVE  Reserving(t, a, at)
    <3> DEFINE row == Moved(GrantRow(t, a, ttl, at), to, Scopes[a], FALSE)
    <3>1. ClaimGates(t, a, at) /\ tickets' = [tickets EXCEPT ![t] = row]
          /\ UNCHANGED <<parent, now>>
      BY <2>1 DEF tree, Start, MoveTo
    <3>2. row.holder \in {a, NoOne}
      BY GrantedHolder
    <3> HIDE DEF row
    <3>3. tickets'[t] = row /\ \A u \in Tickets \ {t} : HeldBefore(u)
      BY <3>1, OthersHeldBefore
    <3> QED BY <3>1, <3>2, <3>3, GrantReserves
  <2>2. ASSUME NEW a \in Actors, NEW t \in Tickets, NEW to, NEW echo, Transition(a, t, to, echo, at)
        PROVE  \A u \in Tickets : HeldBefore(u)
    <3> DEFINE row == ClearExpired(tickets[t], at)
               new == Moved(row, to, Scopes[a], FALSE)
    <3>1. tickets' = [tickets EXCEPT ![t] = new] /\ UNCHANGED now
      BY <2>2 DEF Transition, MoveTo
    <3>2. GoodRow(t, row, movers[t]) /\ row \in Row
      BY InvOfRow, ClearedRowIsGood, SampledIsPast DEF GoodRow
    <3>3. row = tickets[t] \/ row.holder = NoOne
      BY InvOfRow, EndingHoldsBefore
    <3> HIDE DEF row
    <3>4. \/ new.holder = NoOne
          \/ new.holder = row.holder /\ new.expires = row.expires
      BY <3>2, MovedHoldsBefore
    <3> HIDE DEF new
    <3>5. Active(new, now) => Active(tickets[t], now) /\ new.holder = tickets[t].holder
      BY <3>3, <3>4 DEF Active, TimeUp
    <3> QED BY <1>1, <3>1, <3>5
  <2> QED BY <1>4, <2>1, <2>2 DEF MoveStep
<1>5. ASSUME NEW at \in Sampled, PatchStep(at) PROVE \A u \in Tickets : HeldBefore(u)
  <2>1. ASSUME NEW t \in Tickets, NEW a, NEW echo, PatchRow(t, a, echo, at), UNCHANGED now
        PROVE  \A u \in Tickets : HeldBefore(u)
    <3>1. tickets' = [tickets EXCEPT ![t] = ClearExpired(tickets[t], at)]
      BY <2>1 DEF PatchRow
    <3>2. ClearExpired(tickets[t], at) = tickets[t] \/ ClearExpired(tickets[t], at).holder = NoOne
      BY InvOfRow, EndingHoldsBefore
    <3> QED BY <1>1, <2>1, <3>1, <3>2 DEF Active
  <2>2. ASSUME NEW a, NEW echo, NEW pair \in ReparentTo, Reparent(a, pair[1], pair[2], echo, at)
        PROVE  \A u \in Tickets : HeldBefore(u)
    BY <2>1, <2>2, TreeAssumption DEF Reparent
  <2>3. ASSUME NEW a, NEW echo, NEW t \in LinkWriters, PatchLink(a, t, echo, at)
        PROVE  \A u \in Tickets : HeldBefore(u)
    BY <2>1, <2>3, TreeAssumption DEF PatchLink
  <2>4. ASSUME NEW a, NEW echo, NEW t, NEW b,
               AddDep(a, t, b, echo, at) \/ RemoveDep(a, t, b, echo, at)
        PROVE  \A u \in Tickets : HeldBefore(u)
    BY <1>2, <2>4 DEF AddDep, RemoveDep
  <2> QED BY <1>5, <2>2, <2>3, <2>4 DEF PatchStep
<1>6. ASSUME NEW at \in Sampled, NEW a \in Actors, NEW F, NEW ttl, ReadyClaim(a, F, ttl, at)
      PROVE  \E t \in Tickets : Reserving(t, a, at)
  <2>1. PICK t \in Ready(at) : GrantTo(t, a, ttl, at) /\ UNCHANGED <<tree, archived, frozen, now>>
    BY <1>6 DEF ReadyClaim
  <2>2. t \in Tickets /\ ClaimGates(t, a, at)
    BY ReadyIsClaimable DEF Ready
  <2> DEFINE row == GrantRow(t, a, ttl, at)
  <2>3. tickets' = [tickets EXCEPT ![t] = row]
        /\ UNCHANGED <<parent, now>>
    BY <2>1 DEF tree, GrantTo
  <2>4. row.holder \in {a, NoOne}
    BY <2>2, GrantedHolder
  <2> HIDE DEF row
  <2>5. tickets'[t] = row /\ \A u \in Tickets \ {t} : HeldBefore(u)
    BY <2>2, <2>3, OthersHeldBefore
  <2> QED BY <2>2, <2>3, <2>4, <2>5, GrantReserves
<1>7. ASSUME NEW at, NEW a, NEW force, ArchiveProject(a, force, at)
      PROVE  \A u \in Tickets : HeldBefore(u)
  <2>1. ASSUME NEW u \in Tickets PROVE HeldBefore(u)
    <3>1. tickets'[u] = tickets[u] \/ tickets'[u] = Revoked(tickets[u])
      BY <1>7 DEF ArchiveProject
    <3>2. Revoked(tickets[u]).holder = NoOne
      BY InvOfRow, EndingHoldsBefore
    <3> QED BY <1>7, <3>1, <3>2 DEF HeldBefore, Active, ArchiveProject
  <2> QED BY <2>1
<1>8. ASSUME NEW at, Sweep(at) PROVE \A u \in Tickets : HeldBefore(u)
  <2>1. ASSUME NEW u \in Tickets PROVE HeldBefore(u)
    <3>1. tickets'[u] = ClearExpired(tickets[u], at)
      BY <1>8 DEF Sweep
    <3>2. ClearExpired(tickets[u], at) = tickets[u] \/ ClearExpired(tickets[u], at).holder = NoOne
      BY InvOfRow, EndingHoldsBefore
    <3> QED BY <1>8, <3>1, <3>2 DEF HeldBefore, Active, Sweep
  <2> QED BY <2>1
<1>9. ASSUME NEW a, NEW t \in Tickets, ForceRelease(a, t) PROVE \A u \in Tickets : HeldBefore(u)
  <2>1. Revoked(tickets[t]).holder = NoOne
    BY InvOfRow, EndingHoldsBefore
  <2> QED BY <1>1, <1>9, <2>1 DEF ForceRelease, Active
<1>10. ASSUME \/ \E t : ArchiveTicket(t) \/ UnarchiveTicket(t)
              \/ \E a : UnarchiveProject(a)
              \/ Tick \/ UNCHANGED vars
       PROVE  \A u \in Tickets : HeldBefore(u)
  BY <1>2, <1>10 DEF ArchiveTicket, UnarchiveTicket, UnarchiveProject, Tick, vars
<1> QED BY <1>3, <1>4, <1>5, <1>6, <1>7, <1>8, <1>9, <1>10 DEF Next

\* Nobody comes to hold an epic beside another holder of a ticket beneath it, nor
\* the ticket beside another holder of the epic, however deep the tree, whatever
\* clock readings are gone by and however the tree was rewired: the gates of
\* claim_ticket_tx in both directions and the queue's predicate keep them apart,
\* and only the renewal of a late lease, which passes no gate, can bring them
\* together.
THEOREM ReservationsKeptHolds == Spec => ReservationsKept
<1>1. ASSUME Inv, [Next]_vars, NEW e \in Epics, NEW t \in Tickets,
             Clash(e, t)', e \in Above(t)'
      PROVE  Clash(e, t) \/ Lease!Rescue(e) \/ Lease!Rescue(t)
  <2>1. e \in Tickets
    BY TreeAssumption
  <2>2. /\ Active(tickets'[e], now') /\ Active(tickets'[t], now')
        /\ tickets'[e].holder # tickets'[t].holder
        /\ tickets'[e].holder # NoOne /\ tickets'[t].holder # NoOne
    BY <1>1 DEF Clash, Active
  <2>3. CASE HeldBefore(e) /\ HeldBefore(t)
    BY <2>2, <2>3 DEF HeldBefore, Clash
  <2>4. ASSUME NEW g \in Tickets, NEW a \in Actors, NEW at \in Sampled, Reserving(g, a, at)
        PROVE  (HeldBefore(e) /\ HeldBefore(t)) \/ Lease!Rescue(e) \/ Lease!Rescue(t)
    <3>1. e \in Above(t)
      BY <1>1, <2>4 DEF Reserving, Above, ParentsOf
    <3>2. tickets'[g].holder # NoOne => tickets'[g].holder = a
      BY <2>4 DEF Reserving
    <3>3. at \in Nat /\ at <= now /\ now \in Nat /\ tickets[e] \in Row /\ tickets[t] \in Row
      BY <1>1, <2>1, SampledIsPast DEF Inv, TypeOK
    <3>4. ASSUME t = g, e # g PROVE Lease!Rescue(e)
      <4>1. HeldBefore(e)
        BY <2>1, <2>4, <3>4 DEF Reserving
      <4>2. ASSUME Active(tickets[e], now) PROVE FALSE
        <5>1. Active(tickets[e], at)
          BY <3>3, <4>2, TimeOnlyEnds
        <5>2. tickets[e].holder = a
          BY <2>4, <3>1, <3>4, <5>1 DEF Reserving, ForeignEpicsAbove, HeldByOther
        <5> QED BY <2>2, <3>2, <3>4, <4>1, <5>2 DEF HeldBefore
      <4> QED BY <2>2, <4>1, <4>2 DEF HeldBefore
    <3>5. ASSUME e = g, t # g PROVE Lease!Rescue(t)
      <4>1. HeldBefore(t)
        BY <2>4, <3>5 DEF Reserving
      <4>2. ASSUME Active(tickets[t], now) PROVE FALSE
        <5>1. Active(tickets[t], at) /\ t \in Below(g)
          BY <3>1, <3>3, <3>5, <4>2, TimeOnlyEnds DEF Below
        <5>2. tickets[t].holder = a
          BY <2>4, <3>5, <5>1 DEF Reserving, ForeignClaimsBelow, HeldByOther
        <5> QED BY <2>2, <3>2, <3>5, <4>1, <5>2 DEF HeldBefore
      <4> QED BY <2>2, <4>1, <4>2 DEF HeldBefore
    <3>6. ASSUME e # g, t # g PROVE HeldBefore(e) /\ HeldBefore(t)
      BY <2>1, <2>4, <3>6 DEF Reserving
    <3> QED BY <2>2, <3>4, <3>5, <3>6
  <2> QED BY <1>1, <2>1, <2>3, <2>4, StepReservesOrKeeps
<1>2. Inv /\ [Next]_vars =>
      [\A e \in Epics, t \in Tickets :
          Clash(e, t)' /\ e \in Above(t)' =>
              Clash(e, t) \/ Lease!Rescue(e) \/ Lease!Rescue(t)]_vars
  BY <1>1
<1> QED BY <1>2, InvHolds, PTL DEF Spec, ReservationsKept

-----------------------------------------------------------------------------
(* Every ticket is a fenced lease.  What FencedLease sees of a row at an      *)
(* instant, and the steps it allows between two rows.                         *)

\* A request that commits at `at' may have read the clock while it was active.
Reached(tk, at) == \E early \in 0..at : at - early <= MaxLag /\ Active(tk, early)

PhaseOf(tk, at) ==
    IF Active(tk, at) THEN "held"
    ELSE IF Reached(tk, at) THEN "late"
    ELSE IF LapsedHolder(tk, at) # NoOne THEN "lapsed" ELSE "free"

OwnerOf(tk, at) == IF Active(tk, at) THEN tk.holder ELSE LapsedHolder(tk, at)

Running == {"held", "late"}

\* The same lease, in time or out of it: late, and kept, or lapsed.
Same(old, at, new, later) ==
    /\ \/ PhaseOf(new, later) = PhaseOf(old, at)
       \/ PhaseOf(old, at) \in Running /\ PhaseOf(new, later) \in Running \cup {"lapsed"}
    /\ OwnerOf(new, later) = OwnerOf(old, at)
    /\ new.fence = old.fence

Freed(old, at, new, later) ==
    /\ PhaseOf(new, later) = "free" /\ OwnerOf(new, later) = NoOne
    /\ \/ PhaseOf(old, at) # "free" /\ new.fence = old.fence
       \/ new.fence = old.fence + 1

Taken(old, at, new, later) ==
    /\ PhaseOf(old, at) # "held"
    /\ PhaseOf(new, later) \in Running /\ OwnerOf(new, later) \in Actors
    /\ new.fence = old.fence + 1

RowStep(old, at, new, later) ==
    Same(old, at, new, later) \/ Freed(old, at, new, later) \/ Taken(old, at, new, later)

\* The same lease, and held if it was: a late one may have been cleared.
Cleared(old, new, at) ==
    Same(old, at, new, at) /\ (PhaseOf(old, at) = "held" => PhaseOf(new, at) = "held")

LeaseStays(t) ==
    \/ Lease!Acquire(t) \/ Lease!Overrun(t) \/ Lease!Rescue(t) \/ Lease!Lapse(t)
    \/ Lease!Drop(t) \/ Lease!Revoke(t) \/ Lease!AcquireAndDrop(t) \/ Lease!Stay(t)

\* A step of the row is a step of the lease.
LEMMA RowStepIsLeaseStep ==
    ASSUME NEW t \in Tickets, RowStep(tickets[t], now, tickets'[t], now')
    PROVE  LeaseStays(t)
<1>1. /\ Phase(t) = PhaseOf(tickets[t], now) /\ Phase(t)' = PhaseOf(tickets'[t], now')
      /\ Owner(t) = OwnerOf(tickets[t], now) /\ Owner(t)' = OwnerOf(tickets'[t], now')
  <2>1. Late(t) <=> ~Active(tickets[t], now) /\ Reached(tickets[t], now)
    BY DEF Late, Reached, Sampled
  <2>2. Late(t)' <=> ~Active(tickets'[t], now') /\ Reached(tickets'[t], now')
    BY DEF Late, Reached, Sampled
  <2> QED BY <2>1, <2>2 DEF Phase, PhaseOf, Owner, OwnerOf
<1> DEFINE p == Phase(t)
           q == Phase(t)'
<1>2. CASE Same(tickets[t], now, tickets'[t], now')
  <2>1. Owner(t)' = Owner(t) /\ tickets'[t].fence = tickets[t].fence
    BY <1>1, <1>2 DEF Same
  <2>2. \/ q = p
        \/ p = "held" /\ q = "late"
        \/ p = "late" /\ q = "held"
        \/ p \in {"held", "late"} /\ q = "lapsed"
    BY <1>1, <1>2 DEF Same, Running
  <2> HIDE DEF p, q
  <2>3. CASE q = p
    BY <2>1, <2>3 DEF p, q, LeaseStays, Lease!Stay, Lease!Keep
  <2>4. CASE p = "held" /\ q = "late"
    BY <2>1, <2>4 DEF p, q, LeaseStays, Lease!Overrun, Lease!Keep
  <2>5. CASE p = "late" /\ q = "held"
    BY <2>1, <2>5 DEF p, q, LeaseStays, Lease!Rescue, Lease!Keep
  <2>6. CASE p \in {"held", "late"} /\ q = "lapsed"
    BY <2>1, <2>6 DEF p, q, LeaseStays, Lease!Lapse, Lease!Keep
  <2> QED BY <2>2, <2>3, <2>4, <2>5, <2>6
<1>3. CASE Freed(tickets[t], now, tickets'[t], now')
  <2>1. p \in {"held", "late", "lapsed", "free"}
    BY DEF Phase
  <2>2. q = "free" /\ Owner(t)' = NoOne
    BY <1>1, <1>3 DEF Freed
  <2>3. \/ p # "free" /\ tickets'[t].fence = tickets[t].fence
        \/ tickets'[t].fence = tickets[t].fence + 1
    BY <1>1, <1>3 DEF Freed
  <2> HIDE DEF p, q
  <2> QED
    BY <2>1, <2>2, <2>3 DEF p, q, LeaseStays, Lease!Drop, Lease!Revoke, Lease!AcquireAndDrop,
         Lease!Free, Lease!Keep, Lease!Raise
<1>4. CASE Taken(tickets[t], now, tickets'[t], now')
  BY <1>1, <1>4 DEF Taken, Running, LeaseStays, Lease!Acquire, Lease!Raise
<1> QED BY <1>2, <1>3, <1>4 DEF RowStep

-----------------------------------------------------------------------------
(* The row operators take such steps. *)

\* What GoodRow gives: the columns of a row, and that it answers to one actor.
Tidy(tk) ==
    /\ tk \in Row
    /\ tk.holder = NoOne => tk.expires = Never
    /\ tk.holder # NoOne => tk.lapsed = NoOne

LEMMA GoodIsTidy ==
    ASSUME Inv, NEW t \in Tickets
    PROVE  Tidy(tickets[t])
BY InvOfRow DEF Tidy, GoodRow

\* A row nobody writes, at the same instant.
LEMMA IdleRowSteps ==
    ASSUME NEW tk, NEW at
    PROVE  RowStep(tk, at, tk, at)
BY DEF RowStep, Same

\* The clock: a lease may become late or lapse, and its owner is remembered.
LEMMA ClockRowSteps ==
    ASSUME NEW tk, Tidy(tk), NEW at \in Nat
    PROVE  RowStep(tk, at, tk, at + 1)
<1>1. at + 1 \in Nat /\ at <= at + 1
  OBVIOUS
<1>2. Active(tk, at + 1) => Active(tk, at)
  BY <1>1, TimeOnlyEnds DEF Tidy
<1>3. Reached(tk, at + 1) => Active(tk, at) \/ Reached(tk, at)
  <2> SUFFICES ASSUME NEW early \in 0..(at + 1), at + 1 - early <= MaxLag, Active(tk, early)
               PROVE  Active(tk, at) \/ Reached(tk, at)
    BY DEF Reached
  <2>1. CASE early = at + 1
    BY <1>2, <2>1
  <2>2. CASE early # at + 1
    <3>1. early \in 0..at /\ at - early <= MaxLag
      BY <2>2, BoundAssumption
    <3> QED BY <3>1 DEF Reached
  <2> QED BY <2>1, <2>2
<1>4. CASE tk.holder = NoOne
  <2>1. ~Reached(tk, at) /\ ~Reached(tk, at + 1)
    BY <1>4 DEF Reached, Active
  <2> QED BY <1>4, <2>1 DEF RowStep, Same, PhaseOf, OwnerOf, Active, LapsedHolder, Expired
<1>5. CASE tk.holder # NoOne
  <2>1. OwnerOf(tk, at) = tk.holder /\ OwnerOf(tk, at + 1) = tk.holder
    BY <1>5 DEF OwnerOf, Active, LapsedHolder, Expired
  <2>2. LapsedHolder(tk, at) # NoOne \/ Active(tk, at)
    BY <1>5 DEF Active, LapsedHolder, Expired
  <2>3. LapsedHolder(tk, at + 1) # NoOne \/ Active(tk, at + 1)
    BY <1>5 DEF Active, LapsedHolder, Expired
  <2>4. \/ PhaseOf(tk, at + 1) = PhaseOf(tk, at)
        \/ PhaseOf(tk, at) \in Running /\ PhaseOf(tk, at + 1) \in Running \cup {"lapsed"}
    BY <1>2, <1>3, <2>2, <2>3 DEF PhaseOf, Running
  <2> QED BY <2>1, <2>4 DEF RowStep, Same
<1> QED BY <1>4, <1>5

\* Two rows that agree on the claim columns look the same.
LEMMA SameColumnsSamePhase ==
    ASSUME NEW old, NEW new, NEW at,
           new.holder = old.holder, new.expires = old.expires, new.lapsed = old.lapsed
    PROVE  PhaseOf(new, at) = PhaseOf(old, at) /\ OwnerOf(new, at) = OwnerOf(old, at)
<1>1. \A early : Active(new, early) <=> Active(old, early)
  BY DEF Active, TimeUp
<1>2. Reached(new, at) <=> Reached(old, at)
  BY <1>1 DEF Reached
<1>3. LapsedHolder(new, at) = LapsedHolder(old, at)
  BY DEF LapsedHolder, Expired, TimeUp
<1> QED BY <1>1, <1>2, <1>3 DEF PhaseOf, OwnerOf

LEMMA SameColumns ==
    ASSUME NEW old, NEW new, NEW at,
           new.holder = old.holder, new.expires = old.expires,
           new.lapsed = old.lapsed, new.fence = old.fence
    PROVE  Same(old, at, new, at)
BY SameColumnsSamePhase DEF Same

\* Whoever holds nothing owns what lapsed on him, if anything.
LEMMA UnheldPhase ==
    ASSUME NEW tk, NEW at, tk.holder = NoOne
    PROVE  /\ PhaseOf(tk, at) = IF tk.lapsed = NoOne THEN "free" ELSE "lapsed"
           /\ OwnerOf(tk, at) = tk.lapsed
BY DEF PhaseOf, OwnerOf, Reached, Active, LapsedHolder, Expired

\* And a recorded holder is the owner, before and after his time.
LEMMA HeldPhase ==
    ASSUME NEW tk, NEW at, tk.holder # NoOne
    PROVE  /\ PhaseOf(tk, at) = IF Active(tk, at) THEN "held"
                                ELSE IF Reached(tk, at) THEN "late" ELSE "lapsed"
           /\ OwnerOf(tk, at) = tk.holder
BY DEF PhaseOf, OwnerOf, Active, LapsedHolder, Expired

\* Whom a request finds active is held or late.
LEMMA FoundActive ==
    ASSUME NEW tk, NEW at \in Sampled, Active(tk, at), now \in Nat
    PROVE  PhaseOf(tk, now) \in Running /\ OwnerOf(tk, now) = tk.holder /\ tk.holder # NoOne
<1>1. tk.holder # NoOne
  BY DEF Active
<1>2. Reached(tk, now)
  BY DEF Reached, Sampled
<1> QED BY <1>1, <1>2, HeldPhase DEF Running

\* Clearing an expired claim, or one that expired a while ago, changes what one
\* can see only if it was late: then it has lapsed.
LEMMA ClearRowSteps ==
    ASSUME NEW tk, Tidy(tk), NEW early \in Nat, NEW at \in Nat, early <= at
    PROVE  /\ Cleared(tk, ClearExpired(tk, early), at)
           /\ Tidy(ClearExpired(tk, early))
           /\ ClearExpired(tk, early).state = tk.state
           /\ ClearExpired(tk, early).holder # NoOne
                 => ClearExpired(tk, early) = tk /\ Active(tk, early)
<1> DEFINE row == ClearExpired(tk, early)
<1>1. CASE Expired(tk, early)
  <2>1. /\ row \in Row /\ row.holder = NoOne /\ row.expires = Never /\ row.lapsed = tk.holder
        /\ row.fence = tk.fence /\ row.state = tk.state
    BY <1>1 DEF ClearExpired, Dropped, Tidy, Row
  <2>2. tk.holder # NoOne /\ ~Active(tk, early)
    BY <1>1 DEF Expired, Active
  <2>3. ~Active(tk, at)
    BY <2>2, TimeOnlyEnds DEF Tidy
  <2> HIDE DEF row
  <2>4. PhaseOf(tk, at) \in {"late", "lapsed"} /\ OwnerOf(tk, at) = tk.holder
    BY <2>2, <2>3, HeldPhase
  <2>5. PhaseOf(row, at) = "lapsed" /\ OwnerOf(row, at) = tk.holder
    BY <2>1, <2>2, UnheldPhase
  <2>6. Cleared(tk, row, at)
    BY <2>1, <2>4, <2>5 DEF Cleared, Same, Running
  <2>7. Tidy(row)
    BY <2>1 DEF Tidy
  <2> QED BY <2>1, <2>6, <2>7 DEF row
<1>2. CASE ~Expired(tk, early)
  <2>1. ClearExpired(tk, early) = tk
    BY <1>2 DEF ClearExpired
  <2>2. tk.holder # NoOne => Active(tk, early)
    BY <1>2 DEF Expired, Active
  <2> QED BY <2>1, <2>2 DEF Cleared, Same
<1> QED BY <1>1, <1>2

\* Steps of the row that follow the clearing are steps of the row before it.
LEMMA AfterClearing ==
    ASSUME NEW tk, NEW row, NEW new, NEW at, Cleared(tk, row, at), RowStep(row, at, new, at)
    PROVE  RowStep(tk, at, new, at)
BY DEF RowStep, Cleared, Same, Freed, Taken, Running

\* Taking a lease that nobody holds, for a time that was to come when the clock
\* was read.
LEMMA GrantRowSteps ==
    ASSUME NEW tk, Tidy(tk), NEW a \in Actors, NEW at \in Sampled, at \in Nat, now \in Nat,
           ~Active(tk, now), NEW until \in Nat \cup {Never}, until # Never => until > at
    PROVE  /\ Taken(tk, now, Granted(tk, a, until), now)
           /\ Tidy(Granted(tk, a, until))
           /\ Granted(tk, a, until).holder = a
           /\ Granted(tk, a, until).fence = tk.fence + 1
<1> DEFINE new == Granted(tk, a, until)
<1>1. /\ new.holder = a /\ new.expires = until /\ new.lapsed = NoOne
      /\ new.fence = tk.fence + 1
  BY DEF Granted, Tidy, Row
<1>2. new \in Row
  BY GrantedTyped DEF Tidy
<1> HIDE DEF new
<1>3. Active(new, at)
  BY <1>1, CallerAssumption DEF Active, TimeUp
<1>4. PhaseOf(tk, now) # "held"
  BY DEF PhaseOf
<1>5. PhaseOf(new, now) \in Running /\ OwnerOf(new, now) = a
  BY <1>1, <1>3, FoundActive
<1>6. Tidy(new)
  BY <1>1, <1>2, CallerAssumption DEF Tidy
<1> QED BY <1>1, <1>4, <1>5, <1>6 DEF new, Taken

\* Letting go.
LEMMA FreeRowSteps ==
    ASSUME NEW old, NEW new, NEW at, new.holder = NoOne, new.lapsed = NoOne,
           \/ new.fence = old.fence + 1
           \/ PhaseOf(old, at) # "free" /\ new.fence = old.fence
    PROVE  Freed(old, at, new, at)
BY UnheldPhase DEF Freed

\* Dropping the claim of a row, if it has one.
LEMMA DropRowSteps ==
    ASSUME NEW row, Tidy(row), NEW at,
           NEW new, new.holder = NoOne, new.expires = Never, new.lapsed = row.lapsed,
           new.fence = row.fence
    PROVE  RowStep(row, at, new, at)
<1>1. CASE row.holder = NoOne
  <2>1. new.expires = row.expires
    BY <1>1 DEF Tidy
  <2> QED BY <1>1, <2>1, SameColumns DEF RowStep
<1>2. CASE row.holder # NoOne
  <2>1. new.lapsed = NoOne
    BY <1>2 DEF Tidy
  <2>2. PhaseOf(row, at) # "free"
    BY <1>2, HeldPhase
  <2> QED BY <2>1, <2>2, FreeRowSteps DEF RowStep
<1> QED BY <1>1, <1>2

\* A transition: the row moves on with its claim, or is rid of it.
LEMMA MovedColumns ==
    ASSUME NEW row \in Row, NEW to, NEW sc, NEW park \in BOOLEAN
    PROVE  LET new == Moved(row, to, sc, park) IN
           /\ new.lapsed = row.lapsed /\ new.fence = row.fence
           /\ \/ new.holder = row.holder /\ new.expires = row.expires
              \/ new.holder = NoOne /\ new.expires = Never
           /\ park => new.holder = NoOne /\ new.expires = Never
BY DEF Moved, Dropped, Row

LEMMA MoveRowSteps ==
    ASSUME NEW row, Tidy(row), NEW at, NEW to, NEW sc, NEW park \in BOOLEAN
    PROVE  RowStep(row, at, Moved(row, to, sc, park), at)
<1> DEFINE new == Moved(row, to, sc, park)
<1>1. /\ new.lapsed = row.lapsed /\ new.fence = row.fence
      /\ \/ new.holder = row.holder /\ new.expires = row.expires
         \/ new.holder = NoOne /\ new.expires = Never
  BY MovedColumns DEF Tidy
<1> HIDE DEF new
<1>2. RowStep(row, at, new, at)
  BY <1>1, DropRowSteps, SameColumns DEF RowStep
<1> QED BY <1>2 DEF new

-----------------------------------------------------------------------------
(* The refinement, step by step.  A request that commits later than it read  *)
(* the clock can keep what is late by then.                                  *)

LeasesStay == \A t \in Tickets : LeaseStays(t)

\* One row written at one instant.
LEMMA OneRowSteps ==
    ASSUME Inv, NEW t \in Tickets, NEW row, tickets' = [tickets EXCEPT ![t] = row],
           UNCHANGED now, RowStep(tickets[t], now, row, now)
    PROVE  LeasesStay
<1>1. ASSUME NEW u \in Tickets PROVE RowStep(tickets[u], now, tickets'[u], now')
  <2>1. CASE u = t
    <3>1. tickets'[u] = row
      BY <2>1 DEF Inv, TypeOK
    <3> QED BY <2>1, <3>1
  <2>2. CASE u # t
    <3>1. tickets'[u] = tickets[u]
      BY <2>2 DEF Inv, TypeOK
    <3> QED BY <3>1, IdleRowSteps
  <2> QED BY <2>1, <2>2
<1> QED BY <1>1, RowStepIsLeaseStep DEF LeasesStay

\* No row written.
LEMMA NoRowSteps ==
    ASSUME UNCHANGED <<tickets, now>>
    PROVE  LeasesStay
<1>1. ASSUME NEW u \in Tickets PROVE RowStep(tickets[u], now, tickets'[u], now')
  BY IdleRowSteps
<1> QED BY <1>1, RowStepIsLeaseStep DEF LeasesStay

\* What a cleared row is: the same lease, tidy, and recorded means active.
LEMMA ClearedTicket ==
    ASSUME Inv, NEW t \in Tickets, NEW early \in Nat, early <= now
    PROVE  LET row == ClearExpired(tickets[t], early) IN
           /\ Cleared(tickets[t], row, now) /\ Tidy(row) /\ row.state = tickets[t].state
           /\ row.holder # NoOne => row = tickets[t] /\ Active(row, early)
<1>1. now \in Nat
  BY DEF Inv, TypeOK
<1> QED BY <1>1, GoodIsTidy, ClearRowSteps

\* The row a grant writes.
LEMMA GrantedTicket ==
    ASSUME Inv, NEW t \in Tickets, NEW a \in Actors, NEW ttl \in TTLsFor(t), NEW at \in Sampled,
           ~Active(tickets[t], at)
    PROVE  LET row == GrantRow(t, a, ttl, at) IN
           /\ Taken(tickets[t], now, row, now) /\ Tidy(row)
           /\ row.holder = a /\ row.fence = tickets[t].fence + 1
<1> DEFINE row == ClearExpired(tickets[t], at)
           until == Until(ttl, at)
<1>0. at \in Nat /\ now \in Nat /\ at <= now /\ tickets[t] \in Row
  BY SampledIsPast, InvOfRow DEF Inv, TypeOK
<1>1. Cleared(tickets[t], row, now) /\ Tidy(row)
  BY <1>0, ClearedTicket
<1>2. row.holder = NoOne
  <2>1. row.holder # NoOne => row = tickets[t] /\ Active(row, at)
    BY <1>0, ClearedTicket
  <2> HIDE DEF row
  <2> QED BY <2>1
<1>3. until \in Nat \cup {Never}
  BY <1>0, UntilIsTyped
<1>4. until # Never => until > at
  BY <1>0, BoundAssumption DEF Until, TTLsFor
<1>5. PhaseOf(tickets[t], now) # "held"
  BY <1>0, TimeOnlyEnds DEF PhaseOf
<1> HIDE DEF row, until
<1>6. ~Active(row, now)
  BY <1>2 DEF Active
<1>7. /\ Taken(row, now, Granted(row, a, until), now)
      /\ Tidy(Granted(row, a, until))
      /\ Granted(row, a, until).holder = a
      /\ Granted(row, a, until).fence = row.fence + 1
  BY <1>0, <1>1, <1>3, <1>4, <1>6, GrantRowSteps
<1> QED BY <1>1, <1>5, <1>7 DEF GrantRow, row, until, Cleared, Same, Taken

\* Claiming, by id or from the queue.
LEMMA GrantStays ==
    ASSUME Inv, NEW t \in Tickets, NEW a \in Actors, NEW ttl \in TTLsFor(t), NEW at \in Sampled,
           ~Active(tickets[t], at), GrantTo(t, a, ttl, at), UNCHANGED now
    PROVE  LeasesStay
<1> DEFINE row == GrantRow(t, a, ttl, at)
<1>1. RowStep(tickets[t], now, row, now)
  BY GrantedTicket DEF RowStep
<1>2. tickets' = [tickets EXCEPT ![t] = row]
  BY DEF GrantTo
<1> HIDE DEF row
<1> QED BY <1>1, <1>2, OneRowSteps

\* Renewing and beating.
LEMMA ExtendStays ==
    ASSUME Inv, NEW t \in Tickets, NEW a, NEW at \in Sampled, HeldBy(tickets[t], a, at),
           UNCHANGED now, NEW until \in Nat \cup {Never}, until # Never => until > at,
           tickets' = [tickets EXCEPT ![t].expires = until]
    PROVE  LeasesStay
<1> DEFINE row == [tickets[t] EXCEPT !.expires = until]
<1>1. /\ row.holder = tickets[t].holder /\ row.expires = until
      /\ row.lapsed = tickets[t].lapsed /\ row.fence = tickets[t].fence
  BY InvOfRow DEF Row
<1>2. tickets' = [tickets EXCEPT ![t] = row]
  OBVIOUS
<1>3. now \in Nat /\ at \in Nat /\ Active(tickets[t], at) /\ tickets[t].holder # NoOne
  BY SampledIsPast DEF Inv, TypeOK, HeldBy, Active
<1> HIDE DEF row
<1>4. Active(row, at)
  BY <1>1, <1>3, CallerAssumption DEF Active, TimeUp
<1>5. /\ PhaseOf(tickets[t], now) \in Running /\ OwnerOf(tickets[t], now) = tickets[t].holder
      /\ PhaseOf(row, now) \in Running /\ OwnerOf(row, now) = tickets[t].holder
  BY <1>1, <1>3, <1>4, FoundActive
<1>6. Same(tickets[t], now, row, now)
  BY <1>1, <1>5 DEF Same
<1> QED BY <1>2, <1>6, OneRowSteps DEF RowStep

\* Releasing a lease that is held, and revoking one that is held or lapsed.
LEMMA LetGoRowSteps ==
    ASSUME NEW tk, Tidy(tk), NEW at
    PROVE  /\ tk.holder # NoOne => RowStep(tk, at, Released(tk), at)
           /\ RowStep(tk, at, Revoked(tk), at)
<1>1. /\ Released(tk).holder = NoOne /\ Released(tk).lapsed = NoOne
      /\ Released(tk).fence = tk.fence
      /\ Revoked(tk).holder = NoOne /\ Revoked(tk).lapsed = NoOne
      /\ Revoked(tk).fence = tk.fence + 1
  BY DEF Released, Revoked, Dropped, Tidy, Row
<1>2. tk.holder # NoOne => PhaseOf(tk, at) # "free"
  BY HeldPhase
<1> QED BY <1>1, <1>2, FreeRowSteps DEF RowStep

\* A transition, by whoever may make it.
LEMMA MoveStays ==
    ASSUME Inv, NEW t \in Tickets, NEW to, NEW sc, NEW park \in BOOLEAN, UNCHANGED now,
           NEW at \in Nat, at <= now,
           tickets' = [tickets EXCEPT ![t] = Moved(ClearExpired(tickets[t], at), to, sc, park)]
    PROVE  LeasesStay
<1> DEFINE row == ClearExpired(tickets[t], at)
           new == Moved(row, to, sc, park)
<1>1. Cleared(tickets[t], row, now) /\ Tidy(row)
  BY ClearedTicket
<1>2. tickets' = [tickets EXCEPT ![t] = new]
  OBVIOUS
<1> HIDE DEF row
<1>3. RowStep(row, now, new, now)
  BY <1>1, MoveRowSteps
<1> HIDE DEF new
<1>4. RowStep(tickets[t], now, new, now)
  BY <1>1, <1>3, AfterClearing
<1> QED BY <1>2, <1>4, OneRowSteps

\* Claim and move in one transaction: acquired and kept, or acquired and dropped.
LEMMA StartStays ==
    ASSUME Inv, NEW t \in Tickets, NEW a \in Actors, NEW ttl \in TTLsFor(t), NEW to, NEW sc,
           NEW at \in Sampled, ~Active(tickets[t], at), UNCHANGED now,
           tickets' = [tickets EXCEPT ![t] = Moved(GrantRow(t, a, ttl, at), to, sc, FALSE)]
    PROVE  LeasesStay
<1> DEFINE row == GrantRow(t, a, ttl, at)
           new == Moved(row, to, sc, FALSE)
<1>1. /\ Taken(tickets[t], now, row, now) /\ Tidy(row)
      /\ row.holder = a /\ row.fence = tickets[t].fence + 1
  BY GrantedTicket
<1>2. tickets' = [tickets EXCEPT ![t] = new]
  OBVIOUS
<1> HIDE DEF row
<1>3. /\ new.lapsed = row.lapsed /\ new.fence = row.fence
      /\ \/ new.holder = row.holder /\ new.expires = row.expires
         \/ new.holder = NoOne /\ new.expires = Never
  BY <1>1, MovedColumns DEF Tidy
<1> HIDE DEF new
<1>4. CASE new.holder = row.holder /\ new.expires = row.expires
  <2>1. PhaseOf(new, now) = PhaseOf(row, now) /\ OwnerOf(new, now) = OwnerOf(row, now)
    BY <1>3, <1>4, SameColumnsSamePhase
  <2>2. Taken(tickets[t], now, new, now)
    BY <1>1, <1>3, <2>1 DEF Taken
  <2> QED BY <1>2, <2>2, OneRowSteps DEF RowStep
<1>5. CASE new.holder = NoOne /\ new.expires = Never
  <2>1. row.lapsed = NoOne
    BY <1>1, CallerAssumption DEF Tidy
  <2>2. new.holder = NoOne /\ new.lapsed = NoOne /\ new.fence = tickets[t].fence + 1
    BY <1>1, <1>3, <1>5, <2>1
  <2>3. Freed(tickets[t], now, new, now)
    BY <2>2, FreeRowSteps
  <2> QED BY <1>2, <2>3, OneRowSteps DEF RowStep
<1> QED BY <1>3, <1>4, <1>5

\* Every step of the store is a step of every lease, or none.
LEMMA StepIsLeaseStep ==
    ASSUME Inv, Next
    PROVE  LeasesStay
<1>0. now \in Nat /\ \A at \in Sampled : at \in Nat /\ at <= now
  BY SampledIsPast DEF Inv, TypeOK
<1>1. ASSUME NEW at \in Sampled, LeaseStep(at) PROVE LeasesStay
  <2>1. ASSUME NEW a \in Actors, NEW t \in Tickets, NEW ttl \in TTLsFor(t), Claim(a, t, ttl, at)
        PROVE  LeasesStay
    BY <2>1, GrantStays DEF Claim, ClaimGates
  <2>2. ASSUME NEW a \in Actors, NEW t \in Tickets, NEW ttl \in TTLsFor(t), Renew(a, t, ttl, at)
        PROVE  LeasesStay
    <3>1. Until(ttl, at) \in Nat \cup {Never}
      BY <1>0, UntilIsTyped
    <3>2. Until(ttl, at) # Never => Until(ttl, at) > at
      BY <1>0, BoundAssumption DEF Until, TTLsFor
    <3> QED BY <2>2, <3>1, <3>2, ExtendStays DEF Renew
  <2>3. ASSUME NEW a \in Actors, NEW t \in Tickets, NEW ttl \in TTLs, NEW echo \in Echoes,
               Heartbeat(a, t, echo, ttl, at)
        PROVE  LeasesStay
    <3>1. at + ttl \in Nat /\ at + ttl > at
      BY <1>0, BoundAssumption
    <3> QED BY <2>3, <3>1, ExtendStays DEF Heartbeat
  <2>4. ASSUME NEW a \in Actors, NEW t \in Tickets, NEW echo \in Echoes, Release(a, t, echo, at)
        PROVE  LeasesStay
    <3>1. RowStep(tickets[t], now, Released(tickets[t]), now)
      BY <2>4, GoodIsTidy, LetGoRowSteps DEF Release, HeldBy, Active
    <3> QED BY <2>4, <3>1, OneRowSteps DEF Release
  <2> QED BY <1>1, <2>1, <2>2, <2>3, <2>4 DEF LeaseStep
<1>2. ASSUME NEW at \in Sampled, MoveStep(at) PROVE LeasesStay
  <2>1. ASSUME NEW a \in Actors, NEW t \in Tickets, NEW to, NEW echo, Transition(a, t, to, echo, at)
        PROVE  LeasesStay
    BY <1>0, <2>1, MoveStays DEF Transition, MoveTo
  <2>2. ASSUME NEW a \in Actors, NEW t \in Tickets, NEW to, NEW ttl \in TTLsFor(t),
               Start(a, t, to, ttl, at)
        PROVE  LeasesStay
    BY <2>2, StartStays DEF Start, MoveTo, ClaimGates
  <2> QED BY <1>2, <2>1, <2>2 DEF MoveStep
<1>3. ASSUME NEW at \in Sampled, PatchStep(at) PROVE LeasesStay
  <2>1. ASSUME NEW a, NEW t \in Tickets, NEW echo, PatchRow(t, a, echo, at), UNCHANGED now
        PROVE  LeasesStay
    <3>1. RowStep(tickets[t], now, ClearExpired(tickets[t], at), now)
      BY <1>0, ClearedTicket DEF RowStep, Cleared
    <3> QED BY <2>1, <3>1, OneRowSteps DEF PatchRow
  <2>2. ASSUME NEW a, NEW echo, NEW pair \in ReparentTo, Reparent(a, pair[1], pair[2], echo, at)
        PROVE  LeasesStay
    BY <2>1, <2>2, TreeAssumption DEF Reparent
  <2>3. ASSUME NEW a, NEW echo, NEW t \in LinkWriters, PatchLink(a, t, echo, at)
        PROVE  LeasesStay
    BY <2>1, <2>3, TreeAssumption DEF PatchLink
  <2>4. ASSUME NEW a, NEW echo, NEW t, NEW b,
               AddDep(a, t, b, echo, at) \/ RemoveDep(a, t, b, echo, at)
        PROVE  LeasesStay
    BY <2>4, NoRowSteps DEF AddDep, RemoveDep
  <2> QED BY <1>3, <2>2, <2>3, <2>4 DEF PatchStep
<1>4. ASSUME NEW at \in Sampled, NEW a \in Actors, NEW F, NEW ttl \in TTLs,
             ReadyClaim(a, F, ttl, at)
      PROVE  LeasesStay
  <2>1. PICK t \in Ready(at) : GrantTo(t, a, ttl, at) /\ UNCHANGED <<tree, archived, frozen, now>>
    BY <1>4 DEF ReadyClaim
  <2>2. t \in Tickets /\ ~Active(tickets[t], at) /\ ttl \in TTLsFor(t)
    BY ReadyIsClaimable DEF Ready, ClaimGates, TTLsFor
  <2> QED BY <2>1, <2>2, GrantStays
<1>5. ASSUME NEW at, NEW a, NEW force, ArchiveProject(a, force, at) PROVE LeasesStay
  <2>1. ASSUME NEW t \in Tickets PROVE RowStep(tickets[t], now, tickets'[t], now')
    <3>1. UNCHANGED now /\ (tickets'[t] = tickets[t] \/ tickets'[t] = Revoked(tickets[t]))
      BY <1>5 DEF ArchiveProject
    <3> QED BY <3>1, GoodIsTidy, IdleRowSteps, LetGoRowSteps
  <2> QED BY <2>1, RowStepIsLeaseStep DEF LeasesStay
<1>6. ASSUME NEW at \in Sampled, Sweep(at) PROVE LeasesStay
  <2>1. ASSUME NEW t \in Tickets PROVE RowStep(tickets[t], now, tickets'[t], now')
    <3>1. UNCHANGED now /\ tickets'[t] = ClearExpired(tickets[t], at)
      BY <1>6 DEF Sweep
    <3> QED BY <1>0, <3>1, ClearedTicket DEF RowStep, Cleared
  <2> QED BY <2>1, RowStepIsLeaseStep DEF LeasesStay
<1>7. ASSUME NEW a, NEW t \in Tickets, ForceRelease(a, t) PROVE LeasesStay
  <2>1. RowStep(tickets[t], now, Revoked(tickets[t]), now)
    BY GoodIsTidy, LetGoRowSteps
  <2> QED BY <1>7, <2>1, OneRowSteps DEF ForceRelease
<1>8. CASE Tick
  <2>1. ASSUME NEW t \in Tickets PROVE RowStep(tickets[t], now, tickets'[t], now')
    <3>1. now' = now + 1 /\ tickets'[t] = tickets[t]
      BY <1>8 DEF Tick
    <3> QED BY <1>0, <3>1, GoodIsTidy, ClockRowSteps
  <2> QED BY <2>1, RowStepIsLeaseStep DEF LeasesStay
<1>9. ASSUME \/ \E t : ArchiveTicket(t) \/ UnarchiveTicket(t)
             \/ \E a : UnarchiveProject(a)
      PROVE  LeasesStay
  BY <1>9, NoRowSteps DEF ArchiveTicket, UnarchiveTicket, UnarchiveProject
<1> QED BY <1>0, <1>1, <1>2, <1>3, <1>4, <1>5, <1>6, <1>7, <1>8, <1>9 DEF Next

LEMMA InitIsLeaseInit == Init => Lease!Init
<1> SUFFICES ASSUME Init PROVE Lease!Init
  OBVIOUS
<1>1. \A t \in Tickets : Phase(t) = "free" /\ Owner(t) = NoOne /\ tickets[t].fence = 0
  BY DEF Init, Phase, Late, Owner, Active, LapsedHolder, Expired
<1> QED BY <1>1 DEF Lease!Init

\* Every ticket implements the fenced lease, whichever claims, beats, releases,
\* moves, sweeps, revocations and archivings interleave and however long each of
\* them waits for the store: at most one owner, a token that rises exactly with a
\* new lease or a revocation, and a lease whose time is up stays with its token
\* only on the word of its own owner, given in time and arriving before anybody
\* cleared or took it; a lease that lapsed comes back to nobody but under a new
\* token.
THEOREM LeaseRefinedHolds == Spec => LeaseRefined
<1>1. Inv /\ [Next]_vars => [Lease!Next]_(Lease!lease)
  <2> SUFFICES ASSUME Inv, [Next]_vars PROVE [Lease!Next]_(Lease!lease)
    OBVIOUS
  <2>1. CASE Next
    BY <2>1, StepIsLeaseStep DEF LeasesStay, LeaseStays, Lease!Next
  <2>2. CASE UNCHANGED vars
    BY <2>2 DEF vars, Lease!lease, Phase, Late, Sampled, Owner
  <2> QED BY <2>1, <2>2
<1> QED BY <1>1, InitIsLeaseInit, InvHolds, PTL DEF Spec, LeaseRefined, Lease!Spec
=============================================================================
