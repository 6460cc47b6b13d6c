-------------------------- MODULE AskHuman_proofs --------------------------
(***************************************************************************)
(* What holds of AskHuman for every workflow, number of questions, links,  *)
(* actors and tickets, proved on top of Claims_proofs.                     *)
(*                                                                         *)
(* A question touches a ticket in one of two ways (TicketTouched): it      *)
(* leaves the cleared row as it is, or takes its claim from it.  So every  *)
(* invariant of the claims survives the questions.  About the questions    *)
(* and their links the argument is one more inductive invariant, AskInv:   *)
(* what was asked stays asked as it was, and a link still stands on what   *)
(* was checked when it was minted.                                         *)
(***************************************************************************)
EXTENDS AskHuman, Claims_proofs

\* What a question does to a row whose expired claim has been cleared.
Touched(row, new) ==
    /\ new \in Row /\ new.lapsed = row.lapsed /\ new.fence = row.fence
    /\ \/ new = row
       \/ new.holder = NoOne /\ new.expires = Never

\* It ends the claim, if there is one.
Unclaims(row, new) ==
    /\ new \in Row /\ new.holder = NoOne /\ new.expires = Never
    /\ new.lapsed = row.lapsed /\ new.fence = row.fence

\* The ticket's part of a question step that read the clock at `at'.  Whoever
\* moved the ticket is remembered only if nobody holds it any more.
TicketTouched(t, at) ==
    \E new \in Row, mv \in Movers :
        /\ tickets' = [tickets EXCEPT ![t] = new]
        /\ movers' = [movers EXCEPT ![t] = mv]
        /\ Touched(ClearExpired(tickets[t], at), new)
        /\ new.holder # NoOne => mv = movers[t]
        /\ UNCHANGED Elsewhere

-----------------------------------------------------------------------------
(* What the handlers of questions.rs write to a ticket.                      *)

\* A cleared row, and the history beside it.
LEMMA ClearedRow ==
    ASSUME Inv, NEW t \in Tickets, NEW at \in Nat
    PROVE  /\ ClearExpired(tickets[t], at) \in Row
           /\ GoodRow(t, ClearExpired(tickets[t], at), movers[t])
           /\ ClearExpired(tickets[t], at).state = tickets[t].state
           /\ ClearExpired(tickets[t], at).holder # NoOne => Active(ClearExpired(tickets[t], at), at)
           /\ movers[t] \in Movers
<1> DEFINE row == ClearExpired(tickets[t], at)
<1>1. /\ GoodRow(t, row, movers[t]) /\ row.state = tickets[t].state
      /\ row.holder # NoOne => row = tickets[t] /\ Active(tickets[t], at)
  <2>1. GoodRow(t, tickets[t], movers[t])
    BY InvOfRow
  <2> QED BY <2>1, ClearedRowIsGood
<1>2. movers[t] \in Movers
  BY InvOfRow
<1> HIDE DEF row
<1>3. row \in Row
  BY <1>1 DEF GoodRow
<1>4. row.holder # NoOne => Active(row, at)
  BY <1>1
<1> QED BY <1>1, <1>2, <1>3, <1>4 DEF row

\* Leaving the row as it is.
LEMMA ClearingTouches ==
    ASSUME Inv, NEW t \in Tickets, NEW at \in Nat,
           tickets' = [tickets EXCEPT ![t] = ClearExpired(tickets[t], at)],
           UNCHANGED movers, UNCHANGED Elsewhere
    PROVE  TicketTouched(t, at)
<1> DEFINE row == ClearExpired(tickets[t], at)
<1>1. row \in Row /\ movers[t] \in Movers
  BY ClearedRow
<1>2. tickets' = [tickets EXCEPT ![t] = row] /\ Touched(row, row)
  BY <1>1 DEF Touched
<1>3. movers' = [movers EXCEPT ![t] = movers[t]]
  BY DEF Inv, TypeOK
<1> HIDE DEF row
<1>4. /\ tickets' = [tickets EXCEPT ![t] = row]
      /\ movers' = [movers EXCEPT ![t] = movers[t]]
      /\ Touched(row, row)
      /\ row.holder # NoOne => movers[t] = movers[t]
      /\ UNCHANGED Elsewhere
  BY <1>2, <1>3
<1> QED BY <1>1, <1>4 DEF TicketTouched, row

\* Ending the claim, whatever else is written to the row.
LEMMA EndingTouches ==
    ASSUME Inv, NEW t \in Tickets, NEW at \in Nat, NEW new \in Row, NEW mv \in Movers,
           tickets' = [tickets EXCEPT ![t] = new], movers' = [movers EXCEPT ![t] = mv],
           Unclaims(ClearExpired(tickets[t], at), new), UNCHANGED Elsewhere
    PROVE  TicketTouched(t, at)
<1>1. Touched(ClearExpired(tickets[t], at), new) /\ new.holder = NoOne
  BY DEF Touched, Unclaims
<1> QED BY <1>1 DEF TicketTouched

\* The move of an answer or a timeout echoes no fence, so it either finds nobody
\* holding the ticket or overrules whoever does, and ends his claim.
LEMMA CarriedIsUnheld ==
    ASSUME NEW t \in Tickets, NEW row, NEW mv, GoodRow(t, row, mv), NEW at,
           row.holder # NoOne => Active(row, at),
           NEW to \in States, NEW who, NEW sc, NEW guards,
           MayMove(row, to, who, sc, NoEcho, FALSE, guards, at)
    PROVE  Unclaims(row, Moved(row, to, sc, FALSE))
<1> USE DEF Unclaims
<1>1. row \in Row /\ (row.holder = NoOne => row.expires = Never)
  BY DEF GoodRow
<1>2. CASE row.holder = NoOne
  BY <1>1, <1>2 DEF Moved, Dropped, Row
<1>3. CASE row.holder # NoOne
  <2>1. Active(row, at)
    BY <1>3
  <2>2. row.fence # NoEcho
    BY <1>1, CallerAssumption DEF Row
  <2>3. HumanAuthoritative(row.state, to, sc)
    BY <2>1, <2>2 DEF MayMove, FenceAccepted
  <2> QED BY <1>1, <2>3 DEF Moved, Dropped, Row
<1> QED BY <1>2, <1>3

\* Carry, when the move it makes is a legal one.
LEMMA CarryTouches ==
    ASSUME Inv, NEW t \in Tickets, NEW at \in Nat, NEW to \in States \cup {NoState},
           NEW who \in Actors \cup {System}, NEW sc,
           Carry(t, ClearExpired(tickets[t], at), to, who, sc), UNCHANGED Elsewhere,
           to # NoState => MayCarry(t, ClearExpired(tickets[t], at), to, who, sc, at)
    PROVE  TicketTouched(t, at)
<1> DEFINE row == ClearExpired(tickets[t], at)
<1>1. /\ row \in Row /\ GoodRow(t, row, movers[t])
      /\ row.holder # NoOne => Active(row, at)
      /\ movers[t] \in Movers
  BY ClearedRow
<1>2. CASE to = NoState
  <2>1. tickets' = [tickets EXCEPT ![t] = row] /\ UNCHANGED movers
    BY <1>2 DEF Carry, Inv, TypeOK
  <2> QED BY <2>1, ClearingTouches
<1>3. CASE to # NoState
  <2> DEFINE new == Moved(row, to, sc, FALSE)
  <2>1. /\ tickets' = [tickets EXCEPT ![t] = new]
        /\ movers' = [movers EXCEPT ![t] = movers[t] \cup {who}]
    BY <1>3 DEF Carry
  <2>2. MayMove(row, to, who, sc, NoEcho, FALSE, GuardsHolding(t), at)
    BY <1>3 DEF MayCarry
  <2>0. to \in States
    BY <1>3
  <2> HIDE DEF row
  <2>3. Unclaims(row, new)
    BY <1>1, <2>0, <2>2, CarriedIsUnheld
  <2>4. movers[t] \cup {who} \in Movers
    BY <1>1 DEF Movers
  <2>5. new \in Row
    BY <2>3 DEF Unclaims
  <2> HIDE DEF new
  <2> QED BY <2>1, <2>3, <2>4, <2>5, EndingTouches DEF row
<1> QED BY <1>2, <1>3

\* The outcomes of an answer are legal moves, or none.
LEMMA OutcomesAreLegal ==
    ASSUME NEW q \in Questions, NEW row, NEW want \in States \cup {NoState}, NEW who, NEW sc,
           NEW at, NEW to \in Outcomes(q, row, want, who, sc, at)
    PROVE  /\ to \in States \cup {NoState}
           /\ to # NoState => ClearsBarrier(q, row) /\ MayCarry(About[q], row, to, who, sc, at)
<1>1. Preferred(Carriers(row.state, sc)) \subseteq States
  <2>1. Carriers(row.state, sc) \subseteq States
    BY WorkflowAssumption DEF Carriers, Exits, HumanGated
  <2> QED BY <2>1 DEF Preferred
<1>2. CASE ~ClearsBarrier(q, row)
  BY <1>2 DEF Outcomes
<1>3. CASE ClearsBarrier(q, row) /\ want # NoState
  BY <1>3 DEF Outcomes
<1>4. CASE ClearsBarrier(q, row) /\ want = NoState
  BY <1>1, <1>4 DEF Outcomes
<1> QED BY <1>2, <1>3, <1>4

\* Asking: the ticket parks and hands its lease back, or is left alone.
LEMMA AskTouches ==
    ASSUME Inv, NEW a \in Actors, NEW q \in Questions, NEW form, NEW person, NEW echo,
           NEW at \in Nat, Ask(a, q, form, person, echo, at)
    PROVE  TicketTouched(About[q], at)
<1> DEFINE t == About[q]
           row == ClearExpired(tickets[t], at)
<1>1. t \in Tickets /\ UNCHANGED Elsewhere
  BY AskAssumption DEF Ask
<1> HIDE DEF t
<1>2. row \in Row /\ movers[t] \in Movers
  BY <1>1, ClearedRow
<1>3. \/ tickets' = [tickets EXCEPT ![t] = row] /\ UNCHANGED movers
      \/ Park(t, row, a, echo, at)
  BY DEF Ask, t
<1>4. CASE tickets' = [tickets EXCEPT ![t] = row] /\ UNCHANGED movers
  BY <1>1, <1>4, ClearingTouches DEF t
<1> HIDE DEF row
<1>5. ASSUME NEW to \in ParkTargets(row.state),
             tickets' = [tickets EXCEPT ![t] = Moved(row, to, {}, TRUE)],
             movers' = [movers EXCEPT ![t] = @ \cup {a}]
      PROVE  TicketTouched(About[q], at)
  <2> DEFINE new == Moved(row, to, {}, TRUE)
  <2>1. to \in States
    BY WorkflowAssumption DEF ParkTargets, Exits
  <2>2. new = [Dropped(row) EXCEPT !.state = to]
    BY DEF Moved
  <2>3. Unclaims(row, new)
    BY <1>2, <2>1, <2>2 DEF Unclaims, Dropped, Row
  <2>4. tickets' = [tickets EXCEPT ![t] = new] /\ movers' = [movers EXCEPT ![t] = movers[t] \cup {a}]
    BY <1>5
  <2>5. new \in Row /\ movers[t] \cup {a} \in Movers
    BY <1>2, <2>3 DEF Unclaims, Movers
  <2> HIDE DEF new
  <2> QED BY <1>1, <2>3, <2>4, <2>5, EndingTouches DEF row, t
<1>6. ASSUME tickets' = [tickets EXCEPT ![t] = Dropped(row)], UNCHANGED movers
      PROVE  TicketTouched(About[q], at)
  <2> DEFINE new == Dropped(row)
  <2>1. Unclaims(row, new)
    BY <1>2 DEF Unclaims, Dropped, Row
  <2>2. tickets' = [tickets EXCEPT ![t] = new] /\ movers' = [movers EXCEPT ![t] = movers[t]]
    BY <1>6 DEF Inv, TypeOK
  <2>3. new \in Row
    BY <2>1 DEF Unclaims
  <2> HIDE DEF new
  <2> QED BY <1>1, <1>2, <2>1, <2>2, <2>3, EndingTouches DEF row, t
<1> QED BY <1>3, <1>4, <1>5, <1>6 DEF Park

\* Answering, directly, through a relay or by a link.
LEMMA RecordTouches ==
    ASSUME Inv, NEW q \in Questions, NEW want \in States \cup {NoState},
           NEW who \in Actors \cup {System}, NEW sc, NEW at \in Nat, Record(q, want, who, sc, at)
    PROVE  TicketTouched(About[q], at)
<1>1. About[q] \in Tickets
  BY AskAssumption
<1>2. PICK to \in Outcomes(q, ClearExpired(tickets[About[q]], at), want, who, sc, at) :
            Carry(About[q], ClearExpired(tickets[About[q]], at), to, who, sc)
  BY DEF Record
<1>3. UNCHANGED Elsewhere
  BY DEF Record
<1> QED BY <1>1, <1>2, <1>3, OutcomesAreLegal, CarryTouches

\* Reopening: nobody may hold the ticket that goes back to its blocked state.
LEMMA ReopenTouches ==
    ASSUME Inv, NEW a, NEW q \in Questions, NEW at \in Nat, Reopen(a, q, at)
    PROVE  TicketTouched(About[q], at)
<1> DEFINE t == About[q]
           row == ClearExpired(tickets[t], at)
<1>1. t \in Tickets /\ UNCHANGED movers /\ UNCHANGED Elsewhere
  BY AskAssumption DEF Reopen
<1> HIDE DEF t
<1>2. row \in Row /\ movers[t] \in Movers /\ (row.holder = NoOne => row.expires = Never)
  BY <1>1, ClearedRow DEF GoodRow
<1>3. \/ tickets' = [tickets EXCEPT ![t] = row]
      \/ row.holder = NoOne /\ \E s \in States : tickets' = [tickets EXCEPT ![t] = [row EXCEPT !.state = s]]
  BY DEF Reopen, t
<1>4. CASE tickets' = [tickets EXCEPT ![t] = row]
  BY <1>1, <1>4, ClearingTouches DEF t
<1> HIDE DEF row
<1>5. ASSUME row.holder = NoOne, NEW s \in States,
             tickets' = [tickets EXCEPT ![t] = [row EXCEPT !.state = s]]
      PROVE  TicketTouched(About[q], at)
  <2> DEFINE new == [row EXCEPT !.state = s]
  <2>1. Unclaims(row, new)
    BY <1>2, <1>5 DEF Unclaims, Row
  <2>2. tickets' = [tickets EXCEPT ![t] = new] /\ movers' = [movers EXCEPT ![t] = movers[t]]
    BY <1>1, <1>5 DEF Inv, TypeOK
  <2>3. new \in Row
    BY <2>1 DEF Unclaims
  <2> HIDE DEF new
  <2> QED BY <1>1, <1>2, <2>1, <2>2, <2>3, EndingTouches DEF row, t
<1> QED BY <1>3, <1>4, <1>5

\* The sweeper, whatever the fallback: one ticket is touched, or none.
LEMMA ExpireTouches ==
    ASSUME Inv, pass \in Nat, NEW q \in Questions, Expire(q)
    PROVE  UNCHANGED vars \/ TicketTouched(About[q], pass)
<1>1. About[q] \in Tickets /\ System \in Actors \cup {System} /\ pass \in Nat
  BY AskAssumption
<1>2. CASE Skip(q, pass) \/ Escalate(q, pass) \/ Refused(q, pass) \/ FlagExpired(q, pass)
  BY <1>2 DEF Skip, Escalate, Refused, FlagExpired
<1>3. CASE Recommend(q, pass)
  <2>1. PICK to \in Outcomes(q, ClearExpired(tickets[About[q]], pass), NoState, System, {"human"}, pass) :
              Carry(About[q], ClearExpired(tickets[About[q]], pass), to, System, {"human"})
    BY <1>3 DEF Recommend
  <2>2. UNCHANGED Elsewhere
    BY <1>3 DEF Recommend
  <2> QED BY <1>1, <2>1, <2>2, OutcomesAreLegal, CarryTouches
<1>4. CASE Cancel(q, pass)
  <2>1. UNCHANGED Elsewhere
    BY <1>4 DEF Cancel
  <2>2. CASE UNCHANGED <<tickets, movers>>
    BY <2>1, <2>2 DEF Elsewhere, vars, tree
  <2>3. ASSUME NEW to \in CancelTargets(About[q]),
               MayCarry(About[q], ClearExpired(tickets[About[q]], pass), to, System, {"human"}, pass),
               Carry(About[q], ClearExpired(tickets[About[q]], pass), to, System, {"human"})
        PROVE  TicketTouched(About[q], pass)
    <3>1. to \in States \cup {NoState}
      BY WorkflowAssumption DEF CancelTargets, Exits
    <3> QED BY <1>1, <2>1, <2>3, <3>1, CarryTouches
  <2> QED BY <1>4, <2>2, <2>3 DEF Cancel
<1> QED BY <1>2, <1>3, <1>4 DEF Expire

-----------------------------------------------------------------------------
(* Why the claims do not notice. *)

\* The invariant of the claims survives a question.
LEMMA TouchKeepsInv ==
    ASSUME Inv, NEW t \in Tickets, NEW at \in Nat, TicketTouched(t, at)
    PROVE  Inv'
<1> DEFINE row == ClearExpired(tickets[t], at)
<1>1. PICK new \in Row, mv \in Movers :
            /\ tickets' = [tickets EXCEPT ![t] = new]
            /\ movers' = [movers EXCEPT ![t] = mv]
            /\ Touched(row, new)
            /\ new.holder # NoOne => mv = movers[t]
            /\ UNCHANGED Elsewhere
  BY DEF TicketTouched
<1>2. GoodRow(t, row, movers[t])
  BY ClearedRow
<1> HIDE DEF row
<1>3. GoodRow(t, new, mv)
  <2>1. CASE new.holder = NoOne /\ new.expires = Never
    BY <2>1 DEF GoodRow
  <2>2. CASE new = row /\ new.holder # NoOne
    BY <1>1, <1>2, <2>2
  <2>3. CASE new = row /\ new.holder = NoOne
    BY <1>2, <2>3 DEF GoodRow
  <2> QED BY <1>1, <2>1, <2>2, <2>3 DEF Touched
<1>4. OtherColumns'
  BY <1>1 DEF Inv, TypeOK, OtherColumns, Elsewhere, tree
<1> QED BY <1>1, <1>3, <1>4, OneRowWritten

\* And so does the lease of the ticket: it stays, lapsed if it had lapsed, or
\* is dropped with its token.
LEMMA TouchStays ==
    ASSUME Inv, NEW t \in Tickets, NEW at \in Nat, at <= now, TicketTouched(t, at)
    PROVE  LeasesStay
<1> DEFINE row == ClearExpired(tickets[t], at)
<1>1. PICK new \in Row, mv \in Movers :
            /\ tickets' = [tickets EXCEPT ![t] = new]
            /\ Touched(row, new)
            /\ UNCHANGED Elsewhere
  BY DEF TicketTouched
<1>2. Cleared(tickets[t], row, now) /\ Tidy(row)
  BY ClearedTicket
<1> HIDE DEF row
<1>3. RowStep(row, now, new, now)
  BY <1>1, <1>2, DropRowSteps, IdleRowSteps DEF Touched
<1>4. RowStep(tickets[t], now, new, now)
  BY <1>2, <1>3, AfterClearing
<1> QED BY <1>1, <1>4, OneRowSteps DEF Elsewhere

-----------------------------------------------------------------------------
(* The questions and their links: the rest of the invariant. *)

Approvers == Experts \cup Assignable

\* What a question keeps to once it is asked: a request that the validation let
\* through, an assignee it may have, and an approval by somebody who may give it.
GoodAsk(k) ==
    /\ k \in Question
    /\ k.assignee \in Assignable \cup {NoOne}
    /\ k.status # "unasked" =>
          /\ k.form \in Form
          /\ k.form.approve => k.form.onTimeout # "recommended"
    /\ k.status = "answered" /\ k.form.approve => k.by \in Approvers

\* What a link keeps to once it is checked: it is about a question that was
\* asked, minted by somebody who could have answered it, and while it is live
\* the question has not been reopened.
GoodLink(ks, lk) ==
    /\ lk \in Link
    /\ lk.status # "unminted" =>
          /\ lk.about \in Questions /\ ks[lk.about].status # "unasked"
          /\ lk.minter \in Actors
          /\ ks[lk.about].form.approve => lk.minter \in Approvers
          /\ lk.status = "live" => lk.cycle = ks[lk.about].cycle

\* The sweeper's list is of questions, and its clock is not ahead.
SweepTyped == due \subseteq Questions /\ pass \in Nat /\ pass <= now

AskInv ==
    /\ Inv
    /\ SweepTyped
    /\ asks \in [Questions -> Question] /\ links \in [Links -> Link]
    /\ \A q \in Questions : GoodAsk(asks[q])
    /\ \A l \in Links : GoodLink(asks, links[l])

\* What was asked stays asked, as it was and in its cycle.
Continues(old, new) ==
    old.status # "unasked" =>
        new.status # "unasked" /\ new.form = old.form /\ new.cycle = old.cycle

\* A link that is used up or withdrawn, or left alone.
Fades(old, new) ==
    \/ new = old
    \/ /\ new \in Link /\ new.status \in {"spent", "revoked"}
       /\ old.status \in {"live", "spent"}
       /\ new.about = old.about /\ new.minter = old.minter /\ new.cycle = old.cycle

LEMMA FadedLinkIsGood ==
    ASSUME NEW ks, NEW new, NEW old, NEW lk, GoodLink(ks, old), Fades(old, lk),
           \A q \in Questions : Continues(ks[q], new[q])
    PROVE  GoodLink(new, lk)
<1>1. /\ lk \in Link
      /\ lk.status # "unminted" => old.status # "unminted"
      /\ lk.about = old.about /\ lk.minter = old.minter /\ lk.cycle = old.cycle
      /\ lk.status = "live" => old.status = "live"
  BY DEF Fades, GoodLink
<1>2. SUFFICES ASSUME lk.status # "unminted"
      PROVE  /\ lk.about \in Questions /\ new[lk.about].status # "unasked"
             /\ lk.minter \in Actors
             /\ new[lk.about].form.approve => lk.minter \in Approvers
             /\ lk.status = "live" => lk.cycle = new[lk.about].cycle
  BY <1>1 DEF GoodLink
<1>3. /\ old.about \in Questions /\ ks[old.about].status # "unasked"
      /\ old.minter \in Actors
      /\ ks[old.about].form.approve => old.minter \in Approvers
      /\ old.status = "live" => old.cycle = ks[old.about].cycle
  BY <1>1, <1>2 DEF GoodLink
<1>4. /\ new[old.about].status # "unasked" /\ new[old.about].form = ks[old.about].form
      /\ new[old.about].cycle = ks[old.about].cycle
  BY <1>3 DEF Continues
<1> QED BY <1>1, <1>3, <1>4

\* The steps after which every link stands on what it stood on.
LEMMA AsksGoOn ==
    ASSUME AskInv, Inv', SweepTyped', asks' \in [Questions -> Question],
           links' \in [Links -> Link],
           \A q \in Questions : Continues(asks[q], asks'[q]) /\ GoodAsk(asks'[q]),
           \A l \in Links : Fades(links[l], links'[l])
    PROVE  AskInv'
<1>1. ASSUME NEW l \in Links PROVE GoodLink(asks', links'[l])
  BY FadedLinkIsGood DEF AskInv
<1> QED BY <1>1 DEF AskInv, GoodLink, GoodAsk

\* One question written.
LEMMA OneAskGoesOn ==
    ASSUME AskInv, Inv', SweepTyped', NEW q \in Questions, NEW k, GoodAsk(k),
           asks' = [asks EXCEPT ![q] = k], Continues(asks[q], k),
           links' \in [Links -> Link], \A l \in Links : Fades(links[l], links'[l])
    PROVE  AskInv'
<1>1. k \in Question /\ asks \in [Questions -> Question]
  BY DEF GoodAsk, AskInv
<1>2. asks' \in [Questions -> Question]
  BY <1>1
<1>3. ASSUME NEW r \in Questions PROVE Continues(asks[r], asks'[r]) /\ GoodAsk(asks'[r])
  <2>1. CASE r = q
    BY <1>1, <2>1
  <2>2. CASE r # q
    BY <1>1, <2>2 DEF AskInv, Continues
  <2> QED BY <2>1, <2>2
<1> QED BY <1>2, <1>3, AsksGoOn

\* Revoking: no link about these questions is left live.
LEMMA RevokingFades ==
    ASSUME links \in [Links -> Link], NEW S
    PROVE  /\ Revoking(S) \in [Links -> Link]
           /\ \A l \in Links : Fades(links[l], Revoking(S)[l])
           /\ \A l \in Links : Revoking(S)[l].status = "live" => links[l].about \notin S
<1>1. ASSUME NEW l \in Links
      PROVE  /\ Revoking(S)[l] \in Link /\ Fades(links[l], Revoking(S)[l])
             /\ Revoking(S)[l].status = "live" => links[l].about \notin S
  <2> DEFINE new == [links[l] EXCEPT !.status = "revoked"]
  <2>1. /\ new \in Link /\ new.status = "revoked" /\ new.about = links[l].about
        /\ new.minter = links[l].minter /\ new.cycle = links[l].cycle
    BY DEF Link
  <2>2. Revoking(S)[l] = IF links[l].status = "live" /\ links[l].about \in S THEN new ELSE links[l]
    BY DEF Revoking
  <2> HIDE DEF new
  <2>3. CASE links[l].status = "live" /\ links[l].about \in S
    BY <2>1, <2>2, <2>3 DEF Fades
  <2>4. CASE ~(links[l].status = "live" /\ links[l].about \in S)
    BY <2>2, <2>4 DEF Fades
  <2> QED BY <2>3, <2>4
<1>2. DOMAIN Revoking(S) = Links /\ Revoking(S) = [l \in Links |-> Revoking(S)[l]]
  BY DEF Revoking
<1> QED BY <1>1, <1>2

\* The initial state.
LEMMA InitAskInv == AskInit => AskInv
<1> SUFFICES ASSUME AskInit PROVE AskInv
  OBVIOUS
<1>1. Inv
  BY InitInv DEF AskInit
<1>2. now = 0 /\ SweepTyped
  BY DEF AskInit, Init, SweepTyped
<1>3. /\ asks \in [Questions -> Question]
      /\ \A q \in Questions : GoodAsk(asks[q])
  <2> DEFINE k(q) == [status |-> "unasked", form |-> NoForm, askedBy |-> NoOne,
                      tagged |-> q \in Tagged, assignee |-> NoOne, expires |-> Never,
                      resolvedTo |-> NoState, by |-> NoOne, cycle |-> 0]
  <2>1. asks = [q \in Questions |-> k(q)]
    BY DEF AskInit
  <2>2. ASSUME NEW q \in Questions PROVE k(q) \in Question /\ GoodAsk(k(q))
    BY DEF Question, GoodAsk
  <2> HIDE DEF k
  <2> QED BY <2>1, <2>2
<1>4. /\ links \in [Links -> Link]
      /\ \A l \in Links : GoodLink(asks, links[l])
  BY DEF AskInit, Link, GoodLink
<1> QED BY <1>1, <1>2, <1>3, <1>4 DEF AskInv

-----------------------------------------------------------------------------
(* One lemma per kind of step. *)

\* The clock does not go back.
LEMMA ClockRises ==
    ASSUME Inv, [Next]_vars
    PROVE  now <= now'
<1>0. now \in Nat
  BY DEF Inv, TypeOK
<1>1. CASE UNCHANGED now
  BY <1>0, <1>1
<1>2. CASE Tick
  BY <1>0, <1>2 DEF Tick
<1>3. ASSUME NEW at, LeaseStep(at) \/ MoveStep(at) PROVE UNCHANGED now
  <2>1. ASSUME LeaseStep(at) PROVE UNCHANGED now
    BY <2>1 DEF LeaseStep, Claim, Renew, Heartbeat, Release
  <2>2. ASSUME MoveStep(at) PROVE UNCHANGED now
    BY <2>2 DEF MoveStep, Transition, Start, MoveTo
  <2> QED BY <1>3, <2>1, <2>2
<1>4. ASSUME NEW at, PatchStep(at) PROVE UNCHANGED now
  BY <1>4 DEF PatchStep, Reparent, PatchLink, AddDep, RemoveDep
<1>5. ASSUME NEW at, \/ \E a \in Actors, F \in Filters, ttl \in TTLs : ReadyClaim(a, F, ttl, at)
                     \/ \E a \in Actors, force \in BOOLEAN : ArchiveProject(a, force, at)
                     \/ Sweep(at)
      PROVE  UNCHANGED now
  BY <1>5 DEF ReadyClaim, ArchiveProject, Sweep
<1>6. ASSUME \/ \E a \in Actors, t \in Tickets : ForceRelease(a, t)
             \/ \E t \in Archivable : ArchiveTicket(t) \/ UnarchiveTicket(t)
             \/ \E a \in Actors : UnarchiveProject(a)
      PROVE  UNCHANGED now
  BY <1>6 DEF ForceRelease, ArchiveTicket, UnarchiveTicket, UnarchiveProject
<1>7. CASE Next
  BY <1>1, <1>2, <1>3, <1>4, <1>5, <1>6, <1>7 DEF Next
<1> QED BY <1>1, <1>7 DEF vars

\* A step of the claims, beside any step of the questions that touches no ticket.
LEMMA SweepStaysTyped ==
    ASSUME AskInv, Inv', now <= now', UNCHANGED sweep
    PROVE  SweepTyped'
BY DEF AskInv, SweepTyped, sweep, Inv, TypeOK

\* No link and no question written.
LEMMA NothingAsked ==
    ASSUME AskInv, Inv', SweepTyped', UNCHANGED <<asks, links>>
    PROVE  AskInv'
<1>1. \A q \in Questions : Continues(asks[q], asks'[q]) /\ GoodAsk(asks'[q])
  BY DEF AskInv, Continues
<1>2. \A l \in Links : Fades(links[l], links'[l])
  BY DEF Fades
<1> QED BY <1>1, <1>2, AsksGoOn DEF AskInv

\* The question's step left the tickets alone, or touched one.
LEMMA TouchedOrNot ==
    ASSUME AskInv, NEW t \in Tickets, NEW at \in Nat, UNCHANGED vars \/ TicketTouched(t, at)
    PROVE  Inv' /\ UNCHANGED now
<1>1. CASE UNCHANGED vars
  BY <1>1, RowsUntouched, InvOfRow DEF vars, AskInv, Inv, TypeOK, OtherColumns
<1>2. CASE TicketTouched(t, at)
  BY <1>2, TouchKeepsInv DEF TicketTouched, Elsewhere, AskInv
<1> QED BY <1>1, <1>2

LEMMA AskKeeps ==
    ASSUME AskInv, NEW q \in Questions, NEW a \in Askers, NEW form \in Form,
           NEW person \in Assignable \cup {NoOne}, NEW echo, NEW at \in Sampled,
           Ask(a, q, form, person, echo, at)
    PROVE  AskInv'
<1> DEFINE k == [asks[q] EXCEPT !.status = "open", !.form = form, !.askedBy = a,
                                !.assignee = person, !.expires = Until(form.window, at)]
<1>0. a \in Actors /\ About[q] \in Tickets /\ at \in Nat /\ now \in Nat
  BY AskAssumption, SampledIsPast DEF AskInv, Inv, TypeOK
<1>1. Inv' /\ UNCHANGED now
  BY <1>0, AskTouches, TouchedOrNot DEF AskInv
<1>2. SweepTyped'
  BY <1>0, <1>1, SweepStaysTyped DEF Ask
<1>3. asks[q] \in Question /\ asks[q].status = "unasked"
  BY DEF AskInv, Ask
<1>4. form.approve => form.onTimeout # "recommended"
  BY DEF Ask, Acceptable
<1>5. Until(form.window, at) \in Nat \cup {Never}
  BY <1>0 DEF Until, Form
<1>6. GoodAsk(k)
  <2>1. /\ k \in Question /\ k.status = "open" /\ k.form = form /\ k.assignee = person
    BY <1>0, <1>3, <1>5, AskAssumption DEF Question
  <2> HIDE DEF k
  <2> QED BY <1>4, <2>1 DEF GoodAsk
<1>7. asks' = [asks EXCEPT ![q] = k] /\ UNCHANGED links
  BY DEF Ask
<1>8. Continues(asks[q], k)
  BY <1>3 DEF Continues
<1>9. links' \in [Links -> Link] /\ \A l \in Links : Fades(links[l], links'[l])
  BY <1>7 DEF AskInv, Fades
<1> HIDE DEF k
<1> QED BY <1>1, <1>2, <1>6, <1>7, <1>8, <1>9, OneAskGoesOn

LEMMA AskAgainKeeps ==
    ASSUME AskInv, NEW q \in Questions, NEW a, NEW echo, NEW at \in Sampled,
           AskAgain(a, q, echo, at)
    PROVE  AskInv'
<1>1. About[q] \in Tickets /\ at \in Nat /\ now \in Nat
  BY AskAssumption, SampledIsPast DEF AskInv, Inv, TypeOK
<1>2. TicketTouched(About[q], at)
  BY <1>1, ClearingTouches DEF AskAgain, AskInv
<1>3. Inv' /\ UNCHANGED now
  BY <1>1, <1>2, TouchedOrNot
<1>4. UNCHANGED <<asks, links>> /\ SweepTyped'
  BY <1>1, <1>3, SweepStaysTyped DEF AskAgain, qvars, sweep
<1> QED BY <1>3, <1>4, NothingAsked

LEMMA AssignKeeps ==
    ASSUME AskInv, NEW q \in Questions, NEW person \in Assignable \cup {NoOne}, Assign(q, person)
    PROVE  AskInv'
<1> DEFINE k == [asks[q] EXCEPT !.assignee = person]
<1>1. UNCHANGED vars /\ now \in Nat /\ About[q] \in Tickets /\ 0 \in Nat
  BY AskAssumption DEF Assign, Elsewhere, tree, vars, AskInv, Inv, TypeOK
<1>2. Inv' /\ UNCHANGED now
  BY <1>1, TouchedOrNot
<1>3. SweepTyped'
  BY <1>1, <1>2, SweepStaysTyped DEF Assign
<1>4. GoodAsk(asks[q]) /\ asks[q].status = "open"
  BY DEF AskInv, Assign, IsOpen
<1>5. /\ k \in Question /\ k.status = "open" /\ k.form = asks[q].form /\ k.assignee = person
      /\ k.cycle = asks[q].cycle
  BY <1>4, AskAssumption DEF GoodAsk, Question
<1>6. asks' = [asks EXCEPT ![q] = k] /\ UNCHANGED links
  BY DEF Assign
<1> HIDE DEF k
<1>7. GoodAsk(k) /\ Continues(asks[q], k)
  BY <1>4, <1>5 DEF GoodAsk, Continues
<1>8. links' \in [Links -> Link] /\ \A l \in Links : Fades(links[l], links'[l])
  BY <1>6 DEF AskInv, Fades
<1> QED BY <1>2, <1>3, <1>6, <1>7, <1>8, OneAskGoesOn

LEMMA WithdrawKeeps ==
    ASSUME AskInv, NEW q \in Questions, Withdraw(q)
    PROVE  AskInv'
<1> DEFINE k == [asks[q] EXCEPT !.status = "withdrawn"]
<1>1. UNCHANGED vars /\ now \in Nat /\ About[q] \in Tickets /\ 0 \in Nat
  BY AskAssumption DEF Withdraw, Elsewhere, tree, vars, AskInv, Inv, TypeOK
<1>2. Inv' /\ UNCHANGED now
  BY <1>1, TouchedOrNot
<1>3. SweepTyped'
  BY <1>1, <1>2, SweepStaysTyped DEF Withdraw
<1>4. GoodAsk(asks[q]) /\ asks[q].status = "open"
  BY DEF AskInv, Withdraw, IsOpen
<1>5. /\ k \in Question /\ k.status = "withdrawn" /\ k.form = asks[q].form
      /\ k.assignee = asks[q].assignee /\ k.cycle = asks[q].cycle
  BY <1>4 DEF GoodAsk, Question
<1>6. asks' = [asks EXCEPT ![q] = k] /\ links' = Revoking({q})
  BY DEF Withdraw
<1> HIDE DEF k
<1>7. GoodAsk(k) /\ Continues(asks[q], k)
  BY <1>4, <1>5 DEF GoodAsk, Continues
<1>8. links' \in [Links -> Link] /\ \A l \in Links : Fades(links[l], links'[l])
  BY <1>6, RevokingFades DEF AskInv
<1> QED BY <1>2, <1>3, <1>6, <1>7, <1>8, OneAskGoesOn

\* An open question that is settled with an answer.
LEMMA SettledIsGood ==
    ASSUME AskInv, NEW q \in Questions, IsOpen(q), NEW to \in States \cup {NoState},
           NEW by \in Actors \cup {System}, asks[q].form.approve => by \in Approvers
    PROVE  \E k : /\ Settled(q, to, by) = [asks EXCEPT ![q] = k]
                  /\ GoodAsk(k) /\ Continues(asks[q], k)
<1> DEFINE k == [asks[q] EXCEPT !.status = "answered", !.resolvedTo = to, !.by = by]
<1>1. GoodAsk(asks[q]) /\ asks[q].status = "open"
  BY DEF AskInv, IsOpen
<1>2. /\ k \in Question /\ k.status = "answered" /\ k.form = asks[q].form /\ k.by = by
      /\ k.assignee = asks[q].assignee /\ k.cycle = asks[q].cycle
  BY <1>1 DEF GoodAsk, Question
<1>3. Settled(q, to, by) = [asks EXCEPT ![q] = k]
  BY DEF Settled
<1> HIDE DEF k
<1>4. GoodAsk(k) /\ Continues(asks[q], k)
  BY <1>1, <1>2 DEF GoodAsk, Continues
<1> QED BY <1>3, <1>4

\* Every way of answering.
LEMMA RecordKeeps ==
    ASSUME AskInv, NEW q \in Questions, NEW want \in States \cup {NoState}, NEW who \in Actors,
           NEW sc, NEW at \in Sampled, IsOpen(q), Record(q, want, who, sc, at),
           asks[q].form.approve => who \in Approvers,
           links' \in [Links -> Link], \A l \in Links : Fades(links[l], links'[l])
    PROVE  AskInv'
<1>1. About[q] \in Tickets /\ at \in Nat /\ now \in Nat
  BY AskAssumption, SampledIsPast DEF AskInv, Inv, TypeOK
<1>2. TicketTouched(About[q], at)
  BY <1>1, RecordTouches DEF AskInv
<1>3. Inv' /\ UNCHANGED now
  BY <1>1, <1>2, TouchedOrNot
<1>4. SweepTyped'
  BY <1>1, <1>3, SweepStaysTyped DEF Record
<1>5. PICK to \in Outcomes(q, ClearExpired(tickets[About[q]], at), want, who, sc, at) :
            asks' = Settled(q, to, who)
  BY DEF Record
<1>6. to \in States \cup {NoState}
  BY <1>5, OutcomesAreLegal
<1>7. PICK k : asks' = [asks EXCEPT ![q] = k] /\ GoodAsk(k) /\ Continues(asks[q], k)
  BY <1>5, <1>6, SettledIsGood
<1> QED BY <1>3, <1>4, <1>7, OneAskGoesOn

LEMMA AnswerKeeps ==
    ASSUME AskInv, NEW at \in Sampled, AnswerStep(at)
    PROVE  AskInv'
<1>1. PICK q \in Questions, want \in States \cup {NoState} :
            \/ \E a \in Actors : AnswerDirect(a, q, want, at)
            \/ \E r \in Relayers, n \in Actors : AnswerRelayed(r, n, q, want, at)
            \/ \E l \in Links : links[l].about = q /\ AnswerByLink(l, want, at)
  BY DEF AnswerStep
<1>2. /\ Revoking({q}) \in [Links -> Link]
      /\ \A l \in Links : Fades(links[l], Revoking({q})[l])
  BY RevokingFades DEF AskInv
<1>3. NoOne \notin Actors /\ GoodAsk(asks[q])
  BY CallerAssumption DEF AskInv
<1>4. ASSUME NEW a \in Actors, AnswerDirect(a, q, want, at) PROVE AskInv'
  <2>1. asks[q].form.approve => a \in Approvers
    BY <1>3, <1>4 DEF AnswerDirect, MayApprove, Approvers, GoodAsk
  <2>2. IsOpen(q) /\ Record(q, want, a, Scopes[a], at) /\ links' = Revoking({q})
    BY <1>4 DEF AnswerDirect
  <2> QED BY <1>2, <2>1, <2>2, RecordKeeps
<1>5. ASSUME NEW r \in Relayers, NEW n \in Actors, AnswerRelayed(r, n, q, want, at) PROVE AskInv'
  <2>1. /\ IsOpen(q) /\ Record(q, want, n, Scopes[r] \cup {"human"}, at)
        /\ links' = Revoking({q}) /\ ~asks[q].form.approve
    BY <1>5 DEF AnswerRelayed
  <2> QED BY <1>2, <2>1, RecordKeeps
<1>6. ASSUME NEW l \in Links, links[l].about = q, AnswerByLink(l, want, at) PROVE AskInv'
  <2>1. /\ links[l].status = "live" /\ IsOpen(q) /\ Record(q, want, links[l].minter, {"human"}, at)
        /\ links' = [Revoking({q}) EXCEPT ![l].status = "spent"]
    BY <1>6 DEF AnswerByLink
  <2>2. links[l].minter \in Actors /\ (asks[q].form.approve => links[l].minter \in Approvers)
    BY <1>6, <2>1 DEF AskInv, GoodLink
  <2>3. /\ links' \in [Links -> Link]
        /\ \A m \in Links : Fades(links[m], links'[m])
    <3> DEFINE new == [Revoking({q})[l] EXCEPT !.status = "spent"]
    <3>1. links[l] \in Link /\ Revoking({q})[l] \in Link /\ Fades(links[l], Revoking({q})[l])
      BY <1>2 DEF AskInv
    <3>2. /\ new \in Link /\ new.status = "spent" /\ new.about = Revoking({q})[l].about
          /\ new.minter = Revoking({q})[l].minter /\ new.cycle = Revoking({q})[l].cycle
      BY <3>1 DEF Link
    <3>3. links' = [Revoking({q}) EXCEPT ![l] = new]
      BY <2>1
    <3> HIDE DEF new
    <3>4. Fades(links[l], new)
      BY <2>1, <3>1, <3>2 DEF Fades
    <3> QED BY <1>2, <3>2, <3>3, <3>4
  <2> QED BY <2>1, <2>2, <2>3, RecordKeeps
<1> QED BY <1>1, <1>4, <1>5, <1>6

\* Reopening starts a new cycle, and leaves no link of the old one live.
LEMMA ReopenKeeps ==
    ASSUME AskInv, NEW q \in Questions, NEW a, NEW at \in Sampled, Reopen(a, q, at)
    PROVE  AskInv'
<1> DEFINE k == [asks[q] EXCEPT !.status = "open", !.resolvedTo = NoState, !.by = NoOne,
                                !.cycle = asks[q].cycle + 1]
<1>1. About[q] \in Tickets /\ at \in Nat /\ now \in Nat
  BY AskAssumption, SampledIsPast DEF AskInv, Inv, TypeOK
<1>2. TicketTouched(About[q], at)
  BY <1>1, ReopenTouches DEF AskInv
<1>3. Inv' /\ UNCHANGED now
  BY <1>1, <1>2, TouchedOrNot
<1>4. SweepTyped'
  BY <1>1, <1>3, SweepStaysTyped DEF Reopen
<1>5. GoodAsk(asks[q]) /\ asks[q].status = "answered"
  BY DEF AskInv, Reopen
<1>6. /\ k \in Question /\ k.status = "open" /\ k.form = asks[q].form
      /\ k.assignee = asks[q].assignee
  <2>1. asks[q] \in Question /\ asks[q].cycle + 1 \in Nat
    BY <1>5 DEF GoodAsk, Question
  <2> QED BY <2>1 DEF Question
<1>7. asks' = [asks EXCEPT ![q] = k] /\ links' = Revoking({q})
  BY DEF Reopen
<1> HIDE DEF k
<1>8. GoodAsk(k)
  BY <1>5, <1>6 DEF GoodAsk
<1>9. /\ asks' \in [Questions -> Question]
      /\ \A r \in Questions : GoodAsk(asks'[r])
      /\ \A r \in Questions \ {q} : asks'[r] = asks[r]
      /\ asks'[q].status # "unasked" /\ asks'[q].form = asks[q].form
  BY <1>6, <1>7, <1>8 DEF AskInv
<1>10. /\ links' \in [Links -> Link]
       /\ \A l \in Links : Fades(links[l], links'[l])
       /\ \A l \in Links : links'[l].status = "live" => links[l].about # q
  BY <1>7, RevokingFades DEF AskInv
<1>11. ASSUME NEW l \in Links PROVE GoodLink(asks', links'[l])
  <2>1. GoodLink(asks, links[l]) /\ Fades(links[l], links'[l])
    BY <1>10 DEF AskInv
  <2>2. CASE links[l].about = q
    <3>1. links'[l].status # "live" /\ links'[l].about = q
      BY <1>10, <2>1, <2>2 DEF Fades
    <3> QED BY <1>9, <2>1, <2>2, <3>1 DEF GoodLink, Fades
  <2>3. CASE links[l].about # q
    BY <1>9, <2>1, <2>3 DEF GoodLink, Fades
  <2> QED BY <2>2, <2>3
<1> QED BY <1>3, <1>4, <1>9, <1>10, <1>11 DEF AskInv

\* Minting and revoking: one link is written, and nothing else.
LEMMA LinkWritten ==
    ASSUME AskInv, NEW l \in Links, NEW lk, GoodLink(asks, lk),
           links' = [links EXCEPT ![l] = lk], UNCHANGED <<vars, asks, sweep>>
    PROVE  AskInv'
<1>1. Inv'
  BY RowsUntouched DEF vars, AskInv, Inv, TypeOK, OtherColumns
<1>2. SweepTyped'
  BY SweepStaysTyped, <1>1 DEF vars, AskInv, Inv, TypeOK
<1>3. lk \in Link
  BY DEF GoodLink
<1>4. links' \in [Links -> Link]
  BY <1>3 DEF AskInv
<1>5. ASSUME NEW m \in Links PROVE GoodLink(asks, links'[m])
  BY DEF AskInv
<1> QED BY <1>1, <1>2, <1>4, <1>5 DEF AskInv, GoodLink

LEMMA LinkKeeps ==
    ASSUME AskInv, LinkStep
    PROVE  AskInv'
<1>1. PICK l \in Links :
            \/ \E a \in Actors, q \in Questions : MintCheck(a, l, q)
            \/ MintInsert(l)
            \/ \E a \in Actors : RevokeLink(a, l)
  BY DEF LinkStep
<1>2. links[l] \in Link /\ GoodLink(asks, links[l])
  BY DEF AskInv
<1>3. ASSUME NEW a \in Actors, NEW q \in Questions, MintCheck(a, l, q) PROVE AskInv'
  <2> DEFINE lk == [links[l] EXCEPT !.status = "checked", !.about = q,
                                    !.user = asks[q].assignee, !.minter = a]
  <2>1. GoodAsk(asks[q]) /\ asks[q].status = "open"
    BY <1>3 DEF AskInv, MintCheck, IsOpen
  <2>2. lk \in Link /\ lk.status = "checked" /\ lk.about = q /\ lk.minter = a
    BY <1>2, <2>1 DEF Link, GoodAsk, Question
  <2>3. asks[q].form.approve => a \in Approvers
    BY <1>3, <2>1, CallerAssumption DEF MintCheck, MayApprove, Approvers, GoodAsk
  <2>4. links' = [links EXCEPT ![l] = lk] /\ UNCHANGED <<vars, asks, sweep>>
    BY <1>3 DEF MintCheck
  <2> HIDE DEF lk
  <2>5. GoodLink(asks, lk)
    BY <2>1, <2>2, <2>3 DEF GoodLink
  <2> QED BY <2>4, <2>5, LinkWritten
<1>4. ASSUME MintInsert(l) PROVE AskInv'
  <2> DEFINE lk == [links[l] EXCEPT !.status = "live", !.cycle = asks[links[l].about].cycle]
  <2>1. links[l].status = "checked" /\ links[l].about \in Questions
    BY <1>2, <1>4 DEF MintInsert, GoodLink
  <2>2. asks[links[l].about].cycle \in Nat
    BY <2>1 DEF AskInv, Question
  <2>3. /\ lk \in Link /\ lk.status = "live" /\ lk.about = links[l].about
        /\ lk.minter = links[l].minter /\ lk.cycle = asks[links[l].about].cycle
    BY <1>2, <2>2 DEF Link
  <2>4. links' = [links EXCEPT ![l] = lk] /\ UNCHANGED <<vars, asks, sweep>>
    BY <1>4 DEF MintInsert
  <2> HIDE DEF lk
  <2>5. GoodLink(asks, lk)
    BY <1>2, <2>1, <2>3 DEF GoodLink
  <2> QED BY <2>4, <2>5, LinkWritten
<1>5. ASSUME NEW a \in Actors, RevokeLink(a, l) PROVE AskInv'
  <2> DEFINE lk == [links[l] EXCEPT !.status = "revoked"]
  <2>1. links[l].status \in {"live", "spent"}
    BY <1>5 DEF RevokeLink
  <2>2. /\ lk \in Link /\ lk.status = "revoked" /\ lk.about = links[l].about
        /\ lk.minter = links[l].minter
    BY <1>2 DEF Link
  <2>4. links' = [links EXCEPT ![l] = lk] /\ UNCHANGED <<vars, asks, sweep>>
    BY <1>5 DEF RevokeLink
  <2> HIDE DEF lk
  <2>5. GoodLink(asks, lk)
    BY <1>2, <2>1, <2>2 DEF GoodLink
  <2> QED BY <2>4, <2>5, LinkWritten
<1> QED BY <1>1, <1>3, <1>4, <1>5

\* The sweeper takes its list.
LEMMA ListDueKeeps ==
    ASSUME AskInv, NEW at \in Sampled, ListDue(at)
    PROVE  AskInv'
<1>1. Inv'
  BY RowsUntouched DEF ListDue, vars, AskInv, Inv, TypeOK, OtherColumns
<1>2. SweepTyped'
  <2>1. at \in Nat /\ at <= now
    BY SampledIsPast DEF AskInv
  <2> QED BY <2>1 DEF ListDue, SweepTyped, vars
<1> QED BY <1>1, <1>2, NothingAsked DEF ListDue

\* Flagging what is open as expired.
LEMMA FlaggedIsGood ==
    ASSUME AskInv, NEW S, \A q \in S : IsOpen(q)
    PROVE  /\ Flag(S) \in [Questions -> Question]
           /\ \A q \in Questions : Continues(asks[q], Flag(S)[q]) /\ GoodAsk(Flag(S)[q])
<1>1. ASSUME NEW q \in Questions
      PROVE  /\ Flag(S)[q] \in Question
             /\ Continues(asks[q], Flag(S)[q]) /\ GoodAsk(Flag(S)[q])
  <2> DEFINE k == [asks[q] EXCEPT !.status = "expired"]
  <2>1. GoodAsk(asks[q])
    BY DEF AskInv
  <2>2. Flag(S)[q] = IF q \in S THEN k ELSE asks[q]
    BY DEF Flag
  <2>3. CASE q \in S
    <3>1. asks[q].status = "open"
      BY <2>3 DEF IsOpen
    <3>2. /\ k \in Question /\ k.status = "expired" /\ k.form = asks[q].form
          /\ k.assignee = asks[q].assignee /\ k.cycle = asks[q].cycle
      BY <2>1 DEF GoodAsk, Question
    <3> HIDE DEF k
    <3> QED BY <2>1, <2>2, <2>3, <3>1, <3>2 DEF GoodAsk, Continues
  <2>4. CASE q \notin S
    BY <2>1, <2>2, <2>4 DEF GoodAsk, Continues
  <2> QED BY <2>3, <2>4
<1>2. Flag(S) = [q \in Questions |-> Flag(S)[q]]
  BY DEF Flag
<1> QED BY <1>1, <1>2

\* A question of the sweeper's list, whatever its fallback.
LEMMA ExpireKeeps ==
    ASSUME AskInv, NEW q \in Questions, Expire(q)
    PROVE  AskInv'
<1>1. About[q] \in Tickets /\ pass \in Nat /\ now \in Nat /\ pass <= now
  BY AskAssumption DEF AskInv, SweepTyped, Inv, TypeOK
<1>2. UNCHANGED vars \/ TicketTouched(About[q], pass)
  BY <1>1, ExpireTouches DEF AskInv
<1>3. Inv' /\ UNCHANGED now
  BY <1>1, <1>2, TouchedOrNot
<1>4. SweepTyped'
  BY <1>1, <1>3 DEF Expire, AskInv, SweepTyped
<1>5. /\ Revoking({q}) \in [Links -> Link]
      /\ \A l \in Links : Fades(links[l], Revoking({q})[l])
  BY RevokingFades DEF AskInv
<1>6. CASE Skip(q, pass) \/ Refused(q, pass)
  BY <1>3, <1>4, <1>6, NothingAsked DEF Skip, Refused
<1>7. CASE Escalate(q, pass)
  <2> DEFINE k == [asks[q] EXCEPT !.tagged = FALSE, !.expires = Never]
  <2>1. GoodAsk(asks[q])
    BY DEF AskInv
  <2>2. /\ k \in Question /\ k.status = asks[q].status /\ k.form = asks[q].form
        /\ k.assignee = asks[q].assignee /\ k.by = asks[q].by /\ k.cycle = asks[q].cycle
    BY <2>1 DEF GoodAsk, Question
  <2>3. asks' = [asks EXCEPT ![q] = k] /\ UNCHANGED links
    BY <1>7 DEF Escalate
  <2> HIDE DEF k
  <2>4. GoodAsk(k) /\ Continues(asks[q], k)
    BY <2>1, <2>2 DEF GoodAsk, Continues
  <2>5. links' \in [Links -> Link] /\ \A l \in Links : Fades(links[l], links'[l])
    BY <2>3 DEF AskInv, Fades
  <2> QED BY <1>3, <1>4, <2>3, <2>4, <2>5, OneAskGoesOn
<1>8. CASE Recommend(q, pass)
  <2>1. PICK to \in Outcomes(q, ClearExpired(tickets[About[q]], pass), NoState, System, {"human"}, pass) :
              asks' = Settled(q, to, System)
    BY <1>8 DEF Recommend
  <2>2. to \in States \cup {NoState}
    BY <2>1, OutcomesAreLegal
  <2>3. IsOpen(q) /\ asks[q].form.onTimeout = "recommended" /\ links' = Revoking({q})
    BY <1>8 DEF Recommend, Due
  <2>4. ~asks[q].form.approve
    BY <2>3 DEF AskInv, GoodAsk, IsOpen
  <2>5. PICK k : asks' = [asks EXCEPT ![q] = k] /\ GoodAsk(k) /\ Continues(asks[q], k)
    BY <2>1, <2>2, <2>3, <2>4, SettledIsGood
  <2> QED BY <1>3, <1>4, <1>5, <2>3, <2>5, OneAskGoesOn
<1>9. CASE Cancel(q, pass) \/ FlagExpired(q, pass)
  <2>1. PICK S \in SUBSET Questions :
              /\ asks' = Flag(S) /\ \A r \in S : IsOpen(r)
    <3>1. {q} \in SUBSET Questions /\ IsOpen(q)
      BY <1>9 DEF Cancel, FlagExpired, Due
    <3>2. {r \in Questions : IsOpen(r) /\ About[r] = About[q]} \in SUBSET Questions
      OBVIOUS
    <3>3. \/ asks' = Flag({q})
          \/ asks' = Flag({r \in Questions : IsOpen(r) /\ About[r] = About[q]})
      BY <1>9 DEF Cancel, FlagExpired
    <3> QED BY <3>1, <3>2, <3>3
  <2>2. links' = Revoking({q})
    BY <1>9 DEF Cancel, FlagExpired
  <2>3. /\ asks' \in [Questions -> Question]
        /\ \A r \in Questions : Continues(asks[r], asks'[r]) /\ GoodAsk(asks'[r])
    BY <2>1, FlaggedIsGood
  <2> QED BY <1>3, <1>4, <1>5, <2>2, <2>3, AsksGoOn
<1> QED BY <1>6, <1>7, <1>8, <1>9 DEF Expire

\* The invariant, over every step.
LEMMA AskStepKeeps == AskInv /\ [AskNext]_askVars => AskInv'
<1> SUFFICES ASSUME AskInv, [AskNext]_askVars PROVE AskInv'
  OBVIOUS
<1>1. CASE (Next \/ UNCHANGED vars) /\ UNCHANGED qvars
  <2>1. Inv' /\ now <= now'
    BY <1>1, StepKeepsInv, ClockRises DEF AskInv
  <2>2. SweepTyped'
    BY <1>1, <2>1, SweepStaysTyped DEF qvars, sweep
  <2> QED BY <1>1, <2>1, <2>2, NothingAsked DEF qvars
<1>2. ASSUME NEW at \in Sampled, AskStep(at) PROVE AskInv'
  <2>1. PICK q \in Questions :
            \/ \E a \in Askers, form \in Forms[q], p \in Assignable \cup {NoOne}, echo \in Echoes :
                  Ask(a, q, form, p, echo, at)
            \/ \E a \in Askers, echo \in Echoes : AskAgain(a, q, echo, at)
    BY <1>2 DEF AskStep
  <2>2. Forms[q] \subseteq Form
    BY AskAssumption
  <2> QED BY <2>1, <2>2, AskKeeps, AskAgainKeeps
<1>3. CASE LinkStep
  BY <1>3, LinkKeeps
<1>4. CASE UNCHANGED askVars
  BY <1>1, <1>4 DEF askVars, vars, qvars
<1> QED
  BY <1>1, <1>2, <1>3, <1>4, AnswerKeeps, ReopenKeeps, ListDueKeeps, ExpireKeeps, AssignKeeps,
     WithdrawKeeps DEF AskNext

\* The invariant holds of every behaviour.
THEOREM AskInvHolds == AskSpec => []AskInv
<1>1. AskInit => AskInv
  BY InitAskInv
<1>2. AskInv /\ [AskNext]_askVars => AskInv'
  BY AskStepKeeps
<1> QED BY <1>1, <1>2, PTL DEF AskSpec

-----------------------------------------------------------------------------
(* What it establishes. *)

\* No question handler writes a column of questions, answer_grants or tickets
\* outside its type, whatever the workflow and the requests.
THEOREM AskTypeCorrect == AskSpec => []AskTypeOK
<1>1. AskInv => AskTypeOK
  BY DEF AskInv, SweepTyped, AskTypeOK, Inv
<1> QED BY <1>1, AskInvHolds, PTL

\* Answering, parking, reopening and expiring questions leaves every claim with
\* its exclusive claimant: the moves they make are remembered only on tickets
\* that nobody holds any more.
THEOREM OnlyHolderMovesHoldsOfAsk == AskSpec => []OnlyHolderMoves
<1>1. AskInv => OnlyHolderMoves
  BY DEF AskInv, Inv, GoodRow, OnlyHolderMoves, Active
<1> QED BY <1>1, AskInvHolds, PTL

\* An approval is proof: whoever stands behind it held the expertise or was the
\* person asked, or minted the link while he was, for any number of people,
\* reassignments, escalations and links (may_approve, check_approve_policy,
\* mint_answer_link, expire_with_recommendation).
THEOREM ApprovalIsProofHolds == AskSpec => []ApprovalIsProof
<1>1. AskInv => ApprovalIsProof
  BY DEF AskInv, GoodAsk, Approvers, ApprovalIsProof
<1> QED BY <1>1, AskInvHolds, PTL

\* A link that is spent answers, and in the cycle it was minted in.
LEMMA SpendingAnswers ==
    ASSUME AskInv, [AskNext]_askVars, NEW l \in Links,
           links'[l].status = "spent", links[l].status # "spent"
    PROVE  LET q == links[l].about IN
           Leaves(q) /\ asks'[q].status = "answered" /\ links[l].cycle = asks[q].cycle
<1>1. UNCHANGED links => FALSE
  OBVIOUS
<1>2. ASSUME NEW S, links' = Revoking(S) PROVE FALSE
  <2>1. Revoking(S)[l].status \in {links[l].status, "revoked"}
    <3>1. links[l] \in Link
      BY DEF AskInv
    <3> QED BY <3>1 DEF Revoking, Link
  <2> QED BY <1>2, <2>1
<1>3. ASSUME NEW q, NEW want, NEW at, AnswerByLink(l, want, at)
      PROVE  LET r == links[l].about IN
             Leaves(r) /\ asks'[r].status = "answered" /\ links[l].cycle = asks[r].cycle
  <2> DEFINE r == links[l].about
  <2>1. links[l].status = "live" /\ IsOpen(r)
    BY <1>3 DEF AnswerByLink
  <2>2. r \in Questions /\ links[l].cycle = asks[r].cycle
    BY <2>1 DEF AskInv, GoodLink
  <2>3. PICK to : asks' = Settled(r, to, links[l].minter)
    BY <1>3 DEF AnswerByLink, Record
  <2>4. asks'[r].status = "answered"
    <3>1. asks[r] \in Question /\ asks \in [Questions -> Question]
      BY <2>2 DEF AskInv
    <3> QED BY <2>2, <2>3, <3>1 DEF Settled, Question
  <2> QED BY <2>1, <2>2, <2>4 DEF Leaves, IsOpen
<1>4. ASSUME NEW m \in Links, m # l, NEW S, links' = [Revoking(S) EXCEPT ![m].status = "spent"]
      PROVE  FALSE
  <2>1. links'[l] = Revoking(S)[l]
    BY <1>4 DEF Revoking
  <2>2. Revoking(S)[l].status \in {links[l].status, "revoked"}
    <3>1. links[l] \in Link
      BY DEF AskInv
    <3> QED BY <3>1 DEF Revoking, Link
  <2> QED BY <2>1, <2>2
<1>5. ASSUME NEW at, AnswerStep(at)
      PROVE  \E want : AnswerByLink(l, want, at)
  <2>1. PICK q \in Questions, want \in States \cup {NoState} :
              \/ \E a \in Actors : AnswerDirect(a, q, want, at)
              \/ \E r \in Relayers, n \in Actors : AnswerRelayed(r, n, q, want, at)
              \/ \E m \in Links : AnswerByLink(m, want, at)
    BY <1>5 DEF AnswerStep
  <2>2. \E m \in Links : AnswerByLink(m, want, at)
    BY <1>2, <2>1 DEF AnswerDirect, AnswerRelayed
  <2>3. PICK m \in Links : AnswerByLink(m, want, at)
    BY <2>2
  <2>4. links' = [Revoking({links[m].about}) EXCEPT ![m].status = "spent"]
    BY <2>3 DEF AnswerByLink
  <2> QED BY <1>4, <2>3, <2>4
<1>6. ASSUME LinkStep PROVE FALSE
  <2>1. PICK m \in Links, s \in {"checked", "live", "revoked"} :
              links'[m].status = s /\ \A n \in Links \ {m} : links'[n] = links[n]
    <3>1. PICK m \in Links :
                \/ \E a \in Actors, q \in Questions : MintCheck(a, m, q)
                \/ MintInsert(m)
                \/ \E a \in Actors : RevokeLink(a, m)
      BY <1>6 DEF LinkStep
    <3>2. links \in [Links -> Link] /\ links[m] \in Link
      BY DEF AskInv
    <3>3. ASSUME NEW a \in Actors, NEW q \in Questions, MintCheck(a, m, q)
          PROVE  links'[m].status = "checked" /\ \A n \in Links \ {m} : links'[n] = links[n]
      BY <3>2, <3>3 DEF MintCheck, Link
    <3>4. ASSUME MintInsert(m)
          PROVE  links'[m].status = "live" /\ \A n \in Links \ {m} : links'[n] = links[n]
      BY <3>2, <3>4 DEF MintInsert, Link
    <3>5. ASSUME NEW a \in Actors, RevokeLink(a, m)
          PROVE  links'[m].status = "revoked" /\ \A n \in Links \ {m} : links'[n] = links[n]
      BY <3>2, <3>5 DEF RevokeLink, Link
    <3> QED BY <3>1, <3>3, <3>4, <3>5
  <2> QED BY <2>1
<1>7. ASSUME NEW q \in Questions, Expire(q) PROVE FALSE
  <2>1. UNCHANGED links \/ links' = Revoking({q})
    BY <1>7 DEF Expire, Skip, Escalate, Recommend, Cancel, Refused, FlagExpired
  <2> QED BY <1>1, <1>2, <2>1
<1>8. ASSUME NEW at, AskStep(at) PROVE FALSE
  BY <1>1, <1>8 DEF AskStep, Ask, AskAgain, qvars
<1>9. ASSUME NEW q, NEW a, NEW at, \/ Reopen(a, q, at) \/ ListDue(at)
                                   \/ Assign(q, a) \/ Withdraw(q)
      PROVE  FALSE
  BY <1>1, <1>2, <1>9 DEF Reopen, ListDue, Assign, Withdraw
<1> QED BY <1>1, <1>3, <1>5, <1>6, <1>7, <1>8, <1>9 DEF AskNext, askVars, qvars

\* A link is spent on one answer, and never on a question that was reopened
\* since: minting checks before its transaction and inserts without a look, yet
\* the reopening has revoked whatever was live (create_answer_grant,
\* revoke_open_grants_for_question, answer_question_via_grant).
THEOREM LinkAnswersItsCycleHolds == AskSpec => LinkAnswersItsCycle
<1>1. AskInv /\ [AskNext]_askVars =>
      [\A l \in Links :
          links'[l].status = "spent" /\ links[l].status # "spent" =>
              LET q == links[l].about IN
              Leaves(q) /\ asks'[q].status = "answered" /\ links[l].cycle = asks[q].cycle]_askVars
  BY SpendingAnswers
<1> QED BY <1>1, AskInvHolds, PTL DEF AskSpec, LinkAnswersItsCycle

-----------------------------------------------------------------------------
(* The barrier, the archive gate and the lease. *)

\* A ticket moves only by an outcome that cleared the barrier.
LEMMA CarryLeavesPut ==
    ASSUME AskInv, NEW t \in Tickets, NEW at \in Nat, NEW who, NEW sc,
           Carry(t, ClearExpired(tickets[t], at), NoState, who, sc)
    PROVE  \A u \in Tickets : tickets'[u].state = tickets[u].state
<1>1. /\ ClearExpired(tickets[t], at).state = tickets[t].state
      /\ tickets \in [Tickets -> Row]
  BY ClearedRow DEF AskInv, Inv, TypeOK
<1>2. tickets' = [tickets EXCEPT ![t] = ClearExpired(tickets[t], at)]
  BY DEF Carry
<1> QED BY <1>1, <1>2

\* What an answer leaves open: of one ticket's blocking questions, none.
LEMMA AnsweredClears ==
    ASSUME AskInv, NEW q \in Questions, IsOpen(q), NEW to, NEW by, asks' = Settled(q, to, by),
           OpenBlocking(About[q]) \subseteq {q}
    PROVE  OpenBlocking(About[q])' = {}
<1>1. asks[q] \in Question /\ asks \in [Questions -> Question]
  BY DEF AskInv
<1>2. asks'[q].status = "answered" /\ \A r \in Questions \ {q} : asks'[r] = asks[r]
  BY <1>1 DEF Settled, Question
<1> QED BY <1>2 DEF OpenBlocking, IsOpen

\* The steps that move a ticket's state while they settle a question.
LEMMA SettlingMoves ==
    ASSUME AskInv, NEW q \in Questions, NEW at \in Nat, NEW row, row = ClearExpired(tickets[About[q]], at),
           IsOpen(q), NEW want \in States \cup {NoState}, NEW who, NEW sc,
           NEW to \in Outcomes(q, row, want, who, sc, at),
           Carry(About[q], row, to, who, sc), asks' = Settled(q, to, who)
    PROVE  \/ \A u \in Tickets : tickets'[u].state = tickets[u].state
           \/ /\ ~frozen /\ OpenBlocking(About[q])' = {}
              /\ \A u \in Tickets \ {About[q]} : tickets'[u].state = tickets[u].state
<1>0. About[q] \in Tickets /\ tickets \in [Tickets -> Row]
  BY AskAssumption DEF AskInv, Inv, TypeOK
<1>1. CASE to = NoState
  <2>1. Carry(About[q], ClearExpired(tickets[About[q]], at), NoState, who, sc)
    BY <1>1
  <2> QED BY <1>0, <2>1, CarryLeavesPut
<1>2. CASE to # NoState
  <2>0. to # NoState => ClearsBarrier(q, row) /\ MayCarry(About[q], row, to, who, sc, at)
    <3> DEFINE out == Outcomes(q, row, want, who, sc, at)
    <3>1. to \in out
      OBVIOUS
    <3>2. CASE ~ClearsBarrier(q, row)
      BY <1>2, <3>1, <3>2 DEF Outcomes
    <3>3. CASE ClearsBarrier(q, row) /\ want # NoState
      BY <3>1, <3>3 DEF Outcomes
    <3>4. CASE ClearsBarrier(q, row) /\ want = NoState
      BY <1>2, <3>1, <3>4 DEF Outcomes
    <3> QED BY <3>2, <3>3, <3>4
  <2>1. ClearsBarrier(q, row) /\ MayCarry(About[q], row, to, who, sc, at)
    BY <1>2, <2>0
  <2>2. ~frozen /\ OpenBlocking(About[q])' = {}
    BY <2>1, AnsweredClears DEF ClearsBarrier, MayCarry
  <2>3. \A u \in Tickets \ {About[q]} : tickets'[u] = tickets[u]
    BY <1>0 DEF Carry
  <2> QED BY <2>2, <2>3
<1> QED BY <1>1, <1>2

\* A cancelling timeout leaves no question of the ticket open.
LEMMA CancelClears ==
    ASSUME AskInv, NEW t,
           asks' = Flag({r \in Questions : IsOpen(r) /\ About[r] = t})
    PROVE  OpenBlocking(t)' = {}
<1> DEFINE S == {r \in Questions : IsOpen(r) /\ About[r] = t}
<1>1. ASSUME NEW r \in Questions, About[r] = t PROVE asks'[r].status # "open"
  <2>1. asks[r] \in Question
    BY DEF AskInv
  <2>2. CASE r \in S
    <3>1. asks'[r] = [asks[r] EXCEPT !.status = "expired"]
      BY <2>2 DEF Flag
    <3> QED BY <2>1, <3>1 DEF Question
  <2>3. CASE r \notin S
    <3>1. asks'[r] = asks[r]
      BY <2>3 DEF Flag
    <3> QED BY <1>1, <2>3, <3>1 DEF IsOpen
  <2> QED BY <2>2, <2>3
<1> QED BY <1>1 DEF OpenBlocking, IsOpen

\* Where a step of the questions moves a ticket.
Resting == \A u \in Tickets : tickets'[u].state = tickets[u].state

Moving(q) ==
    /\ ~frozen /\ OpenBlocking(About[q])' = {}
    /\ \A u \in Tickets \ {About[q]} : tickets'[u].state = tickets[u].state

LEMMA AnswerMoves ==
    ASSUME AskInv, NEW at \in Sampled, AnswerStep(at)
    PROVE  Resting \/ \E q \in Questions : Moving(q)
<1>1. PICK q \in Questions, want \in States \cup {NoState} :
            \/ \E a \in Actors : AnswerDirect(a, q, want, at)
            \/ \E r \in Relayers, n \in Actors : AnswerRelayed(r, n, q, want, at)
            \/ \E l \in Links : links[l].about = q /\ AnswerByLink(l, want, at)
  BY DEF AnswerStep
<1>2. PICK who, sc : IsOpen(q) /\ Record(q, want, who, sc, at)
  BY <1>1 DEF AnswerDirect, AnswerRelayed, AnswerByLink
<1>3. at \in Nat
  BY SampledIsPast DEF AskInv
<1> DEFINE row == ClearExpired(tickets[About[q]], at)
<1>4. PICK to \in Outcomes(q, row, want, who, sc, at) :
            Carry(About[q], row, to, who, sc) /\ asks' = Settled(q, to, who)
  BY <1>2 DEF Record
<1>5. Resting \/ Moving(q)
  BY <1>2, <1>3, <1>4, SettlingMoves DEF Resting, Moving
<1> QED BY <1>5

LEMMA ExpiryMoves ==
    ASSUME AskInv, NEW q \in Questions, Expire(q)
    PROVE  Resting \/ Moving(q)
<1>1. About[q] \in Tickets /\ pass \in Nat /\ tickets \in [Tickets -> Row]
  BY AskAssumption DEF AskInv, SweepTyped, Inv, TypeOK
<1>2. CASE Skip(q, pass) \/ Escalate(q, pass) \/ Refused(q, pass) \/ FlagExpired(q, pass)
  BY <1>2 DEF Skip, Escalate, Refused, FlagExpired, vars, Resting
<1>3. CASE Recommend(q, pass)
  <2> DEFINE row == ClearExpired(tickets[About[q]], pass)
  <2>1. PICK to \in Outcomes(q, row, NoState, System, {"human"}, pass) :
              Carry(About[q], row, to, System, {"human"}) /\ asks' = Settled(q, to, System)
    BY <1>3 DEF Recommend
  <2>2. IsOpen(q) /\ NoState \in States \cup {NoState}
    BY <1>3 DEF Recommend, Due
  <2> QED BY <1>1, <2>1, <2>2, SettlingMoves DEF Resting, Moving
<1>4. CASE Cancel(q, pass)
  <2>1. CASE UNCHANGED <<tickets, movers>>
    BY <2>1 DEF Resting
  <2>2. CASE ~UNCHANGED <<tickets, movers>>
    <3>1. PICK to \in CancelTargets(About[q]) :
                /\ MayCarry(About[q], ClearExpired(tickets[About[q]], pass), to, System, {"human"}, pass)
                /\ Carry(About[q], ClearExpired(tickets[About[q]], pass), to, System, {"human"})
                /\ asks' = Flag({r \in Questions : IsOpen(r) /\ About[r] = About[q]})
      BY <1>4, <2>2 DEF Cancel
    <3>2. ~frozen
      BY <3>1 DEF MayCarry
    <3>3. OpenBlocking(About[q])' = {}
      BY <3>1, CancelClears
    <3>4. \A u \in Tickets \ {About[q]} : tickets'[u] = tickets[u]
      BY <1>1, <3>1 DEF Carry
    <3> QED BY <3>2, <3>3, <3>4 DEF Moving
  <2> QED BY <2>1, <2>2
<1> QED BY <1>2, <1>3, <1>4 DEF Expire

\* Asking and reopening move a ticket, and settle no question.
Opening == ~frozen /\ \A q \in Questions : ~Leaves(q)

LEMMA OpeningLeavesNone ==
    ASSUME AskInv, NEW q \in Questions, NEW k, asks' = [asks EXCEPT ![q] = k],
           asks[q].status # "open", ~frozen
    PROVE  Opening
<1>1. ASSUME NEW r \in Questions PROVE ~Leaves(r)
  BY DEF Leaves, AskInv
<1> QED BY <1>1 DEF Opening

\* Every step: of the claims alone, or one of these.
LEMMA WhoMoves ==
    ASSUME AskInv, [AskNext]_askVars
    PROVE  \/ [Next]_vars /\ UNCHANGED qvars
           \/ Resting
           \/ Opening
           \/ \E q \in Questions : Moving(q)
<1>1. ASSUME NEW at \in Sampled, AskStep(at) PROVE Resting \/ Opening
  <2>1. PICK q \in Questions :
            \/ \E a \in Askers, form \in Forms[q], p \in Assignable \cup {NoOne}, echo \in Echoes :
                  Ask(a, q, form, p, echo, at)
            \/ \E a \in Askers, echo \in Echoes : AskAgain(a, q, echo, at)
    BY <1>1 DEF AskStep
  <2>2. About[q] \in Tickets /\ at \in Nat /\ tickets \in [Tickets -> Row]
    BY AskAssumption, SampledIsPast DEF AskInv, Inv, TypeOK
  <2>3. ASSUME NEW a, NEW form, NEW p, NEW echo, Ask(a, q, form, p, echo, at) PROVE Opening
    BY <2>3, OpeningLeavesNone DEF Ask
  <2>4. ASSUME NEW a, NEW echo, AskAgain(a, q, echo, at) PROVE Resting
    <3>1. tickets' = [tickets EXCEPT ![About[q]] = ClearExpired(tickets[About[q]], at)]
      BY <2>4 DEF AskAgain
    <3>2. ClearExpired(tickets[About[q]], at).state = tickets[About[q]].state
      BY <2>2, ClearedRow DEF AskInv
    <3> QED BY <2>2, <3>1, <3>2 DEF Resting
  <2> QED BY <2>1, <2>3, <2>4
<1>2. ASSUME NEW at, NEW a, NEW q \in Questions, Reopen(a, q, at) PROVE Opening
  BY <1>2, OpeningLeavesNone DEF Reopen
<1>3. ASSUME \/ \E at : ListDue(at)
             \/ LinkStep
             \/ \E q, p : Assign(q, p)
             \/ \E q : Withdraw(q)
             \/ UNCHANGED askVars
      PROVE  Resting
  BY <1>3 DEF ListDue, LinkStep, MintCheck, MintInsert, RevokeLink, Assign, Withdraw, askVars,
       vars, Resting
<1> QED BY <1>1, <1>2, <1>3, AnswerMoves, ExpiryMoves DEF AskNext

\* No ticket of an archived project moves.
LEMMA FrozenRests ==
    ASSUME AskInv, [AskNext]_askVars, frozen, NEW t \in Tickets
    PROVE  tickets'[t].state = tickets[t].state
<1>0. tickets \in [Tickets -> Row] /\ tickets[t] \in Row
  BY DEF AskInv, Inv, TypeOK
<1>1. CASE Resting
  BY <1>1 DEF Resting
<1>2. CASE [Next]_vars
  <2>1. ASSUME NEW at, Sweep(at) PROVE tickets'[t].state = tickets[t].state
    BY <1>0, <2>1 DEF Sweep, ClearExpired, Dropped, Row
  <2>2. ASSUME NEW at, NEW a, NEW u, NEW echo, Release(a, u, echo, at)
        PROVE  tickets'[t].state = tickets[t].state
    <3>1. tickets' = [tickets EXCEPT ![u] = Released(tickets[u])]
      BY <2>2 DEF Release
    <3>2. Released(tickets[t]).state = tickets[t].state
      BY <1>0 DEF Released, Dropped, Row
    <3> QED BY <1>0, <3>1, <3>2
  <2>3. ASSUME NEW a, NEW u, ForceRelease(a, u) PROVE tickets'[t].state = tickets[t].state
    <3>1. tickets' = [tickets EXCEPT ![u] = Revoked(tickets[u])]
      BY <2>3 DEF ForceRelease
    <3>2. Revoked(tickets[t]).state = tickets[t].state
      BY <1>0 DEF Revoked, Released, Dropped, Row
    <3> QED BY <1>0, <3>1, <3>2
  <2>4. ASSUME Tick \/ (\E a : UnarchiveProject(a)) \/ UNCHANGED vars
        PROVE  tickets'[t].state = tickets[t].state
    BY <2>4 DEF Tick, UnarchiveProject, vars
  <2> QED BY <1>2, <2>1, <2>2, <2>3, <2>4, FrozenSteps
<1> QED BY <1>1, <1>2, WhoMoves DEF Opening, Moving

\* An archived project's tickets stay where they are, whatever is answered,
\* reopened or due: every path asks ensure_project_writable, and the deadline the
\* sweeper had listed before the archiving ends in the gate of the move itself.
THEOREM FrozenStaysPutHolds == AskSpec => FrozenStaysPut
<1>1. AskInv /\ [AskNext]_askVars =>
      [frozen => \A t \in Tickets : tickets'[t].state = tickets[t].state]_askVars
  BY FrozenRests
<1> QED BY <1>1, AskInvHolds, PTL DEF AskSpec, FrozenStaysPut

\* The barrier, for one question.
LEMMA LastLeaves ==
    ASSUME AskInv, [AskNext]_askVars, NEW q \in Questions,
           Leaves(q), Parked(tickets[About[q]]), ~Parked(tickets'[About[q]])
    PROVE  OpenBlocking(About[q])' = {}
<1>1. About[q] \in Tickets /\ tickets'[About[q]].state # tickets[About[q]].state
  BY AskAssumption DEF Parked
<1>2. ~Resting
  BY <1>1 DEF Resting
<1>3. ~UNCHANGED qvars /\ ~Opening
  BY DEF Leaves, qvars, Opening
<1>4. PICK r \in Questions : Moving(r)
  BY <1>2, <1>3, WhoMoves
<1>5. About[r] = About[q]
  BY <1>1, <1>4 DEF Moving
<1> QED BY <1>4, <1>5 DEF Moving

\* The barrier: whichever of a ticket's blocking questions are answered, by
\* whomever, expire or are called off, and in whatever order, the ticket comes
\* out of its blocked state with the last of them (unstick_on_answer,
\* expire_with_recommendation, expire_and_cancel).
THEOREM LastAnswerResumesHolds == AskSpec => LastAnswerResumes
<1>1. AskInv /\ [AskNext]_askVars =>
      [\A q \in Questions :
          LET t == About[q] IN
          Leaves(q) /\ Parked(tickets[t]) /\ ~Parked(tickets'[t]) => OpenBlocking(t)' = {}]_askVars
  BY LastLeaves
<1> QED BY <1>1, AskInvHolds, PTL DEF AskSpec, LastAnswerResumes

\* What every step does to the leases.
LEMMA AskStepStays ==
    ASSUME AskInv, AskNext
    PROVE  LeasesStay
<1>0. pass \in Nat /\ pass <= now /\ now \in Nat /\ Inv
  BY DEF AskInv, SweepTyped, Inv, TypeOK
<1>1. ASSUME NEW q \in Questions, NEW at \in Sampled, TicketTouched(About[q], at)
      PROVE  LeasesStay
  <2>1. at \in Nat /\ at <= now /\ About[q] \in Tickets
    BY <1>0, SampledIsPast, AskAssumption
  <2> QED BY <1>0, <1>1, <2>1, TouchStays
<1>2. ASSUME NEW at \in Sampled, AskStep(at) PROVE LeasesStay
  <2>1. PICK q \in Questions :
            \/ \E a \in Askers, form \in Forms[q], p \in Assignable \cup {NoOne}, echo \in Echoes :
                  Ask(a, q, form, p, echo, at)
            \/ \E a \in Askers, echo \in Echoes : AskAgain(a, q, echo, at)
    BY <1>2 DEF AskStep
  <2>2. About[q] \in Tickets /\ at \in Nat
    BY <1>0, AskAssumption, SampledIsPast
  <2>3. ASSUME NEW a \in Askers, NEW form, NEW p, NEW echo, Ask(a, q, form, p, echo, at)
        PROVE  LeasesStay
    <3>1. a \in Actors
      BY AskAssumption
    <3> QED BY <1>0, <1>1, <2>2, <2>3, <3>1, AskTouches
  <2>4. ASSUME NEW a, NEW echo, AskAgain(a, q, echo, at) PROVE LeasesStay
    BY <1>0, <1>1, <2>2, <2>4, ClearingTouches DEF AskAgain
  <2> QED BY <2>1, <2>3, <2>4
<1>3. ASSUME NEW at \in Sampled, AnswerStep(at) PROVE LeasesStay
  <2>1. PICK q \in Questions, want \in States \cup {NoState} :
              \/ \E a \in Actors : AnswerDirect(a, q, want, at)
              \/ \E r \in Relayers, n \in Actors : AnswerRelayed(r, n, q, want, at)
              \/ \E l \in Links : links[l].about = q /\ AnswerByLink(l, want, at)
    BY <1>3 DEF AnswerStep
  <2>2. ASSUME NEW l \in Links, links[l].about = q, AnswerByLink(l, want, at)
        PROVE  links[l].minter \in Actors /\ Record(q, want, links[l].minter, {"human"}, at)
    BY <2>2 DEF AskInv, GoodLink, AnswerByLink
  <2>3. PICK who \in Actors : \E sc : Record(q, want, who, sc, at)
    BY <2>1, <2>2 DEF AnswerDirect, AnswerRelayed
  <2>4. PICK sc : Record(q, want, who, sc, at)
    BY <2>3
  <2>5. at \in Nat
    BY <1>0, SampledIsPast
  <2> QED BY <1>0, <1>1, <2>4, <2>5, RecordTouches
<1>4. ASSUME NEW at \in Sampled, NEW a, NEW q \in Questions, Reopen(a, q, at) PROVE LeasesStay
  <2>1. at \in Nat
    BY <1>0, SampledIsPast
  <2> QED BY <1>0, <1>1, <1>4, <2>1, ReopenTouches
<1>5. ASSUME NEW q \in Questions, Expire(q) PROVE LeasesStay
  <2>1. About[q] \in Tickets /\ (UNCHANGED vars \/ TicketTouched(About[q], pass))
    BY <1>0, <1>5, ExpireTouches, AskAssumption
  <2>2. CASE UNCHANGED vars
    BY <2>2, NoRowSteps DEF vars
  <2>3. CASE TicketTouched(About[q], pass)
    BY <1>0, <2>1, <2>3, TouchStays
  <2> QED BY <2>1, <2>2, <2>3
<1>6. ASSUME \/ \E at : ListDue(at)
             \/ LinkStep
             \/ \E q, p : Assign(q, p)
             \/ \E q : Withdraw(q)
      PROVE  LeasesStay
  <2>1. UNCHANGED <<tickets, now>>
    BY <1>6 DEF ListDue, LinkStep, MintCheck, MintInsert, RevokeLink, Assign, Withdraw,
         Elsewhere, vars
  <2> QED BY <2>1, NoRowSteps
<1>7. CASE Next
  BY <1>0, <1>7, StepIsLeaseStep
<1> QED BY <1>2, <1>3, <1>4, <1>5, <1>6, <1>7 DEF AskNext

\* Every ticket implements the fenced lease under the questions too: parking
\* gives the lease up under its token, an answer keeps no lease alive, and the
\* sweeper, judging by a clock that is a whole pass old, clears only what is late
\* or lapsed.
THEOREM LeaseRefinedHoldsOfAsk == AskSpec => LeaseRefined
<1>1. AskInv /\ [AskNext]_askVars => [Lease!Next]_(Lease!lease)
  <2> SUFFICES ASSUME AskInv, [AskNext]_askVars PROVE [Lease!Next]_(Lease!lease)
    OBVIOUS
  <2>1. CASE AskNext
    BY <2>1, AskStepStays DEF LeasesStay, LeaseStays, Lease!Next
  <2>2. CASE UNCHANGED askVars
    BY <2>2 DEF askVars, Lease!lease, Phase, Late, Sampled, Owner
  <2> QED BY <2>1, <2>2
<1>2. AskInit => Lease!Init
  BY InitIsLeaseInit DEF AskInit
<1> QED BY <1>1, <1>2, AskInvHolds, PTL DEF AskSpec, LeaseRefined, Lease!Spec
=============================================================================
