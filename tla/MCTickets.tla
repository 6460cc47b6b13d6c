----------------------------- MODULE MCTickets -----------------------------
(* An instance of the tickets seen three ways: the leases of one ticket,   *)
(* the tree and the dependencies of three, and where they are filed.  The  *)
(* three ways share nothing that changes; `part' says which is looked at.  *)
EXTENDS MCClaims, MCFiling

\* Only c is worked on; e and d are over, and are there to be its relatives.
OneOpen == [t \in Tickets |-> IF t = c THEN "todo" ELSE "done"]

VARIABLE part

TicketsInit ==
    /\ part \in {"leases", "graph", "filing"}
    /\ Init /\ FilingInit
    /\ part # "filing" => \A p \in Projects : projects[p].flow = Plain

TicketsNext ==
    \/ part = "leases" /\ UNCHANGED <<part, parent, deps, filingVars>> /\ Next
    \/ part = "graph"
         /\ UNCHANGED <<part, tickets, linked, frozen, now, movers, filingVars>> /\ Next
    \/ part = "filing" /\ UNCHANGED <<part, vars>> /\ FilingNext

\* What the server owes is owed to the leases; the other parts end at will.
TicketsSpec ==
    /\ TicketsInit
    /\ [][TicketsNext]_<<part, vars, filingVars>>
    /\ WF_vars(part = "leases" /\ Tick) /\ WF_vars(part = "leases" /\ Sweep(now))
=============================================================================
