---------------------------- MODULE FencedLease ----------------------------
(***************************************************************************)
(* What the claim machinery promises about every ticket, whatever gates    *)
(* stand before a claim: a lease with a fencing token.  At most one owner; *)
(* the token rises by one with every new lease and every revocation and at *)
(* no other time; a lease that lapsed comes back to nobody, its own owner  *)
(* included, except under a new token.                                     *)
(***************************************************************************)
EXTENDS Naturals

CONSTANTS Leases, Owners, Nobody

VARIABLES phase, owner, token

lease == <<phase, owner, token>>

Init ==
    /\ phase = [l \in Leases |-> "free"]
    /\ owner = [l \in Leases |-> Nobody]
    /\ token = [l \in Leases |-> 0]

Keep(l)  == token'[l] = token[l]
Raise(l) == token'[l] = token[l] + 1

Free(l) == phase'[l] = "free" /\ owner'[l] = Nobody

\* A lease whose time is up passes to a new owner, late or not; a grant that
\* took long to arrive can be late from the start.
Acquire(l) ==
    phase[l] # "held" /\ phase'[l] \in {"held", "late"} /\ owner'[l] \in Owners /\ Raise(l)

\* Time runs out: the token stays, and with it the proof that nobody else came.
Overrun(l) == phase[l] = "held" /\ phase'[l] = "late" /\ owner'[l] = owner[l] /\ Keep(l)

\* The owner asked in time and was heard late.
Rescue(l)  == phase[l] = "late" /\ phase'[l] = "held" /\ owner'[l] = owner[l] /\ Keep(l)

\* Nobody who asked in time is still to be heard.
Lapse(l)   == phase[l] \in {"held", "late"} /\ phase'[l] = "lapsed" /\ owner'[l] = owner[l] /\ Keep(l)

\* The owner, or a decision with authority over it, ends the lease, or ends it
\* just after its time on the word of an older clock.
Drop(l) == phase[l] # "free" /\ Free(l) /\ Keep(l)

\* An operator takes the lease from its owner, present or lapsed.
Revoke(l) == phase[l] # "free" /\ Free(l) /\ Raise(l)

\* A lease acquired and given up inside one transaction.
AcquireAndDrop(l) == phase[l] # "held" /\ Free(l) /\ Raise(l)

Stay(l) == phase'[l] = phase[l] /\ owner'[l] = owner[l] /\ Keep(l)

\* Leases are independent: the clock can end several at once.
Next ==
    \A l \in Leases :
        \/ Acquire(l) \/ Overrun(l) \/ Rescue(l) \/ Lapse(l)
        \/ Drop(l) \/ Revoke(l) \/ AcquireAndDrop(l) \/ Stay(l)

Spec == Init /\ [][Next]_lease
=============================================================================
