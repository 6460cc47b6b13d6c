---------------------------- MODULE MCDocuments ----------------------------
(* An instance of what keeps a document: the rooms that hold, log and save *)
(* it, and the tree of a mind map that two replicas edit.  They share no   *)
(* state, so the run looks at each in turn: `part' says at which.          *)
EXTENDS LiveRooms, MindTree, TLC

CONSTANTS
    s, c, x, y, z, r1, r2,      \* LiveRooms
    here, there                 \* MindTree

\* Two edits are typed in the browser; the third comes from an API call or from
\* the command line.
TwoTyped == (x :> {s}) @@ (y :> {s}) @@ (z :> {c, Cli})

ASSUME EditsHaveOneAuthor == OneAuthor

FirstTwo == 1..2

\* fracdex::midpoint as it is written, by recursion on the keys.  MindTree has
\* it unrolled.
RECURSIVE Mid(_, _)
Mid(a, b) ==
    LET same == Shared(a, b)
        low  == Digit(a, same + 1, 0)
        high == Digit(b, same + 1, Base)
        Behind(key, k) == SubSeq(key, k + 1, Len(key))
    IN  IF same > 0 THEN SubSeq(a, 1, same) \o Mid(Behind(a, same), Behind(b, same))
        ELSE IF high - low > 1 THEN <<(low + high) \div 2>>
        ELSE IF Len(b) > 1 THEN <<high>> \o Mid(<<>>, Behind(b, 1))
        ELSE <<low>> \o Mid(Behind(a, 1), <<>>)

\* Usable keys of up to MaxKeyLen digits, and none.
Bounds == {key \in Keys : key = <<>> \/ IsValid(key)}

ASSUME MidpointIsUnrolled ==
    \A a, b \in Bounds : b = <<>> \/ Less(a, b) => Midpoint(a, b) = Mid(a, b)

VARIABLE part

DocumentsInit == part \in {"rooms", "tree"} /\ Init /\ TreeInit

DocumentsNext ==
    \/ part = "rooms" /\ Next /\ UNCHANGED <<part, treeVars>>
    \/ part = "tree" /\ TreeNext /\ UNCHANGED <<part, vars>>

\* While the tree is looked at the rooms stay in their initial state, where none
\* of the fair actions is enabled.
DocumentsSpec ==
    /\ DocumentsInit
    /\ [][DocumentsNext]_<<part, vars, treeVars>>
    /\ Fairness
=============================================================================
