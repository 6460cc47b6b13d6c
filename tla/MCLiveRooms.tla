---------------------------- MODULE MCLiveRooms ----------------------------
(* Instances of LiveRooms: who edits, and from where. *)
EXTENDS LiveRooms, TLC

CONSTANTS s, c, x, y, z, r1, r2

\* Two edits are typed in the browser; the third comes from an API call or from
\* the command line.
TwoTyped == (x :> {s}) @@ (y :> {s}) @@ (z :> {c, Cli})
=============================================================================
