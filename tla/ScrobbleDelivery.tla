---------------------------- MODULE ScrobbleDelivery ----------------------------
(***************************************************************************)
(* What the scrobbler promises for the songs that were played, with no     *)
(* queue, timer, state or HTTP request in sight: every play is numbered in *)
(* the order it was played, the server is told of plays in that order, a   *)
(* batch at a time, possibly more than once, and the scrobbler forgets a   *)
(* play only once the server has it.  ScrobblerSubmit implements this.     *)
(***************************************************************************)
EXTENDS Naturals

CONSTANTS
    MaxSubmit    \* largest batch of plays told to the server at once

VARIABLES
    plays,       \* how many songs were played; the plays are 1..plays
    forgotten,   \* plays 1..forgotten are no longer kept by the scrobbler
    accepted     \* the plays the server has

vars == <<plays, forgotten, accepted>>

Init ==
    /\ plays \in Nat
    /\ forgotten = 0
    /\ accepted = {}

(* Another song was played long enough to count. *)
Play ==
    /\ plays' = plays + 1
    /\ UNCHANGED <<forgotten, accepted>>

(* The server takes the n oldest remembered plays; its answer may be lost, *)
(* and then the scrobbler keeps them and will tell the server again.       *)
Scrobble(n) ==
    /\ forgotten + n <= plays
    /\ accepted' = accepted \union ((forgotten + 1) .. (forgotten + n))
    /\ forgotten' \in {forgotten, forgotten + n}
    /\ UNCHANGED plays

Next == Play \/ \E n \in 1 .. MaxSubmit : Scrobble(n)

Spec == Init /\ [][Next]_vars

=============================================================================
