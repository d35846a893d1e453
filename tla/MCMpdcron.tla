------------------------------- MODULE MCMpdcron -------------------------------
(* Three modules and two events: all three hear of event 0, for which MPD  *)
(* is asked for something; only b and c hear of event 1.                   *)
EXTENDS Mpdcron

CONSTANTS a, b, c

MCModules == {a, b, c}
MCHandles == (a :> {0}) @@ (b :> {0, 1}) @@ (c :> {0, 1})

=============================================================================
