---------------------------- MODULE MCPlayerEvents ----------------------------
EXTENDS PlayerEvents, TLC

CONSTANTS a, b, r

(* A song, one without the tags that are needed, and a stream. *)
MCDuration == a :> 2 @@ b :> 2 @@ r :> 0

==============================================================================
