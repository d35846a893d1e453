------------------------------- MODULE IdleEvents -------------------------------
(* The subsystems that MPD reports changes of (enum mpd_idle), named by    *)
(* the place of their bit in the answer to the idle command.               *)
EXTENDS Naturals

CONSTANT
    Events

ASSUME EventsAssumption == Events \subseteq Nat

=============================================================================
