----------------------------- MODULE MCStatsServer -----------------------------
EXTENDS StatsServer

(* Two of the commands: password and rate. *)
SmallTable ==
    << [name |-> 1, permission |-> {},         handler |-> "password"],
       [name |-> 2, permission |-> {"update"}, handler |-> "changes"] >>

(* The 50 entries of the array.  They are in the order of their names but  *)
(* for the entries 36 to 38, rate_album, rate_artist and rate_genre, which *)
(* stand before rate_absolute and its three variants. *)
FullTable == [i \in 1 .. 50 |->
    [name |-> IF i \in 36 .. 38 THEN i + 4 ELSE IF i \in 39 .. 42 THEN i - 3 ELSE i,
     permission |-> IF i \in 18 .. 29 THEN {"select"}
                    ELSE IF i = 34 THEN {} ELSE {"update"},
     handler |-> IF i \in 18 .. 29 THEN "queries"
                 ELSE IF i = 34 THEN "password" ELSE "changes"]]

SelectOnly == {"select"}
Talkative == <<2, 1, 0>>
OneLine == <<1>>
Granting == {{"update"}}

=============================================================================
