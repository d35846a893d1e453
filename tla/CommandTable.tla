------------------------------ MODULE CommandTable ------------------------------
(***************************************************************************)
(* commands[] of gmodule/stats/stats-command.c and how a client's line     *)
(* finds its entry in it.  A name is its place among all the names in the  *)
(* order of strcmp.                                                        *)
(***************************************************************************)
EXTENDS Naturals, Sequences

CONSTANT
    commands     \* the entries, in the order of the array

Permissions == {"select", "update"}

ASSUME CommandsAssumption ==
    /\ commands \in Seq([name : Nat, permission : SUBSET Permissions,
                         handler : {"changes", "queries", "password"}])
    /\ commands # <<>>

Names == {commands[i].name : i \in DOMAIN commands}

(* command_lookup: a binary search over commands[a] .. commands[b - 1],    *)
(* counted from 0; it yields the place of the entry, or 0.                 *)
command_lookup(name) ==
    LET search[a \in 0 .. Len(commands), b \in 0 .. Len(commands)] ==
          LET i == (a + b) \div 2
              here == commands[i + 1].name
          IN  IF name = here THEN i + 1
              ELSE IF name < here
              THEN IF a < i THEN search[a, i] ELSE 0
              ELSE IF i + 1 < b THEN search[i + 1, b] ELSE 0
    IN  search[0, Len(commands)]

=============================================================================
