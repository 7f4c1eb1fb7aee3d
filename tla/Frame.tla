--------------------------------- MODULE Frame ---------------------------------
(* What the parts of the user interface share: the page that shows.  A step is one pass of the     *)
(* main loop with at most one key or touch, drawn at its end.                                       *)
EXTENDS Integers

VARIABLES cur,        \* the page
          acts, rare  \* keys and touches that may still come, failures and foreign changes that may

Home == 0
StoragePage == 1
PadPage == 5
ToolsPage == 6
SettingsPage == 8
PGS == 9

Act  == acts > 0 /\ acts' = acts - 1
Rare == rare > 0 /\ rare' = rare - 1
Fine == UNCHANGED rare

=============================================================================
