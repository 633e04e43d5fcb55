------------------------ MODULE MCScheduledCapture ------------------------
(* An instance for TLC: the late-night task of day 0, whose window ends at *)
(* midnight, an operator's capture in the same role, and one schedule      *)
(* synchronization.  A day has six ticks, a window three.                  *)
EXTENDS ScheduledCapture

MCScheduledAt == [late_night |-> {3}, pregame |-> {3}]
MCDayOffset == [late_night |-> 1, pregame |-> 0]
MCRoleOf == [night |-> "late_night", operator |-> "late_night", adhoc |-> "manual",
             pregame |-> "pregame"]
MCTasks == {"night", "pregame"}
MCManuals == {"operator", "adhoc"}
MCSyncs == {"sync"}
MCTogether == {{"night", "operator"}, {"night", "sync"}, {"night", "adhoc"}, {"pregame", "sync"}}

Event(ext, orient, start, key, title) ==
    [ext |-> ext, orient |-> orient, start |-> start, key |-> key, title |-> title]
Listing(ext, orient, start) == [ext |-> ext, orient |-> orient, start |-> start]

(* The event of the night, the same event under a new id and moved by a    *)
(* tick, and an event of the other orientation under an id already used.   *)
MCOffers == {Event("e1", "AB", 8, "k1", "t1"),
             Event("e1", "BA", 8, "k1", "t2"),
             Event("e2", "AB", 9, "k2", "t1")}
MCListings == {Listing("g1", "AB", 8), Listing("g1", "BA", 8), Listing("g2", "AB", 5)}
=============================================================================
