---------------------------- MODULE MCScheduling ----------------------------
(* An instance of Scheduling with three servers and unlike disks.  Loads   *)
(* are so large that half a percent of the capacity matters.               *)
EXTENDS Scheduling

Point(l, us) == [load |-> l, latency |-> us]

(* A fast disk, a slow one, and one that is saturated by any mix. *)
Fast == LoadModels(<<Point(400, 1), Point(800, 3), Point(900, 12)>>,
                   <<Point(200, 2), Point(400, 4), Point(600, 11)>>,
                   <<[bucket |-> 25, curve |-> <<Point(300, 2), Point(600, 11)>>],
                     [bucket |-> 75, curve |-> <<Point(200, 3), Point(400, 10)>>]>>)
Slow == LoadModels(<<Point(200, 1), Point(400, 30)>>,
                   <<Point(200, 6)>>,
                   <<[bucket |-> 50, curve |-> <<Point(200, 5), Point(300, 12)>>]>>)
Poor == LoadModels(<<Point(204, 2), Point(500, 11)>>,
                   <<Point(200, 3), Point(300, 11)>>,
                   <<[bucket |-> 25, curve |-> <<Point(100, 10)>>]>>)

MCModels == <<Fast, Slow, Poor>>
MCLoads == {[r |-> 0, w |-> 0], [r |-> 900, w |-> 0], [r |-> 0, w |-> 700],
            [r |-> 900, w |-> 100], [r |-> 600, w |-> 400]}

=============================================================================
