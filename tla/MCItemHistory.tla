--------------------------- MODULE MCItemHistory ---------------------------
(* ItemHistory in three environments, one of which a behaviour is in from  *)
(* the start: the constants give the serial one with failures, Overlapping *)
(* one of requests that overlap, Hasty one of saves closer to each other   *)
(* than the conflict interval.                                             *)
EXTENDS MCItemSync, ItemHistory, TLC

VARIABLE mode

Overlapping == INSTANCE ItemHistory
                 WITH Overlap <- TRUE, Limits <- {1}, Steps <- {2}, Losses <- {0},
                      OmitUpdatedAt <- FALSE, Faulty <- FALSE

Hasty == INSTANCE ItemHistory
           WITH Limits <- {0}, Steps <- {2, 3}, Faulty <- FALSE,
                ConflictInterval <- 3, MaxClock <- 8

AnyInit ==
  \/ HistoryInit /\ mode = "serial"
  \/ Overlapping!HistoryInit /\ mode = "overlap"
  \/ Hasty!HistoryInit /\ mode = "hasty"

AnyNext ==
  \/ HistoryNext /\ mode = "serial" /\ mode' = mode
  \/ Overlapping!HistoryNext /\ mode = "overlap" /\ mode' = mode
  \/ Hasty!HistoryNext /\ mode = "hasty" /\ mode' = mode

AnySpec == AnyInit /\ [][AnyNext]_<<vars, history, mode>>

\* Where one device creates every item, they are alike.
Symmetric == Permutations(Item)

=============================================================================
