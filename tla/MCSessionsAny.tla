--------------------------- MODULE MCSessionsAny ---------------------------
(* Sessions in three environments, one of which a behaviour is in from the *)
(* start: the constants give the serial one, Overlapping one of clients    *)
(* whose requests overlap with each other's, Impatient one of a client     *)
(* whose own do, and which gives them up and repeats them.                 *)
EXTENDS MCSessions

VARIABLE mode

Overlapping == INSTANCE Sessions
                 WITH Overlap <- TRUE, Lossy <- FALSE, Faulty <- TRUE, Jwt <- FALSE,
                      MaxClock <- 1

Impatient == INSTANCE Sessions
               WITH Overlap <- TRUE, Parallel <- TRUE, Jwt <- FALSE,
                    MaxSignIns <- 1, MaxToken <- 4, MaxClock <- 1

AnyInit ==
  \/ Init /\ mode = "serial"
  \/ Overlapping!Init /\ mode = "overlap"
  \/ Impatient!Init /\ mode = "impatient"

AnyNext ==
  \/ Next /\ mode = "serial" /\ mode' = mode
  \/ Overlapping!Next /\ mode = "overlap" /\ mode' = mode
  \/ Impatient!Next /\ mode = "impatient" /\ mode' = mode

AnySpec == AnyInit /\ [][AnyNext]_<<vars, mode>>

=============================================================================
