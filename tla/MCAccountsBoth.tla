--------------------------- MODULE MCAccountsBoth ---------------------------
(* Accounts in two environments, one of which a behaviour is in from the   *)
(* start: the constants give the serial one, Overlapping the other.        *)
EXTENDS MCAccounts

VARIABLE mode

Overlapping == INSTANCE Accounts
                 WITH Overlap <- TRUE, Faulty <- TRUE, MaxJwts <- 2, MaxClock <- 2

BothInit == (Init /\ mode = "serial") \/ (Overlapping!Init /\ mode = "overlap")

BothNext ==
  \/ Next /\ mode = "serial" /\ mode' = mode
  \/ Overlapping!Next /\ mode = "overlap" /\ mode' = mode

BothSpec == BothInit /\ [][BothNext]_<<vars, mode>>

=============================================================================
