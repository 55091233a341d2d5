-------------------------------- MODULE MCBoard --------------------------------
(* Board over five sections of memory. *)
EXTENDS Board

MCSections == 0 .. 4

\* The trace buffer, then the TTC, the UART and the SCU.
MCResources == << [type |-> "TRACE", da |-> 0], [type |-> "MMU", da |-> 1],
                  [type |-> "MMU", da |-> 2], [type |-> "MMU", da |-> 3] >>
===============================================================================
