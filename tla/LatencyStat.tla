------------------------------ MODULE LatencyStat ------------------------------
(***************************************************************************)
(* The Linux program latencystat: main sends CLEAR, START, STOP, CLONE and *)
(* GET, waits for the acknowledgement of each (rpmsg_send_message), and    *)
(* reads the histogram (rpmsg_read_response).  When it ends it may be run  *)
(* again; it may also be killed and run again.                             *)
(***************************************************************************)
EXTENDS RpmsgEndpoint

CONSTANTS
  MayBeKilled,      \* whether latencystat may be killed at any point
  MaxRequests       \* bound: requests in the channel

ASSUME ClientAssumption == MayBeKilled \in BOOLEAN /\ MaxRequests \in Nat \ {0}

VARIABLES
  command_no,       \* the command of Script it is at
  phase,            \* "write", "ack", "data" or "print"
  report            \* the message it read as the histogram, if it has read one

clientVars == <<command_no, phase, report>>

Script == <<"CLEAR", "START", "STOP", "CLONE", "GET">>

ClientInit ==
  /\ command_no = 1
  /\ phase = "write"
  /\ report = <<>>

\* write() of the next command.
SendCommand ==
  /\ phase = "write"
  /\ Len(requests) < MaxRequests
  /\ requests' = Append(requests, Script[command_no])
  /\ phase' = "ack"
  /\ UNCHANGED <<command_no, report, to_linux>>

\* One turn of the loop that waits for the acknowledgement and disregards
\* everything else.
ReadAck ==
  /\ phase = "ack"
  /\ to_linux # <<>>
  /\ to_linux' = Tail(to_linux)
  /\ IF Head(to_linux) # Ack(Script[command_no])
       THEN UNCHANGED <<command_no, phase>>
     ELSE IF command_no < Len(Script)
       THEN command_no' = command_no + 1 /\ phase' = "write"
       ELSE phase' = "data" /\ UNCHANGED command_no
  /\ UNCHANGED <<report, requests>>

\* rpmsg_read_response takes what comes as the histogram.
ReadResponse ==
  /\ phase = "data"
  /\ to_linux # <<>>
  /\ to_linux' = Tail(to_linux)
  /\ report' = <<Head(to_linux)>>
  /\ phase' = "print"
  /\ UNCHANGED <<command_no, requests>>

StartOver ==
  /\ command_no' = 1
  /\ phase' = "write"
  /\ report' = <<>>
  /\ UNCHANGED <<requests, to_linux>>

\* main prints and returns; the user runs it again.
Restart ==
  /\ phase = "print"
  /\ StartOver

\* It is killed; what it left in the channel stays there.
Kill ==
  /\ MayBeKilled
  /\ phase # "print"
  /\ StartOver
===============================================================================
