------------------------------- MODULE RpmsgLink -------------------------------
(***************************************************************************)
(* What remoteproc.c promises the two programs it connects: the requests   *)
(* of the Linux client reach the application's handler one at a time, in   *)
(* the order in which they were written, and the answers of the handler    *)
(* reach the client in the order in which they were sent.  RxVring is      *)
(* shown to implement it; LatencySystem takes it for granted.              *)
(***************************************************************************)
EXTENDS RpmsgEndpoint

CONSTANTS
  Requests,     \* what the client may write
  Answers(_)    \* the answers to a request, in order

VARIABLES
  answered,     \* how many answers to the oldest request were sent
  got           \* what the client has read, oldest first

linkVars == <<requests, to_linux, answered, got>>

LinkInit == requests = <<>> /\ to_linux = <<>> /\ answered = 0 /\ got = <<>>

\* The client writes a request.
LinkWrite ==
  /\ \E r \in Requests : requests' = Append(requests, r)
  /\ UNCHANGED <<to_linux, answered, got>>

\* The handler sends the next answer to the oldest request.
LinkAnswer ==
  /\ requests # <<>>
  /\ answered < Len(Answers(Head(requests)))
  /\ to_linux' = Append(to_linux, Answers(Head(requests))[answered + 1])
  /\ answered' = answered + 1
  /\ UNCHANGED <<requests, got>>

\* The handler returns: every answer was sent.
LinkFinish ==
  /\ requests # <<>>
  /\ answered = Len(Answers(Head(requests)))
  /\ requests' = Tail(requests)
  /\ answered' = 0
  /\ UNCHANGED <<to_linux, got>>

LinkRead ==
  /\ to_linux # <<>>
  /\ got' = Append(got, Head(to_linux))
  /\ to_linux' = Tail(to_linux)
  /\ UNCHANGED <<requests, answered>>

LinkNext == LinkWrite \/ LinkAnswer \/ LinkFinish \/ LinkRead

LinkSpec == LinkInit /\ [][LinkNext]_linkVars /\ WF_linkVars(LinkRead)
===============================================================================
