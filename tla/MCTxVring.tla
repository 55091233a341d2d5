------------------------------- MODULE MCTxVring -------------------------------
(***************************************************************************)
(* Instances of TxVring: txvring_task, rxvring_task and, in some runs, one *)
(* more task that sends; a ring of two or three slots, so that it fills    *)
(* and laps; IDX_MOD is a multiple of the ring's size, as 2^16 is of 256.  *)
(***************************************************************************)
EXTENDS TxVring

CONSTANTS txvring, rxvring, app

MCSendersOne == {rxvring}
MCSendersTwo == {rxvring, app}
MCNoWindows == {}
MCAllWindows == AllWindows
MCWrite == {"write"}
MCSuspend == {"suspend"}
===============================================================================
