------------------------------- MODULE MCRxVring -------------------------------
(***************************************************************************)
(* An instance of RxVring: txvring_task and rxvring_task over rings of two *)
(* slots, which every request and most answers have to lap.                *)
(***************************************************************************)
EXTENDS RxVring

CONSTANTS txvring, rxvring, app

MCSendersOne == {rxvring}
MCSendersTwo == {rxvring, app}
MCNoWindows == {}
===============================================================================
