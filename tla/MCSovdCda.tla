----------------------------- MODULE MCSovdCda -----------------------------
(* TLC instances of SovdCda: two data identifiers, so that a late answer   *)
(* can be taken for that of the next one, histories of two readings, which *)
(* overflow in the third poll, and one request beside the poller (requests *)
(* do not change the state, so a second one adds nothing).                 *)
EXTENDS SovdCda

TwoDids == <<"CF10", "CF11">>
=============================================================================
