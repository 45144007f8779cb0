----------------------------- MODULE MCSession ------------------------------
(* Two physical devices, the built-in one listed first.                     *)
EXTENDS Session

TwoDevices == <<"builtin", "headset">>
=============================================================================
