-------------------------------- MODULE MCCamera --------------------------------
(***************************************************************************)
(* CameraApp with two devices, one stick before and one after its boot.    *)
(***************************************************************************)
EXTENDS CameraApp

CONSTANTS rom, booted, l1, l2
================================================================================
