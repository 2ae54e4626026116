---------------------------- MODULE MCXrayProbe ----------------------------
(* Instances of XrayProbe for TLC.                                          *)
EXTENDS XrayProbeProofs
=============================================================================
