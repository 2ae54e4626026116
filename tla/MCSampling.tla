----------------------------- MODULE MCSampling ----------------------------
(* Instances of Sampling for TLC.                                           *)
EXTENDS Sampling

TwoSources == <<"mobile-black", "ru-black-full">>
OneSource  == <<"mobile-black">>
=============================================================================
