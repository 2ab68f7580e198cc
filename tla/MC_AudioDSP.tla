----------------------------- MODULE MC_AudioDSP -----------------------------
(* Model-checking instance of AudioDSP: the argument sets include values  *)
(* that set_gain and set_threshold must clamp.                            *)
EXTENDS AudioDSP

(* Silence and a loud frame (0.01, above the default threshold until its  *)
(* envelope decays through it; repeated, it keeps the gate attacking).    *)
MCInputPeaks == {0, 1000}
(* A negative gain (clamped to 0) and unity.                              *)
MCGainInputs == {-20, 20}
(* Above 1 (clamped to 1, so no frame is voiced); 0.2 is the default.    *)
MCThresholdInputs == {30}
=============================================================================
