------------------------------ MODULE AudioDSP ------------------------------
(***************************************************************************)
(* The transmit gate and level meter of src-tauri/src/audio_dsp.rs (struct *)
(* AudioDSP): process_frame on the capture thread and the setters called   *)
(* by the UI commands, each under the DSP mutex, so each is one step.      *)
(*                                                                         *)
(* f32 arithmetic is abstracted to fixed point: the input gain and the    *)
(* threshold in twentieths (GainOne = 1.0), levels in units of 1e-5       *)
(* rounded down, the smoothed gate in units of 0.005 (GateOne = 1.0) as *)
(* an interval rounded down and up (see Smooth).  A frame                *)
(* is abstracted to its peak absolute sample; the samples themselves only  *)
(* matter through the gain they are multiplied by (TransmissionGain).    *)
(***************************************************************************)
EXTENDS Integers

CONSTANTS
    InputPeaks,     \* peak |sample| of a captured frame, in 1e-5 units
    GainInputs,     \* arguments of set_gain, in twentieths
    ThresholdInputs \* arguments of set_threshold, in twentieths

(* AudioDSP::new constants, in model units. *)
GainOne     == 20
NoiseFloor  == 20       \* 0.0002
MaxLevel    == 7000     \* 0.07
DecayNum    == 88       \* decay_factor 0.88 = 88/100
GateOne     == 1000     \* current_gain 1.0, in thousandths
Attack      == 300      \* attack_coeff 0.3
Release     == 50       \* release_coeff 0.05
GateFloor   == 1        \* current_gain.max(0.001)

MaxOf(a, b) == IF a >= b THEN a ELSE b

LoudestPeak ==
    LET ps == {(p * MaxOf(g, 0)) \div GainOne : p \in InputPeaks, g \in GainInputs \cup {GainOne}}
    IN  CHOOSE m \in ps : \A q \in ps : q <= m

(* The run lengths the gate properties are about; each run counter       *)
(* saturates at its bound.  From 1.0, 0.95^13 = 0.513 and 0.95^14 = 0.488 *)
(* in f32, so 14 is the shortest hangover that closes the gate from any   *)
(* level.                                                                 *)
OnsetFrames == 2
Hangover    == 14

VARIABLES
    gain, threshold, input_mode, ptt_pressed, transmission_muted,
    displayed_level, current_gain,
    openRun,    \* voice-activity frames in a row with target 1, no mode/mute call
    closeRun    \* voice-activity frames in a row with target 0, no mode/mute call

vars == <<gain, threshold, input_mode, ptt_pressed, transmission_muted,
          displayed_level, current_gain, openRun, closeRun>>

Cap(n, bound) == IF n >= bound THEN bound ELSE n

(* A gain known exactly: both ends of its interval equal. *)
Exactly(v) == [lo |-> v, hi |-> v]

(* AudioDSP::new *)
Init ==
    /\ gain = GainOne /\ threshold = 4
    /\ input_mode = "va" /\ ptt_pressed = FALSE /\ transmission_muted = FALSE
    /\ displayed_level = 0 /\ current_gain = Exactly(0)
    /\ openRun = 0 /\ closeRun = 0

(* Steps 3-4: envelope with instant attack and 0.88 decay, then silence   *)
(* below the noise floor clamped to 0.                                    *)
Envelope(peak, dl) ==
    LET e == MaxOf(peak, (dl * DecayNum) \div 100) IN
    IF e < NoiseFloor THEN 0 ELSE e

(* Steps 5-6: level = sqrt(normalized) compared with the threshold.  With *)
(* both sides >= 0 this is normalized >= threshold^2, evaluated exactly.  *)
Voiced(dl, thr) ==
    IF dl < NoiseFloor THEN thr = 0
    ELSE LET n == IF dl > MaxLevel THEN MaxLevel - NoiseFloor ELSE dl - NoiseFloor
         IN  n * GainOne * GainOne >= thr * thr * (MaxLevel - NoiseFloor)

(* Step 6, voice-activity branch: exponential attack when opening,        *)
(* release when closing.  The smoothed gain is kept as an interval: "lo"  *)
(* rounds every update down and "hi" rounds it up, so (both updates being *)
(* monotone in g) the f32 value always lies between them.                 *)
Bounds == {"lo", "hi"}

Smooth(g, target, coeff, b) ==
    LET x == g * (GateOne - coeff) + target * coeff
    IN  IF b = "lo" THEN x \div GateOne ELSE (x + GateOne - 1) \div GateOne

(* Mutant: the attack and release coefficients swapped.                   *)
GateStepSwapped(g, target, b) ==
    IF target > g THEN Smooth(g, target, Release, b) ELSE Smooth(g, target, Attack, b)

(* Mutant: the release branch computes but does not store the new gain.   *)
GateStepReleaseUnstored(g, target, b) ==
    IF target > g THEN Smooth(g, target, Attack, b) ELSE g

GateStep(g, target, b) ==
    IF target > g THEN Smooth(g, target, Attack, b) ELSE Smooth(g, target, Release, b)

(* process_frame on a frame of FRAME_SAMPLES samples (never empty). *)
ProcessFrame(inPeak) ==
    LET peak == (inPeak * gain) \div GainOne
        dl == Envelope(peak, displayed_level)
        target == IF Voiced(dl, threshold) THEN GateOne ELSE 0
        g == [b \in Bounds |-> GateStep(current_gain[b], target, b)]
        gating == ~transmission_muted /\ input_mode = "va"
    IN
    /\ displayed_level' = dl
    /\ current_gain' = IF gating THEN g ELSE current_gain
    /\ openRun'  = IF gating /\ target = GateOne THEN Cap(openRun + 1, OnsetFrames) ELSE 0
    /\ closeRun' = IF gating /\ target = 0 THEN Cap(closeRun + 1, Hangover) ELSE 0
    /\ UNCHANGED <<gain, threshold, input_mode, ptt_pressed, transmission_muted>>

(* Step 6's transmission_gain for a frame processed in the current state, *)
(* once the gate update is applied: the samples are multiplied by it.     *)
TransmissionGain ==
    CASE transmission_muted -> Exactly(0)
      [] input_mode = "va"  -> [b \in Bounds |-> MaxOf(current_gain[b], GateFloor)]
      [] OTHER              -> Exactly(IF ptt_pressed THEN GateOne ELSE 0)

(* set_gain: negative gains become 0. *)
SetGain(v) ==
    /\ gain' = MaxOf(v, 0)
    /\ UNCHANGED <<threshold, input_mode, ptt_pressed, transmission_muted,
                   displayed_level, current_gain, openRun, closeRun>>

(* Mutant: set_threshold with .max(0.0) in place of .clamp(0.0, 1.0).    *)
SetThresholdNoUpperClamp(v) ==
    /\ threshold' = IF v < 0 THEN 0 ELSE v
    /\ UNCHANGED <<gain, input_mode, ptt_pressed, transmission_muted,
                   displayed_level, current_gain, openRun, closeRun>>

(* set_threshold: clamped to [0, 1]. *)
SetThreshold(v) ==
    /\ threshold' = IF v < 0 THEN 0 ELSE IF v > GainOne THEN GainOne ELSE v
    /\ UNCHANGED <<gain, input_mode, ptt_pressed, transmission_muted,
                   displayed_level, current_gain, openRun, closeRun>>

(* set_input_mode: the smoothed gate is reset; entering push-to-talk also *)
(* releases the key.                                                      *)
SetInputMode(m) ==
    /\ input_mode' = m
    /\ current_gain' = Exactly(0)
    /\ ptt_pressed' = IF m = "ptt" THEN FALSE ELSE ptt_pressed
    /\ openRun' = 0 /\ closeRun' = 0
    /\ UNCHANGED <<gain, threshold, transmission_muted, displayed_level>>

SetPttPressed(b) ==
    /\ ptt_pressed' = b
    /\ UNCHANGED <<gain, threshold, input_mode, transmission_muted,
                   displayed_level, current_gain, openRun, closeRun>>

(* set_transmission_muted: muting also resets the smoothed gate. *)
SetTransmissionMuted(b) ==
    /\ transmission_muted' = b
    /\ current_gain' = IF b THEN Exactly(0) ELSE current_gain
    /\ openRun' = 0 /\ closeRun' = 0
    /\ UNCHANGED <<gain, threshold, input_mode, ptt_pressed, displayed_level>>

Next ==
    \/ \E p \in InputPeaks : ProcessFrame(p)
    \/ \E v \in GainInputs : SetGain(v)
    \/ \E v \in ThresholdInputs : SetThreshold(v)
    \/ \E m \in {"va", "ptt"} : SetInputMode(m)
    \/ \E b \in BOOLEAN : SetPttPressed(b) \/ SetTransmissionMuted(b)

Spec == Init /\ [][Next]_vars

-----------------------------------------------------------------------------
(* Properties *)

TypeOK ==
    /\ gain \in {MaxOf(v, 0) : v \in GainInputs} \cup {GainOne}
    /\ threshold \in 0..GainOne
    /\ input_mode \in {"va", "ptt"}
    /\ ptt_pressed \in BOOLEAN /\ transmission_muted \in BOOLEAN
    /\ displayed_level \in {0} \cup (NoiseFloor..(LoudestPeak))
    /\ current_gain \in [lo : 0..GateOne, hi : 0..GateOne]
    /\ current_gain.lo <= current_gain.hi
    /\ openRun \in 0..OnsetFrames /\ closeRun \in 0..Hangover

(* Voice onset: from any gate level, the second voiced frame in a row in  *)
(* voice-activity mode is already sent at half gain or more, whatever     *)
(* setter calls (gain, threshold, key) come between the frames.           *)
GateOpensWithinTwoFrames == openRun >= OnsetFrames => 2 * TransmissionGain.lo >= GateOne

(* Hangover: after Hangover unvoiced voice-activity frames in a row, the  *)
(* gate has released below half gain, from any gate level the attack      *)
(* and release history left.                                              *)
GateClosesWithinHangover == closeRun >= Hangover => 2 * TransmissionGain.hi < GateOne

=============================================================================
