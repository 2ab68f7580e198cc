\* Frames, gain, threshold, mode, key and mute calls in any order.
CONSTANTS
    InputPeaks <- MCInputPeaks
    GainInputs <- MCGainInputs
    ThresholdInputs <- MCThresholdInputs
SPECIFICATION Spec
INVARIANT TypeOK
INVARIANT GateOpensWithinTwoFrames
INVARIANT GateClosesWithinHangover

