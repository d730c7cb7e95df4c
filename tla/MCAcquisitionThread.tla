------------------------ MODULE MCAcquisitionThread ------------------------
(* AcquisitionThread for TLC: two channels, the first being CH1 *)
EXTENDS AcquisitionThread

MCChannels == {1, 2}
=============================================================================
