------------------------- MODULE MCCameraController -------------------------
(* The controller on frames of 8 rows of 4 samples: 8 pixels, two bursts of  *)
(* two words, 16 bytes.                                                      *)
EXTENDS CameraController

MCNoSample == <<-1, -1>>
MCWord(b0, b1, b2, b3) == [i \in 0 .. 3 |-> <<b0, b1, b2, b3>>[i + 1]]
MCBurstLength == MCWord(0, 0, 1, 0)
MCFrameLength == MCWord(0, 0, 1, 0)
MCStartAddress == MCWord(0, 2, 3, 0)
MCStatusWrites == {{}}
=============================================================================
