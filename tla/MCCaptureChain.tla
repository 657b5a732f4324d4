--------------------------- MODULE MCCaptureChain ---------------------------
(* CaptureChain on frames of 4 rows of 4 samples with the smallest blanks.   *)
EXTENDS CaptureChain

MCNoSample == <<-1, -1>>
=============================================================================
