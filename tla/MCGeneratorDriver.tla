-------------------------- MODULE MCGeneratorDriver --------------------------
(* The driver of a generator for frames of up to 2 x 1 samples: blanks of    *)
(* every kind, and calls with one, two and all values out of bounds.         *)
EXTENDS GeneratorDriver

MCConfigure(w, h, ff, fl, ll, lf) ==
  [width |-> w, height |-> h, frame_frame |-> ff, frame_line |-> fl,
   line_line |-> ll, line_frame |-> lf]

MCArguments ==
  {MCConfigure(2, 2, 1, 0, 1, 0), MCConfigure(1, 2, 2, 2, 2, 1),
   MCConfigure(2, 0, 1, 1, 2, 1), MCConfigure(3, 1, 0, 0, 1, 2),
   MCConfigure(0, 3, 3, 3, 0, 5)}
=============================================================================
