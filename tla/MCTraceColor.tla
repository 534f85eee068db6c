----------------------------- MODULE MCTraceColor -----------------------------
(* TraceColor for TLC, with the samplers its factors come from.               *)
EXTENDS TraceColor

(* Whatever the texture and the coordinates, the indices stay inside (else    *)
(* TLC has no value), the point sample is the texel next to the coordinate or *)
(* the one behind it, and the linear sample is the same over both kinds of    *)
(* arrays; it interpolates between texels and agrees with the point sample on *)
(* them or, at negative coordinates, leaves their range by no more than four  *)
(* times.  A few states are enough to check it in.                            *)
SamplesInterpolate == sub = 0 /\ rays = 0 /\ ~antiAliasing =>
    \A w \in 1..3, h \in 1..2, a, b \in -9..9 :
      \A colors \in [0..(w * h - 1) -> 0..1] :
        SamplesAgree(colors, 1, w, h, a, b, 4)
=============================================================================
