------------------------------ MODULE Samplers ------------------------------
(* How RayTraceTool looks texels up.  Colours are numbers, a coordinate is    *)
(* given as uv.x * width in q-ths of a texel, and so are the weights.         *)
EXTENDS Integers

(* C#'s (int) drops the fraction, of negative numbers too; so does its /.     *)
Truncated(a, b) == IF a >= 0 THEN a \div b ELSE -((-a) \div b)
Remainder(a, b) == a - b * Truncated(a, b)

(* ((x % width) + width) % width                                              *)
Wrapped(x, width) == Remainder(Remainder(x, width) + width, width)

(* The fraction that is left of a coordinate.                                 *)
Fraction(a, q) == a - q * Truncated(a, q)

(* Mutant: the weights are exchanged.                                         *)
LerpExchanged(c0, c1, f, q) == c0 * f + c1 * (q - f)

LerpUnclamped(c0, c1, f, q) == c0 * (q - f) + c1 * f

(* The result is in parts of q * q.                                           *)
LinearSample(colors, width, height, a, b, q) ==
    LET x == Truncated(a, q)
        y == Truncated(b, q)
        At(i, j) == colors[Wrapped(y + j, height) * width + Wrapped(x + i, width)]
        Column(i) == LerpUnclamped(At(i, 0), At(i, 1), Fraction(b, q), q)
    IN  LerpUnclamped(Column(0), Column(1), Fraction(a, q), q)

(* The same over an array of rows.                                            *)
BilinearInterpolation(values, width, height, a, b, q) ==
    LET x == Truncated(a, q)
        y == Truncated(b, q)
        At(i, j) == values[<<Wrapped(x + i, width), Wrapped(y + j, height)>>]
        Column(i) == LerpUnclamped(At(i, 0), At(i, 1), Fraction(b, q), q)
    IN  LerpUnclamped(Column(0), Column(1), Fraction(a, q), q)

(* The texel whose index is the coordinate plus a half, truncated.            *)
PointSample(colors, width, height, a, b, q) ==
    LET Nearest(c) == Truncated(2 * c + q, 2 * q)
    IN  colors[Wrapped(Nearest(b), height) * width + Wrapped(Nearest(a), width)]
-----------------------------------------------------------------------------
(* A sample of colours in 0..c is such a colour when no coordinate is         *)
(* negative; else it is at most four times the range of colours away.         *)
IsSample(sample, c, a, b, q) ==
    IF a >= 0 /\ b >= 0 THEN sample \in 0..(c * q * q)
                        ELSE sample \in (-4 * c * q * q)..(5 * c * q * q)

(* Texel i is where PointSample looks for coordinate a: the nearest one, the  *)
(* higher of two; but where a plus a half is negative, the truncation goes    *)
(* upwards, to a texel that is up to one and a half texels away.              *)
IsPoint(i, a, q) == IF 2 * a + q >= 0 THEN 2 * (i * q - a) \in (1 - q)..q
                                      ELSE 2 * (i * q - a) \in q..(3 * q - 1)

(* The linear sample is the same over both kinds of arrays and interpolates,  *)
(* the point sample is a texel, and at the texels they agree.                 *)
SamplesAgree(colors, c, width, height, a, b, q) ==
    LET values == [p \in (0..(width - 1)) \X (0..(height - 1)) |->
                        colors[p[2] * width + p[1]]]
        linear == LinearSample(colors, width, height, a, b, q)
        point == PointSample(colors, width, height, a, b, q)
    IN  /\ IsSample(linear, c, a, b, q)
        /\ linear = BilinearInterpolation(values, width, height, a, b, q)
        /\ \E x \in (a \div q)..(a \div q + 2), y \in (b \div q)..(b \div q + 2) :
              /\ IsPoint(x, a, q) /\ IsPoint(y, b, q)
              /\ point = values[<<x % width, y % height>>]
        /\ a >= 0 /\ b >= 0 /\ a % q = 0 /\ b % q = 0 => linear = q * q * point
=============================================================================
