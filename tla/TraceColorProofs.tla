---------------------------- MODULE TraceColorProofs ----------------------------
(* TypeOK, StackBounded, UndefinedOnlyInTheDark and RaysWithinBudget hold for *)
(* every number of samples, depth, scene and resolution of the factors; the   *)
(* samplers are right for every texture and coordinate.                       *)
EXTENDS MCTraceColor, SequenceTheorems, WellFoundedInduction, TLAPS

(* A call that goes on after its hit has a depth and a layer left to use, and *)
(* a light path has those of the hit it was begun from.                       *)
HitInv ==
    \A i \in DOMAIN stack : stack[i].hit \/ stack[i].shadow > 0
                                => /\ stack[i].depth > 0
                                   /\ stack[i].layer < Layers

(* The last part of TypeOK.                                                   *)
CountInv == ~extrapolated => \A i \in DOMAIN stack : Counted(stack[i])

(* The inductive invariant.                                                   *)
TraceInv == TypeOK /\ HitInv /\ StackBounded /\ UndefinedOnlyInTheDark

-----------------------------------------------------------------------------
(* Arithmetic.                                                                *)
LEMMA Products ==
    ASSUME NEW a \in Int, NEW b \in Int, NEW c \in Int
    PROVE  /\ a * b \in Int
           /\ (a + b) * c = a * c + b * c
           /\ (a - b) * c = a * c - b * c
           /\ a * b = b * a
           /\ a >= 0 /\ b >= 0 => a * b >= 0
  OBVIOUS

(* Of two factors.                                                            *)
LEMMA ProductIsInt ==
    ASSUME NEW a \in Int, NEW b \in Int
    PROVE  a * b \in Int /\ (a >= 0 /\ b >= 0 => a * b >= 0)
  OBVIOUS

(* A product does not shrink when a factor grows.                             *)
LEMMA ProductGrows ==
    ASSUME NEW a \in Int, NEW b \in Int, NEW c \in Nat, a <= b
    PROVE  a * c <= b * c
  <1>1. (b - a) * c >= 0
    BY Products
  <1>2. (b - a) * c = b * c - a * c /\ a * c \in Int /\ b * c \in Int
    BY Products
  <1> QED BY <1>1, <1>2

(* Element x of row y of an array with h rows of w elements.                  *)
LEMMA RowIsInside ==
    ASSUME NEW w \in Nat, NEW h \in Nat,
           NEW x \in 0..(w - 1), NEW y \in 0..(h - 1)
    PROVE  x + y * w \in 0..(w * h - 1)
  <1>1. y * w >= 0 /\ y * w \in Int
    BY Products
  <1>2. y * w <= (h - 1) * w
    BY ProductGrows
  <1>3. (h - 1) * w = h * w - w /\ h * w = w * h /\ w * h \in Int
    BY Products
  <1> QED BY <1>1, <1>2, <1>3

(* The quotient of sample counts is a sample count.                           *)
LEMMA QuotientIsNat ==
    ASSUME NEW a \in Nat, NEW b \in Nat, b > 0
    PROVE  a \div b \in Nat
  OBVIOUS

(* So is a truncated one; of negative numbers it is at least an integer.      *)
LEMMA TruncatedIsInt ==
    ASSUME NEW a \in Int, NEW b \in Nat, b > 0
    PROVE  Truncated(a, b) \in Int /\ (a >= 0 => Truncated(a, b) >= 0)
  <1>1. CASE a >= 0
    BY <1>1, QuotientIsNat DEF Truncated
  <1>2. CASE a < 0
    <2>1. -a \in Nat
      BY <1>2
    <2>2. (-a) \div b \in Nat
      BY <2>1, QuotientIsNat
    <2> QED BY <1>2, <2>2 DEF Truncated
  <1> QED BY <1>1, <1>2

(* The divisors of Hit are positive.                                          *)
LEMMA UnitIsPositive ==
    Unit \in Nat /\ Unit > 0 /\ Unit * Unit \in Nat /\ Unit * Unit > 0
  BY TraceAssumption

(* One depth less is worth a whole line of surfaces.                          *)
LEMMA NextDepth ==
    ASSUME NEW d \in Nat, d > 0
    PROVE  /\ (MaxDepth - (d - 1)) * (Layers + 1)
                = (MaxDepth - d) * (Layers + 1) + (Layers + 1)
           /\ (MaxDepth - d) * (Layers + 1) \in Int
  BY TraceAssumption

-----------------------------------------------------------------------------
(* What the operators on the stack do.                                        *)
LEMMA TopIsFrame ==
    ASSUME stack \in Seq(Frames), Running
    PROVE  /\ Len(stack) \in Nat /\ Len(stack) > 0
           /\ Len(stack) \in DOMAIN stack
           /\ top \in Frames
  BY DEF Running, top

(* Return removes the innermost call and leaves the others.                   *)
LEMMA ReturnPops ==
    ASSUME stack \in Seq(Frames), Running, Return
    PROVE  /\ stack' \in Seq(Frames)
           /\ DOMAIN stack' \subseteq DOMAIN stack
           /\ \A i \in DOMAIN stack' : stack'[i] = stack[i]
  <1>1. Len(stack) \in Nat /\ Len(stack) > 0
    BY TopIsFrame
  <1>2. stack' = SubSeq(stack, 1, Len(stack) - 1)
    BY DEF Return
  <1>3. stack' = [i \in 1..(Len(stack) - 1) |-> stack[i]]
    BY <1>1, <1>2
  <1>4. \A i \in 1..(Len(stack) - 1) : stack[i] \in Frames
    BY <1>1
  <1> QED BY <1>1, <1>2, <1>3, <1>4

(* Recurse replaces the innermost call and adds one.                          *)
LEMMA RecursePushes ==
    ASSUME stack \in Seq(Frames), Running,
           NEW f \in Frames, NEW c \in Frames, Recurse(f, c)
    PROVE  /\ stack' \in Seq(Frames)
           /\ DOMAIN stack' = 1..(Len(stack) + 1)
           /\ stack'[Len(stack) + 1] = c
           /\ stack'[Len(stack)] = f
           /\ \A i \in 1..(Len(stack) - 1) : stack'[i] = stack[i]
  <1> DEFINE s == [stack EXCEPT ![Len(stack)] = f]
  <1>1. Len(stack) \in Nat /\ Len(stack) > 0
    BY TopIsFrame
  <1>2. /\ s \in Seq(Frames) /\ Len(s) = Len(stack)
        /\ s[Len(stack)] = f
        /\ \A i \in 1..(Len(stack) - 1) : s[i] = stack[i]
    BY <1>1
  <1>3. stack' = Append(s, c)
    BY DEF Recurse
  <1> HIDE DEF s
  <1> QED BY <1>1, <1>2, <1>3

-----------------------------------------------------------------------------
(* No call runs at first.                                                     *)
LEMMA InitTrace == Init => TraceInv
  <1> SUFFICES ASSUME Init PROVE TraceInv
    OBVIOUS
  <1>1. stack = <<>> /\ DOMAIN stack = {} /\ stack \in Seq(Frames)
    BY DEF Init
  <1>2. TypeOK
    <2>1. extrapolated \in BOOLEAN /\ antiAliasing \in BOOLEAN /\ nan \in BOOLEAN
      BY Zenon DEF Init
    <2>2. lights \in 0..1 /\ sub \in 0..9 /\ rays \in Nat
      BY DEF Init
    <2>3. CountInv
      BY <1>1 DEF CountInv
    <2> QED BY <1>1, <2>1, <2>2, <2>3 DEF TypeOK, CountInv
  <1>3. HitInv /\ StackBounded
    BY <1>1 DEF HitInv, StackBounded
  <1>4. UndefinedOnlyInTheDark
    BY DEF Init, UndefinedOnlyInTheDark
  <1> QED BY <1>2, <1>3, <1>4 DEF TraceInv

(* A step that only returns, or leaves the stack alone, keeps what is said    *)
(* about the frames.                                                          *)
LEMMA FewerFrames ==
    ASSUME TraceInv, extrapolated' = extrapolated,
           DOMAIN stack' \subseteq DOMAIN stack,
           \A i \in DOMAIN stack' : stack'[i] = stack[i]
    PROVE  HitInv' /\ StackBounded' /\ CountInv'
  <1>1. HitInv' /\ StackBounded'
    BY DEF TraceInv, HitInv, StackBounded
  <1>2. CountInv'
    BY DEF TraceInv, TypeOK, CountInv, Counted
  <1> QED BY <1>1, <1>2

(* The innermost call f goes on and calls c, which runs deeper or further.    *)
LEMMA Pushed ==
    ASSUME TraceInv, Running, extrapolated' = extrapolated,
           NEW f \in Frames, NEW c \in Frames, Recurse(f, c),
           top.depth > 0, top.layer < Layers,
           f.depth = top.depth, f.layer = top.layer, f.shadow = top.shadow,
           ~c.hit,
           ~extrapolated => Counted(f) /\ Counted(c),
           \/ /\ c.depth = top.depth - 1 /\ c.layer = 0
              /\ top.shadow = 0 /\ c.shadow = 0
           \/ /\ c.depth = top.depth /\ c.layer = top.layer + 1
              /\ top.shadow = 0 /\ c.shadow = 0
           \/ /\ c.depth = top.depth /\ c.layer = top.layer
              /\ c.shadow = top.shadow + 1
    PROVE  stack' \in Seq(Frames) /\ HitInv' /\ StackBounded' /\ CountInv'
  <1> DEFINE n == Len(stack)
             Reach(g) == (MaxDepth - g.depth) * (Layers + 1) + g.layer
                            + g.shadow + 1
  <1>1. stack \in Seq(Frames)
    BY DEF TraceInv, TypeOK
  <1>2. n \in Nat /\ n > 0 /\ n \in DOMAIN stack /\ top \in Frames
    BY <1>1, TopIsFrame
  <1>3. /\ stack' \in Seq(Frames)
        /\ DOMAIN stack' = 1..(n + 1)
        /\ stack'[n + 1] = c
        /\ stack'[n] = f
        /\ \A i \in 1..(n - 1) : stack'[i] = stack[i]
    BY <1>1, RecursePushes
  <1>4. n <= Reach(top)
    BY <1>2 DEF TraceInv, StackBounded, top
  <1>5. HitInv'
    <2> SUFFICES ASSUME NEW i \in 1..(n + 1),
                        stack'[i].hit \/ stack'[i].shadow > 0
                 PROVE  stack'[i].depth > 0 /\ stack'[i].layer < Layers
      BY <1>3 DEF HitInv
    <2>1. CASE i = n + 1
      BY <2>1, <1>3
    <2>2. CASE i = n
      BY <2>2, <1>3
    <2>3. CASE i \in 1..(n - 1)
      BY <2>3, <1>2, <1>3 DEF TraceInv, HitInv
    <2> QED BY <1>2, <2>1, <2>2, <2>3
  <1>6. /\ top.depth \in Nat /\ top.layer \in Nat /\ Layers \in Nat
        /\ MaxDepth \in Nat /\ c.depth \in Nat /\ top.shadow \in Nat
    BY <1>2, TraceAssumption DEF Frames
  <1>7. n + 1 <= Reach(c)
    <2> DEFINE r == (MaxDepth - top.depth) * (Layers + 1)
    <2>0. /\ (MaxDepth - (top.depth - 1)) * (Layers + 1) = r + (Layers + 1)
          /\ r \in Int
          /\ Reach(top) = r + top.layer + top.shadow + 1
      BY <1>6, NextDepth
    <2>1. CASE /\ c.depth = top.depth - 1 /\ c.layer = 0
               /\ top.shadow = 0 /\ c.shadow = 0
      <3>1. Reach(c) = r + (Layers + 1) + 0 + 0 + 1
        BY <2>0, <2>1
      <3> HIDE DEF r, Reach
      <3> QED BY <2>0, <2>1, <1>2, <1>4, <1>6, <3>1
    <2>2. CASE /\ c.depth = top.depth /\ c.layer = top.layer + 1
               /\ top.shadow = 0 /\ c.shadow = 0
      <3>1. Reach(c) = r + (top.layer + 1) + 0 + 1
        BY <2>2
      <3> HIDE DEF r, Reach
      <3> QED BY <2>0, <2>2, <1>2, <1>4, <1>6, <3>1
    <2>3. CASE /\ c.depth = top.depth /\ c.layer = top.layer
               /\ c.shadow = top.shadow + 1
      <3>1. Reach(c) = r + top.layer + (top.shadow + 1) + 1
        BY <2>3
      <3> HIDE DEF r, Reach
      <3> QED BY <2>0, <1>2, <1>4, <1>6, <3>1
    <2> HIDE DEF r
    <2> QED BY <2>1, <2>2, <2>3
  <1>8. StackBounded'
    <2> SUFFICES ASSUME NEW i \in 1..(n + 1)
                 PROVE  i <= Reach(stack'[i])
      BY <1>3 DEF StackBounded
    <2>1. CASE i = n + 1
      BY <2>1, <1>3, <1>7
    <2>2. CASE i = n
      BY <2>2, <1>3, <1>4
    <2>3. CASE i \in 1..(n - 1)
      BY <2>3, <1>2, <1>3 DEF TraceInv, StackBounded
    <2> QED BY <1>2, <2>1, <2>2, <2>3
  <1>9. CountInv'
    <2> SUFFICES ASSUME ~extrapolated, NEW i \in 1..(n + 1)
                 PROVE  Counted(stack'[i])
      BY <1>3 DEF CountInv
    <2>1. CASE i \in {n, n + 1}
      BY <2>1, <1>3
    <2>2. CASE i \in 1..(n - 1)
      BY <2>2, <1>2, <1>3 DEF TraceInv, TypeOK
    <2> QED BY <1>2, <2>1, <2>2
  <1> QED BY <1>3, <1>5, <1>8, <1>9

-----------------------------------------------------------------------------
(* Hit fills in the innermost call; no call is added.                         *)
LEMMA HitFrame ==
    ASSUME TraceInv, NEW t \in Factors, NEW g \in Factors,
           NEW r \in 0..MaxReflect, NEW m \in 0..lights, Hit(t, g, r, m)
    PROVE  TraceInv'
  <1> DEFINE n == Len(stack)
             d == DiffuseFactor(t, r)
             diffuse == Truncated(top.sample * g * d, Unit * Unit)
             reflect == Truncated(top.sample * r, Unit)
             trans == Truncated(top.sample * g * t, Unit * Unit)
             through == 100 * t > Unit
             f == [top EXCEPT !.hit = TRUE, !.reflect = reflect, !.lit = m,
                              !.diffuse = diffuse, !.trans = trans,
                              !.through = through]
  <1>1. stack \in Seq(Frames) /\ Running /\ lights \in 0..1
    BY DEF TraceInv, TypeOK, Hit
  <1>2. n \in Nat /\ n > 0 /\ n \in DOMAIN stack /\ top \in Frames
    BY <1>1, TopIsFrame
  <1>3. /\ top.sample \in Int /\ g \in Int /\ t \in Int /\ r \in Nat
        /\ m \in Nat
        /\ ~extrapolated => top.sample >= 0 /\ g >= 0 /\ t >= 0
    <2>1. ~extrapolated => top.sample >= 0
      BY <1>2 DEF TraceInv, TypeOK, Counted, top
    <2> QED BY <1>1, <1>2, <2>1, TraceAssumption DEF Frames, Factors
  <1>4. d \in Nat
    BY <1>3, UnitIsPositive DEF DiffuseFactor
  <1>5. /\ reflect \in Int /\ diffuse \in Int /\ trans \in Int
        /\ ~extrapolated => reflect >= 0 /\ diffuse >= 0 /\ trans >= 0
    <2> HIDE DEF d
    <2>1. /\ top.sample * g \in Int /\ top.sample * r \in Int
          /\ ~extrapolated => /\ top.sample * g >= 0
                              /\ top.sample * r >= 0
      BY <1>3, ProductIsInt
    <2>2. /\ top.sample * g * d \in Int /\ top.sample * g * t \in Int
          /\ ~extrapolated => /\ top.sample * g * d >= 0
                              /\ top.sample * g * t >= 0
      <3> DEFINE q == top.sample * g
      <3>1. q \in Int /\ (~extrapolated => q >= 0)
        BY <2>1
      <3> HIDE DEF q
      <3>2. /\ q * d \in Int /\ q * t \in Int
            /\ ~extrapolated => q * d >= 0 /\ q * t >= 0
        BY <1>3, <1>4, <3>1, ProductIsInt
      <3> QED BY <3>2 DEF q
    <2> QED BY <2>1, <2>2, UnitIsPositive, TruncatedIsInt
  <1>6. /\ stack' = [stack EXCEPT ![n] = f]
        /\ nan' = (nan \/ Divisor(diffuse) = 0)
        /\ UNCHANGED <<extrapolated, antiAliasing, lights, sub>>
        /\ rays' = rays \/ rays' = rays + 1
        /\ top.depth > 0 /\ top.layer < Layers
    BY DEF Hit, CastRay, scene
  <1>7. through \in BOOLEAN
    BY <1>3, UnitIsPositive
  <1> HIDE DEF d, diffuse, reflect, trans, through
  <1>8. /\ f \in Frames /\ f.depth = top.depth /\ f.layer = top.layer
        /\ f.shadow = top.shadow /\ f.hit = TRUE
        /\ ~extrapolated => Counted(f)
    <2>1. /\ f \in Frames /\ f.depth = top.depth /\ f.layer = top.layer
          /\ f.shadow = top.shadow /\ f.hit = TRUE
      BY <1>2, <1>3, <1>5, <1>7 DEF Frames
    <2>2. /\ f.sample = top.sample /\ f.reflect = reflect
          /\ f.diffuse = diffuse /\ f.trans = trans
      BY <1>2 DEF Frames
    <2> QED BY <1>3, <1>5, <2>1, <2>2 DEF Counted
  <1> HIDE DEF f
  <1>9. /\ stack' \in Seq(Frames)
        /\ DOMAIN stack' = DOMAIN stack
        /\ stack'[n] = f
        /\ \A i \in DOMAIN stack : i # n => stack'[i] = stack[i]
    BY <1>1, <1>2, <1>6, <1>8
  <1>10. TypeOK'
    <2>1. CountInv'
      BY <1>6, <1>8, <1>9 DEF TraceInv, TypeOK, CountInv
    <2>2. nan' \in BOOLEAN /\ extrapolated' \in BOOLEAN /\ antiAliasing' \in BOOLEAN
      BY <1>6, Zenon DEF TraceInv, TypeOK
    <2>3. lights' \in 0..1 /\ sub' \in 0..9 /\ rays' \in Nat
      BY <1>6 DEF TraceInv, TypeOK
    <2> QED BY <1>9, <2>1, <2>2, <2>3 DEF TypeOK, CountInv
  <1>11. HitInv'
    BY <1>2, <1>6, <1>8, <1>9 DEF TraceInv, HitInv
  <1>12. StackBounded'
    BY <1>2, <1>8, <1>9 DEF TraceInv, StackBounded, top
  <1>13. UndefinedOnlyInTheDark'
    <2> SUFFICES ASSUME Divisor(diffuse) = 0, ~extrapolated
                 PROVE  lights = 0
      BY <1>6 DEF TraceInv, UndefinedOnlyInTheDark
    <2> QED BY <1>1, <1>5 DEF Divisor
  <1> QED BY <1>10, <1>11, <1>12, <1>13 DEF TraceInv

(* A call whose surface is shaded, or a light path, calls once more.          *)
LEMMA PushFrame ==
    ASSUME TraceInv,
           Reflect \/ Light \/ Diffuse \/ Through \/ LightPathThrough
    PROVE  stack' \in Seq(Frames) /\ HitInv' /\ StackBounded' /\ CountInv'
  <1>0. stack \in Seq(Frames)
    BY DEF TraceInv, TypeOK
  <1>1. /\ Running /\ (top.hit \/ top.shadow > 0)
        /\ extrapolated' = extrapolated
    BY DEF Reflect, Light, Diffuse, Through, LightPathThrough, Waits, scene
  <1>2. top \in Frames /\ top.depth > 0 /\ top.layer < Layers
    <2>1. top \in Frames /\ Len(stack) \in DOMAIN stack
      BY <1>0, <1>1, TopIsFrame
    <2> QED BY <1>1, <2>1 DEF TraceInv, HitInv, top
  <1>3. /\ top.depth \in 0..MaxDepth /\ top.depth - 1 \in 0..MaxDepth
        /\ top.layer \in 0..Layers /\ top.layer + 1 \in 0..Layers
        /\ top.shadow \in 0..MaxShadow
        /\ top.reflect \in Int /\ top.lit \in Nat /\ top.diffuse \in Int
        /\ top.trans \in Int
        /\ 0 \in 0..Layers /\ 0 \in 0..MaxShadow /\ 0 \in Int /\ 1 \in Int
    BY <1>2, TraceAssumption DEF Frames
  <1>4. ~extrapolated => Counted(top)
    <2>1. Len(stack) \in DOMAIN stack
      BY <1>0, <1>1, TopIsFrame
    <2> QED BY <2>1 DEF TraceInv, TypeOK, top
  <1>5. /\ Secondary(top) \in Frames /\ ~Secondary(top).hit
        /\ Secondary(top).depth = top.depth - 1
        /\ Secondary(top).layer = 0 /\ Secondary(top).shadow = 0
        /\ Counted(Secondary(top))
    BY <1>3 DEF Secondary, Call, Frames, Counted
  <1>6. CASE Reflect
    <2> DEFINE f == [top EXCEPT !.reflect = top.reflect - 1]
    <2>1. Recurse(f, Secondary(top)) /\ top.reflect > 0 /\ top.shadow = 0
      BY <1>6 DEF Reflect, Waits
    <2>2. /\ f \in Frames /\ f.depth = top.depth /\ f.layer = top.layer
          /\ f.shadow = top.shadow
          /\ ~extrapolated => Counted(f)
      BY <1>2, <1>3, <1>4, <2>1 DEF Frames, Counted
    <2> HIDE DEF f
    <2> QED BY <1>1, <1>2, <1>5, <2>1, <2>2, Pushed
  <1>7. CASE Diffuse
    <2> DEFINE f == [top EXCEPT !.diffuse = top.diffuse - 1]
    <2>1. Recurse(f, Secondary(top)) /\ top.diffuse > 0 /\ top.shadow = 0
      BY <1>7 DEF Diffuse, Waits
    <2>2. /\ f \in Frames /\ f.depth = top.depth /\ f.layer = top.layer
          /\ f.shadow = top.shadow
          /\ ~extrapolated => Counted(f)
      BY <1>2, <1>3, <1>4, <2>1 DEF Frames, Counted
    <2> HIDE DEF f
    <2> QED BY <1>1, <1>2, <1>5, <2>1, <2>2, Pushed
  <1>8. CASE Through
    <2> DEFINE f == [top EXCEPT !.through = FALSE]
    <2>1. Recurse(f, Behind(top)) /\ top.shadow = 0
      BY <1>8 DEF Through, Waits
    <2>2. /\ f \in Frames /\ f.depth = top.depth /\ f.layer = top.layer
          /\ f.shadow = top.shadow
          /\ ~extrapolated => Counted(f)
      BY <1>2, <1>4 DEF Frames, Counted
    <2>3. /\ Behind(top) \in Frames /\ ~Behind(top).hit
          /\ Behind(top).depth = top.depth
          /\ Behind(top).layer = top.layer + 1 /\ Behind(top).shadow = 0
          /\ ~extrapolated => Counted(Behind(top))
      BY <1>3, <1>4 DEF Behind, Call, Frames, Counted
    <2> HIDE DEF f
    <2> QED BY <1>1, <1>2, <2>1, <2>2, <2>3, Pushed
  <1>9. ASSUME top.shadow + 1 \in 0..MaxShadow
        PROVE  /\ Further(top) \in Frames /\ ~Further(top).hit
               /\ Further(top).depth = top.depth
               /\ Further(top).layer = top.layer
               /\ Further(top).shadow = top.shadow + 1
               /\ Counted(Further(top))
    BY <1>3, <1>9 DEF Further, Call, Frames, Counted
  <1>10. CASE Light
    <2> DEFINE f == [top EXCEPT !.lit = top.lit - 1]
    <2>1. Recurse(f, Further(top)) /\ top.lit > 0 /\ top.shadow = 0
      BY <1>10 DEF Light, Waits
    <2>2. /\ f \in Frames /\ f.depth = top.depth /\ f.layer = top.layer
          /\ f.shadow = top.shadow
          /\ ~extrapolated => Counted(f)
      BY <1>2, <1>3, <1>4, <2>1 DEF Frames, Counted
    <2>3. top.shadow + 1 \in 0..MaxShadow
      BY <2>1, TraceAssumption
    <2> HIDE DEF f
    <2> QED BY <1>1, <1>2, <1>9, <2>1, <2>2, <2>3, Pushed
  <1>11. CASE LightPathThrough
    <2> DEFINE f == [top EXCEPT !.hit = TRUE]
    <2>1. Recurse(f, Further(top)) /\ top.shadow < MaxShadow
      BY <1>11 DEF LightPathThrough
    <2>2. /\ f \in Frames /\ f.depth = top.depth /\ f.layer = top.layer
          /\ f.shadow = top.shadow
          /\ ~extrapolated => Counted(f)
      BY <1>2, <1>4 DEF Frames, Counted
    <2>3. top.shadow + 1 \in 0..MaxShadow
      BY <1>3, <2>1, TraceAssumption
    <2> HIDE DEF f
    <2> QED BY <1>1, <1>2, <1>9, <2>1, <2>2, <2>3, Pushed
  <1> QED BY <1>6, <1>7, <1>8, <1>10, <1>11

(* Every step keeps the inductive invariant.                                  *)
LEMMA NextTrace == TraceInv /\ [Next]_vars => TraceInv'
  <1> SUFFICES ASSUME TraceInv, [Next]_vars PROVE TraceInv'
    OBVIOUS
  <1>0. stack \in Seq(Frames) /\ TypeOK
    BY DEF TraceInv, TypeOK
  <1>1. CASE SubPixel
    <2>1. subSampleNum \in Nat
      <3>1. splitPixel * splitPixel \in {1, 9}
        BY DEF splitPixel
      <3> QED BY <3>1, TraceAssumption, QuotientIsNat DEF subSampleNum
    <2> DEFINE c == Call(subSampleNum, MaxDepth, 0, 0)
    <2>2. /\ c \in Frames /\ c.depth = MaxDepth /\ c.layer = 0
          /\ c.shadow = 0 /\ c.hit = FALSE /\ Counted(c)
      <3>1. /\ MaxDepth \in 0..MaxDepth /\ 0 \in 0..Layers
            /\ 0 \in 0..MaxShadow
        BY TraceAssumption
      <3> QED BY <2>1, <3>1 DEF Call, Frames, Counted
    <2>3. /\ stack' = <<c>> /\ rays' = 0
          /\ sub < splitPixel * splitPixel /\ sub' = sub + 1
          /\ UNCHANGED <<extrapolated, antiAliasing, lights, nan>>
      BY <1>1 DEF SubPixel, scene
    <2> HIDE DEF c
    <2>4. stack' \in Seq(Frames) /\ DOMAIN stack' = {1} /\ stack'[1] = c
      BY <2>2, <2>3
    <2>5. sub' \in 0..9
      BY <2>3 DEF splitPixel, TraceInv, TypeOK
    <2>6. TypeOK'
      <3>1. \A i \in DOMAIN stack' : Counted(stack'[i])
        BY <2>2, <2>4
      <3>2. /\ extrapolated' \in BOOLEAN /\ antiAliasing' \in BOOLEAN
            /\ nan' \in BOOLEAN
        BY <1>0, <2>3, Zenon DEF TypeOK
      <3>3. lights' \in 0..1 /\ rays' \in Nat
        BY <1>0, <2>3 DEF TypeOK
      <3> QED BY <2>4, <2>5, <3>1, <3>2, <3>3 DEF TypeOK
    <2>7. HitInv'
      BY <2>2, <2>4 DEF HitInv
    <2>8. StackBounded'
      BY <2>2, <2>4, TraceAssumption DEF StackBounded
    <2>9. UndefinedOnlyInTheDark'
      BY <2>3 DEF TraceInv, UndefinedOnlyInTheDark
    <2> QED BY <2>6, <2>7, <2>8, <2>9 DEF TraceInv
  <1>2. ASSUME HitInv', StackBounded', CountInv', stack' \in Seq(Frames),
               UNCHANGED <<extrapolated, antiAliasing, lights>>,
               sub' \in 0..9, rays' \in Nat, nan' \in {FALSE, nan}
        PROVE  TraceInv'
    <2>1. /\ extrapolated' \in BOOLEAN /\ antiAliasing' \in BOOLEAN
      BY <1>0, <1>2, Zenon DEF TypeOK
    <2>2. lights' \in 0..1
      BY <1>0, <1>2 DEF TypeOK
    <2>3. UndefinedOnlyInTheDark'
      BY <1>2, Zenon DEF TraceInv, UndefinedOnlyInTheDark
    <2>4. nan' \in BOOLEAN
      BY <1>0, <1>2, Zenon DEF TypeOK
    <2> QED BY <1>2, <2>1, <2>2, <2>3, <2>4 DEF TraceInv, TypeOK, CountInv
  <1>3. lights \in 0..1 /\ sub \in 0..9 /\ rays \in Nat
    BY <1>0 DEF TypeOK
  <1>4. CASE NextPixel
    <2>1. /\ stack' = stack /\ rays' = rays /\ sub' = 0 /\ nan' = FALSE
          /\ UNCHANGED <<extrapolated, antiAliasing, lights>>
      BY <1>4 DEF NextPixel, scene
    <2>2. HitInv' /\ StackBounded' /\ CountInv'
      BY <2>1, FewerFrames
    <2>3. nan' \in {FALSE, nan}
      BY <2>1, Zenon
    <2>4. sub' \in 0..9 /\ rays' \in Nat /\ stack' \in Seq(Frames)
      BY <1>0, <1>3, <2>1
    <2> QED BY <1>2, <2>1, <2>2, <2>3, <2>4
  <1>5. CASE TooDeep \/ Miss \/ Shaded \/ LightPathEnds \/ LightPathReturns
    <2>1. /\ Running /\ Return
          /\ UNCHANGED <<extrapolated, antiAliasing, lights, sub, nan>>
          /\ rays' = rays \/ rays' = rays + 1
      BY <1>5 DEF TooDeep, Miss, Shaded, LightPathEnds, LightPathReturns,
                  Waits, CastRay, scene
    <2>2. /\ stack' \in Seq(Frames)
          /\ DOMAIN stack' \subseteq DOMAIN stack
          /\ \A i \in DOMAIN stack' : stack'[i] = stack[i]
      BY <1>0, <2>1, ReturnPops
    <2>3. HitInv' /\ StackBounded' /\ CountInv'
      BY <2>1, <2>2, FewerFrames
    <2> QED BY <1>2, <1>3, <2>1, <2>2, <2>3
  <1>6. CASE Reflect \/ Light \/ Diffuse \/ Through \/ LightPathThrough
    <2>1. /\ UNCHANGED <<extrapolated, antiAliasing, lights, sub, nan>>
          /\ rays' = rays \/ rays' = rays + 1
      BY <1>6 DEF Reflect, Light, Diffuse, Through, LightPathThrough,
                  CastRay, scene
    <2>2. /\ stack' \in Seq(Frames) /\ HitInv' /\ StackBounded' /\ CountInv'
      BY <1>6, PushFrame
    <2> QED BY <1>2, <1>3, <2>1, <2>2
  <1>7. CASE \E t, g \in Factors, r \in 0..MaxReflect, m \in 0..lights :
               Hit(t, g, r, m)
    BY <1>7, HitFrame
  <1>8. CASE UNCHANGED vars
    <2>1. /\ stack' = stack
          /\ UNCHANGED <<extrapolated, antiAliasing, lights, sub, rays, nan>>
      BY <1>8 DEF vars
    <2>2. HitInv' /\ StackBounded' /\ CountInv'
      BY <2>1, FewerFrames
    <2> QED BY <1>0, <1>2, <1>3, <2>1, <2>2
  <1> QED BY <1>1, <1>4, <1>5, <1>6, <1>7, <1>8 DEF Next
-----------------------------------------------------------------------------
(* Every variable has its type.                                               *)
THEOREM TraceTyped == Spec => []TypeOK
  <1>1. TraceInv => TypeOK
    BY DEF TraceInv
  <1> QED BY <1>1, InitTrace, NextTrace, PTL DEF Spec

(* The calls nest at most (MaxDepth + 1) * (Layers + 1) + MaxShadow deep:     *)
(* StackBounded holds for every depth and every number of surfaces.           *)
THEOREM RecursionIsBounded == Spec => []StackBounded
  <1>1. TraceInv => StackBounded
    BY DEF TraceInv
  <1> QED BY <1>1, InitTrace, NextTrace, PTL DEF Spec

(* A pixel's colour is undefined only in a scene without lights, or with      *)
(* extrapolated texels.                                                       *)
THEOREM PixelsAreDefined == Spec => []UndefinedOnlyInTheDark
  <1>1. TraceInv => UndefinedOnlyInTheDark
    BY DEF TraceInv
  <1> QED BY <1>1, InitTrace, NextTrace, PTL DEF Spec

-----------------------------------------------------------------------------
(* Truncating towards zero, and what is left.                                 *)
LEMMA Truncation ==
    ASSUME NEW a \in Int, NEW q \in Nat, q > 0
    PROVE  /\ Truncated(a, q) \in Int
           /\ Fraction(a, q) \in Int
           /\ a >= 0 => Fraction(a, q) \in 0..(q - 1)
           /\ a < 0 => Fraction(a, q) \in (1 - q)..0
           /\ Remainder(a, q) = Fraction(a, q)
  <1>1. ASSUME NEW b \in Nat
        PROVE  b \div q \in Nat /\ b = q * (b \div q) + (b % q) /\ b % q \in 0..(q - 1)
    OBVIOUS
  <1>2. CASE a >= 0
    <2>1. Truncated(a, q) = a \div q
      BY <1>2 DEF Truncated
    <2>2. Fraction(a, q) = a - q * (a \div q)
      BY <2>1 DEF Fraction
    <2> QED BY <1>1, <1>2, <2>1, <2>2 DEF Remainder, Fraction
  <1>3. CASE a < 0
    <2> DEFINE d == (-a) \div q
    <2>1. d \in Nat /\ -a = q * d + ((-a) % q) /\ (-a) % q \in 0..(q - 1)
      BY <1>1, <1>3
    <2>2. Truncated(a, q) = -d
      BY <1>3 DEF Truncated
    <2> HIDE DEF d
    <2>3. Fraction(a, q) = a - q * (-d) /\ q * (-d) = -(q * d) /\ q * d \in Int
      BY <2>1, <2>2, Products DEF Fraction
    <2>4. Fraction(a, q) = -((-a) % q)
      BY <2>1, <2>3
    <2> QED BY <1>3, <2>1, <2>2, <2>4 DEF Remainder, Fraction
  <1> QED BY <1>2, <1>3

(* Quotient and remainder are unique.                                         *)
LEMMA RemainderIsUnique ==
    ASSUME NEW a \in Int, NEW q \in Nat, q > 0,
           NEW k \in Int, NEW r \in 0..(q - 1), a = q * k + r
    PROVE  a % q = r
  <1> DEFINE d == a \div q
             e == a % q
  <1>1. d \in Int /\ e \in 0..(q - 1) /\ a = q * d + e
    OBVIOUS
  <1> HIDE DEF d, e
  <1>2. q * d \in Int /\ q * k \in Int /\ q * d + e = q * k + r
    BY <1>1, Products
  <1>3. ASSUME NEW x \in Int, NEW y \in Int, x < y
        PROVE  q * x + q <= q * y
    <2>1. (x + 1) * q <= y * q
      BY <1>3, ProductGrows
    <2>2. (x + 1) * q = x * q + q /\ x * q = q * x /\ y * q = q * y
      BY Products
    <2> QED BY <2>1, <2>2
  <1>4. ~(d < k) /\ ~(k < d)
    BY <1>1, <1>2, <1>3
  <1>5. d = k
    BY <1>1, <1>4
  <1> QED BY <1>1, <1>2, <1>5 DEF e

(* The index of every sample is the coordinate's texel modulo the size, and   *)
(* so inside the array, for negative coordinates too.                         *)
THEOREM IndexWraps ==
    ASSUME NEW x \in Int, NEW width \in Nat, width > 0
    PROVE  Wrapped(x, width) = x % width /\ Wrapped(x, width) \in 0..(width - 1)
  <1> DEFINE f == Fraction(x, width)
             t == Truncated(x, width)
  <1>1. /\ f \in (1 - width)..(width - 1) /\ t \in Int
        /\ Remainder(x, width) = f
    BY Truncation
  <1>2. x = width * t + f /\ width * t \in Int
    BY <1>1, Products DEF Fraction
  <1>3. Wrapped(x, width) = Fraction(f + width, width) /\ f + width \in Nat
    <2>1. f + width \in Nat
      BY <1>1
    <2>2. Remainder(f + width, width) = Fraction(f + width, width)
      BY <2>1, Truncation
    <2> QED BY <1>1, <2>1, <2>2 DEF Wrapped
  <1> HIDE DEF f, t
  <1>4. Fraction(f + width, width) = (f + width) % width
    <2> DEFINE n == f + width
               d == n \div width
    <2>1. Truncated(n, width) = d
      BY <1>3 DEF Truncated
    <2>2. n = width * d + (n % width) /\ d \in Int /\ n % width \in Int
      BY <1>1
    <2> HIDE DEF d, n
    <2>3. width * d \in Int
      BY <2>2, Products
    <2>4. Fraction(n, width) = n % width
      BY <2>1, <2>2, <2>3 DEF Fraction
    <2> QED BY <2>4 DEF n
  <1>5. (f + width) % width = x % width
    <2> DEFINE g == IF f >= 0 THEN f ELSE f + width
               k == IF f >= 0 THEN t ELSE t - 1
    <2>1. g \in 0..(width - 1) /\ k \in Int
      BY <1>1
    <2>2. x = width * k + g
      <3>1. width * (t - 1) = width * t - width
        BY <1>1, Products
      <3> QED BY <1>1, <1>2, <3>1
    <2>3. x % width = g
      BY <2>1, <2>2, RemainderIsUnique
    <2>4. (f + width) % width = g
      BY <1>1
    <2> QED BY <2>3, <2>4
  <1> QED BY <1>3, <1>4, <1>5

(* Two colours are interpolated, or with a negative weight extrapolated by at *)
(* most the width of their range.                                             *)
LEMMA LerpBounds ==
    ASSUME NEW lo \in Int, NEW hi \in Int,
           NEW c0 \in lo..hi, NEW c1 \in lo..hi,
           NEW q \in Nat, NEW f \in (-q)..q
    PROVE  /\ LerpUnclamped(c0, c1, f, q) \in Int
           /\ f >= 0 => LerpUnclamped(c0, c1, f, q) \in (lo * q)..(hi * q)
           /\ LerpUnclamped(c0, c1, f, q)
                \in ((2 * lo - hi) * q)..((2 * hi - lo) * q)
  <1> DEFINE L == LerpUnclamped(c0, c1, f, q)
  <1>1. L = c0 * (q - f) + c1 * f /\ c0 * (q - f) \in Int /\ c1 * f \in Int
    BY Products DEF LerpUnclamped
  <1>2. lo * q \in Int /\ hi * q \in Int
    BY Products
  <1>3. ASSUME f >= 0 PROVE L \in (lo * q)..(hi * q)
    <2>1. f \in Nat /\ q - f \in Nat
      BY <1>3
    <2>2. /\ lo * (q - f) <= c0 * (q - f) /\ c0 * (q - f) <= hi * (q - f)
          /\ lo * f <= c1 * f /\ c1 * f <= hi * f
      BY <2>1, ProductGrows
    <2>3. /\ lo * (q - f) = lo * q - lo * f /\ hi * (q - f) = hi * q - hi * f
          /\ lo * f \in Int /\ hi * f \in Int
      BY Products
    <2> HIDE DEF L
    <2> QED BY <1>1, <1>2, <2>2, <2>3
  <1> DEFINE w == hi - lo
  <1>4. w \in Nat /\ w * q \in Int
    BY Products
  <1>5. /\ (2 * lo - hi) * q = lo * q - w * q
        /\ (2 * hi - lo) * q = hi * q + w * q
    OBVIOUS
  <1>6. ASSUME f < 0 PROVE L \in (lo * q - w * q)..(hi * q + w * q)
    <2> DEFINE g == -f
               d == c1 - c0
    <2>1. g \in Nat /\ g <= q /\ d \in Int /\ -w <= d /\ d <= w /\ f = -g
      BY <1>6
    <2>2. /\ L = c0 * q - d * g /\ c0 * q \in Int /\ d * g \in Int
      <3>1. /\ c0 * (q - f) = c0 * q - c0 * f /\ c1 * f - c0 * f = d * f
            /\ d * f = -(d * g)
            /\ c0 * f \in Int /\ c0 * q \in Int /\ d * f \in Int /\ d * g \in Int
        BY Products
      <3> HIDE DEF L, d, g
      <3> QED BY <1>1, <3>1
    <2>3. (-w) * g <= d * g /\ d * g <= w * g
      BY <1>4, <2>1, ProductGrows
    <2>4. w * g <= w * q
      <3>1. g * w <= q * w
        BY <1>4, <2>1, ProductGrows
      <3> QED BY <3>1, <2>1, <1>4, Products
    <2>5. lo * q <= c0 * q /\ c0 * q <= hi * q
      BY ProductGrows
    <2>6. (-w) * g = -(w * g) /\ w * g \in Int
      BY <1>4, <2>1, Products
    <2> HIDE DEF L, w, g, d
    <2> QED BY <1>2, <1>4, <2>2, <2>3, <2>4, <2>5, <2>6
  <1>7. w * q >= 0
    BY <1>4, Products
  <1> HIDE DEF L, w
  <1>8. L \in (lo * q - w * q)..(hi * q + w * q)
    BY <1>2, <1>3, <1>4, <1>6, <1>7
  <1>9. L \in Int
    BY <1>1
  <1>10. f >= 0 => L \in (lo * q)..(hi * q)
    BY <1>3
  <1> QED BY <1>5, <1>8, <1>9, <1>10 DEF L

(* The same for colours in 0..c.                                              *)
LEMMA LerpOfColours ==
    ASSUME NEW c \in Nat, NEW c0 \in 0..c, NEW c1 \in 0..c,
           NEW q \in Nat, NEW f \in (-q)..q
    PROVE  /\ f >= 0 => LerpUnclamped(c0, c1, f, q) \in 0..(c * q)
           /\ LerpUnclamped(c0, c1, f, q) \in (-(c * q))..(2 * (c * q))
  <1> DEFINE lo == 0
             L == LerpUnclamped(c0, c1, f, q)
  <1>1. /\ lo \in Int /\ c \in Int /\ c0 \in lo..c /\ c1 \in lo..c
        /\ lo * q = 0 /\ (2 * lo - c) * q = -(c * q)
        /\ (2 * c - lo) * q = 2 * (c * q)
    OBVIOUS
  <1> HIDE DEF lo
  <1>2. /\ f >= 0 => L \in (lo * q)..(c * q)
        /\ L \in ((2 * lo - c) * q)..((2 * c - lo) * q)
    BY <1>1, LerpBounds
  <1> QED BY <1>1, <1>2

(* LinearSample interpolates for every texture, size and coordinates that are *)
(* not negative; for others it leaves the range of the colours by at most     *)
(* four times that range.                                                     *)
THEOREM SamplesInRange ==
    ASSUME NEW c \in Nat, NEW width \in Nat, width > 0,
           NEW height \in Nat, height > 0, NEW q \in Nat, q > 0,
           NEW colors \in [0..(width * height - 1) -> 0..c],
           NEW a \in Int, NEW b \in Int
    PROVE  IsSample(LinearSample(colors, width, height, a, b, q), c, a, b, q)
  <1> DEFINE x == Truncated(a, q)
             y == Truncated(b, q)
             At(i, j) == colors[Wrapped(y + j, height) * width
                                    + Wrapped(x + i, width)]
             fx == Fraction(a, q)
             fy == Fraction(b, q)
             Column(i) == LerpUnclamped(At(i, 0), At(i, 1), fy, q)
             S == LerpUnclamped(Column(0), Column(1), fx, q)
  <1>1. LinearSample(colors, width, height, a, b, q) = S
    BY DEF LinearSample
  <1>2. /\ x \in Int /\ y \in Int
        /\ fx \in (-q)..q /\ fy \in (-q)..q
        /\ a >= 0 => fx >= 0
        /\ b >= 0 => fy >= 0
    <2>1. x \in Int /\ fx \in (-q)..q /\ (a >= 0 => fx >= 0)
      <3> HIDE DEF x, fx
      <3>1. /\ x \in Int /\ fx \in Int
            /\ a >= 0 => fx \in 0..(q - 1)
            /\ a < 0 => fx \in (1 - q)..0
        BY Truncation DEF x, fx
      <3> QED BY <3>1
    <2>2. y \in Int /\ fy \in (-q)..q /\ (b >= 0 => fy >= 0)
      <3> HIDE DEF y, fy
      <3>1. /\ y \in Int /\ fy \in Int
            /\ b >= 0 => fy \in 0..(q - 1)
            /\ b < 0 => fy \in (1 - q)..0
        BY Truncation DEF y, fy
      <3> QED BY <3>1
    <2> HIDE DEF x, y, fx, fy
    <2> QED BY <2>1, <2>2
  <1>3. ASSUME NEW i \in Int, NEW j \in Int
        PROVE  At(i, j) \in 0..c
    <2>1. /\ Wrapped(y + j, height) \in 0..(height - 1)
          /\ Wrapped(x + i, width) \in 0..(width - 1)
      <3> HIDE DEF x, y
      <3>1. y + j \in Int /\ x + i \in Int
        BY <1>2
      <3> QED BY <3>1, IndexWraps
    <2> DEFINE u == Wrapped(x + i, width)
               v == Wrapped(y + j, height)
    <2>2. u + v * width \in 0..(width * height - 1)
      BY <2>1, RowIsInside
    <2>3. v * width + u = u + v * width
      BY <2>1, Products
    <2> HIDE DEF u, v
    <2>4. colors[v * width + u] \in 0..c
      BY <2>2, <2>3
    <2> QED BY <2>4 DEF u, v
  <1> HIDE DEF x, y, fx, fy, At
  <1> DEFINE k == c * q
  <1>4. k \in Nat /\ k * q \in Nat
    BY Products
  <1>5. ASSUME NEW i \in {0, 1}
        PROVE  /\ b >= 0 => Column(i) \in 0..k
               /\ Column(i) \in (-k)..(2 * k)
    <2>1. At(i, 0) \in 0..c /\ At(i, 1) \in 0..c
      <3>1. i \in Int /\ 0 \in Int /\ 1 \in Int
        OBVIOUS
      <3> QED BY <1>3, <3>1
    <2> QED BY <1>2, <2>1, LerpOfColours
  <1> HIDE DEF Column
  <1>6. ASSUME a >= 0, b >= 0 PROVE S \in 0..(k * q)
    <2>1. Column(0) \in 0..k /\ Column(1) \in 0..k /\ fx >= 0
      BY <1>2, <1>5, <1>6
    <2> HIDE DEF k
    <2> QED BY <1>2, <1>4, <2>1, LerpOfColours
  <1>7. S \in (-4 * (k * q))..(5 * (k * q))
    <2>1. S \in ((2 * (-k) - 2 * k) * q)..((2 * (2 * k) - (-k)) * q)
      <3>1. -k \in Int /\ 2 * k \in Int
        BY <1>4
      <3>2. Column(0) \in (-k)..(2 * k) /\ Column(1) \in (-k)..(2 * k)
        BY <1>5
      <3> HIDE DEF k
      <3> QED BY <1>2, <3>1, <3>2, LerpBounds
    <2> HIDE DEF k, S
    <2>2. /\ (2 * (-k) - 2 * k) * q = -4 * (k * q)
          /\ (2 * (2 * k) - (-k)) * q = 5 * (k * q)
      BY <1>4
    <2> QED BY <2>1, <2>2
  <1>8. /\ c * q * q = k * q
        /\ -4 * c * q * q = -4 * (k * q)
        /\ 5 * c * q * q = 5 * (k * q)
    OBVIOUS
  <1> HIDE DEF S, k
  <1>9. IsSample(S, c, a, b, q)
    BY <1>6, <1>7, <1>8 DEF IsSample
  <1> QED BY <1>1, <1>9

(* Where PointSample looks.                                                   *)
LEMMA PointIsNear ==
    ASSUME NEW a \in Int, NEW q \in Nat, q > 0
    PROVE  /\ Truncated(2 * a + q, 2 * q) \in (a \div q)..(a \div q + 2)
           /\ IsPoint(Truncated(2 * a + q, 2 * q), a, q)
  <1> DEFINE n == 2 * a + q
             p == 2 * q
             x == Truncated(n, p)
             k == a \div q
             f == a % q
  <1>1. k \in Int /\ f \in 0..(q - 1) /\ a = q * k + f /\ q * k \in Int
    BY Products
  <1>2. /\ x \in Int /\ n \in Int /\ p * x \in Int
        /\ n >= 0 => n - p * x \in 0..(p - 1)
        /\ n < 0 => n - p * x \in (1 - p)..0
    <2>1. n \in Int /\ p \in Nat /\ p > 0
      OBVIOUS
    <2> HIDE DEF n, p
    <2>2. /\ x \in Int /\ Fraction(n, p) = n - p * x
          /\ n >= 0 => Fraction(n, p) \in 0..(p - 1)
          /\ n < 0 => Fraction(n, p) \in (1 - p)..0
      BY <2>1, Truncation DEF Fraction
    <2> QED BY <2>1, <2>2, Products
  <1>3. p * x = 2 * (x * q) /\ x * q \in Int
    <2> HIDE DEF x
    <2> QED BY <1>2, Products
  <1> HIDE DEF x, k, f
  <1>4. /\ n >= 0 => 2 * (x * q - a) \in (1 - q)..q
        /\ n < 0 => 2 * (x * q - a) \in q..(3 * q - 1)
    <2> DEFINE m == x * q
    <2>1. m \in Int /\ p * x = 2 * m
      BY <1>3
    <2> HIDE DEF m
    <2>2. /\ n >= 0 => 2 * (m - a) \in (1 - q)..q
          /\ n < 0 => 2 * (m - a) \in q..(3 * q - 1)
      BY <1>2, <2>1
    <2> QED BY <2>2 DEF m
  <1>5. IsPoint(x, a, q)
    BY <1>4 DEF IsPoint
  <1>6. ASSUME NEW y \in Int, NEW z \in Int, y <= z
        PROVE  y * q <= z * q
    BY <1>6, ProductGrows
  <1>7. x * q - q * k \in (-(q - 1))..(3 * q - 1)
    BY <1>1, <1>3, <1>4
  <1>8. q * k = k * q /\ (k - 1) * q = k * q - q /\ (k + 3) * q = k * q + 3 * q
    BY <1>1, Products
  <1>9. ~(x <= k - 1) /\ ~(k + 3 <= x)
    <2>1. x <= k - 1 => x * q <= k * q - q
      <3>1. k - 1 \in Int
        BY <1>1
      <3> QED BY <1>2, <1>6, <1>8, <3>1
    <2>2. k + 3 <= x => k * q + 3 * q <= x * q
      <3>1. k + 3 \in Int
        BY <1>1
      <3> QED BY <1>2, <1>6, <1>8, <3>1
    <2>3. k * q \in Int /\ x * q - k * q \in (-(q - 1))..(3 * q - 1)
      BY <1>1, <1>7, <1>8
    <2> QED BY <1>3, <2>1, <2>2, <2>3
  <1>10. x \in k..(k + 2)
    BY <1>1, <1>2, <1>9
  <1> QED BY <1>5, <1>10 DEF x, k

(* On a texel there is nothing to interpolate.                                *)
LEMMA OnTexels ==
    ASSUME NEW a \in Nat, NEW q \in Nat, q > 0, a % q = 0
    PROVE  /\ Fraction(a, q) = 0
           /\ Truncated(2 * a + q, 2 * q) = Truncated(a, q)
  <1> DEFINE k == a \div q
             p == 2 * q
             n == 2 * a + q
  <1>1. k \in Nat /\ a = q * k /\ Truncated(a, q) = k
    <2>1. a \div q \in Nat /\ a = q * (a \div q) + (a % q)
      OBVIOUS
    <2> QED BY <2>1 DEF Truncated
  <1>2. Fraction(a, q) = 0
    BY <1>1 DEF Fraction
  <1>3. Truncated(n, p) \in Int /\ IsPoint(Truncated(n, p), a, q)
    <2>1. a \in Int /\ k \in Int
      BY <1>1
    <2>2. Truncated(n, p) \in k..(k + 2) /\ IsPoint(Truncated(n, p), a, q)
      BY <2>1, PointIsNear
    <2> QED BY <2>1, <2>2
  <1> DEFINE x == Truncated(n, p)
  <1>4. 2 * (x * q - a) \in (1 - q)..q /\ x \in Int
    BY <1>3 DEF IsPoint
  <1> HIDE DEF x, k
  <1>5. /\ q * k = k * q /\ (k + 1) * q = k * q + q
        /\ (x + 1) * q = x * q + q /\ x * q \in Int /\ k * q \in Int
    BY <1>1, <1>4, Products
  <1>6. ~(k + 1 <= x) /\ ~(x + 1 <= k)
    <2>1. k + 1 <= x => k * q + q <= x * q
      <3>1. k + 1 \in Int
        BY <1>1
      <3> QED BY <1>4, <1>5, <3>1, ProductGrows
    <2>2. x + 1 <= k => x * q + q <= k * q
      <3>1. x + 1 \in Int /\ k \in Int
        BY <1>1, <1>4
      <3> QED BY <1>5, <3>1, ProductGrows
    <2> QED BY <1>1, <1>4, <1>5, <2>1, <2>2
  <1>7. x = k
    BY <1>1, <1>4, <1>6
  <1> QED BY <1>1, <1>2, <1>7 DEF x

(* For every texture, size and coordinate: the linear sample interpolates and *)
(* is the same over both kinds of arrays, the point sample is the texel at    *)
(* the coordinate plus a half, truncated, and on the texels they agree.       *)
THEOREM SamplesAreRight ==
    ASSUME NEW c \in Nat, NEW width \in Nat, width > 0,
           NEW height \in Nat, height > 0, NEW q \in Nat, q > 0,
           NEW colors \in [0..(width * height - 1) -> 0..c],
           NEW a \in Int, NEW b \in Int
    PROVE  SamplesAgree(colors, c, width, height, a, b, q)
  <1> DEFINE values == [p \in (0..(width - 1)) \X (0..(height - 1)) |->
                            colors[p[2] * width + p[1]]]
             linear == LinearSample(colors, width, height, a, b, q)
             point == PointSample(colors, width, height, a, b, q)
             x0 == Truncated(a, q)
             y0 == Truncated(b, q)
             px == Truncated(2 * a + q, 2 * q)
             py == Truncated(2 * b + q, 2 * q)
             Texel(x, y) == colors[Wrapped(y, height) * width + Wrapped(x, width)]
  <1>1. IsSample(linear, c, a, b, q)
    BY SamplesInRange
  <1>2. /\ x0 \in Int /\ y0 \in Int /\ px \in Int /\ py \in Int
        /\ px \in (a \div q)..(a \div q + 2) /\ IsPoint(px, a, q)
        /\ py \in (b \div q)..(b \div q + 2) /\ IsPoint(py, b, q)
    <2>1. x0 \in Int /\ y0 \in Int
      BY Truncation
    <2>2. /\ px \in (a \div q)..(a \div q + 2) /\ IsPoint(px, a, q)
          /\ py \in (b \div q)..(b \div q + 2) /\ IsPoint(py, b, q)
      BY PointIsNear
    <2>3. px \in Int /\ py \in Int
      <3> HIDE DEF px, py
      <3>1. a \div q \in Int /\ b \div q \in Int
        OBVIOUS
      <3> QED BY <2>2, <3>1
    <2> HIDE DEF x0, y0, px, py
    <2> QED BY <2>1, <2>2, <2>3
  <1> HIDE DEF x0, y0, px, py
  <1>3. ASSUME NEW x \in Int, NEW y \in Int
        PROVE  /\ Texel(x, y) = values[<<Wrapped(x, width), Wrapped(y, height)>>]
               /\ Texel(x, y) = values[<<x % width, y % height>>]
               /\ Texel(x, y) \in 0..c
    <2> DEFINE u == Wrapped(x, width)
               v == Wrapped(y, height)
    <2>1. /\ u = x % width /\ u \in 0..(width - 1)
          /\ v = y % height /\ v \in 0..(height - 1)
      BY IndexWraps
    <2>2. v * width + u \in 0..(width * height - 1)
      <3> HIDE DEF u, v
      <3>1. u + v * width \in 0..(width * height - 1)
        BY <2>1, RowIsInside
      <3>2. v * width \in Int /\ u \in Int
        BY <2>1, Products
      <3> QED BY <3>1, <3>2
    <2> HIDE DEF u, v
    <2>3. colors[v * width + u] \in 0..c
      BY <2>2
    <2>4. values[<<u, v>>] = colors[v * width + u]
      BY <2>1
    <2> QED BY <2>1, <2>3, <2>4 DEF u, v
  <1>4. linear = BilinearInterpolation(values, width, height, a, b, q)
    <2>1. \A i, j \in {0, 1} :
              Texel(x0 + i, y0 + j)
                = values[<<Wrapped(x0 + i, width), Wrapped(y0 + j, height)>>]
      <3>1. \A i \in {0, 1} : x0 + i \in Int /\ y0 + i \in Int
        BY <1>2
      <3> HIDE DEF Texel, values
      <3> QED BY <1>3, <3>1
    <2> HIDE DEF values
    <2> QED BY <2>1 DEF LinearSample, BilinearInterpolation, x0, y0
  <1>5. point = Texel(px, py)
    BY DEF PointSample, px, py
  <1>6. \E x \in (a \div q)..(a \div q + 2), y \in (b \div q)..(b \div q + 2) :
              /\ IsPoint(x, a, q) /\ IsPoint(y, b, q)
              /\ point = values[<<x % width, y % height>>]
    <2>1. point = values[<<px % width, py % height>>]
      <3> HIDE DEF Texel, values, point
      <3> QED BY <1>2, <1>3, <1>5
    <2> HIDE DEF values, point
    <2> QED BY <1>2, <2>1
  <1>7. ASSUME a >= 0, b >= 0, a % q = 0, b % q = 0
        PROVE  linear = q * q * point
    <2>1. /\ Fraction(a, q) = 0 /\ px = x0
          /\ Fraction(b, q) = 0 /\ py = y0
      <3>1. a \in Nat /\ b \in Nat
        BY <1>7
      <3>2. Fraction(a, q) = 0 /\ px = x0
        BY <1>7, <3>1, OnTexels DEF px, x0
      <3>3. Fraction(b, q) = 0 /\ py = y0
        BY <1>7, <3>1, OnTexels DEF py, y0
      <3> QED BY <3>2, <3>3
    <2>2. point = Texel(x0, y0) /\ point \in 0..c
      <3> HIDE DEF Texel, point
      <3>1. point = Texel(x0, y0)
        BY <1>5, <2>1
      <3> QED BY <1>2, <1>3, <3>1
    <2> DEFINE Column(i) == LerpUnclamped(Texel(x0 + i, y0 + 0),
                                          Texel(x0 + i, y0 + 1), 0, q)
    <2>3. linear = LerpUnclamped(Column(0), Column(1), 0, q)
      BY <2>1 DEF LinearSample, x0, y0
    <2>4. ASSUME NEW i \in {0, 1}
          PROVE  Texel(x0 + i, y0 + 0) \in Int /\ Texel(x0 + i, y0 + 1) \in Int
      <3>1. x0 + i \in Int /\ y0 + 0 \in Int /\ y0 + 1 \in Int
        BY <1>2
      <3> HIDE DEF Texel
      <3>2. Texel(x0 + i, y0 + 0) \in 0..c /\ Texel(x0 + i, y0 + 1) \in 0..c
        BY <1>3, <3>1
      <3> QED BY <3>2
    <2>5. ASSUME NEW d \in Int, NEW e \in Int
          PROVE  LerpUnclamped(d, e, 0, q) = d * q /\ d * q \in Int
      BY DEF LerpUnclamped
    <2>6. x0 + 0 = x0 /\ y0 + 0 = y0
      BY <1>2
    <2>7. Column(0) = point * q /\ Column(0) \in Int /\ Column(1) \in Int
      <3> HIDE DEF Texel, point
      <3> QED BY <2>2, <2>4, <2>5, <2>6
    <2> HIDE DEF Column, point, linear
    <2>8. linear = Column(0) * q
      BY <2>3, <2>5, <2>7
    <2>9. point * q * q = q * q * point
      BY <2>2
    <2> QED BY <2>7, <2>8, <2>9
  <1> HIDE DEF values, linear, point
  <1>8. /\ IsSample(linear, c, a, b, q)
        /\ linear = BilinearInterpolation(values, width, height, a, b, q)
        /\ \E x \in (a \div q)..(a \div q + 2), y \in (b \div q)..(b \div q + 2) :
              /\ IsPoint(x, a, q) /\ IsPoint(y, b, q)
              /\ point = values[<<x % width, y % height>>]
        /\ a >= 0 /\ b >= 0 /\ a % q = 0 /\ b % q = 0 => linear = q * q * point
    BY <1>1, <1>4, <1>6, <1>7
  <1> QED BY <1>8 DEF SamplesAgree, values, linear, point

(* So SamplesInterpolate holds, for any texture and coordinates.              *)
THEOREM SamplesAreUsed == Spec => []SamplesInterpolate
  <1>1. SamplesInterpolate
    <2> SUFFICES ASSUME NEW w \in 1..3, NEW h \in 1..2,
                        NEW a \in -9..9, NEW b \in -9..9,
                        NEW colors \in [0..(w * h - 1) -> 0..1]
                 PROVE  SamplesAgree(colors, 1, w, h, a, b, 4)
      BY DEF SamplesInterpolate
    <2>1. /\ w \in Nat /\ w > 0 /\ h \in Nat /\ h > 0
          /\ a \in Int /\ b \in Int /\ 1 \in Nat /\ 4 \in Nat /\ 4 > 0
      OBVIOUS
    <2> QED BY <2>1, SamplesAreRight
  <1> QED BY <1>1, PTL

-----------------------------------------------------------------------------
(* The number of rays.  RaysOfOne is defined by recursion: that there is such *)
(* a function follows from the least number up to which there is none.        *)

(* A set of naturals that has 0 and with every number the next one has all.   *)
LEMMA AllNaturals ==
    ASSUME NEW G, 0 \in G, \A n \in Nat : n \in G => n + 1 \in G
    PROVE  Nat \subseteq G
  <1> DEFINE T == Nat \ G
             R == OpToRel(<, Nat)
  <1>1. SUFFICES ASSUME T # {} PROVE FALSE
    OBVIOUS
  <1>2. IsWellFoundedOn(R, Nat)
    BY NatLessThanWellFounded
  <1>3. T \subseteq Nat
    OBVIOUS
  <1> HIDE DEF T, R
  <1>4. PICK x \in T : \A y \in T : ~(<<y, x>> \in R)
    BY <1>1, <1>2, <1>3, WFMin
  <1>5. x \in Nat /\ x # 0 /\ x \notin G
    BY <1>4 DEF T
  <1>6. x - 1 \in Nat /\ (x - 1) + 1 = x /\ x - 1 < x
    BY <1>5
  <1>7. x - 1 \notin G
    BY <1>5, <1>6
  <1>8. x - 1 \in T
    BY <1>6, <1>7 DEF T
  <1>9. <<x - 1, x>> \in R
    BY <1>5, <1>6 DEF R, OpToRel
  <1> QED BY <1>4, <1>8, <1>9

(* The values of the recursion up to n.                                       *)
Recursion(f, first, factor, n) ==
    f = [d \in 0..n |-> IF d = 0 THEN 0 ELSE first + factor * f[d - 1]]

(* There is such a function up to every n.                                    *)
LEMMA RecursionExists ==
    ASSUME NEW first \in Nat, NEW factor \in Nat, NEW n \in Nat
    PROVE  \E f \in [0..n -> Nat] : Recursion(f, first, factor, n)
  <1> DEFINE G == {m \in Nat : \E f \in [0..m -> Nat] : Recursion(f, first, factor, m)}
  <1>1. 0 \in G
    <2> DEFINE f == [d \in 0..0 |-> 0]
    <2>1. f \in [0..0 -> Nat] /\ Recursion(f, first, factor, 0)
      BY DEF Recursion
    <2> QED BY <2>1
  <1>2. ASSUME NEW m \in Nat, m \in G
        PROVE  m + 1 \in G
    <2>1. PICK f \in [0..m -> Nat] : Recursion(f, first, factor, m)
      BY <1>2
    <2> DEFINE g == [d \in 0..(m + 1) |->
                        IF d = 0 THEN 0 ELSE first + factor * f[d - 1]]
    <2>2. \A d \in 0..m : f[d] = IF d = 0 THEN 0 ELSE first + factor * f[d - 1]
      BY <2>1 DEF Recursion
    <2>3. \A d \in 0..m : g[d] = f[d]
      BY <2>2
    <2>4. \A d \in 0..(m + 1) : g[d] = IF d = 0 THEN 0 ELSE first + factor * f[d - 1]
      OBVIOUS
    <2>5. \A d \in 1..(m + 1) : d - 1 \in 0..m
      OBVIOUS
    <2>6. \A d \in 0..(m + 1) : g[d] \in Nat
      <3>1. ASSUME NEW k \in Nat PROVE first + factor * k \in Nat
        <4> HIDE DEF g
        <4>1. factor * k \in Int /\ factor * k >= 0
          BY ProductIsInt
        <4> QED BY <4>1
      <3> HIDE DEF g
      <3>2. ASSUME NEW d \in 0..(m + 1), d # 0
            PROVE  first + factor * f[d - 1] \in Nat
        <4>1. f[d - 1] \in Nat
          BY <2>5, <3>2
        <4> QED BY <3>1, <4>1
      <3> QED BY <2>4, <3>2
    <2>7. g = [d \in 0..(m + 1) |-> IF d = 0 THEN 0 ELSE first + factor * g[d - 1]]
      <3>1. \A d \in 0..(m + 1) : d # 0 => g[d - 1] = f[d - 1]
        <4> HIDE DEF g
        <4> QED BY <2>3, <2>5
      <3>2. g = [d \in 0..(m + 1) |-> IF d = 0 THEN 0 ELSE first + factor * f[d - 1]]
        OBVIOUS
      <3> HIDE DEF g
      <3>3. \A d \in 0..(m + 1) :
                (IF d = 0 THEN 0 ELSE first + factor * f[d - 1])
                  = (IF d = 0 THEN 0 ELSE first + factor * g[d - 1])
        BY <3>1
      <3> QED BY <3>2, <3>3, Zenon
    <2>8. g \in [0..(m + 1) -> Nat]
      BY <2>6
    <2> HIDE DEF g
    <2>9. Recursion(g, first, factor, m + 1)
      BY <2>7 DEF Recursion
    <2> QED BY <2>8, <2>9
  <1> HIDE DEF G
  <1>3. n \in G
    BY <1>1, <1>2, AllNaturals
  <1> QED BY <1>3 DEF G

(* So RaysOfOne satisfies its equation.                                       *)
LEMMA RaysOfOneIsDefined ==
    ASSUME NEW l \in Nat
    PROVE  /\ \A d \in 0..MaxDepth : RaysOfOne(l)[d] \in Nat
           /\ RaysOfOne(l)[0] = 0
           /\ \A d \in 1..MaxDepth :
                RaysOfOne(l)[d] = LineRays(l)
                                    + (Layers * MaxSamples(1)) * RaysOfOne(l)[d - 1]
  <1> DEFINE first == LineRays(l)
             factor == Layers * MaxSamples(1)
  <1>1. MaxDepth \in Nat /\ first \in Nat /\ factor \in Nat
    <2>1. MaxSamples(1) \in Nat
      BY UnitIsPositive, TraceAssumption, QuotientIsNat DEF MaxSamples
    <2>2. Layers \in Nat /\ MaxShadow \in Nat /\ MaxDepth \in Nat
      BY TraceAssumption
    <2>3. Layers * l \in Nat /\ Layers * MaxSamples(1) \in Nat
      BY <2>1, <2>2, Products
    <2>4. Layers * l * MaxShadow \in Nat
      BY <2>2, <2>3, Products
    <2> QED BY <2>2, <2>3, <2>4 DEF LineRays
  <1>2. RaysOfOne(l) = CHOOSE f : Recursion(f, first, factor, MaxDepth)
    BY DEF RaysOfOne, Recursion
  <1> HIDE DEF first, factor
  <1>3. \E f \in [0..MaxDepth -> Nat] : Recursion(f, first, factor, MaxDepth)
    BY <1>1, RecursionExists
  <1> DEFINE f == RaysOfOne(l)
  <1>4. Recursion(f, first, factor, MaxDepth)
    BY <1>2, <1>3
  <1> HIDE DEF f
  <1>5. \A d \in 0..MaxDepth :
            f[d] = IF d = 0 THEN 0 ELSE first + factor * f[d - 1]
    BY <1>4 DEF Recursion
  <1> DEFINE G == {d \in Nat : d <= MaxDepth => f[d] \in Nat}
  <1>6. 0 \in G
    BY <1>1, <1>5
  <1>7. ASSUME NEW d \in Nat, d \in G PROVE d + 1 \in G
    <2>1. SUFFICES ASSUME d + 1 <= MaxDepth PROVE f[d + 1] \in Nat
      OBVIOUS
    <2>2. f[d] \in Nat
      BY <1>1, <1>7, <2>1
    <2>3. d + 1 \in 0..MaxDepth /\ d + 1 # 0 /\ (d + 1) - 1 = d
      BY <1>1, <2>1
    <2>4. f[d + 1] = first + factor * f[d]
      BY <1>5, <2>3
    <2>5. factor * f[d] \in Int /\ factor * f[d] >= 0
      BY <1>1, <2>2, ProductIsInt
    <2> QED BY <1>1, <2>4, <2>5
  <1> HIDE DEF G
  <1>8. Nat \subseteq G
    BY <1>6, <1>7, AllNaturals
  <1>9. \A d \in 0..MaxDepth : f[d] \in Nat
    BY <1>1, <1>8 DEF G
  <1>10. f[0] = 0 /\ \A d \in 1..MaxDepth : f[d] = first + factor * f[d - 1]
    BY <1>1, <1>5
  <1> QED BY <1>9, <1>10 DEF f, first, factor

(* Quotients of natural numbers.                                              *)
LEMMA QuotientIsFloor ==
    ASSUME NEW a \in Int, NEW q \in Nat, q > 0, NEW k \in Int
    PROVE  k * q <= a <=> k <= a \div q
  <1> DEFINE d == a \div q
             e == a % q
  <1>1. d \in Int /\ e \in 0..(q - 1) /\ a = q * d + e
    OBVIOUS
  <1> HIDE DEF d, e
  <1>2. q * d = d * q /\ d * q \in Int /\ k * q \in Int
        /\ (d + 1) * q = d * q + q
    BY <1>1, Products
  <1>3. k <= d => k * q <= d * q
    BY <1>1, ProductGrows
  <1>4. d + 1 <= k => (d + 1) * q <= k * q
    <2>1. d + 1 \in Int
      BY <1>1
    <2> QED BY <2>1, ProductGrows
  <1>5. k * q <= a <=> k <= d
    BY <1>1, <1>2, <1>3, <1>4
  <1> QED BY <1>5 DEF d

(* A positive factor on both sides.                                           *)
LEMMA FactorCancels ==
    ASSUME NEW a \in Int, NEW b \in Int, NEW q \in Nat, q > 0, a * q <= b * q
    PROVE  a <= b
  <1>1. SUFFICES ASSUME b + 1 <= a PROVE FALSE
    OBVIOUS
  <1>2. b + 1 \in Int /\ (b + 1) * q = b * q + q
    BY Products
  <1>3. (b + 1) * q <= a * q
    BY <1>1, <1>2, ProductGrows
  <1>4. a * q \in Int /\ b * q \in Int
    BY Products
  <1> QED BY <1>2, <1>3, <1>4

(* MaxSamples grows with the samples.                                         *)
LEMMA MaxSamplesGrows ==
    ASSUME NEW m \in Nat, NEW n \in Nat, m <= n
    PROVE  MaxSamples(m) \in Nat /\ MaxSamples(n) \in Nat
           /\ MaxSamples(m) <= MaxSamples(n)
  <1>1. /\ Unit \in Nat /\ Unit > 0 /\ MaxReflect \in Nat
        /\ m * MaxReflect \in Nat /\ n * MaxReflect \in Nat
    BY TraceAssumption, ProductIsInt
  <1>2. MaxSamples(m) \in Nat /\ MaxSamples(n) \in Nat
    BY <1>1, QuotientIsNat DEF MaxSamples
  <1>3. m * MaxReflect <= n * MaxReflect
    BY <1>1, ProductGrows
  <1> DEFINE k == MaxSamples(m)
  <1>4. k \in Int /\ k <= (m * MaxReflect) \div Unit
    BY <1>2 DEF MaxSamples
  <1> HIDE DEF k
  <1>5. k * Unit <= m * MaxReflect
    BY <1>1, <1>4, QuotientIsFloor
  <1>6. k * Unit <= n * MaxReflect
    <2>1. k * Unit \in Int
      BY <1>1, <1>4, ProductIsInt
    <2> QED BY <1>1, <1>3, <1>5, <2>1
  <1>7. k <= (n * MaxReflect) \div Unit
    BY <1>1, <1>4, <1>6, QuotientIsFloor
  <1> QED BY <1>2, <1>7 DEF MaxSamples, k

(* However the factors of a surface add up, its reflected and diffuse samples *)
(* are at most MaxSamples, and those behind it are not more than before.      *)
LEMMA SamplesSplit ==
    ASSUME NEW s \in Nat, NEW t \in 0..Unit, NEW g \in 0..Unit,
           NEW r \in 0..MaxReflect
    PROVE  /\ Truncated(s * r, Unit)
                + Truncated(s * g * DiffuseFactor(t, r), Unit * Unit)
                <= MaxSamples(s)
           /\ Truncated(s * g * t, Unit * Unit) <= s
  <1> DEFINE D == DiffuseFactor(t, r)
             x == Truncated(s * r, Unit)
             y == Truncated(s * g * D, Unit * Unit)
             z == Truncated(s * g * t, Unit * Unit)
             U == Unit * Unit
  <1>1. /\ Unit \in Nat /\ Unit > 0 /\ MaxReflect \in Nat /\ Unit <= MaxReflect
        /\ t \in Nat /\ g \in Nat /\ r \in Nat
    BY TraceAssumption
  <1>2. D \in Nat /\ r + D <= MaxReflect
    BY <1>1 DEF DiffuseFactor
  <1> HIDE DEF D
  <1>3. U \in Nat /\ U > 0
    BY <1>1, UnitIsPositive
  <1>4. /\ s * r \in Nat /\ s * g \in Nat /\ s * D \in Nat
        /\ s * g * D \in Nat /\ s * g * t \in Nat
    <2>1. s * r \in Nat /\ s * g \in Nat /\ s * D \in Nat
      BY <1>1, <1>2, ProductIsInt
    <2> QED BY <1>1, <1>2, <2>1, ProductIsInt
  <1>5. /\ x = (s * r) \div Unit
        /\ y = (s * g * D) \div U
        /\ z = (s * g * t) \div U
    BY <1>4 DEF Truncated
  <1>6. x \in Nat /\ y \in Nat /\ z \in Nat
    <2> HIDE DEF x, y, z, U
    <2> QED BY <1>1, <1>3, <1>4, <1>5, QuotientIsNat
  <1>7. x * Unit <= s * r
    <2> HIDE DEF x
    <2>1. x \in Int /\ x <= (s * r) \div Unit
      BY <1>5, <1>6
    <2> QED BY <1>1, <1>4, <2>1, QuotientIsFloor
  <1>8. y * U <= s * g * D
    <2> HIDE DEF y, U
    <2>1. y \in Int /\ y <= (s * g * D) \div U
      BY <1>5, <1>6
    <2> QED BY <1>3, <1>4, <2>1, QuotientIsFloor
  <1>9. z * U <= s * g * t
    <2> HIDE DEF z, U
    <2>1. z \in Int /\ z <= (s * g * t) \div U
      BY <1>5, <1>6
    <2> QED BY <1>3, <1>4, <2>1, QuotientIsFloor
  <1> HIDE DEF x, y, z
  <1>10. y * Unit <= s * D
    <2> DEFINE a == y * Unit
               b == s * D
    <2>1. a \in Int /\ b \in Int /\ b \in Nat
      BY <1>1, <1>4, <1>6, ProductIsInt
    <2>2. y * U = a * Unit
      BY <1>1, <1>6
    <2>3. s * g * D <= b * Unit
      <3>1. s * g * D = g * b
        BY <1>1, <1>2
      <3>2. g * b <= Unit * b
        BY <1>1, <2>1, ProductGrows
      <3>3. Unit * b = b * Unit
        BY <1>1, <2>1, Products
      <3> QED BY <3>1, <3>2, <3>3
    <2> HIDE DEF a, b, U
    <2>4. a * Unit \in Int /\ b * Unit \in Int
      BY <1>1, <2>1, ProductIsInt
    <2>5. a * Unit <= b * Unit
      BY <1>4, <1>8, <2>2, <2>3, <2>4
    <2>6. a <= b
      BY <1>1, <2>1, <2>5, FactorCancels
    <2> QED BY <2>6 DEF a, b
  <1>11. x + y <= MaxSamples(s)
    <2>1. (x + y) * Unit = x * Unit + y * Unit /\ x * Unit \in Int /\ y * Unit \in Int
      BY <1>1, <1>6, Products
    <2>2. s * r + s * D <= s * MaxReflect /\ s * MaxReflect \in Int
      <3>1. (r + D) * s <= MaxReflect * s
        BY <1>1, <1>2, ProductGrows
      <3>2. /\ (r + D) * s = s * r + s * D
            /\ MaxReflect * s = s * MaxReflect /\ s * MaxReflect \in Int
        BY <1>1, <1>2
      <3> QED BY <3>1, <3>2
    <2>3. x + y \in Int /\ (x + y) * Unit <= s * MaxReflect
      BY <1>4, <1>6, <1>7, <1>10, <2>1, <2>2
    <2> QED BY <1>1, <2>2, <2>3, QuotientIsFloor DEF MaxSamples
  <1>12. z <= s
    <2>1. s * g * t <= s * U
      <3>1. g * t <= Unit * t /\ Unit * t <= Unit * Unit
        <4>1. t * Unit <= Unit * Unit /\ t * Unit = Unit * t
          BY <1>1, ProductGrows, Products
        <4> QED BY <1>1, <4>1, ProductGrows
      <3>2. g * t \in Int /\ Unit * t \in Int /\ g * t <= U
        BY <1>1, <1>3, <3>1, ProductIsInt
      <3>3. (g * t) * s <= U * s
        BY <1>3, <3>2, ProductGrows
      <3>4. (g * t) * s = s * g * t /\ U * s = s * U
        BY <1>1, <1>3
      <3> QED BY <3>3, <3>4
    <2> HIDE DEF U
    <2>2. z * U <= s * U
      <3>1. z * U \in Int /\ s * U \in Int
        BY <1>3, <1>6, ProductIsInt
      <3> QED BY <1>4, <1>9, <2>1, <3>1
    <2> QED BY <1>3, <1>6, <2>2, FactorCancels
  <1> QED BY <1>11, <1>12 DEF D, x, y, z

(* The rays a surface takes that is hit with s samples at depth d, and those  *)
(* of a line from its k-th surface on.                                        *)
SurfaceRays(l, s, d) == l * MaxShadow + MaxSamples(s) * RaysOfOne(l)[d - 1]
RaysOnLine(l, s, d, k) == (Layers - k) * SurfaceRays(l, s, d) + (Layers - k) + 1

(* They are natural numbers, and one surface after another uses them up.      *)
LEMMA LineOfSurfaces ==
    ASSUME NEW l \in Nat, NEW s \in Nat, NEW d \in 1..MaxDepth
    PROVE  /\ SurfaceRays(l, s, d) \in Nat
           /\ \A k \in 0..Layers : RaysOnLine(l, s, d, k) \in Nat
                                     /\ RaysOnLine(l, s, d, k) >= 1
           /\ \A k \in 0..(Layers - 1) :
                RaysOnLine(l, s, d, k)
                  = 1 + SurfaceRays(l, s, d) + RaysOnLine(l, s, d, k + 1)
           /\ RaysOnLine(l, s, d, 0)
                = LineRays(l) + (Layers * MaxSamples(s)) * RaysOfOne(l)[d - 1]
  <1> DEFINE R == RaysOfOne(l)[d - 1]
             M == MaxSamples(s)
             S == SurfaceRays(l, s, d)
  <1>1. Layers \in Nat /\ MaxShadow \in Nat /\ MaxDepth \in Nat
    BY TraceAssumption
  <1>2. R \in Nat
    <2>1. d - 1 \in 0..MaxDepth
      BY <1>1
    <2> QED BY <2>1, RaysOfOneIsDefined
  <1>3. M \in Nat
    BY MaxSamplesGrows
  <1>4. S = l * MaxShadow + M * R
    BY DEF SurfaceRays
  <1>5. l * MaxShadow \in Nat /\ M * R \in Nat
    <2> HIDE DEF R, M
    <2> QED BY <1>1, <1>2, <1>3, ProductIsInt
  <1> HIDE DEF R, M, S
  <1>6. S \in Nat
    BY <1>4, <1>5
  <1>7. \A k \in Int : RaysOnLine(l, s, d, k) = (Layers - k) * S + (Layers - k) + 1
    BY DEF RaysOnLine, S
  <1>8. ASSUME NEW k \in 0..Layers
        PROVE  RaysOnLine(l, s, d, k) \in Nat /\ RaysOnLine(l, s, d, k) >= 1
    <2>1. Layers - k \in Nat /\ k \in Int
      BY <1>1
    <2>2. (Layers - k) * S \in Nat
      BY <1>6, <2>1, ProductIsInt
    <2> QED BY <1>7, <2>1, <2>2
  <1>9. ASSUME NEW k \in 0..(Layers - 1)
        PROVE  RaysOnLine(l, s, d, k) = 1 + S + RaysOnLine(l, s, d, k + 1)
    <2> DEFINE j == k + 1
               p == Layers - j
    <2>1. j \in Int /\ p \in Int /\ Layers - k = p + 1
      BY <1>1
    <2> HIDE DEF p
    <2>2. RaysOnLine(l, s, d, k) = (p + 1) * S + (p + 1) + 1
      BY <1>7, <2>1
    <2>3. RaysOnLine(l, s, d, j) = p * S + p + 1
      BY <1>7, <2>1 DEF p
    <2>4. (p + 1) * S = p * S + 1 * S /\ p * S \in Int /\ 1 * S = S
      BY <1>6, <2>1, Products
    <2> QED BY <1>6, <2>1, <2>2, <2>3, <2>4
  <1>10. RaysOnLine(l, s, d, 0) = LineRays(l) + (Layers * M) * R
    <2>1. RaysOnLine(l, s, d, 0) = Layers * S + Layers + 1
      BY <1>1, <1>7
    <2>2. Layers * S = Layers * l * MaxShadow + (Layers * M) * R
      <3>1. Layers * S = Layers * (l * MaxShadow) + Layers * (M * R)
        BY <1>1, <1>4, <1>5
      <3>2. Layers * (l * MaxShadow) = Layers * l * MaxShadow
        BY <1>1
      <3>3. Layers * (M * R) = (Layers * M) * R
        BY <1>1, <1>2, <1>3
      <3> QED BY <3>1, <3>2, <3>3
    <2>3. Layers * l * MaxShadow \in Int /\ (Layers * M) * R \in Int
      <3>1. Layers * l \in Int /\ Layers * M \in Int
        BY <1>1, <1>3, ProductIsInt
      <3> QED BY <1>1, <1>2, <3>1, ProductIsInt
    <2> QED BY <1>1, <2>1, <2>2, <2>3 DEF LineRays
  <1> QED BY <1>6, <1>8, <1>9, <1>10 DEF S, M, R

(* Fewer samples take no more rays.                                           *)
LEMMA FewerSamples ==
    ASSUME NEW l \in Nat, NEW m \in Nat, NEW n \in Nat, m <= n,
           NEW d \in 1..MaxDepth, NEW k \in 0..Layers
    PROVE  RaysOnLine(l, m, d, k) <= RaysOnLine(l, n, d, k)
  <1> DEFINE R == RaysOfOne(l)[d - 1]
             A == MaxSamples(m)
             B == MaxSamples(n)
             S == SurfaceRays(l, m, d)
             T == SurfaceRays(l, n, d)
  <1>1. /\ R \in Nat /\ A \in Nat /\ B \in Nat /\ A <= B
        /\ S \in Nat /\ T \in Nat
    <2>1. d - 1 \in 0..MaxDepth
      BY TraceAssumption
    <2> QED BY <2>1, RaysOfOneIsDefined, MaxSamplesGrows, LineOfSurfaces
  <1>2. S = l * MaxShadow + A * R /\ T = l * MaxShadow + B * R
    BY DEF SurfaceRays
  <1>3. l * MaxShadow \in Nat
    BY TraceAssumption, ProductIsInt
  <1>4. /\ RaysOnLine(l, m, d, k) = (Layers - k) * S + (Layers - k) + 1
        /\ RaysOnLine(l, n, d, k) = (Layers - k) * T + (Layers - k) + 1
    BY DEF RaysOnLine
  <1>5. Layers - k \in Nat
    BY TraceAssumption
  <1> HIDE DEF R, A, B, S, T
  <1>6. A * R <= B * R /\ A * R \in Int /\ B * R \in Int
    BY <1>1, ProductGrows, ProductIsInt
  <1>7. S <= T
    BY <1>2, <1>3, <1>6
  <1> DEFINE p == Layers - k
  <1>8. S * p <= T * p /\ S * p = p * S /\ T * p = p * T
        /\ p * S \in Int /\ p * T \in Int
    <2> HIDE DEF p
    <2> QED BY <1>1, <1>5, <1>7, ProductGrows, Products DEF p
  <1> QED BY <1>4, <1>5, <1>8

(* The rays a running call has still to cast.                                 *)
RaysToCome(l, f) ==
    IF f.shadow > 0 THEN IF f.hit THEN 0 ELSE MaxShadow - f.shadow + 1
    ELSE IF f.hit
    THEN (f.reflect + f.diffuse) * RaysOfOne(l)[f.depth - 1] + f.lit * MaxShadow
            + (IF f.through THEN RaysOnLine(l, f.trans, f.depth, f.layer + 1) ELSE 0)
    ELSE IF f.depth = 0 THEN 0 ELSE RaysOnLine(l, f.sample, f.depth, f.layer)

(* A call as HitInv and CountInv have it.                                     *)
Sound(f) == /\ f \in Frames /\ Counted(f)
            /\ f.hit \/ f.shadow > 0 => f.depth > 0 /\ f.layer < Layers

(* What such a call has still to cast is a natural number.                    *)
LEMMA ToComeIsNat ==
    ASSUME NEW l \in Nat, NEW f, Sound(f)
    PROVE  RaysToCome(l, f) \in Nat
  <1>1. /\ f.sample \in Nat /\ f.depth \in 0..MaxDepth /\ f.layer \in 0..Layers
        /\ f.shadow \in 0..MaxShadow /\ f.reflect \in Nat /\ f.lit \in Nat
        /\ f.diffuse \in Nat /\ f.trans \in Nat
        /\ Layers \in Nat /\ MaxDepth \in Nat /\ MaxShadow \in Nat
    BY TraceAssumption DEF Sound, Frames, Counted
  <1>2. CASE f.shadow > 0
    BY <1>1, <1>2 DEF RaysToCome
  <1>3. CASE f.shadow = 0 /\ f.hit
    <2> DEFINE R == RaysOfOne(l)[f.depth - 1]
               B == IF f.through THEN RaysOnLine(l, f.trans, f.depth, f.layer + 1) ELSE 0
               q == f.reflect + f.diffuse
    <2>1. f.depth \in 1..MaxDepth /\ f.depth - 1 \in 0..MaxDepth
          /\ f.layer + 1 \in 0..Layers
      BY <1>1, <1>3 DEF Sound
    <2>2. R \in Nat
      BY <2>1, RaysOfOneIsDefined
    <2>3. B \in Nat
      BY <1>1, <2>1, LineOfSurfaces
    <2>4. RaysToCome(l, f) = q * R + f.lit * MaxShadow + B
      BY <1>1, <1>3 DEF RaysToCome
    <2>5. q \in Nat
      BY <1>1
    <2> HIDE DEF R, B, q
    <2>6. q * R \in Nat /\ f.lit * MaxShadow \in Nat
      BY <1>1, <2>2, <2>5, ProductIsInt
    <2> QED BY <2>3, <2>4, <2>6
  <1>4. CASE f.shadow = 0 /\ ~f.hit
    <2>1. RaysToCome(l, f) = IF f.depth = 0 THEN 0
                             ELSE RaysOnLine(l, f.sample, f.depth, f.layer)
      BY <1>1, <1>4 DEF RaysToCome
    <2>2. CASE f.depth # 0
      <3>1. f.depth \in 1..MaxDepth
        BY <1>1, <2>2
      <3>2. RaysOnLine(l, f.sample, f.depth, f.layer) \in Nat
        BY <1>1, <3>1, LineOfSurfaces
      <3> QED BY <2>1, <2>2, <3>2
    <2> QED BY <2>1, <2>2
  <1> QED BY <1>1, <1>2, <1>3, <1>4

(* A call casts a ray first.                                                  *)
LEMMA CallTakesOne ==
    ASSUME NEW l \in Nat, NEW f, Sound(f), ~f.hit, f.shadow > 0 \/ f.depth > 0
    PROVE  RaysToCome(l, f) >= 1
  <1>1. /\ f.sample \in Nat /\ f.depth \in 0..MaxDepth /\ f.layer \in 0..Layers
        /\ f.shadow \in 0..MaxShadow
        /\ MaxDepth \in Nat /\ MaxShadow \in Nat
    BY TraceAssumption DEF Sound, Frames, Counted
  <1>2. CASE f.shadow > 0
    BY <1>1, <1>2 DEF RaysToCome
  <1>3. CASE f.shadow = 0
    <2>1. f.depth \in 1..MaxDepth
      BY <1>1, <1>3
    <2>2. RaysOnLine(l, f.sample, f.depth, f.layer) >= 1
      BY <1>1, <2>1, LineOfSurfaces
    <2> QED BY <1>3, <2>1, <2>2 DEF RaysToCome
  <1> QED BY <1>1, <1>2, <1>3

(* The fields of a call after its hit.                                        *)
LEMMA AfterHit ==
    ASSUME NEW l \in Nat, NEW f, Sound(f), f.hit, f.shadow = 0
    PROVE  /\ f.depth \in 1..MaxDepth /\ f.layer \in 0..(Layers - 1)
           /\ f.layer + 1 \in 0..Layers /\ f.depth - 1 \in 0..MaxDepth
           /\ f.reflect \in Nat /\ f.diffuse \in Nat /\ f.lit \in Nat
           /\ f.trans \in Nat
           /\ RaysOfOne(l)[f.depth - 1] \in Nat
           /\ RaysOnLine(l, f.trans, f.depth, f.layer + 1) \in Nat
           /\ RaysToCome(l, f)
                = (f.reflect + f.diffuse) * RaysOfOne(l)[f.depth - 1]
                    + f.lit * MaxShadow
                    + (IF f.through
                       THEN RaysOnLine(l, f.trans, f.depth, f.layer + 1) ELSE 0)
  <1>1. /\ f.depth \in 1..MaxDepth /\ f.layer \in 0..(Layers - 1)
        /\ f.layer + 1 \in 0..Layers /\ f.depth - 1 \in 0..MaxDepth
        /\ f.reflect \in Nat /\ f.diffuse \in Nat /\ f.lit \in Nat
        /\ f.trans \in Nat
    BY TraceAssumption DEF Sound, Frames, Counted
  <1>2. RaysOfOne(l)[f.depth - 1] \in Nat
    BY <1>1, RaysOfOneIsDefined
  <1>3. RaysOnLine(l, f.trans, f.depth, f.layer + 1) \in Nat
    BY <1>1, LineOfSurfaces
  <1>4. RaysToCome(l, f)
            = (f.reflect + f.diffuse) * RaysOfOne(l)[f.depth - 1]
                + f.lit * MaxShadow
                + (IF f.through
                   THEN RaysOnLine(l, f.trans, f.depth, f.layer + 1) ELSE 0)
    BY DEF RaysToCome
  <1> QED BY <1>1, <1>2, <1>3, <1>4

(* The call for a reflected or diffuse sample.                                *)
LEMMA SecondaryTakes ==
    ASSUME NEW l \in Nat, NEW f, Sound(f), f.hit, f.shadow = 0
    PROVE  /\ Sound(Secondary(f))
           /\ RaysToCome(l, Secondary(f)) = RaysOfOne(l)[f.depth - 1]
  <1> DEFINE c == Secondary(f)
             d == f.depth - 1
  <1>1. f.depth \in 1..MaxDepth /\ d \in 0..MaxDepth /\ MaxDepth \in Nat
    BY AfterHit, TraceAssumption
  <1>2. /\ c \in Frames /\ c.sample = 1 /\ c.depth = d /\ c.layer = 0
        /\ c.shadow = 0 /\ c.hit = FALSE /\ Counted(c)
    <2>1. 0 \in 0..Layers /\ 0 \in 0..MaxShadow
      BY TraceAssumption
    <2> HIDE DEF d
    <2>2. Secondary(f) = Call(1, d, 0, 0)
      BY DEF Secondary, d
    <2> QED BY <1>1, <2>1, <2>2 DEF Call, Frames, Counted
  <1> HIDE DEF c
  <1>3. RaysToCome(l, c) = IF d = 0 THEN 0 ELSE RaysOnLine(l, 1, d, 0)
    BY <1>2 DEF RaysToCome
  <1> HIDE DEF d
  <1>4. d = 0 => RaysToCome(l, c) = RaysOfOne(l)[d]
    BY <1>3, RaysOfOneIsDefined
  <1>5. ASSUME d # 0 PROVE RaysToCome(l, c) = RaysOfOne(l)[d]
    <2>1. d \in 1..MaxDepth /\ 1 \in Nat
      BY <1>1, <1>5
    <2>2. RaysOnLine(l, 1, d, 0)
            = LineRays(l) + (Layers * MaxSamples(1)) * RaysOfOne(l)[d - 1]
      BY <2>1, LineOfSurfaces
    <2>3. RaysOfOne(l)[d]
            = LineRays(l) + (Layers * MaxSamples(1)) * RaysOfOne(l)[d - 1]
      BY <2>1, RaysOfOneIsDefined
    <2> QED BY <1>3, <1>5, <2>2, <2>3
  <1>6. Sound(c)
    BY <1>2 DEF Sound
  <1>7. RaysToCome(l, c) = RaysOfOne(l)[d]
    BY <1>4, <1>5
  <1> QED BY <1>6, <1>7 DEF c, d

(* The call for a light.                                                      *)
LEMMA FurtherTakes ==
    ASSUME NEW l \in Nat, NEW f, Sound(f), f.hit \/ f.shadow > 0,
           f.shadow < MaxShadow
    PROVE  /\ Sound(Further(f))
           /\ RaysToCome(l, Further(f)) = MaxShadow - f.shadow
  <1> DEFINE c == Further(f)
             n == f.shadow + 1
  <1>1. /\ f.depth \in 0..MaxDepth /\ f.layer \in 0..Layers
        /\ f.shadow \in 0..MaxShadow /\ f.depth > 0 /\ f.layer < Layers
        /\ MaxShadow \in Nat /\ n \in 0..MaxShadow
    BY TraceAssumption DEF Sound, Frames
  <1>2. /\ c \in Frames /\ c.depth = f.depth /\ c.layer = f.layer
        /\ c.shadow = n /\ ~c.hit /\ Counted(c)
    <2> HIDE DEF n
    <2>1. Further(f) = Call(0, f.depth, f.layer, n)
      BY DEF Further, n
    <2> QED BY <1>1, <2>1 DEF Call, Frames, Counted
  <1> HIDE DEF c
  <1>3. Sound(c)
    BY <1>1, <1>2 DEF Sound
  <1>4. RaysToCome(l, c) = MaxShadow - f.shadow
    BY <1>1, <1>2 DEF RaysToCome
  <1> QED BY <1>3, <1>4 DEF c

(* The call for what is behind a surface.                                     *)
LEMMA BehindTakes ==
    ASSUME NEW l \in Nat, NEW f, Sound(f), f.hit, f.shadow = 0
    PROVE  /\ Sound(Behind(f))
           /\ RaysToCome(l, Behind(f))
                = RaysOnLine(l, f.trans, f.depth, f.layer + 1)
  <1> DEFINE c == Behind(f)
             k == f.layer + 1
  <1>1. /\ f.depth \in 1..MaxDepth /\ k \in 0..Layers /\ f.trans \in Nat
    BY AfterHit
  <1>2. /\ c \in Frames /\ c.sample = f.trans /\ c.depth = f.depth
        /\ c.layer = k /\ c.shadow = 0 /\ ~c.hit /\ Counted(c)
    <2>1. 0 \in 0..MaxShadow /\ f.depth \in 0..MaxDepth /\ f.trans \in Int
      BY <1>1, TraceAssumption
    <2> HIDE DEF k
    <2>2. Behind(f) = Call(f.trans, f.depth, k, 0)
      BY DEF Behind, k
    <2> QED BY <1>1, <2>1, <2>2 DEF Call, Frames, Counted
  <1> HIDE DEF c
  <1>3. Sound(c)
    BY <1>2 DEF Sound
  <1>4. RaysToCome(l, c) = RaysOnLine(l, f.trans, f.depth, k)
    <2> HIDE DEF k
    <2> QED BY <1>1, <1>2 DEF RaysToCome
  <1> QED BY <1>3, <1>4 DEF c

(* What a call has left after one of its loops or its transparent surface.    *)
LEMMA OneSampleLess ==
    ASSUME NEW l \in Nat, NEW f, Sound(f), f.hit, f.shadow = 0, NEW h \in Frames,
           h.depth = f.depth, h.layer = f.layer, h.trans = f.trans,
           h.sample = f.sample, h.hit, h.shadow = 0,
           \/ /\ f.reflect > 0 /\ h.reflect = f.reflect - 1
              /\ h.diffuse = f.diffuse
           \/ /\ f.diffuse > 0 /\ h.diffuse = f.diffuse - 1
              /\ h.reflect = f.reflect,
           h.lit = f.lit, h.through = f.through
    PROVE  /\ Sound(h)
           /\ RaysToCome(l, f) = RaysToCome(l, h) + RaysOfOne(l)[f.depth - 1]
  <1>1. Sound(h)
    BY DEF Sound, Counted, Frames
  <1> DEFINE R == RaysOfOne(l)[f.depth - 1]
             L == RaysOnLine(l, f.trans, f.depth, f.layer + 1)
             p == h.reflect + h.diffuse
             B == IF f.through THEN L ELSE 0
             m == f.lit * MaxShadow
  <1>2. /\ R \in Nat /\ L \in Nat /\ f.reflect \in Nat /\ f.diffuse \in Nat
        /\ f.lit \in Nat
        /\ RaysToCome(l, f) = (f.reflect + f.diffuse) * R + m + B
    BY AfterHit
  <1>3. RaysToCome(l, h) = p * R + m + B
    BY <1>1, AfterHit
  <1>4. B \in Nat /\ m \in Nat
    BY <1>2, TraceAssumption, ProductIsInt
  <1>5. p \in Int /\ f.reflect + f.diffuse = p + 1
    BY <1>2
  <1> HIDE DEF R, L, p, B, m
  <1>6. (p + 1) * R = p * R + R /\ p * R \in Int
    BY <1>2, <1>5, Products
  <1>7. RaysToCome(l, f) = RaysToCome(l, h) + R
    BY <1>2, <1>3, <1>4, <1>5, <1>6
  <1> QED BY <1>1, <1>7 DEF R

(* What it has left after one of the lights.                                  *)
LEMMA OneLightLess ==
    ASSUME NEW l \in Nat, NEW f, Sound(f), f.hit, f.shadow = 0, f.lit > 0,
           NEW h \in Frames,
           h.depth = f.depth, h.layer = f.layer, h.trans = f.trans,
           h.sample = f.sample, h.hit, h.shadow = 0,
           h.reflect = f.reflect, h.diffuse = f.diffuse,
           h.through = f.through, h.lit = f.lit - 1
    PROVE  /\ Sound(h)
           /\ RaysToCome(l, f) = RaysToCome(l, h) + MaxShadow
  <1>1. Sound(h)
    BY DEF Sound, Counted, Frames
  <1> DEFINE q == (f.reflect + f.diffuse) * RaysOfOne(l)[f.depth - 1]
             B == IF f.through
                  THEN RaysOnLine(l, f.trans, f.depth, f.layer + 1) ELSE 0
             p == h.lit
  <1>2. /\ f.lit \in Nat /\ MaxShadow \in Nat /\ q \in Nat /\ B \in Nat
        /\ RaysToCome(l, f) = q + f.lit * MaxShadow + B
    <2>1. /\ f.reflect + f.diffuse \in Nat /\ RaysOfOne(l)[f.depth - 1] \in Nat
          /\ B \in Nat /\ f.lit \in Nat
          /\ RaysToCome(l, f) = q + f.lit * MaxShadow + B
      BY AfterHit
    <2>2. q \in Nat
      BY <2>1, ProductIsInt
    <2> QED BY <2>1, <2>2, TraceAssumption
  <1>3. RaysToCome(l, h) = q + p * MaxShadow + B
    BY <1>1, AfterHit
  <1>4. p \in Int /\ f.lit = p + 1
    BY <1>2
  <1> HIDE DEF q, B, p
  <1>5. (p + 1) * MaxShadow = p * MaxShadow + MaxShadow /\ p * MaxShadow \in Int
    BY <1>2, <1>4, Products
  <1> QED BY <1>1, <1>2, <1>3, <1>4, <1>5

(* What it has left when the ray has gone on behind the surface.              *)
LEMMA NothingBehind ==
    ASSUME NEW l \in Nat, NEW f, Sound(f), f.hit, f.shadow = 0, f.through,
           NEW h \in Frames,
           h.depth = f.depth, h.layer = f.layer, h.trans = f.trans,
           h.sample = f.sample, h.hit, h.shadow = 0,
           h.reflect = f.reflect, h.diffuse = f.diffuse,
           ~h.through, h.lit = f.lit
    PROVE  /\ Sound(h)
           /\ RaysToCome(l, f)
                = RaysToCome(l, h) + RaysOnLine(l, f.trans, f.depth, f.layer + 1)
  <1>1. Sound(h)
    BY DEF Sound, Counted, Frames
  <1> DEFINE q == (f.reflect + f.diffuse) * RaysOfOne(l)[f.depth - 1]
             B == RaysOnLine(l, f.trans, f.depth, f.layer + 1)
             m == f.lit * MaxShadow
  <1>2. /\ f.lit \in Nat /\ f.reflect + f.diffuse \in Nat
        /\ RaysOfOne(l)[f.depth - 1] \in Nat /\ B \in Nat
        /\ RaysToCome(l, f) = q + m + B
    BY AfterHit
  <1>3. RaysToCome(l, h) = q + m + 0
    BY <1>1, AfterHit
  <1>4. q \in Nat /\ m \in Nat
    BY <1>2, TraceAssumption, ProductIsInt
  <1> HIDE DEF q, B, m
  <1>5. RaysToCome(l, f) = RaysToCome(l, h) + B
    BY <1>2, <1>3, <1>4
  <1> QED BY <1>1, <1>5 DEF B

(* A hit turns the rays of the call into those of its samples.                *)
LEMMA HitTakesOne ==
    ASSUME NEW l \in Nat, NEW f, Sound(f), ~f.hit, f.shadow = 0, f.depth > 0,
           f.layer < Layers, NEW h, Sound(h), h.hit, h.shadow = 0,
           h.depth = f.depth, h.layer = f.layer, h.lit <= l,
           h.reflect + h.diffuse <= MaxSamples(f.sample), h.trans <= f.sample
    PROVE  RaysToCome(l, h) + 1 <= RaysToCome(l, f)
  <1> DEFINE d == f.depth
             k == f.layer + 1
             s == f.sample
             R == RaysOfOne(l)[d - 1]
             M == MaxSamples(s)
             q == h.reflect + h.diffuse
             L == RaysOnLine(l, h.trans, d, k)
             T == RaysOnLine(l, s, d, k)
             B == IF h.through THEN L ELSE 0
  <1>1. /\ d \in 1..MaxDepth /\ k \in 0..Layers /\ f.layer \in 0..(Layers - 1)
        /\ s \in Nat
    BY TraceAssumption DEF Sound, Frames, Counted
  <1>2. /\ h.reflect \in Nat /\ h.diffuse \in Nat /\ h.lit \in Nat
        /\ h.trans \in Nat /\ R \in Nat /\ L \in Nat
        /\ RaysToCome(l, h) = q * R + h.lit * MaxShadow + B
    BY AfterHit
  <1>3. /\ RaysToCome(l, f) = RaysOnLine(l, s, d, f.layer)
        /\ RaysOnLine(l, s, d, f.layer) = 1 + SurfaceRays(l, s, d) + T
        /\ T \in Nat
    <2>1. RaysToCome(l, f) = RaysOnLine(l, s, d, f.layer)
      BY <1>1 DEF RaysToCome
    <2>2. /\ RaysOnLine(l, s, d, f.layer) = 1 + SurfaceRays(l, s, d) + T
          /\ T \in Nat
      BY <1>1, LineOfSurfaces
    <2> QED BY <2>1, <2>2
  <1>4. SurfaceRays(l, s, d) = l * MaxShadow + M * R
    BY DEF SurfaceRays
  <1>5. M \in Nat /\ q \in Nat /\ q <= M
    BY <1>1, <1>2, MaxSamplesGrows
  <1>6. L <= T
    BY <1>1, <1>2, FewerSamples
  <1>7. B <= T /\ B \in Nat
    BY <1>2, <1>3, <1>6
  <1> HIDE DEF R, M, q, L, T, B
  <1>8. q * R <= M * R /\ q * R \in Int /\ M * R \in Int
    BY <1>2, <1>5, ProductGrows, ProductIsInt
  <1> DEFINE m == h.lit
  <1>9. m * MaxShadow <= l * MaxShadow /\ m * MaxShadow \in Int
        /\ l * MaxShadow \in Int
    BY <1>2, TraceAssumption, ProductGrows, ProductIsInt
  <1> QED BY <1>2, <1>3, <1>4, <1>7, <1>8, <1>9

-----------------------------------------------------------------------------
(* The calls of s have at most n rays to cast: b counts them from the         *)
(* outermost call on.                                                         *)
Owed(l, s, n) ==
    \E b \in [0..Len(s) -> Nat] :
        /\ \A i \in 1..Len(s) : b[i - 1] + RaysToCome(l, s[i]) <= b[i]
        /\ b[Len(s)] <= n

(* Nothing is owed when no call runs.                                         *)
LEMMA NothingOwed ==
    ASSUME NEW l \in Nat, NEW n \in Nat
    PROVE  Owed(l, <<>>, n)
  <1> DEFINE b == [i \in 0..0 |-> 0]
  <1>1. b \in [0..0 -> Nat] /\ b[0] = 0 /\ Len(<<>>) = 0
    OBVIOUS
  <1> HIDE DEF b
  <1> QED BY <1>1 DEF Owed

(* Who owes at most m owes at most a larger n.                                *)
LEMMA OwedByAll ==
    ASSUME NEW l \in Nat, NEW s \in Seq(Frames), NEW m \in Int, NEW n \in Int,
           Owed(l, s, m), m <= n
    PROVE  Owed(l, s, n)
  <1>1. PICK b \in [0..Len(s) -> Nat] :
            /\ \A i \in 1..Len(s) : b[i - 1] + RaysToCome(l, s[i]) <= b[i]
            /\ b[Len(s)] <= m
    BY DEF Owed
  <1>2. b[Len(s)] \in Nat
    OBVIOUS
  <1>3. b[Len(s)] <= n
    BY <1>1, <1>2
  <1> QED BY <1>1, <1>3 DEF Owed

(* Without the innermost call.                                                *)
LEMMA OwedByOthers ==
    ASSUME NEW l \in Nat, NEW s \in Seq(Frames), Len(s) > 0, NEW n \in Int,
           Owed(l, s, n), RaysToCome(l, s[Len(s)]) \in Nat
    PROVE  /\ RaysToCome(l, s[Len(s)]) <= n
           /\ Owed(l, SubSeq(s, 1, Len(s) - 1), n - RaysToCome(l, s[Len(s)]))
  <1> DEFINE k == Len(s)
             t == SubSeq(s, 1, k - 1)
             c == RaysToCome(l, s[k])
  <1>1. PICK b \in [0..k -> Nat] :
            /\ \A i \in 1..k : b[i - 1] + RaysToCome(l, s[i]) <= b[i]
            /\ b[k] <= n
    BY DEF Owed
  <1>2. k \in Nat /\ k - 1 \in 0..k /\ k \in 1..k
    OBVIOUS
  <1>3. Len(t) = k - 1 /\ \A i \in 1..(k - 1) : t[i] = s[i]
    OBVIOUS
  <1> DEFINE a == [i \in 0..(k - 1) |-> b[i]]
  <1> HIDE DEF k, t, c
  <1>4. b[k - 1] \in Nat /\ b[k] \in Nat /\ b[k - 1] + c <= b[k]
    BY <1>1, <1>2 DEF c
  <1>5. c \in Nat
    BY DEF c, k
  <1>6. c <= n /\ b[k - 1] <= n - c
    BY <1>1, <1>4, <1>5
  <1>7. a \in [0..(k - 1) -> Nat] /\ a[k - 1] = b[k - 1]
    BY <1>2
  <1>8. \A i \in 1..(k - 1) : a[i - 1] + RaysToCome(l, t[i]) <= a[i]
    <2>1. \A i \in 1..(k - 1) : i \in 1..k /\ i - 1 \in 0..(k - 1)
                                  /\ i \in 0..(k - 1)
      BY <1>2
    <2>2. \A i \in 1..(k - 1) : a[i - 1] = b[i - 1] /\ a[i] = b[i]
      BY <2>1
    <2> HIDE DEF a
    <2> QED BY <1>1, <1>3, <2>1, <2>2
  <1> HIDE DEF a
  <1>9. Owed(l, t, n - c)
    BY <1>3, <1>6, <1>7, <1>8 DEF Owed
  <1> QED BY <1>6, <1>9 DEF k, t, c

(* With one more call.                                                        *)
LEMMA OwedByMore ==
    ASSUME NEW l \in Nat, NEW s \in Seq(Frames), NEW f \in Frames, NEW n \in Int,
           Owed(l, s, n), RaysToCome(l, f) \in Nat
    PROVE  Owed(l, Append(s, f), n + RaysToCome(l, f))
  <1> DEFINE k == Len(s)
             t == Append(s, f)
             c == RaysToCome(l, f)
  <1>1. PICK b \in [0..k -> Nat] :
            /\ \A i \in 1..k : b[i - 1] + RaysToCome(l, s[i]) <= b[i]
            /\ b[k] <= n
    BY DEF Owed
  <1>2. k \in Nat
    OBVIOUS
  <1>3. Len(t) = k + 1 /\ t[k + 1] = f /\ \A i \in 1..k : t[i] = s[i]
    OBVIOUS
  <1> DEFINE a == [i \in 0..(k + 1) |-> IF i = k + 1 THEN b[k] + c ELSE b[i]]
  <1>4. c \in Nat
    OBVIOUS
  <1> HIDE DEF k, t, c
  <1>5. a \in [0..(k + 1) -> Nat] /\ a[k + 1] = b[k] + c
        /\ b[k] \in Nat
    <2>1. b[k] \in Nat /\ b[k] + c \in Nat
      BY <1>2, <1>4
    <2>2. \A i \in 0..(k + 1) : i # k + 1 => i \in 0..k
      BY <1>2
    <2>3. \A i \in 0..k : b[i] \in Nat
      OBVIOUS
    <2> QED BY <1>2, <2>1, <2>2, <2>3
  <1>6. \A i \in 0..k : a[i] = b[i]
    BY <1>2
  <1> HIDE DEF a
  <1>7. \A i \in 1..(k + 1) : a[i - 1] + RaysToCome(l, t[i]) <= a[i]
    <2> SUFFICES ASSUME NEW i \in 1..(k + 1)
                 PROVE  a[i - 1] + RaysToCome(l, t[i]) <= a[i]
      OBVIOUS
    <2>1. CASE i \in 1..k
      <3>1. i - 1 \in 0..k /\ i \in 0..k
        BY <1>2, <2>1
      <3> QED BY <1>1, <1>3, <1>6, <2>1, <3>1
    <2>2. CASE i = k + 1
      <3>1. i - 1 = k /\ k \in 0..k
        BY <1>2, <2>2
      <3>2. a[i - 1] = b[k] /\ RaysToCome(l, t[i]) = c
        BY <1>3, <1>6, <2>2, <3>1 DEF c
      <3> QED BY <1>4, <1>5, <2>2, <3>2
    <2> QED BY <1>2, <2>1, <2>2
  <1>8. b[k] + c <= n + c
    BY <1>1, <1>4, <1>5
  <1>9. Owed(l, t, n + c)
    BY <1>3, <1>5, <1>7, <1>8 DEF Owed
  <1> QED BY <1>9 DEF t, c

-----------------------------------------------------------------------------
(* What the running calls have still to cast is within the budget.            *)
BudgetInv == ~extrapolated => Owed(lights, stack, Budget(subSampleNum) - rays)

(* The budget of a sub-pixel is what its first call has to cast.              *)
LEMMA BudgetOfCall ==
    ASSUME TraceInv
    PROVE  /\ subSampleNum \in Nat /\ lights \in Nat /\ rays \in Nat
           /\ Budget(subSampleNum) \in Nat
           /\ Sound(Call(subSampleNum, MaxDepth, 0, 0))
           /\ RaysToCome(lights, Call(subSampleNum, MaxDepth, 0, 0))
                = Budget(subSampleNum)
  <1> DEFINE n == subSampleNum
             c == Call(n, MaxDepth, 0, 0)
  <1>1. n \in Nat
    <2>1. splitPixel * splitPixel \in {1, 9}
      BY DEF splitPixel
    <2> QED BY <2>1, TraceAssumption, QuotientIsNat DEF subSampleNum
  <1>2. lights \in Nat /\ rays \in Nat /\ MaxDepth \in Nat
    BY TraceAssumption DEF TraceInv, TypeOK
  <1> HIDE DEF n
  <1>3. /\ c \in Frames /\ c.sample = n /\ c.depth = MaxDepth /\ c.layer = 0
        /\ c.shadow = 0 /\ ~c.hit /\ Counted(c)
    <2>1. MaxDepth \in 0..MaxDepth /\ 0 \in 0..Layers /\ 0 \in 0..MaxShadow
      BY TraceAssumption
    <2> QED BY <1>1, <2>1 DEF Call, Frames, Counted
  <1> HIDE DEF c
  <1>4. Sound(c)
    BY <1>3 DEF Sound
  <1>5. RaysToCome(lights, c) = IF MaxDepth = 0 THEN 0
                                ELSE RaysOnLine(lights, n, MaxDepth, 0)
    BY <1>3 DEF RaysToCome
  <1>6. RaysToCome(lights, c) = Budget(n)
    <2>1. CASE MaxDepth = 0
      BY <1>5, <2>1 DEF Budget
    <2>2. CASE MaxDepth # 0
      <3>1. MaxDepth \in 1..MaxDepth
        BY <1>2, <2>2
      <3>2. RaysOnLine(lights, n, MaxDepth, 0)
              = LineRays(lights)
                  + (Layers * MaxSamples(n)) * RaysOfOne(lights)[MaxDepth - 1]
        BY <1>1, <1>2, <3>1, LineOfSurfaces
      <3> QED BY <1>5, <2>2, <3>2 DEF Budget
    <2> QED BY <2>1, <2>2
  <1>7. RaysToCome(lights, c) \in Nat
    BY <1>2, <1>4, ToComeIsNat
  <1>8. n \in Nat /\ Budget(n) \in Nat
    BY <1>1, <1>6, <1>7
  <1> QED BY <1>2, <1>4, <1>6, <1>8 DEF c, n

(* Every running call is as HitInv and CountInv say.                          *)
LEMMA CallsAreSound ==
    ASSUME TraceInv, ~extrapolated, Running
    PROVE  Sound(top) /\ RaysToCome(lights, top) \in Nat
  <1>1. stack \in Seq(Frames)
    BY DEF TraceInv, TypeOK
  <1>2. Len(stack) \in DOMAIN stack /\ top \in Frames
    BY <1>1, TopIsFrame
  <1>3. Counted(top)
    BY <1>2 DEF TraceInv, TypeOK, top
  <1>4. top.hit \/ top.shadow > 0 => top.depth > 0 /\ top.layer < Layers
    BY <1>2 DEF TraceInv, HitInv, top
  <1>5. Sound(top)
    BY <1>2, <1>3, <1>4 DEF Sound
  <1>6. lights \in Nat
    BY BudgetOfCall
  <1> QED BY <1>5, <1>6, ToComeIsNat

(* The calls around the innermost one, and what they owe.                     *)
LEMMA OthersOwe ==
    ASSUME TraceInv, BudgetInv, ~extrapolated, Running
    PROVE  /\ SubSeq(stack, 1, Len(stack) - 1) \in Seq(Frames)
           /\ Owed(lights, SubSeq(stack, 1, Len(stack) - 1),
                   Budget(subSampleNum) - rays - RaysToCome(lights, top))
           /\ RaysToCome(lights, top) <= Budget(subSampleNum) - rays
  <1>1. stack \in Seq(Frames)
    BY DEF TraceInv, TypeOK
  <1>2. Len(stack) \in Nat /\ Len(stack) > 0
    BY <1>1, TopIsFrame
  <1>3. SubSeq(stack, 1, Len(stack) - 1) \in Seq(Frames)
    BY <1>1, <1>2
  <1> DEFINE n == Budget(subSampleNum) - rays
  <1>4. lights \in Nat /\ n \in Int
    BY BudgetOfCall
  <1>5. Owed(lights, stack, n)
    BY DEF BudgetInv
  <1>6. RaysToCome(lights, stack[Len(stack)]) \in Nat
    BY CallsAreSound DEF top
  <1> HIDE DEF n
  <1>7. /\ RaysToCome(lights, stack[Len(stack)]) <= n
        /\ Owed(lights, SubSeq(stack, 1, Len(stack) - 1),
                n - RaysToCome(lights, stack[Len(stack)]))
    BY <1>1, <1>2, <1>4, <1>5, <1>6, OwedByOthers
  <1> QED BY <1>3, <1>7 DEF n, top

(* The innermost call returns.                                                *)
LEMMA ReturnPays ==
    ASSUME TraceInv, BudgetInv, ~extrapolated, Running, Return,
           NEW q \in Nat, q <= rays + RaysToCome(lights, top)
    PROVE  Owed(lights, stack', Budget(subSampleNum) - q)
  <1> DEFINE s == SubSeq(stack, 1, Len(stack) - 1)
             m == Budget(subSampleNum) - rays - RaysToCome(lights, top)
             n == Budget(subSampleNum) - q
  <1>1. s \in Seq(Frames) /\ Owed(lights, s, m)
    BY OthersOwe
  <1>2. lights \in Nat /\ m \in Int /\ n \in Int /\ m <= n
    BY BudgetOfCall, CallsAreSound
  <1>3. stack' = s
    BY DEF Return
  <1> HIDE DEF s, m, n
  <1>4. Owed(lights, stack', n)
    BY <1>1, <1>2, <1>3, OwedByAll
  <1> QED BY <1>4 DEF n

(* All calls but the innermost one.                                           *)
LEMMA OuterCalls ==
    ASSUME NEW s \in Seq(Frames), Len(s) > 0
    PROVE  /\ Len(SubSeq(s, 1, Len(s) - 1)) = Len(s) - 1
           /\ \A i \in 1..(Len(s) - 1) : SubSeq(s, 1, Len(s) - 1)[i] = s[i]
  <1> DEFINE n == Len(s) - 1
  <1>1. n \in Nat /\ 1 \in Int /\ \A i \in 1..n : s[i] \in Frames
    OBVIOUS
  <1> HIDE DEF n
  <1>2. /\ Len(SubSeq(s, 1, n)) = IF 1 <= n THEN n - 1 + 1 ELSE 0
        /\ \A i \in 1..(n - 1 + 1) : SubSeq(s, 1, n)[i] = s[1 + i - 1]
    BY <1>1, SubSeqProperties
  <1>3. /\ Len(SubSeq(s, 1, n)) = n
        /\ \A i \in 1..n : SubSeq(s, 1, n)[i] = s[i]
    BY <1>1, <1>2
  <1> QED BY <1>3 DEF n

(* It goes on as f.                                                           *)
LEMMA ChangePays ==
    ASSUME TraceInv, BudgetInv, ~extrapolated, Running,
           NEW f, Sound(f), NEW q \in Nat,
           q + RaysToCome(lights, f) <= rays + RaysToCome(lights, top)
    PROVE  /\ Owed(lights, [stack EXCEPT ![Len(stack)] = f],
                   Budget(subSampleNum) - q)
           /\ [stack EXCEPT ![Len(stack)] = f] \in Seq(Frames)
  <1> DEFINE s == SubSeq(stack, 1, Len(stack) - 1)
             m == Budget(subSampleNum) - rays - RaysToCome(lights, top)
             n == Budget(subSampleNum) - q
             c == RaysToCome(lights, f)
             t == Append(s, f)
  <1>1. s \in Seq(Frames) /\ Owed(lights, s, m)
    BY OthersOwe
  <1>2. f \in Frames
    BY DEF Sound
  <1>3. lights \in Nat /\ c \in Nat
    BY BudgetOfCall, ToComeIsNat
  <1>4. m \in Int /\ n \in Int /\ m + c <= n
    BY <1>3, BudgetOfCall, CallsAreSound
  <1>5. [stack EXCEPT ![Len(stack)] = f] = t
    <2>1. stack \in Seq(Frames)
      BY DEF TraceInv, TypeOK
    <2>2. Len(stack) \in Nat /\ Len(stack) > 0
      BY <2>1, TopIsFrame
    <2> DEFINE e == [stack EXCEPT ![Len(stack)] = f]
    <2>3. e \in Seq(Frames) /\ Len(e) = Len(stack)
          /\ \A i \in 1..Len(stack) :
                e[i] = IF i = Len(stack) THEN f ELSE stack[i]
      BY <1>2, <2>1, <2>2
    <2>4. t \in Seq(Frames) /\ Len(t) = Len(stack)
          /\ \A i \in 1..Len(stack) :
                t[i] = IF i = Len(stack) THEN f ELSE stack[i]
      <3>1. Len(s) = Len(stack) - 1 /\ \A i \in 1..(Len(stack) - 1) : s[i] = stack[i]
        BY <2>1, <2>2, OuterCalls
      <3> HIDE DEF s
      <3>2. /\ t \in Seq(Frames) /\ Len(t) = Len(s) + 1 /\ t[Len(s) + 1] = f
            /\ \A i \in 1..Len(s) : t[i] = s[i]
        BY <1>1, <1>2
      <3> HIDE DEF t
      <3> QED BY <2>2, <3>1, <3>2
    <2> HIDE DEF e, t
    <2>5. e = t
      BY <2>2, <2>3, <2>4
    <2> QED BY <2>5 DEF e
  <1>6. t \in Seq(Frames)
    BY <1>1, <1>2
  <1> HIDE DEF s, m, n
  <1>7. Owed(lights, t, m + c)
    BY <1>1, <1>2, <1>3, <1>4, OwedByMore
  <1> HIDE DEF t, c
  <1>8. Owed(lights, t, n)
    <2>1. m + c \in Int
      BY <1>3, <1>4
    <2> QED BY <1>3, <1>4, <1>6, <1>7, <2>1, OwedByAll
  <1> QED BY <1>5, <1>6, <1>8 DEF n

(* It goes on as f and calls c.                                               *)
LEMMA CallPays ==
    ASSUME TraceInv, BudgetInv, ~extrapolated, Running,
           NEW f, Sound(f), NEW c, Sound(c), Recurse(f, c), NEW q \in Nat,
           q + RaysToCome(lights, f) + RaysToCome(lights, c)
             <= rays + RaysToCome(lights, top)
    PROVE  Owed(lights, stack', Budget(subSampleNum) - q)
  <1> DEFINE e == [stack EXCEPT ![Len(stack)] = f]
             d == RaysToCome(lights, c)
             r == q + d
             m == Budget(subSampleNum) - r
  <1>1. /\ lights \in Nat /\ d \in Nat /\ RaysToCome(lights, f) \in Nat
        /\ c \in Frames /\ rays \in Nat /\ Budget(subSampleNum) \in Nat
        /\ RaysToCome(lights, top) \in Nat
    BY BudgetOfCall, CallsAreSound, ToComeIsNat DEF Sound
  <1>2. r \in Nat /\ r + RaysToCome(lights, f) <= rays + RaysToCome(lights, top)
    BY <1>1
  <1>3. m \in Int /\ m + d = Budget(subSampleNum) - q
    BY <1>1
  <1> HIDE DEF r, d
  <1>4. Owed(lights, e, m) /\ e \in Seq(Frames)
    BY <1>2, ChangePays
  <1>5. stack' = Append(e, c)
    BY DEF Recurse
  <1> HIDE DEF e, m
  <1>6. Owed(lights, Append(e, c), m + d)
    BY <1>1, <1>3, <1>4, OwedByMore DEF d
  <1> QED BY <1>3, <1>5, <1>6

(* Casting a ray within the budget counts it.                                 *)
LEMMA RayIsCounted ==
    ASSUME TraceInv, BudgetInv, ~extrapolated, Running, CastRay
    PROVE  rays' = rays + 1
  <1>1. /\ rays \in Nat /\ Budget(subSampleNum) \in Nat
        /\ RaysToCome(lights, top) \in Nat
        /\ RaysToCome(lights, top) <= Budget(subSampleNum) - rays
    BY BudgetOfCall, CallsAreSound, OthersOwe
  <1> QED BY <1>1 DEF CastRay

(* The steps that end a call.                                                 *)
LEMMA ReturnsPay ==
    ASSUME TraceInv, BudgetInv, ~extrapolated,
           TooDeep \/ Miss \/ Shaded \/ LightPathEnds \/ LightPathReturns
    PROVE  Owed(lights, stack', Budget(subSampleNum) - rays')
  <1>1. Running /\ Return
    BY DEF TooDeep, Miss, Shaded, LightPathEnds, LightPathReturns, Waits
  <1>2. /\ rays \in Nat /\ lights \in Nat /\ RaysToCome(lights, top) \in Nat
        /\ Sound(top)
    BY <1>1, BudgetOfCall, CallsAreSound
  <1>3. rays' \in Nat /\ rays' <= rays + RaysToCome(lights, top)
    <2>1. CASE TooDeep \/ Shaded \/ LightPathReturns
      <3>1. rays' = rays
        BY <2>1 DEF TooDeep, Shaded, LightPathReturns
      <3> QED BY <1>2, <3>1
    <2>2. CASE Miss \/ LightPathEnds
      <3>1. /\ CastRay /\ ~top.hit /\ (top.shadow > 0 \/ top.depth > 0)
        BY <2>2 DEF Miss, LightPathEnds
      <3>2. RaysToCome(lights, top) >= 1
        BY <1>2, <3>1, CallTakesOne
      <3>3. rays' = rays + 1
        BY <1>1, <3>1, RayIsCounted
      <3> QED BY <1>2, <3>2, <3>3
    <2> QED BY <2>1, <2>2
  <1> QED BY <1>1, <1>3, ReturnPays

(* The steps that call.                                                       *)
LEMMA CallsPay ==
    ASSUME TraceInv, BudgetInv, ~extrapolated,
           Reflect \/ Light \/ Diffuse \/ Through \/ LightPathThrough
    PROVE  Owed(lights, stack', Budget(subSampleNum) - rays')
  <1>1. Running
    BY DEF Reflect, Light, Diffuse, Through, LightPathThrough, Waits
  <1>2. /\ rays \in Nat /\ lights \in Nat /\ RaysToCome(lights, top) \in Nat
        /\ Sound(top) /\ top \in Frames
    BY <1>1, BudgetOfCall, CallsAreSound DEF Sound
  <1>3. /\ top.reflect \in Nat /\ top.diffuse \in Nat /\ top.lit \in Nat
        /\ top.shadow \in Nat /\ MaxShadow \in Nat /\ MaxShadow > 0
    BY <1>2, TraceAssumption DEF Sound, Frames, Counted
  <1>4. CASE Reflect
    <2> DEFINE f == [top EXCEPT !.reflect = top.reflect - 1]
    <2>1. /\ Recurse(f, Secondary(top)) /\ top.reflect > 0 /\ top.hit
          /\ top.shadow = 0 /\ rays' = rays
      BY <1>4 DEF Reflect, Waits
    <2>2. /\ f \in Frames /\ f.depth = top.depth /\ f.layer = top.layer
          /\ f.trans = top.trans /\ f.sample = top.sample /\ f.hit
          /\ f.shadow = 0 /\ f.reflect = top.reflect - 1
          /\ f.diffuse = top.diffuse /\ f.lit = top.lit
          /\ f.through = top.through
      BY <1>2, <1>3, <2>1 DEF Frames
    <2> HIDE DEF f
    <2>3. /\ Sound(f)
          /\ RaysToCome(lights, top)
               = RaysToCome(lights, f) + RaysOfOne(lights)[top.depth - 1]
      BY <1>2, <2>1, <2>2, OneSampleLess
    <2>4. /\ Sound(Secondary(top))
          /\ RaysToCome(lights, Secondary(top)) = RaysOfOne(lights)[top.depth - 1]
      BY <1>2, <2>1, SecondaryTakes
    <2>5. RaysToCome(lights, f) \in Nat /\ RaysToCome(lights, Secondary(top)) \in Nat
      BY <1>2, <2>3, <2>4, ToComeIsNat
    <2>6. rays' + RaysToCome(lights, f) + RaysToCome(lights, Secondary(top))
            <= rays + RaysToCome(lights, top) /\ rays' \in Nat
      BY <1>2, <2>1, <2>3, <2>4, <2>5
    <2> QED BY <1>1, <2>1, <2>3, <2>4, <2>6, CallPays
  <1>5. CASE Diffuse
    <2> DEFINE f == [top EXCEPT !.diffuse = top.diffuse - 1]
    <2>1. /\ Recurse(f, Secondary(top)) /\ top.diffuse > 0 /\ top.hit
          /\ top.shadow = 0 /\ rays' = rays
      BY <1>5 DEF Diffuse, Waits
    <2>2. /\ f \in Frames /\ f.depth = top.depth /\ f.layer = top.layer
          /\ f.trans = top.trans /\ f.sample = top.sample /\ f.hit
          /\ f.shadow = 0 /\ f.diffuse = top.diffuse - 1
          /\ f.reflect = top.reflect /\ f.lit = top.lit
          /\ f.through = top.through
      BY <1>2, <1>3, <2>1 DEF Frames
    <2> HIDE DEF f
    <2>3. /\ Sound(f)
          /\ RaysToCome(lights, top)
               = RaysToCome(lights, f) + RaysOfOne(lights)[top.depth - 1]
      BY <1>2, <2>1, <2>2, OneSampleLess
    <2>4. /\ Sound(Secondary(top))
          /\ RaysToCome(lights, Secondary(top)) = RaysOfOne(lights)[top.depth - 1]
      BY <1>2, <2>1, SecondaryTakes
    <2>5. RaysToCome(lights, f) \in Nat /\ RaysToCome(lights, Secondary(top)) \in Nat
      BY <1>2, <2>3, <2>4, ToComeIsNat
    <2>6. rays' + RaysToCome(lights, f) + RaysToCome(lights, Secondary(top))
            <= rays + RaysToCome(lights, top) /\ rays' \in Nat
      BY <1>2, <2>1, <2>3, <2>4, <2>5
    <2> QED BY <1>1, <2>1, <2>3, <2>4, <2>6, CallPays
  <1>6. CASE Light
    <2> DEFINE f == [top EXCEPT !.lit = top.lit - 1]
    <2>1. /\ Recurse(f, Further(top)) /\ top.lit > 0 /\ top.hit
          /\ top.shadow = 0 /\ rays' = rays
      BY <1>6 DEF Light, Waits
    <2>2. /\ f \in Frames /\ f.depth = top.depth /\ f.layer = top.layer
          /\ f.trans = top.trans /\ f.sample = top.sample /\ f.hit
          /\ f.shadow = 0 /\ f.diffuse = top.diffuse
          /\ f.reflect = top.reflect /\ f.lit = top.lit - 1
          /\ f.through = top.through
      BY <1>2, <1>3, <2>1 DEF Frames
    <2> HIDE DEF f
    <2>3. /\ Sound(f)
          /\ RaysToCome(lights, top) = RaysToCome(lights, f) + MaxShadow
      BY <1>2, <2>1, <2>2, OneLightLess
    <2>4. /\ Sound(Further(top))
          /\ RaysToCome(lights, Further(top)) = MaxShadow
      <3>1. top.shadow < MaxShadow
        BY <1>3, <2>1
      <3>2. /\ Sound(Further(top))
            /\ RaysToCome(lights, Further(top)) = MaxShadow - top.shadow
        BY <1>2, <2>1, <3>1, FurtherTakes
      <3> QED BY <1>3, <2>1, <3>2
    <2>5. RaysToCome(lights, f) \in Nat
      BY <1>2, <2>3, ToComeIsNat
    <2>6. rays' + RaysToCome(lights, f) + RaysToCome(lights, Further(top))
            <= rays + RaysToCome(lights, top) /\ rays' \in Nat
      BY <1>2, <1>3, <2>1, <2>3, <2>4, <2>5
    <2> QED BY <1>1, <2>1, <2>3, <2>4, <2>6, CallPays
  <1>7. CASE Through
    <2> DEFINE f == [top EXCEPT !.through = FALSE]
               L == RaysOnLine(lights, top.trans, top.depth, top.layer + 1)
    <2>1. /\ Recurse(f, Behind(top)) /\ top.through /\ top.hit
          /\ top.shadow = 0 /\ rays' = rays
      BY <1>7 DEF Through, Waits
    <2>2. /\ f \in Frames /\ f.depth = top.depth /\ f.layer = top.layer
          /\ f.trans = top.trans /\ f.sample = top.sample /\ f.hit
          /\ f.shadow = 0 /\ f.diffuse = top.diffuse
          /\ f.reflect = top.reflect /\ f.lit = top.lit /\ ~f.through
      BY <1>2, <2>1 DEF Frames
    <2> HIDE DEF f
    <2>3. Sound(f) /\ RaysToCome(lights, top) = RaysToCome(lights, f) + L
      BY <1>2, <2>1, <2>2, NothingBehind
    <2>4. Sound(Behind(top)) /\ RaysToCome(lights, Behind(top)) = L
      BY <1>2, <2>1, BehindTakes
    <2> HIDE DEF L
    <2>5. RaysToCome(lights, f) \in Nat /\ RaysToCome(lights, Behind(top)) \in Nat
      BY <1>2, <2>3, <2>4, ToComeIsNat
    <2>6. rays' + RaysToCome(lights, f) + RaysToCome(lights, Behind(top))
            <= rays + RaysToCome(lights, top) /\ rays' \in Nat
      BY <1>2, <2>1, <2>3, <2>4, <2>5
    <2> QED BY <1>1, <2>1, <2>3, <2>4, <2>6, CallPays
  <1>8. CASE LightPathThrough
    <2> DEFINE f == [top EXCEPT !.hit = TRUE]
    <2>1. /\ Recurse(f, Further(top)) /\ ~top.hit /\ top.shadow > 0
          /\ top.shadow < MaxShadow /\ CastRay
      BY <1>8 DEF LightPathThrough
    <2>2. /\ f \in Frames /\ f.depth = top.depth /\ f.layer = top.layer
          /\ f.hit /\ f.shadow = top.shadow /\ Counted(f)
      BY <1>2 DEF Sound, Frames, Counted
    <2> HIDE DEF f
    <2>3. Sound(f)
      BY <1>2, <2>1, <2>2 DEF Sound
    <2>4. RaysToCome(lights, f) = 0
      BY <2>1, <2>2 DEF RaysToCome
    <2>5. RaysToCome(lights, top) = MaxShadow - top.shadow + 1
      BY <2>1 DEF RaysToCome
    <2>6. /\ Sound(Further(top))
          /\ RaysToCome(lights, Further(top)) = MaxShadow - top.shadow
      BY <1>2, <2>1, FurtherTakes
    <2>7. rays' = rays + 1
      BY <1>1, <2>1, RayIsCounted
    <2>8. rays' + RaysToCome(lights, f) + RaysToCome(lights, Further(top))
            <= rays + RaysToCome(lights, top) /\ rays' \in Nat
      BY <1>2, <1>3, <2>4, <2>5, <2>6, <2>7
    <2> QED BY <1>1, <2>1, <2>3, <2>6, <2>8, CallPays
  <1> QED BY <1>4, <1>5, <1>6, <1>7, <1>8

(* A hit.                                                                     *)
LEMMA HitPays ==
    ASSUME TraceInv, BudgetInv, ~extrapolated,
           NEW t \in Factors, NEW g \in Factors, NEW r \in 0..MaxReflect,
           NEW m \in 0..lights, Hit(t, g, r, m)
    PROVE  Owed(lights, stack', Budget(subSampleNum) - rays')
  <1> DEFINE s == top.sample
             D == DiffuseFactor(t, r)
             diffuse == Truncated(s * g * D, Unit * Unit)
             reflect == Truncated(s * r, Unit)
             trans == Truncated(s * g * t, Unit * Unit)
             through == 100 * t > Unit
             f == [top EXCEPT !.hit = TRUE, !.reflect = reflect, !.lit = m,
                              !.diffuse = diffuse, !.trans = trans,
                              !.through = through]
  <1>1. /\ Running /\ ~top.hit /\ top.shadow = 0 /\ top.depth > 0
        /\ top.layer < Layers /\ CastRay
        /\ stack' = [stack EXCEPT ![Len(stack)] = f]
    BY DEF Hit
  <1>2. /\ Sound(top) /\ rays \in Nat /\ lights \in Nat
        /\ RaysToCome(lights, top) \in Nat
    BY <1>1, BudgetOfCall, CallsAreSound
  <1>3. /\ t \in 0..Unit /\ g \in 0..Unit /\ s \in Nat /\ m \in Nat /\ m <= lights
        /\ top \in Frames
    BY <1>2 DEF Factors, Sound, Counted, Frames
  <1>4. D \in Nat
    BY <1>3, UnitIsPositive DEF DiffuseFactor
  <1>5. reflect + diffuse <= MaxSamples(s) /\ trans <= s
    BY <1>3, SamplesSplit
  <1>6. reflect \in Nat /\ diffuse \in Nat /\ trans \in Nat
    <2> HIDE DEF D, s
    <2>1. r \in Nat /\ g \in Nat /\ t \in Nat
      BY <1>3, UnitIsPositive, TraceAssumption
    <2>2. s * r \in Nat /\ s * g \in Nat
      BY <1>3, <2>1, ProductIsInt
    <2>3. s * g * D \in Nat /\ s * g * t \in Nat
      BY <1>4, <2>1, <2>2, ProductIsInt
    <2>4. /\ Truncated(s * r, Unit) \in Int /\ Truncated(s * r, Unit) >= 0
      BY <2>2, UnitIsPositive, TruncatedIsInt
    <2>5. /\ Truncated(s * g * D, Unit * Unit) \in Int
          /\ Truncated(s * g * D, Unit * Unit) >= 0
      BY <2>3, UnitIsPositive, TruncatedIsInt
    <2>6. /\ Truncated(s * g * t, Unit * Unit) \in Int
          /\ Truncated(s * g * t, Unit * Unit) >= 0
      BY <2>3, UnitIsPositive, TruncatedIsInt
    <2> QED BY <2>4, <2>5, <2>6
  <1>7. through \in BOOLEAN
    OBVIOUS
  <1> HIDE DEF reflect, diffuse, trans, through, D
  <1>8. /\ f \in Frames /\ f.hit /\ f.shadow = 0 /\ f.depth = top.depth
        /\ f.layer = top.layer /\ f.reflect = reflect /\ f.diffuse = diffuse
        /\ f.lit = m /\ f.trans = trans /\ f.sample = s
    <2>1. /\ f \in Frames /\ f.depth = top.depth /\ f.layer = top.layer
          /\ f.shadow = top.shadow /\ f.hit = TRUE
      <3>1. reflect \in Int /\ diffuse \in Int /\ trans \in Int /\ m \in Nat
            /\ top \in Frames
        BY <1>3, <1>6
      <3> QED BY <1>7, <3>1 DEF Frames
    <2>2. /\ f.sample = top.sample /\ f.reflect = reflect /\ f.lit = m
          /\ f.diffuse = diffuse /\ f.trans = trans
      BY <1>3 DEF Frames
    <2> QED BY <1>1, <2>1, <2>2
  <1> HIDE DEF f
  <1>9. Sound(f)
    BY <1>1, <1>3, <1>6, <1>8 DEF Sound, Counted
  <1>10. RaysToCome(lights, f) + 1 <= RaysToCome(lights, top)
    BY <1>1, <1>2, <1>3, <1>5, <1>8, <1>9, HitTakesOne
  <1>11. rays' = rays + 1
    BY <1>1, RayIsCounted
  <1>12. /\ rays' \in Nat
         /\ rays' + RaysToCome(lights, f) <= rays + RaysToCome(lights, top)
    <2>1. RaysToCome(lights, f) \in Nat
      BY <1>2, <1>9, ToComeIsNat
    <2> QED BY <1>2, <1>10, <1>11, <2>1
  <1> QED BY <1>1, <1>9, <1>12, ChangePays

(* Every step stays within the budget.                                        *)
LEMMA NextBudget == TraceInv /\ BudgetInv /\ [Next]_vars => BudgetInv'
  <1> SUFFICES ASSUME TraceInv, BudgetInv, [Next]_vars, ~extrapolated'
               PROVE  Owed(lights, stack, Budget(subSampleNum) - rays)'
    BY DEF BudgetInv
  <1>1. UNCHANGED <<extrapolated, antiAliasing, lights>>
    BY DEF Next, vars, scene, SubPixel, NextPixel, TooDeep, Miss, Reflect, Light,
           Diffuse, Through, Shaded, LightPathEnds, LightPathThrough,
           LightPathReturns, Hit
  <1>2. ~extrapolated
    BY <1>1
  <1>3. SUFFICES Owed(lights, stack', Budget(subSampleNum) - rays')
    <2>1. (Budget(subSampleNum))' = Budget(subSampleNum)
      BY <1>1 DEF Budget, subSampleNum, splitPixel
    <2> QED BY <1>1, <2>1
  <1>4. CASE SubPixel
    <2> DEFINE c == Call(subSampleNum, MaxDepth, 0, 0)
    <2>1. stack' = <<c>> /\ rays' = 0
      BY <1>4 DEF SubPixel
    <2>2. /\ lights \in Nat /\ Budget(subSampleNum) \in Nat /\ Sound(c)
          /\ RaysToCome(lights, c) = Budget(subSampleNum)
      BY BudgetOfCall
    <2>3. c \in Frames /\ <<>> \in Seq(Frames) /\ 0 \in Nat /\ 0 \in Int
      BY <2>2 DEF Sound
    <2> HIDE DEF c
    <2>4. Owed(lights, <<>>, 0)
      BY <2>2, <2>3, NothingOwed
    <2>5. RaysToCome(lights, c) \in Nat
      BY <2>2
    <2>6. Owed(lights, Append(<<>>, c), 0 + RaysToCome(lights, c))
      BY <2>2, <2>3, <2>4, <2>5, OwedByMore
    <2>7. Append(<<>>, c) = <<c>>
      OBVIOUS
    <2>8. 0 + RaysToCome(lights, c) = Budget(subSampleNum) - rays'
      BY <2>1, <2>2
    <2> QED BY <2>1, <2>6, <2>7, <2>8
  <1>5. CASE NextPixel \/ UNCHANGED vars
    <2>1. stack' = stack /\ rays' = rays
      BY <1>5 DEF NextPixel, vars
    <2> QED BY <1>2, <2>1 DEF BudgetInv
  <1>6. CASE TooDeep \/ Miss \/ Shaded \/ LightPathEnds \/ LightPathReturns
    BY <1>2, <1>6, ReturnsPay
  <1>7. CASE Reflect \/ Light \/ Diffuse \/ Through \/ LightPathThrough
    BY <1>2, <1>7, CallsPay
  <1>8. CASE \E t, g \in Factors, r \in 0..MaxReflect, m \in 0..lights :
               Hit(t, g, r, m)
    BY <1>2, <1>8, HitPays
  <1> QED BY <1>4, <1>5, <1>6, <1>7, <1>8 DEF Next

(* At first no ray is cast and no call runs.                                  *)
LEMMA InitBudget == Init => BudgetInv
  <1> SUFFICES ASSUME Init PROVE Owed(lights, stack, Budget(subSampleNum) - rays)
    BY DEF BudgetInv
  <1>1. TraceInv
    BY InitTrace
  <1>2. stack = <<>> /\ rays = 0
    BY DEF Init
  <1> DEFINE n == Budget(subSampleNum) - rays
  <1>3. lights \in Nat /\ n \in Nat
    <2>1. lights \in Nat /\ Budget(subSampleNum) \in Nat
      BY <1>1, BudgetOfCall
    <2> QED BY <1>2, <2>1
  <1> HIDE DEF n
  <1>4. Owed(lights, <<>>, n)
    BY <1>3, NothingOwed
  <1> QED BY <1>2, <1>4 DEF n

(* What is owed is not negative, so the rays cast are within the budget.      *)
LEMMA WithinBudget == TraceInv /\ BudgetInv => RaysWithinBudget
  <1> SUFFICES ASSUME TraceInv, BudgetInv, ~extrapolated
               PROVE  rays <= Budget(subSampleNum)
    BY DEF RaysWithinBudget
  <1>1. PICK b \in [0..Len(stack) -> Nat] :
            b[Len(stack)] <= Budget(subSampleNum) - rays
    BY DEF BudgetInv, Owed
  <1>2. stack \in Seq(Frames)
    BY DEF TraceInv, TypeOK
  <1>3. b[Len(stack)] \in Nat
    <2>1. Len(stack) \in 0..Len(stack)
      BY <1>2
    <2> QED BY <2>1
  <1> QED BY <1>1, <1>3, BudgetOfCall

(* RaysWithinBudget holds for every depth, number of samples, surfaces and    *)
(* resolution: however the recursion of TraceColor and GetLightPathColor      *)
(* branches, the rays it has cast and those its running calls may still cast  *)
(* together never exceed the linear budget of the sub-pixel.                  *)
THEOREM RaysAreBounded == Spec => []RaysWithinBudget
  <1>1. Init => TraceInv /\ BudgetInv
    BY InitTrace, InitBudget
  <1>2. TraceInv /\ BudgetInv /\ [Next]_vars => (TraceInv /\ BudgetInv)'
    BY NextTrace, NextBudget
  <1> QED BY <1>1, <1>2, WithinBudget, PTL DEF Spec
=============================================================================
