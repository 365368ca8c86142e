------------------------ MODULE AssistanceApi_proofs ------------------------
(***************************************************************************)
(* Theorems about the endpoints over the in-memory repository, for any     *)
(* number of users, classes and tokens and any sequence of requests,       *)
(* synchronisations, clock changes and restarts.                           *)
(*                                                                         *)
(* The first part is about isValidRut, and what its check digit is for: a  *)
(* RUT that passes no longer does once one of its digits, or its verifier, *)
(* has been typed wrong, or two neighbours have changed places.  The runs  *)
(* try two bodies; this is every one of them.  The loop of the code is a   *)
(* recursive function: LoopUnfolds shows what it returns after the seven   *)
(* or eight passes the pattern allows, by giving the function that meets   *)
(* its equation, and LoopWeighs turns that into the weighted sum.          *)
(***************************************************************************)
EXTENDS AssistanceApi, SequenceTheorems, FiniteSetTheorems, TLAPS

\* The state of the loop after each of its passes, over the digits d[1], d[2],
\* ... it meets (the last of the body is the first).
After1(d) == Pass(Start, d[1])
After2(d) == Pass(After1(d), d[2])
After3(d) == Pass(After2(d), d[3])
After4(d) == Pass(After3(d), d[4])
After5(d) == Pass(After4(d), d[5])
After6(d) == Pass(After5(d), d[6])
After7(d) == Pass(After6(d), d[7])
After8(d) == Pass(After7(d), d[8])

Backwards(body) == [k \in 1..Len(body) |-> body[Len(body) + 1 - k]]

\* A body of the length the pattern asks for.
Bodies == [1..7 -> Digit] \cup [1..8 -> Digit]

\* A sequence of seven or eight digits is one.
LEMMA BodyIsFunction ==
    ASSUME NEW body \in Seq(Digit), Len(body) \in 7..8
    PROVE  body \in Bodies
<1>1. body \in [1..Len(body) -> Digit]
  BY LenProperties
<1>2. Len(body) = 7 \/ Len(body) = 8
  OBVIOUS
<1> QED
  BY <1>1, <1>2 DEF Bodies

\* The loop of isValidRut, unfolded: seven or eight passes from its start.
LEMMA LoopUnfolds ==
    ASSUME NEW body, Len(body) \in 7..8
    PROVE  Loop(body) = IF Len(body) = 7 THEN After7(Backwards(body))
                                         ELSE After8(Backwards(body))
<1> DEFINE n == Len(body)
           d == Backwards(body)
           F(f) == [k \in 0..n |-> IF k = 0 THEN Start
                                   ELSE Pass(f[k - 1], body[n + 1 - k])]
           state(k) == IF k = 0 THEN Start ELSE
                       IF k = 1 THEN After1(d) ELSE
                       IF k = 2 THEN After2(d) ELSE
                       IF k = 3 THEN After3(d) ELSE
                       IF k = 4 THEN After4(d) ELSE
                       IF k = 5 THEN After5(d) ELSE
                       IF k = 6 THEN After6(d) ELSE
                       IF k = 7 THEN After7(d) ELSE
                       After8(d)
           w == [k \in 0..n |-> state(k)]
           after == CHOOSE f : f = F(f)
<1>0. n \in 7..8 /\ \A k \in 1..n : k \in 1..8
  <2> HIDE DEF d, F, state, w, after
  <2>1. n \in 7..8
    OBVIOUS
  <2> HIDE DEF n
  <2>2. n = 7 \/ n = 8
    BY <2>1
  <2> QED
    BY <2>1, <2>2
<1>1. \A k \in 1..n : d[k] = body[n + 1 - k]
  BY DEF Backwards
<1> HIDE DEF d
<1>2. ASSUME NEW k \in 1..n
      PROVE  state(k) = Pass(state(k - 1), body[n + 1 - k])
  <2>1. k \in 1..8
    BY <1>0
  <2>2. d[k] = body[n + 1 - k]
    BY <1>1
  <2>3. state(k) = Pass(state(k - 1), d[k])
    <3>1. CASE k = 1
      BY <3>1 DEF After1
    <3>2. CASE k = 2
      BY <3>2 DEF After2
    <3>3. CASE k = 3
      BY <3>3 DEF After3
    <3>4. CASE k = 4
      BY <3>4 DEF After4
    <3>5. CASE k = 5
      BY <3>5 DEF After5
    <3>6. CASE k = 6
      BY <3>6 DEF After6
    <3>7. CASE k = 7
      BY <3>7 DEF After7
    <3>8. CASE k = 8
      BY <3>8 DEF After8
    <3> QED
      BY <2>1, <3>1, <3>2, <3>3, <3>4, <3>5, <3>6, <3>7, <3>8
  <2> QED
    BY <2>2, <2>3
<1>3. state(0) = Start /\ n \in 7..8 /\ state(7) = After7(d) /\ state(8) = After8(d)
  OBVIOUS
<1> HIDE DEF state, n
<1>4. w = F(w)
  <2>1. ASSUME NEW k \in 0..n
        PROVE  w[k] = IF k = 0 THEN Start ELSE Pass(w[k - 1], body[n + 1 - k])
    <3>1. CASE k = 0
      BY <1>3, <3>1
    <3>2. CASE k # 0
      <4>1. k \in 1..n /\ k - 1 \in 0..n
        BY <3>2, <1>3
      <4>2. w[k] = state(k) /\ w[k - 1] = state(k - 1)
        BY <4>1
      <4> QED
        BY <1>2, <4>1, <4>2, <3>2
    <3> QED
      BY <3>1, <3>2
  <2> QED
    BY <2>1
<1>5. after = F(after)
  <2> HIDE DEF F, w
  <2> QED
    BY <1>4
<1> HIDE DEF after
<1>6. after[0] = state(0)
  <2>1. 0 \in 0..n
    BY <1>3
  <2> QED
    BY <1>3, <1>5, <2>1
<1>7. ASSUME NEW k \in 1..n, after[k - 1] = state(k - 1)
      PROVE  after[k] = state(k)
  <2>1. k \in 0..n /\ k # 0
    BY <1>3
  <2>2. after[k] = Pass(after[k - 1], body[n + 1 - k])
    BY <1>5, <2>1
  <2> QED
    BY <1>2, <1>7, <2>2
<1>8. after[1] = state(1)
  <2>1. 1 \in 1..n /\ 1 - 1 = 0
    BY <1>3
  <2> QED
    BY <2>1, <1>7, <1>6
<1>9. after[2] = state(2)
  <2>1. 2 \in 1..n /\ 2 - 1 = 1
    BY <1>3
  <2> QED
    BY <2>1, <1>7, <1>8
<1>10. after[3] = state(3)
  <2>1. 3 \in 1..n /\ 3 - 1 = 2
    BY <1>3
  <2> QED
    BY <2>1, <1>7, <1>9
<1>11. after[4] = state(4)
  <2>1. 4 \in 1..n /\ 4 - 1 = 3
    BY <1>3
  <2> QED
    BY <2>1, <1>7, <1>10
<1>12. after[5] = state(5)
  <2>1. 5 \in 1..n /\ 5 - 1 = 4
    BY <1>3
  <2> QED
    BY <2>1, <1>7, <1>11
<1>13. after[6] = state(6)
  <2>1. 6 \in 1..n /\ 6 - 1 = 5
    BY <1>3
  <2> QED
    BY <2>1, <1>7, <1>12
<1>14. after[7] = state(7)
  <2>1. 7 \in 1..n /\ 7 - 1 = 6
    BY <1>3
  <2> QED
    BY <2>1, <1>7, <1>13
<1>15. n = 8 => after[8] = state(8)
  <2>1. n = 8 => 8 \in 1..n /\ 8 - 1 = 7
    BY <1>3
  <2> QED
    BY <2>1, <1>7, <1>14
<1>16. Loop(body) = after[n]
  BY DEF Loop, after, n
<1>17. Loop(body) = IF n = 7 THEN After7(d) ELSE After8(d)
  BY <1>3, <1>14, <1>15, <1>16
<1> QED
  BY <1>17 DEF n, d

\* The weighted sums of a body of seven and of eight digits.
Weighted7(b) ==
    2 * b[7] + 3 * b[6] + 4 * b[5] + 5 * b[4] + 6 * b[3] + 7 * b[2] + 2 * b[1]
Weighted8(b) ==
    2 * b[8] + 3 * b[7] + 4 * b[6] + 5 * b[5] + 6 * b[4] + 7 * b[3] + 2 * b[2] + 3 * b[1]
Weighted(b) == IF Len(b) = 7 THEN Weighted7(b) ELSE Weighted8(b)

\* The passes of the loop, with the sums they have reached.
LEMMA PassesAdd ==
    ASSUME NEW d, \A k \in 1..7 : d[k] \in Int
    PROVE  /\ After7(d) = [sum |-> 2 * d[1] + 3 * d[2] + 4 * d[3] + 5 * d[4]
                                   + 6 * d[5] + 7 * d[6] + 2 * d[7],
                           multiplier |-> 3]
           /\ d[8] \in Int => After8(d).sum =
                2 * d[1] + 3 * d[2] + 4 * d[3] + 5 * d[4]
                + 6 * d[5] + 7 * d[6] + 2 * d[7] + 3 * d[8]
<1>0. /\ d[1] \in Int /\ d[2] \in Int /\ d[3] \in Int /\ d[4] \in Int
      /\ d[5] \in Int /\ d[6] \in Int /\ d[7] \in Int
  OBVIOUS
<1>1. After1(d) = [sum |-> 2 * d[1],
                     multiplier |-> 3]
  BY <1>0 DEF After1, Start, Pass
<1>2. After2(d) = [sum |-> 2 * d[1] + 3 * d[2],
                     multiplier |-> 4]
  BY <1>0, <1>1 DEF After2, Pass
<1>3. After3(d) = [sum |-> 2 * d[1] + 3 * d[2] + 4 * d[3],
                     multiplier |-> 5]
  BY <1>0, <1>2 DEF After3, Pass
<1>4. After4(d) = [sum |-> 2 * d[1] + 3 * d[2] + 4 * d[3] + 5 * d[4],
                     multiplier |-> 6]
  BY <1>0, <1>3 DEF After4, Pass
<1>5. After5(d) = [sum |-> 2 * d[1] + 3 * d[2] + 4 * d[3] + 5 * d[4] + 6 * d[5],
                     multiplier |-> 7]
  BY <1>0, <1>4 DEF After5, Pass
<1>6. After6(d) = [sum |-> 2 * d[1] + 3 * d[2] + 4 * d[3] + 5 * d[4] + 6 * d[5] + 7 * d[6],
                     multiplier |-> 2]
  BY <1>0, <1>5 DEF After6, Pass
<1>7. After7(d) = [sum |-> 2 * d[1] + 3 * d[2] + 4 * d[3] + 5 * d[4]
                             + 6 * d[5] + 7 * d[6] + 2 * d[7],
                     multiplier |-> 3]
  BY <1>0, <1>6 DEF After7, Pass
<1>8. d[8] \in Int => After8(d).sum =
        2 * d[1] + 3 * d[2] + 4 * d[3] + 5 * d[4]
        + 6 * d[5] + 7 * d[6] + 2 * d[7] + 3 * d[8]
  BY <1>0, <1>7 DEF After8, Pass
<1> QED
  BY <1>7, <1>8

\* What isValidRut computes: the digits, from the last to the first, weighed by
\* 2, 3, 4, 5, 6, 7, 2, 3.
LEMMA LoopWeighs ==
    ASSUME NEW body \in Bodies
    PROVE  Loop(body).sum = Weighted(body)
<1> DEFINE d == Backwards(body)
<1>1. CASE body \in [1..7 -> Digit]
  <2>1. Len(body) = 7
    BY <1>1
  <2>2. /\ d[1] = body[7] /\ d[2] = body[6] /\ d[3] = body[5] /\ d[4] = body[4]
        /\ d[5] = body[3] /\ d[6] = body[2] /\ d[7] = body[1]
    BY <2>1 DEF Backwards
  <2>3. \A k \in 1..7 : body[k] \in Int
    BY <1>1 DEF Digit
  <2> HIDE DEF d
  <2>4. \A k \in 1..7 : d[k] \in Int
    BY <2>2, <2>3
  <2>5. Loop(body) = After7(d)
    BY <2>1, LoopUnfolds DEF d
  <2> QED
    BY <2>1, <2>2, <2>4, <2>5, PassesAdd DEF Weighted, Weighted7
<1>2. CASE body \in [1..8 -> Digit]
  <2>1. Len(body) = 8
    BY <1>2
  <2>2. /\ d[1] = body[8] /\ d[2] = body[7] /\ d[3] = body[6] /\ d[4] = body[5]
        /\ d[5] = body[4] /\ d[6] = body[3] /\ d[7] = body[2] /\ d[8] = body[1]
    BY <2>1 DEF Backwards
  <2>3. \A k \in 1..8 : body[k] \in Int
    BY <1>2 DEF Digit
  <2> HIDE DEF d
  <2>4. (\A k \in 1..7 : d[k] \in Int) /\ d[8] \in Int
    BY <2>2, <2>3
  <2>5. Loop(body) = After8(d)
    BY <2>1, LoopUnfolds DEF d
  <2> QED
    BY <2>1, <2>2, <2>4, <2>5, PassesAdd DEF Weighted, Weighted8
<1> QED
  BY <1>1, <1>2 DEF Bodies
-----------------------------------------------------------------------------
\* Two sums with one verifier differ by a multiple of eleven.
LEMMA OneVerifier ==
    ASSUME NEW s \in Nat, NEW t \in Nat, ExpectedVerifier(s) = ExpectedVerifier(t)
    PROVE  \E q \in Int : t - s = 11 * q
<1>1. s % 11 = t % 11
  BY DEF ExpectedVerifier
<1>2. s = 11 * (s \div 11) + (s % 11) /\ t = 11 * (t \div 11) + (t % 11)
  OBVIOUS
<1>3. t - s = 11 * ((t \div 11) - (s \div 11))
  BY <1>1, <1>2
<1>4. (t \div 11) - (s \div 11) \in Int
  OBVIOUS
<1> QED
  BY <1>3, <1>4

\* No weight, nor the difference of two neighbouring weights, times the
\* difference of two digits is one.
LEMMA NotAMultiple ==
    ASSUME NEW c \in {-5, 1, 2, 3, 4, 5, 6, 7}, NEW x \in Digit, NEW y \in Digit,
           x # y, NEW q \in Int
    PROVE  c * (x - y) # 11 * q
<1>1. x - y \in -9..9 /\ x - y # 0
  BY DEF Digit
<1>2. CASE c = -5
  BY <1>1, <1>2
<1>3. CASE c = 1
  <2>1. q = 0 \/ 11 * q >= 11 \/ 11 * q <= -11
    OBVIOUS
  <2> QED
    BY <1>1, <1>3, <2>1
<1>4. CASE c = 2
  BY <1>1, <1>4
<1>5. CASE c = 3
  BY <1>1, <1>5
<1>6. CASE c = 4
  BY <1>1, <1>6
<1>7. CASE c = 5
  BY <1>1, <1>7
<1>8. CASE c = 6
  BY <1>1, <1>8
<1>9. CASE c = 7
  BY <1>1, <1>9
<1> QED
  BY <1>2, <1>3, <1>4, <1>5, <1>6, <1>7, <1>8, <1>9

\* What a slip adds to the sum: a weight, or the difference of two neighbouring
\* ones, times the difference of two digits.
Change == {-5, 1, 2, 3, 4, 5, 6, 7}

\* The weighted sum of digits is a natural number.
LEMMA WeightedIsNatural ==
    ASSUME NEW body \in Bodies
    PROVE  Weighted(body) \in Nat
<1>1. CASE body \in [1..7 -> Digit]
  <2>1. Len(body) = 7 /\ \A k \in 1..7 : body[k] \in Nat
    BY <1>1 DEF Digit
  <2> QED
    BY <2>1 DEF Weighted, Weighted7
<1>2. CASE body \in [1..8 -> Digit]
  <2>1. Len(body) = 8 /\ \A k \in 1..8 : body[k] \in Nat
    BY <1>2 DEF Digit
  <2> QED
    BY <2>1 DEF Weighted, Weighted8
<1> QED
  BY <1>1, <1>2 DEF Bodies

\* A replaced digit changes the sum by its weight times the difference.
LEMMA ReplacedSum ==
    ASSUME NEW body \in Bodies, NEW d \in Digit
    PROVE  \A i \in DOMAIN body :
             /\ Replaced(body, i, d) \in Bodies
             /\ \E c \in Change :
                  Weighted(Replaced(body, i, d)) - Weighted(body)
                    = c * (d - body[i])
<1>1. CASE body \in [1..7 -> Digit]
  <2>1. Len(body) = 7 /\ DOMAIN body = 1..7 /\ \A k \in 1..7 : body[k] \in Digit
    BY <1>1
  <2> SUFFICES ASSUME NEW i \in 1..7
               PROVE  /\ Replaced(body, i, d) \in Bodies
                      /\ \E c \in Change :
                           Weighted(Replaced(body, i, d)) - Weighted(body)
                             = c * (d - body[i])
    BY <2>1
  <2> DEFINE other == Replaced(body, i, d)
  <2>2. other \in [1..7 -> Digit]
    BY <1>1, <2>1 DEF Replaced, Digit
  <2>3. Len(other) = 7
    BY <2>2
  <2>4. /\ body[1] \in Int /\ body[2] \in Int /\ body[3] \in Int /\ body[4] \in Int
        /\ body[5] \in Int /\ body[6] \in Int /\ body[7] \in Int
    BY <1>1, <2>2 DEF Digit
  <2>5. d \in Int /\ other[i] = d /\ \A k \in 1..7 : k # i => other[k] = body[k]
    BY <1>1, <2>1 DEF Replaced, Digit
  <2> HIDE DEF other
  <2>6. Weighted(other) = Weighted7(other) /\ Weighted(body) = Weighted7(body)
    BY <2>1, <2>3 DEF Weighted
  <2>7. \E c \in Change : Weighted(other) - Weighted(body) = c * (d - body[i])
    <3>1. CASE i = 1
      <4>1. Weighted(other) - Weighted(body) = 2 * (d - body[1])
        BY <2>4, <2>5, <2>6, <3>1 DEF Weighted7
      <4> QED
        BY <3>1, <4>1 DEF Change
    <3>2. CASE i = 2
      <4>1. Weighted(other) - Weighted(body) = 7 * (d - body[2])
        BY <2>4, <2>5, <2>6, <3>2 DEF Weighted7
      <4> QED
        BY <3>2, <4>1 DEF Change
    <3>3. CASE i = 3
      <4>1. Weighted(other) - Weighted(body) = 6 * (d - body[3])
        BY <2>4, <2>5, <2>6, <3>3 DEF Weighted7
      <4> QED
        BY <3>3, <4>1 DEF Change
    <3>4. CASE i = 4
      <4>1. Weighted(other) - Weighted(body) = 5 * (d - body[4])
        BY <2>4, <2>5, <2>6, <3>4 DEF Weighted7
      <4> QED
        BY <3>4, <4>1 DEF Change
    <3>5. CASE i = 5
      <4>1. Weighted(other) - Weighted(body) = 4 * (d - body[5])
        BY <2>4, <2>5, <2>6, <3>5 DEF Weighted7
      <4> QED
        BY <3>5, <4>1 DEF Change
    <3>6. CASE i = 6
      <4>1. Weighted(other) - Weighted(body) = 3 * (d - body[6])
        BY <2>4, <2>5, <2>6, <3>6 DEF Weighted7
      <4> QED
        BY <3>6, <4>1 DEF Change
    <3>7. CASE i = 7
      <4>1. Weighted(other) - Weighted(body) = 2 * (d - body[7])
        BY <2>4, <2>5, <2>6, <3>7 DEF Weighted7
      <4> QED
        BY <3>7, <4>1 DEF Change
    <3> QED
      BY <3>1, <3>2, <3>3, <3>4, <3>5, <3>6, <3>7
  <2> QED
    BY <2>2, <2>7 DEF Bodies, other
<1>2. CASE body \in [1..8 -> Digit]
  <2>1. Len(body) = 8 /\ DOMAIN body = 1..8 /\ \A k \in 1..8 : body[k] \in Digit
    BY <1>2
  <2> SUFFICES ASSUME NEW i \in 1..8
               PROVE  /\ Replaced(body, i, d) \in Bodies
                      /\ \E c \in Change :
                           Weighted(Replaced(body, i, d)) - Weighted(body)
                             = c * (d - body[i])
    BY <2>1
  <2> DEFINE other == Replaced(body, i, d)
  <2>2. other \in [1..8 -> Digit]
    BY <1>2, <2>1 DEF Replaced, Digit
  <2>3. Len(other) = 8
    BY <2>2
  <2>4. /\ body[1] \in Int /\ body[2] \in Int /\ body[3] \in Int /\ body[4] \in Int
        /\ body[5] \in Int /\ body[6] \in Int /\ body[7] \in Int /\ body[8] \in Int
    BY <1>2, <2>2 DEF Digit
  <2>5. d \in Int /\ other[i] = d /\ \A k \in 1..8 : k # i => other[k] = body[k]
    BY <1>2, <2>1 DEF Replaced, Digit
  <2> HIDE DEF other
  <2>6. Weighted(other) = Weighted8(other) /\ Weighted(body) = Weighted8(body)
    BY <2>1, <2>3 DEF Weighted
  <2>7. \E c \in Change : Weighted(other) - Weighted(body) = c * (d - body[i])
    <3>1. CASE i = 1
      <4>1. Weighted(other) - Weighted(body) = 3 * (d - body[1])
        BY <2>4, <2>5, <2>6, <3>1 DEF Weighted8
      <4> QED
        BY <3>1, <4>1 DEF Change
    <3>2. CASE i = 2
      <4>1. Weighted(other) - Weighted(body) = 2 * (d - body[2])
        BY <2>4, <2>5, <2>6, <3>2 DEF Weighted8
      <4> QED
        BY <3>2, <4>1 DEF Change
    <3>3. CASE i = 3
      <4>1. Weighted(other) - Weighted(body) = 7 * (d - body[3])
        BY <2>4, <2>5, <2>6, <3>3 DEF Weighted8
      <4> QED
        BY <3>3, <4>1 DEF Change
    <3>4. CASE i = 4
      <4>1. Weighted(other) - Weighted(body) = 6 * (d - body[4])
        BY <2>4, <2>5, <2>6, <3>4 DEF Weighted8
      <4> QED
        BY <3>4, <4>1 DEF Change
    <3>5. CASE i = 5
      <4>1. Weighted(other) - Weighted(body) = 5 * (d - body[5])
        BY <2>4, <2>5, <2>6, <3>5 DEF Weighted8
      <4> QED
        BY <3>5, <4>1 DEF Change
    <3>6. CASE i = 6
      <4>1. Weighted(other) - Weighted(body) = 4 * (d - body[6])
        BY <2>4, <2>5, <2>6, <3>6 DEF Weighted8
      <4> QED
        BY <3>6, <4>1 DEF Change
    <3>7. CASE i = 7
      <4>1. Weighted(other) - Weighted(body) = 3 * (d - body[7])
        BY <2>4, <2>5, <2>6, <3>7 DEF Weighted8
      <4> QED
        BY <3>7, <4>1 DEF Change
    <3>8. CASE i = 8
      <4>1. Weighted(other) - Weighted(body) = 2 * (d - body[8])
        BY <2>4, <2>5, <2>6, <3>8 DEF Weighted8
      <4> QED
        BY <3>8, <4>1 DEF Change
    <3> QED
      BY <3>1, <3>2, <3>3, <3>4, <3>5, <3>6, <3>7, <3>8
  <2> QED
    BY <2>2, <2>7 DEF Bodies, other
<1> QED
  BY <1>1, <1>2 DEF Bodies

\* Two swapped neighbours change the sum by the difference of their weights, 1 or
\* -5, times their own difference.
LEMMA SwappedSum ==
    ASSUME NEW body \in Bodies
    PROVE  \A i \in 1..Len(body) - 1 :
             /\ Swapped(body, i) \in Bodies
             /\ \E c \in Change :
                  Weighted(Swapped(body, i)) - Weighted(body)
                    = c * (body[i + 1] - body[i])
<1>1. CASE body \in [1..7 -> Digit]
  <2>1. Len(body) = 7 /\ DOMAIN body = 1..7 /\ \A k \in 1..7 : body[k] \in Digit
    BY <1>1
  <2> SUFFICES ASSUME NEW i \in 1..6
               PROVE  /\ Swapped(body, i) \in Bodies
                      /\ \E c \in Change :
                           Weighted(Swapped(body, i)) - Weighted(body)
                             = c * (body[i + 1] - body[i])
    BY <2>1
  <2> DEFINE other == Swapped(body, i)
  <2>2. other \in [1..7 -> Digit]
    BY <1>1, <2>1 DEF Swapped
  <2>3. Len(other) = 7
    BY <2>2
  <2>4. /\ body[1] \in Int /\ body[2] \in Int /\ body[3] \in Int /\ body[4] \in Int
        /\ body[5] \in Int /\ body[6] \in Int /\ body[7] \in Int
    BY <1>1, <2>2 DEF Digit
  <2>5. other[i] = body[i + 1] /\ other[i + 1] = body[i]
        /\ \A k \in 1..7 : k # i /\ k # i + 1 => other[k] = body[k]
    BY <1>1, <2>1 DEF Swapped
  <2> HIDE DEF other
  <2>6. Weighted(other) = Weighted7(other) /\ Weighted(body) = Weighted7(body)
    BY <2>1, <2>3 DEF Weighted
  <2>7. \E c \in Change : Weighted(other) - Weighted(body) = c * (body[i + 1] - body[i])
    <3>1. CASE i = 1
      <4>1. Weighted(other) - Weighted(body) = (-5) * (body[2] - body[1])
        BY <2>4, <2>5, <2>6, <3>1 DEF Weighted7
      <4> QED
        BY <3>1, <4>1 DEF Change
    <3>2. CASE i = 2
      <4>1. Weighted(other) - Weighted(body) = 1 * (body[3] - body[2])
        BY <2>4, <2>5, <2>6, <3>2 DEF Weighted7
      <4> QED
        BY <3>2, <4>1 DEF Change
    <3>3. CASE i = 3
      <4>1. Weighted(other) - Weighted(body) = 1 * (body[4] - body[3])
        BY <2>4, <2>5, <2>6, <3>3 DEF Weighted7
      <4> QED
        BY <3>3, <4>1 DEF Change
    <3>4. CASE i = 4
      <4>1. Weighted(other) - Weighted(body) = 1 * (body[5] - body[4])
        BY <2>4, <2>5, <2>6, <3>4 DEF Weighted7
      <4> QED
        BY <3>4, <4>1 DEF Change
    <3>5. CASE i = 5
      <4>1. Weighted(other) - Weighted(body) = 1 * (body[6] - body[5])
        BY <2>4, <2>5, <2>6, <3>5 DEF Weighted7
      <4> QED
        BY <3>5, <4>1 DEF Change
    <3>6. CASE i = 6
      <4>1. Weighted(other) - Weighted(body) = 1 * (body[7] - body[6])
        BY <2>4, <2>5, <2>6, <3>6 DEF Weighted7
      <4> QED
        BY <3>6, <4>1 DEF Change
    <3> QED
      BY <3>1, <3>2, <3>3, <3>4, <3>5, <3>6
  <2> QED
    BY <2>2, <2>7 DEF Bodies, other
<1>2. CASE body \in [1..8 -> Digit]
  <2>1. Len(body) = 8 /\ DOMAIN body = 1..8 /\ \A k \in 1..8 : body[k] \in Digit
    BY <1>2
  <2> SUFFICES ASSUME NEW i \in 1..7
               PROVE  /\ Swapped(body, i) \in Bodies
                      /\ \E c \in Change :
                           Weighted(Swapped(body, i)) - Weighted(body)
                             = c * (body[i + 1] - body[i])
    BY <2>1
  <2> DEFINE other == Swapped(body, i)
  <2>2. other \in [1..8 -> Digit]
    BY <1>2, <2>1 DEF Swapped
  <2>3. Len(other) = 8
    BY <2>2
  <2>4. /\ body[1] \in Int /\ body[2] \in Int /\ body[3] \in Int /\ body[4] \in Int
        /\ body[5] \in Int /\ body[6] \in Int /\ body[7] \in Int /\ body[8] \in Int
    BY <1>2, <2>2 DEF Digit
  <2>5. other[i] = body[i + 1] /\ other[i + 1] = body[i]
        /\ \A k \in 1..8 : k # i /\ k # i + 1 => other[k] = body[k]
    BY <1>2, <2>1 DEF Swapped
  <2> HIDE DEF other
  <2>6. Weighted(other) = Weighted8(other) /\ Weighted(body) = Weighted8(body)
    BY <2>1, <2>3 DEF Weighted
  <2>7. \E c \in Change : Weighted(other) - Weighted(body) = c * (body[i + 1] - body[i])
    <3>1. CASE i = 1
      <4>1. Weighted(other) - Weighted(body) = 1 * (body[2] - body[1])
        BY <2>4, <2>5, <2>6, <3>1 DEF Weighted8
      <4> QED
        BY <3>1, <4>1 DEF Change
    <3>2. CASE i = 2
      <4>1. Weighted(other) - Weighted(body) = (-5) * (body[3] - body[2])
        BY <2>4, <2>5, <2>6, <3>2 DEF Weighted8
      <4> QED
        BY <3>2, <4>1 DEF Change
    <3>3. CASE i = 3
      <4>1. Weighted(other) - Weighted(body) = 1 * (body[4] - body[3])
        BY <2>4, <2>5, <2>6, <3>3 DEF Weighted8
      <4> QED
        BY <3>3, <4>1 DEF Change
    <3>4. CASE i = 4
      <4>1. Weighted(other) - Weighted(body) = 1 * (body[5] - body[4])
        BY <2>4, <2>5, <2>6, <3>4 DEF Weighted8
      <4> QED
        BY <3>4, <4>1 DEF Change
    <3>5. CASE i = 5
      <4>1. Weighted(other) - Weighted(body) = 1 * (body[6] - body[5])
        BY <2>4, <2>5, <2>6, <3>5 DEF Weighted8
      <4> QED
        BY <3>5, <4>1 DEF Change
    <3>6. CASE i = 6
      <4>1. Weighted(other) - Weighted(body) = 1 * (body[7] - body[6])
        BY <2>4, <2>5, <2>6, <3>6 DEF Weighted8
      <4> QED
        BY <3>6, <4>1 DEF Change
    <3>7. CASE i = 7
      <4>1. Weighted(other) - Weighted(body) = 1 * (body[8] - body[7])
        BY <2>4, <2>5, <2>6, <3>7 DEF Weighted8
      <4> QED
        BY <3>7, <4>1 DEF Change
    <3> QED
      BY <3>1, <3>2, <3>3, <3>4, <3>5, <3>6, <3>7
  <2> QED
    BY <2>2, <2>7 DEF Bodies, other
<1> QED
  BY <1>1, <1>2 DEF Bodies

\* A valid RUT whose sum changes by one of these amounts is not valid any more.
LEMMA ChangeIsRefused ==
    ASSUME NEW text \in Text, IsValidRut(text), text.body \in Bodies,
           NEW body \in Bodies, NEW c \in Change, NEW x \in Digit, NEW y \in Digit, x # y,
           Weighted(body) - Weighted(text.body) = c * (x - y)
    PROVE  ~IsValidRut([text EXCEPT !.body = body])
<1> DEFINE other == [text EXCEPT !.body = body]
<1>1. other.body = body /\ other.verifier = text.verifier
  BY DEF Text
<1>2. text.verifier = ExpectedVerifier(Weighted(text.body))
  BY LoopWeighs DEF IsValidRut
<1> SUFFICES ASSUME IsValidRut(other) PROVE FALSE
  OBVIOUS
<1>3. other.verifier = ExpectedVerifier(Weighted(body))
  BY <1>1, LoopWeighs DEF IsValidRut
<1>4. PICK q \in Int : Weighted(body) - Weighted(text.body) = 11 * q
  BY <1>1, <1>2, <1>3, OneVerifier, WeightedIsNatural
<1> QED
  BY <1>4, NotAMultiple DEF Change

\* The pattern of isValidRut.
LEMMA ValidHasBody ==
    ASSUME NEW text \in Text, IsValidRut(text)
    PROVE  text.body \in Bodies
BY BodyIsFunction DEF Text, IsValidRut
-----------------------------------------------------------------------------
\* One wrong digit is always noticed: a valid RUT in which any one digit is
\* replaced by another is refused by isValidRut, so the director's query by RUT
\* never answers with the student of a number one digit away.
THEOREM WrongDigitIsRefused ==
    ASSUME NEW text \in Text, IsValidRut(text),
           NEW i \in DOMAIN text.body, NEW d \in Digit, d # text.body[i]
    PROVE  ~IsValidRut([text EXCEPT !.body = Replaced(text.body, i, d)])
<1>1. text.body \in Bodies
  BY ValidHasBody
<1>2. text.body[i] \in Digit
  BY <1>1 DEF Bodies
<1>3. PICK c \in Change :
        Weighted(Replaced(text.body, i, d)) - Weighted(text.body) = c * (d - text.body[i])
  BY <1>1, ReplacedSum
<1>4. Replaced(text.body, i, d) \in Bodies
  BY <1>1, ReplacedSum
<1> QED
  BY <1>1, <1>2, <1>3, <1>4, ChangeIsRefused

\* Two different neighbours that have changed places are always noticed, also
\* where the weights start again from 2 after 7.
THEOREM SwapIsRefused ==
    ASSUME NEW text \in Text, IsValidRut(text),
           NEW i \in 1..Len(text.body) - 1, text.body[i + 1] # text.body[i]
    PROVE  ~IsValidRut([text EXCEPT !.body = Swapped(text.body, i)])
<1>1. text.body \in Bodies
  BY ValidHasBody
<1>2. text.body[i] \in Digit /\ text.body[i + 1] \in Digit
  <2>1. CASE text.body \in [1..7 -> Digit]
    <3>1. Len(text.body) = 7
      BY <2>1
    <3>2. i \in 1..7 /\ i + 1 \in 1..7
      BY <3>1
    <3> QED
      BY <2>1, <3>2
  <2>2. CASE text.body \in [1..8 -> Digit]
    <3>1. Len(text.body) = 8
      BY <2>2
    <3>2. i \in 1..8 /\ i + 1 \in 1..8
      BY <3>1
    <3> QED
      BY <2>2, <3>2
  <2> QED
    BY <1>1, <2>1, <2>2 DEF Bodies
<1>3. PICK c \in Change :
        Weighted(Swapped(text.body, i)) - Weighted(text.body)
          = c * (text.body[i + 1] - text.body[i])
  BY <1>1, SwappedSum
<1>4. Swapped(text.body, i) \in Bodies
  BY <1>1, SwappedSum
<1> QED
  BY <1>1, <1>2, <1>3, <1>4, ChangeIsRefused

\* A body has one verifier: a valid RUT with any other one is refused.
THEOREM OtherVerifierIsRefused ==
    ASSUME NEW text \in Text, IsValidRut(text), NEW v \in Verifier, v # text.verifier
    PROVE  ~IsValidRut([text EXCEPT !.verifier = v])
BY DEF Text, IsValidRut

\* Whatever single slip of the hand turns a valid RUT into another text, isValidRut
\* refuses it: the slips are those the run `memory` tries on its two RUTs.
THEOREM SlipsAreRefused ==
    ASSUME NEW text \in Text, IsValidRut(text), NEW slip \in Slips(text), slip # text
    PROVE  ~IsValidRut(slip)
<1>1. text = [body |-> text.body, verifier |-> text.verifier, plain |-> text.plain]
  BY DEF Text
<1>2. text.body = [k \in DOMAIN text.body |-> text.body[k]]
  BY ValidHasBody DEF Bodies
<1>3. ASSUME NEW i \in DOMAIN text.body, NEW d \in Digit,
             slip = [text EXCEPT !.body = Replaced(text.body, i, d)]
      PROVE  ~IsValidRut(slip)
  <2>1. CASE d = text.body[i]
    <3>1. Replaced(text.body, i, d) = text.body
      BY <1>2, <2>1 DEF Replaced
    <3>2. slip = text
      BY <1>1, <1>3, <3>1
    <3> QED
      BY <3>2
  <2>2. CASE d # text.body[i]
    BY <1>3, <2>2, WrongDigitIsRefused
  <2> QED
    BY <2>1, <2>2
<1>4. ASSUME NEW i \in 1..Len(text.body) - 1,
             slip = [text EXCEPT !.body = Swapped(text.body, i)]
      PROVE  ~IsValidRut(slip)
  <2>1. CASE text.body[i + 1] = text.body[i]
    <3>1. Swapped(text.body, i) = text.body
      BY <1>2, <2>1 DEF Swapped
    <3>2. slip = text
      BY <1>1, <1>4, <3>1
    <3> QED
      BY <3>2
  <2>2. CASE text.body[i + 1] # text.body[i]
    BY <1>4, <2>2, SwapIsRefused
  <2> QED
    BY <2>1, <2>2
<1>5. ASSUME NEW v \in Verifier, slip = [text EXCEPT !.verifier = v]
      PROVE  ~IsValidRut(slip)
  <2>1. v # text.verifier
    BY <1>1, <1>5
  <2> QED
    BY <1>5, <2>1, OtherVerifierIsRefused
<1> QED
  BY <1>3, <1>4, <1>5 DEF Slips
-----------------------------------------------------------------------------
\* From here on: the endpoints.  What holds whenever no request is being served.

\* A student has one row per class, of a class that is there.
RecordsOK ==
    /\ \A i, j \in DOMAIN assistances :
         /\ assistances[i].student = assistances[j].student
         /\ assistances[i].class = assistances[j].class
         => i = j
    /\ \A i \in DOMAIN assistances : classes[assistances[i].class] # NoRow

\* Only issued tokens are spent, and claims outlive a restart.
TokensOK == \A n \in usedQrNonces : claims[n] # None

\* Teachings come from the snapshot; the administrator keeps the account.
SnapshotOK == teachings \subseteq Teaching /\ Admin \in accounts

ApiInv == TypeOK /\ RecordsOK /\ TokensOK /\ SnapshotOK

Tables == {StudentErrors, RutErrors, OwnSubjectErrors, QrErrors, ScanErrors, SubjectErrors,
           ClassOperationErrors, RegistrationErrors, EditErrors, CurrentEditErrors}

Refusal == {400, 401, 403, 404, 409}

LEMMA NoneIsNoException == None \notin Exceptions
BY NoneAssumption DEF Exceptions

\* A translation is a refusal, and it is made for an exception.
LEMMA TablesRefuse ==
    ASSUME NEW table \in Tables
    PROVE  \A thrown \in DOMAIN table : thrown \in Exceptions /\ table[thrown] \in Refusal
<1>1. \A e \in DOMAIN StudentErrors : e \in Exceptions /\ StudentErrors[e] \in Refusal
  BY DEF StudentErrors, Exceptions, Refusal
<1>2. \A e \in DOMAIN RutErrors : e \in Exceptions /\ RutErrors[e] \in Refusal
  BY DEF RutErrors, Exceptions, Refusal
<1>3. \A e \in DOMAIN OwnSubjectErrors : e \in Exceptions /\ OwnSubjectErrors[e] \in Refusal
  BY DEF OwnSubjectErrors, Exceptions, Refusal
<1>4. \A e \in DOMAIN QrErrors : e \in Exceptions /\ QrErrors[e] \in Refusal
  BY DEF QrErrors, Exceptions, Refusal
<1>5. \A e \in DOMAIN ScanErrors : e \in Exceptions /\ ScanErrors[e] \in Refusal
  BY DEF ScanErrors, Exceptions, Refusal
<1>6. \A e \in DOMAIN SubjectErrors : e \in Exceptions /\ SubjectErrors[e] \in Refusal
  BY DEF SubjectErrors, Exceptions, Refusal
<1>7. \A e \in DOMAIN ClassOperationErrors :
        e \in Exceptions /\ ClassOperationErrors[e] \in Refusal
  BY DEF ClassOperationErrors, Exceptions, Refusal
<1>8. \A e \in DOMAIN RegistrationErrors : e \in Exceptions /\ RegistrationErrors[e] \in Refusal
  BY DEF RegistrationErrors, Exceptions, Refusal
<1>9. \A e \in DOMAIN EditErrors : e \in Exceptions /\ EditErrors[e] \in Refusal
  BY DEF EditErrors, Exceptions, Refusal
<1>10. \A e \in DOMAIN CurrentEditErrors : e \in Exceptions /\ CurrentEditErrors[e] \in Refusal
  BY DEF CurrentEditErrors, Exceptions, Refusal
<1> QED
  BY <1>1, <1>2, <1>3, <1>4, <1>5, <1>6, <1>7, <1>8, <1>9, <1>10 DEF Tables

\* A handler answers with success exactly when nothing was thrown.
LEMMA SuccessMeansNone ==
    ASSUME NEW thrown, NEW table \in Tables, NEW success \in {200, 201}
    PROVE  Translated(thrown, table, success) = success <=> thrown = None
BY TablesRefuse DEF Translated, Refusal

\* An exception that is in the table of the handler is translated.
LEMMA TableCovers ==
    ASSUME NEW table \in Tables, NEW thrown \in DOMAIN table \cup {None},
           NEW success \in {200, 201}
    PROVE  Translated(thrown, table, success) # 500
BY TablesRefuse DEF Translated, Refusal

LEMMA GuardAnswers ==
    ASSUME NEW u, NEW roles, NEW answer
    PROVE  /\ Guarded(u, roles, answer) \in {401, 403, answer}
           /\ Guarded(u, roles, answer) \in {200, 201} =>
                /\ u \in accounts /\ RoleOf(u) \in roles
                /\ Guarded(u, roles, answer) = answer
BY DEF Guarded
-----------------------------------------------------------------------------
\* What a request that succeeds has been checked for.
LEMMA QrAccepted ==
    ASSUME NEW u, NEW c, PostMyQr(u, c) = 201
    PROVE  u \in students /\ classes[c] # NoRow
<1>1. Translated(GenerateStudentQr(u, c), QrErrors, 201) = 201
  BY GuardAnswers DEF PostMyQr
<1>2. GenerateStudentQr(u, c) = None
  BY <1>1, SuccessMeansNone DEF Tables
<1> QED
  BY <1>2, NoneIsNoException DEF GenerateStudentQr, Exceptions

LEMMA ScanAccepted ==
    ASSUME NEW n, RegisterAssistance(n)
    PROVE  /\ claims[n] # None /\ n \notin usedQrNonces
           /\ classes[claims[n].class] # NoRow
           /\ ~AssistanceExists(claims[n].student, claims[n].class)
<1>1. Translated(RegisterAssistanceQR(n), ScanErrors, 201) = 201
  BY DEF RegisterAssistance, PostRegister
<1>2. RegisterAssistanceQR(n) = None
  BY <1>1, SuccessMeansNone DEF Tables
<1> QED
  BY <1>2, NoneIsNoException DEF RegisterAssistanceQR, Verifies, Exceptions

LEMMA OwnClassAccepted ==
    ASSUME NEW p, NEW c, NEW refused \in BOOLEAN, NEW exception \in Exceptions,
           OnOwnClass(p, c, refused, exception) = None
    PROVE  classes[c] # NoRow /\ FindTeaching(p, c) /\ ~refused
BY NoneIsNoException DEF OnOwnClass, AssertProfessorOwnsClass, Exceptions

LEMMA RegistrationAccepted ==
    ASSUME NEW u, NEW c, NEW status \in Status, UpdateRegistration(u, c, status)
    PROVE  /\ classes[c] # NoRow /\ FindTeaching(u, c)
           /\ status = "ENABLED" <=> ~Has(c, "registrationStatus")
<1> DEFINE operation == IF status = "DISABLED" THEN DisableRegistration(u, c)
                                               ELSE EnableRegistration(u, c)
<1>1. operation = None
  <2>1. CASE PatchMyRegistration(u, c, status) = 200
    <3>1. status = "DISABLED"
          /\ Translated(DisableRegistration(u, c), ClassOperationErrors, 200) = 200
      BY <2>1, GuardAnswers DEF PatchMyRegistration
    <3> QED
      BY <3>1, SuccessMeansNone DEF Tables
  <2>2. ASSUME NEW p, PatchRegistration(u, p, c, status) = 200 PROVE operation = None
    <3>1. u = p /\ Translated(operation, RegistrationErrors, 200) = 200
      BY <2>2, GuardAnswers DEF PatchRegistration, SameActor
    <3> QED
      BY <3>1, SuccessMeansNone DEF Tables
  <2> QED
    BY <2>1, <2>2 DEF UpdateRegistration
<1>2. Has(c, "registrationStatus") \in BOOLEAN
  BY DEF Has
<1>3. CASE status = "DISABLED"
  BY <1>1, <1>2, <1>3, OwnClassAccepted DEF DisableRegistration, Exceptions
<1>4. CASE status = "ENABLED"
  BY <1>1, <1>2, <1>4, OwnClassAccepted DEF EnableRegistration, Exceptions
<1> QED
  BY <1>3, <1>4 DEF Status

LEMMA EditingAccepted ==
    ASSUME NEW u, NEW c, NEW status \in Status, UpdateEditing(u, c, status)
    PROVE  /\ classes[c] # NoRow /\ FindTeaching(u, c)
           /\ status = "ENABLED" => ~Has(c, "registrationStatus")
           /\ status = "ENABLED" <=> ~Has(c, "editingStatus")
<1> DEFINE operation == IF status = "ENABLED" THEN EnableEditing(u, c)
                                              ELSE DisableEditing(u, c)
<1>1. Translated(operation, ClassOperationErrors, 200) = 200
  BY GuardAnswers DEF UpdateEditing, PatchMyEditing
<1>2. operation = None
  BY <1>1, SuccessMeansNone DEF Tables
<1>3. Has(c, "registrationStatus") \in BOOLEAN /\ Has(c, "editingStatus") \in BOOLEAN
  BY DEF Has
<1>4. CASE status = "DISABLED"
  BY <1>2, <1>3, <1>4, OwnClassAccepted DEF DisableEditing, Exceptions
<1>5. CASE status = "ENABLED"
  BY <1>2, <1>3, <1>5, OwnClassAccepted DEF EnableEditing, Exceptions
<1> QED
  BY <1>4, <1>5 DEF Status

LEMMA CorrectionAccepted ==
    ASSUME NEW u, NEW id, NEW presence, Correct(u, id, presence)
    PROVE  LET c == assistances[FindAssistanceById(id)].class IN
           presence \in Presence /\ FindTeaching(u, c) /\ Has(c, "editingStatus")
<1>1. presence \in Presence /\ EditAssistance(u, id) = None
  <2>1. CASE PatchMyAssistance(u, id, presence) = 200
    <3>1. /\ presence \in Presence
          /\ Translated(EditAssistance(u, id), CurrentEditErrors, 200) = 200
      BY <2>1, GuardAnswers DEF PatchMyAssistance
    <3> QED
      BY <3>1, SuccessMeansNone DEF Tables
  <2>2. ASSUME NEW p, PatchAssistance(u, p, id, presence) = 200
        PROVE  presence \in Presence /\ EditAssistance(u, id) = None
    <3>1. /\ u = p /\ presence \in Presence
          /\ Translated(EditAssistance(u, id), EditErrors, 200) = 200
      BY <2>2, GuardAnswers DEF PatchAssistance, SameActor
    <3> QED
      BY <3>1, SuccessMeansNone DEF Tables
  <2> QED
    BY <2>1, <2>2 DEF Correct
<1> QED
  BY <1>1, NoneIsNoException DEF EditAssistance, Exceptions
-----------------------------------------------------------------------------
\* What each call throws is in the table of every handler that makes it.
LEMMA CallsThrow ==
    /\ \A n : RegisterAssistanceQR(n) \in DOMAIN ScanErrors \cup {None}
    /\ \A t : GetStudentAttendanceByRut(t) \in DOMAIN RutErrors \cup {None}
    /\ \A s : GetStudentAssistance(s) \in DOMAIN StudentErrors \cup {None}
    /\ \A s, x : GetCurrentStudentSubjectAttendance(s, x) \in DOMAIN OwnSubjectErrors \cup {None}
    /\ \A p, x : GetStudentsAssistanceBySubject(p, x) \in DOMAIN SubjectErrors \cup {None}
    /\ \A s, c : GenerateStudentQr(s, c) \in DOMAIN QrErrors \cup {None}
<1>1. \A n : RegisterAssistanceQR(n) \in DOMAIN ScanErrors \cup {None}
  BY DEF RegisterAssistanceQR, ScanErrors
<1>2. \A t : GetStudentAttendanceByRut(t) \in DOMAIN RutErrors \cup {None}
  BY DEF GetStudentAttendanceByRut, RutErrors
<1>3. \A s : GetStudentAssistance(s) \in DOMAIN StudentErrors \cup {None}
  BY DEF GetStudentAssistance, StudentErrors
<1>4. \A s, x : GetCurrentStudentSubjectAttendance(s, x) \in DOMAIN OwnSubjectErrors \cup {None}
  BY DEF GetCurrentStudentSubjectAttendance, OwnSubjectErrors
<1>5. \A p, x : GetStudentsAssistanceBySubject(p, x) \in DOMAIN SubjectErrors \cup {None}
  BY DEF GetStudentsAssistanceBySubject, SubjectErrors
<1>6. \A s, c : GenerateStudentQr(s, c) \in DOMAIN QrErrors \cup {None}
  BY DEF GenerateStudentQr, QrErrors
<1> QED
  BY <1>1, <1>2, <1>3, <1>4, <1>5, <1>6

\* The operations on a class and on a row, whose handlers exist twice.
LEMMA OperationsThrow ==
    ASSUME NEW p
    PROVE  /\ \A c : /\ DisableRegistration(p, c) \in DOMAIN RegistrationErrors \cup {None}
                     /\ EnableRegistration(p, c) \in DOMAIN RegistrationErrors \cup {None}
                     /\ DisableRegistration(p, c) \in DOMAIN ClassOperationErrors \cup {None}
                     /\ EnableEditing(p, c) \in DOMAIN ClassOperationErrors \cup {None}
                     /\ DisableEditing(p, c) \in DOMAIN ClassOperationErrors \cup {None}
           /\ \A id : EditAssistance(p, id)
                    \in (DOMAIN EditErrors \cap DOMAIN CurrentEditErrors) \cup {None}
<1>1. ASSUME NEW c, NEW refused, NEW exception
      PROVE  OnOwnClass(p, c, refused, exception)
               \in {"ClassNotFound", "SubjectNotAssigned", exception, None}
  BY DEF OnOwnClass, AssertProfessorOwnsClass
<1>2. /\ DOMAIN RegistrationErrors = {"ClassNotFound", "SubjectNotAssigned",
           "RegistrationAlreadyDisabled", "RegistrationAlreadyEnabled"}
      /\ DOMAIN ClassOperationErrors = {"ClassNotFound", "SubjectNotAssigned",
           "RegistrationAlreadyDisabled", "RegistrationAlreadyEnabled",
           "EditingAlreadyEnabled", "EditingAlreadyDisabled", "RegistrationMustBeDisabled"}
  BY DEF RegistrationErrors, ClassOperationErrors
<1>3. \A c : /\ DisableRegistration(p, c) \in DOMAIN RegistrationErrors \cup {None}
             /\ EnableRegistration(p, c) \in DOMAIN RegistrationErrors \cup {None}
             /\ DisableRegistration(p, c) \in DOMAIN ClassOperationErrors \cup {None}
  BY <1>1, <1>2 DEF DisableRegistration, EnableRegistration
<1>4. \A c : /\ EnableEditing(p, c) \in DOMAIN ClassOperationErrors \cup {None}
             /\ DisableEditing(p, c) \in DOMAIN ClassOperationErrors \cup {None}
  BY <1>1, <1>2 DEF EnableEditing, DisableEditing
<1>5. \A id : EditAssistance(p, id)
                    \in (DOMAIN EditErrors \cap DOMAIN CurrentEditErrors) \cup {None}
  BY DEF EditAssistance, EditErrors, CurrentEditErrors
<1> QED
  BY <1>3, <1>4, <1>5

\* Whoever asks for whatever, in any state: no handler forgets to translate what its
\* call throws.
LEMMA NeverUntranslated == EveryRefusalTranslated
<1>1. ASSUME NEW u, NEW roles, NEW answer, answer # 500 PROVE Guarded(u, roles, answer) # 500
  BY <1>1, GuardAnswers
<1>2. ASSUME NEW keyed \in BOOLEAN, NEW n \in Nonces PROVE PostRegister(keyed, n) # 500
  BY CallsThrow, TableCovers DEF PostRegister, Tables
<1>3. ASSUME NEW u, NEW t PROVE GetAttendanceByRut(u, t) # 500
  BY <1>1, CallsThrow, TableCovers DEF GetAttendanceByRut, Tables
<1>4. ASSUME NEW u, NEW s PROVE GetAssistance(u, s) # 500
  BY <1>1, CallsThrow, TableCovers DEF GetAssistance, Tables
<1>5. ASSUME NEW u, NEW x
      PROVE  /\ GetMyAttendance(u, x) # 500
             /\ GetMySubjectAttendance(u, x) # 500
             /\ GetSubjectAssistance(u, u, x) # 500
  <2>1. GetMyAttendance(u, x) # 500
    BY <1>1, CallsThrow, TableCovers DEF GetMyAttendance, Tables
  <2>2. Translated(GetStudentsAssistanceBySubject(u, x), SubjectErrors, 200) # 500
    BY CallsThrow, TableCovers DEF Tables
  <2> QED
    BY <1>1, <2>1, <2>2 DEF GetMySubjectAttendance, GetSubjectAssistance
<1>6. ASSUME NEW u, NEW c PROVE PostMyQr(u, c) # 500
  BY <1>1, CallsThrow, TableCovers DEF PostMyQr, Tables
<1>7. ASSUME NEW u, NEW c, NEW status \in Status
      PROVE  /\ PatchMyRegistration(u, c, status) # 500
             /\ PatchMyEditing(u, c, status) # 500
             /\ PatchRegistration(u, u, c, status) # 500
  <2>1. Translated(DisableRegistration(u, c), ClassOperationErrors, 200) # 500
    BY OperationsThrow, TableCovers DEF Tables
  <2>2. Translated(IF status = "ENABLED" THEN EnableEditing(u, c) ELSE DisableEditing(u, c),
                   ClassOperationErrors, 200) # 500
    BY OperationsThrow, TableCovers DEF Tables
  <2>3. Translated(IF status = "DISABLED" THEN DisableRegistration(u, c)
                                          ELSE EnableRegistration(u, c),
                   RegistrationErrors, 200) # 500
    BY OperationsThrow, TableCovers DEF Tables
  <2> QED
    BY <1>1, <2>1, <2>2, <2>3 DEF PatchMyRegistration, PatchMyEditing, PatchRegistration
<1>8. ASSUME NEW u, NEW id, NEW presence
      PROVE  /\ PatchMyAssistance(u, id, presence) # 500
             /\ PatchAssistance(u, u, id, presence) # 500
  <2>1. /\ EditAssistance(u, id) \in DOMAIN EditErrors \cup {None}
        /\ EditAssistance(u, id) \in DOMAIN CurrentEditErrors \cup {None}
    BY OperationsThrow
  <2>2. /\ Translated(EditAssistance(u, id), CurrentEditErrors, 200) # 500
        /\ Translated(EditAssistance(u, id), EditErrors, 200) # 500
    BY <2>1, TableCovers DEF Tables
  <2> QED
    BY <1>1, <2>2 DEF PatchMyAssistance, PatchAssistance
<1> QED
  BY <1>2, <1>3, <1>4, <1>5, <1>6, <1>7, <1>8 DEF EveryRefusalTranslated

LEMMA CopiesAgree == AliasesAgree
<1>1. ASSUME NEW u, NEW x PROVE GetSubjectAssistance(u, u, x) = GetMySubjectAttendance(u, x)
  BY DEF GetSubjectAssistance, GetMySubjectAttendance, SameActor
<1>2. ASSUME NEW u, NEW c, NEW status \in {"DISABLED", "other"}
      PROVE  PatchRegistration(u, u, c, status) = PatchMyRegistration(u, c, status)
  <2>1. Translated(DisableRegistration(u, c), RegistrationErrors, 200)
          = Translated(DisableRegistration(u, c), ClassOperationErrors, 200)
    <3>1. DisableRegistration(u, c)
            \in {"ClassNotFound", "SubjectNotAssigned", "RegistrationAlreadyDisabled", None}
      BY DEF DisableRegistration, OnOwnClass, AssertProfessorOwnsClass
    <3> QED
      BY <3>1 DEF Translated, RegistrationErrors, ClassOperationErrors
  <2> QED
    BY <2>1 DEF PatchRegistration, PatchMyRegistration, SameActor, Status
<1>3. ASSUME NEW u, NEW id, NEW presence \in Presence \cup {"other"}
      PROVE  PatchAssistance(u, u, id, presence) = PatchMyAssistance(u, id, presence)
  <2>1. Translated(EditAssistance(u, id), EditErrors, 200)
          = Translated(EditAssistance(u, id), CurrentEditErrors, 200)
    BY DEF Translated, EditErrors, CurrentEditErrors
  <2> QED
    BY <2>1 DEF PatchAssistance, PatchMyAssistance, SameActor
<1> QED
  BY <1>1, <1>2, <1>3 DEF AliasesAgree

LEMMA ShownToTheirOwn == ApiInv => ReadsOwn
<1> SUFFICES ASSUME ApiInv PROVE ReadsOwn
  OBVIOUS
<1>1. teachings \subseteq Teaching /\ accounts \subseteq Users
  BY DEF ApiInv, SnapshotOK, TypeOK
<1>2. ASSUME NEW u, NEW p, NEW x, GetSubjectAssistance(u, p, x) = 200
      PROVE  <<u, x>> \in Teaching
  <2>1. /\ u = p
        /\ Translated(GetStudentsAssistanceBySubject(p, x), SubjectErrors, 200) = 200
    BY <1>2, GuardAnswers DEF GetSubjectAssistance, SameActor
  <2>2. GetStudentsAssistanceBySubject(u, x) = None
    BY <2>1, SuccessMeansNone DEF Tables
  <2> QED
    BY <1>1, <2>2, NoneIsNoException DEF GetStudentsAssistanceBySubject, Exceptions
<1>3. ASSUME NEW u \in accounts, NEW s, GetAssistance(u, s) = 200
      PROVE  u = s \/ u \in {Director, Admin}
  <2>1. /\ RoleOf(u) \in {"estudiante", "director", "administrador"}
        /\ SameActorOrPrivileged(u, s)
    BY <1>3, GuardAnswers DEF GetAssistance
  <2> QED
    BY <1>1, <2>1 DEF SameActorOrPrivileged, RoleOf, Users
<1> QED
  BY <1>2, <1>3 DEF ReadsOwn

LEMMA SlipsRefused == ApiInv => MistypedIsRefused
<1> SUFFICES ASSUME ApiInv, NEW t \in Texts \cap Mistyped
             PROVE  GetAttendanceByRut(Admin, t) = 400
  BY DEF MistypedIsRefused
<1>1. PICK s \in Students : t \in Slips(RutOf[s]) /\ t # RutOf[s]
  BY DEF Mistyped
<1>2. ~IsValidRut(t)
  BY <1>1, RutAssumption, SlipsAreRefused
<1>3. GetStudentAttendanceByRut(t) = "InvalidRut"
  BY <1>2 DEF GetStudentAttendanceByRut, ValidTexts
<1>4. Translated("InvalidRut", RutErrors, 200) = 400
  BY NoneIsNoException DEF Translated, RutErrors, Exceptions
<1>5. Admin \in accounts /\ RoleOf(Admin) \in {"director", "administrador"}
  BY AdminAssumption DEF ApiInv, SnapshotOK, RoleOf
<1> QED
  BY <1>3, <1>4, <1>5 DEF GetAttendanceByRut, Guarded
-----------------------------------------------------------------------------
LEMMA RowType ==
    ASSUME NEW status \in Status
    PROVE  \A c : NewRow(c, status) \in Row
BY DEF NewRow, Row, Status

LEMMA RowsTyped ==
    ASSUME TypeOK
    PROVE  /\ Len(assistances) \in Nat /\ DOMAIN assistances = 1..Len(assistances)
           /\ \A i \in DOMAIN assistances : /\ assistances[i] \in Assistance
                                            /\ assistances[i].student \in Students
                                            /\ assistances[i].class \in Classes
<1>1. /\ Len(assistances) \in Nat /\ DOMAIN assistances = 1..Len(assistances)
      /\ \A i \in 1..Len(assistances) : assistances[i] \in Assistance
  BY DEF TypeOK
<1>2. \A a \in Assistance : a.student \in Students /\ a.class \in Classes
  BY DEF Assistance
<1> QED
  BY <1>1, <1>2

\* What the steps do to the tables, as far as the rest of the proofs needs it.
LEMMA IssueEffect ==
    ASSUME ApiInv, NEW u \in Users, NEW c \in Classes, NEW n \in Nonces, GenerateQr(u, c, n)
    PROVE  /\ claims[n] = None /\ u \in Students
           /\ \E token \in Claims :
                /\ token.student = u /\ token.class = c
                /\ claims' = [claims EXCEPT ![n] = token]
           /\ UNCHANGED <<data, accounts, now>>
<1> DEFINE token == [student |-> u, class |-> c, issuedAt |-> now, expiresAt |-> now + Ttl]
<1>1. u \in Students
  BY QrAccepted DEF GenerateQr, ApiInv, TypeOK
<1>2. now \in Nat /\ now + Ttl \in Nat
  BY ClockAssumption DEF ApiInv, TypeOK
<1>3. token \in Claims /\ token.student = u /\ token.class = c
  BY <1>1, <1>2 DEF Claims
<1>4. claims' = [claims EXCEPT ![n] = token]
  BY DEF GenerateQr
<1> HIDE DEF token
<1> QED
  BY <1>1, <1>3, <1>4 DEF GenerateQr

LEMMA ScanEffect ==
    ASSUME ApiInv, NEW n \in Nonces, RegisterAssistance(n)
    PROVE  /\ claims[n] \in Claims /\ n \notin usedQrNonces
           /\ classes[claims[n].class] # NoRow
           /\ ~AssistanceExists(claims[n].student, claims[n].class)
           /\ usedQrNonces' = usedQrNonces \cup {n}
           /\ \E a \in Assistance :
                /\ a.student = claims[n].student /\ a.class = claims[n].class
                /\ a.presence = "present"
                /\ assistances' = Append(assistances, a)
           /\ UNCHANGED <<students, enrollments, teachings, classes, accounts, claims, now>>
<1> DEFINE a == [id |-> now, student |-> claims[n].student, class |-> claims[n].class,
                 presence |-> "present"]
<1>1. /\ claims[n] # None /\ n \notin usedQrNonces
      /\ classes[claims[n].class] # NoRow
      /\ ~AssistanceExists(claims[n].student, claims[n].class)
  BY ScanAccepted
<1>2. claims[n] \in Claims
  BY <1>1 DEF ApiInv, TypeOK
<1>3. claims[n].student \in Students /\ claims[n].class \in Classes
  BY <1>2 DEF Claims
<1>4. now \in Nat
  BY ClockAssumption DEF ApiInv, TypeOK
<1>5. /\ a \in Assistance /\ a.student = claims[n].student /\ a.class = claims[n].class
      /\ a.presence = "present"
  BY <1>3, <1>4 DEF Assistance, Presence
<1>6. assistances' = Append(assistances, a)
  BY DEF RegisterAssistance, InsertAssistance
<1> HIDE DEF a
<1>7. \E b \in Assistance :
        /\ b.student = claims[n].student /\ b.class = claims[n].class
        /\ b.presence = "present"
        /\ assistances' = Append(assistances, b)
  BY <1>5, <1>6
<1> QED
  BY <1>1, <1>2, <1>7 DEF RegisterAssistance

\* A status request replaces one row by a row.
LEMMA StatusEffect ==
    ASSUME ApiInv, NEW u \in Users, NEW c \in Classes, NEW status \in Status,
           UpdateRegistration(u, c, status) \/ UpdateEditing(u, c, status)
    PROVE  /\ classes[c] \in Row
           /\ \E row \in Row : classes' = [classes EXCEPT ![c] = row]
           /\ UNCHANGED <<students, enrollments, teachings, assistances, usedQrNonces,
                          accounts, claims, now>>
<1>1. classes[c] \in Row
  BY RegistrationAccepted, EditingAccepted DEF ApiInv, TypeOK
<1>2. CASE UpdateRegistration(u, c, status)
  <2> DEFINE row == IF status = "ENABLED" THEN NewRow(c, "ENABLED")
                    ELSE [classes[c] EXCEPT !.registrationStatus = "DISABLED"]
  <2>1. row \in Row
    BY <1>1, RowType DEF Row, Status
  <2>2. classes' = [classes EXCEPT ![c] = row]
    BY <1>2 DEF UpdateRegistration, UpdateClass
  <2> HIDE DEF row
  <2> QED
    BY <1>1, <1>2, <2>1, <2>2 DEF UpdateRegistration
<1>3. CASE UpdateEditing(u, c, status)
  <2> DEFINE row == [classes[c] EXCEPT !.editingStatus = status]
  <2>1. row \in Row
    BY <1>1 DEF Row
  <2>2. classes' = [classes EXCEPT ![c] = row]
    BY <1>3 DEF UpdateEditing, UpdateClass
  <2> HIDE DEF row
  <2> QED
    BY <1>1, <1>3, <2>1, <2>2 DEF UpdateEditing
<1> QED
  BY <1>2, <1>3

\* A correction changes the presence of the row that is found, and no other column.
LEMMA CorrectEffect ==
    ASSUME ApiInv, NEW u \in Users, NEW id, NEW presence \in Presence,
           Correct(u, id, presence)
    PROVE  LET j == FindAssistanceById(id) IN
           /\ assistances' \in Seq(Assistance)
           /\ DOMAIN assistances' = DOMAIN assistances
           /\ \A i \in DOMAIN assistances :
                /\ assistances'[i].student = assistances[i].student
                /\ assistances'[i].class = assistances[i].class
                /\ i # j => assistances'[i] = assistances[i]
                /\ i = j => assistances'[i].presence = presence
           /\ UNCHANGED <<students, enrollments, teachings, classes, usedQrNonces,
                          accounts, claims, now>>
<1> DEFINE j == FindAssistanceById(id)
           n == Len(assistances)
<1>1. assistances \in [1..n -> Assistance] /\ n \in Nat /\ DOMAIN assistances = 1..n
  BY DEF ApiInv, TypeOK
<1>2. assistances' = [assistances EXCEPT ![j].presence = presence]
  BY DEF Correct, UpdateAssistancePresence
<1> HIDE DEF j, n
<1>3. \A i \in 1..n : assistances'[i] = IF i = j THEN [assistances[i] EXCEPT !.presence = presence]
                                        ELSE assistances[i]
  BY <1>1, <1>2
<1>4. ASSUME NEW a \in Assistance
      PROVE  /\ [a EXCEPT !.presence = presence] \in Assistance
             /\ [a EXCEPT !.presence = presence].presence = presence
             /\ [a EXCEPT !.presence = presence].student = a.student
             /\ [a EXCEPT !.presence = presence].class = a.class
  BY DEF Assistance
<1>5. \A i \in 1..n : /\ assistances'[i] \in Assistance
                      /\ assistances'[i].student = assistances[i].student
                      /\ assistances'[i].class = assistances[i].class
                      /\ i = j => assistances'[i].presence = presence
  <2> SUFFICES ASSUME NEW i \in 1..n
               PROVE  /\ assistances'[i] \in Assistance
                      /\ assistances'[i].student = assistances[i].student
                      /\ assistances'[i].class = assistances[i].class
                      /\ i = j => assistances'[i].presence = presence
    OBVIOUS
  <2>1. assistances[i] \in Assistance
    BY <1>1
  <2>2. CASE i = j
    <3>1. assistances'[i] = [assistances[i] EXCEPT !.presence = presence]
      BY <1>3, <2>2
    <3> QED
      BY <1>4, <2>1, <3>1
  <2>3. CASE i # j
    BY <1>3, <2>1, <2>3
  <2> QED
    BY <2>2, <2>3
<1>6. DOMAIN assistances' = 1..n
  BY <1>1, <1>2
<1>7. assistances' = [i \in 1..n |-> assistances'[i]]
  BY <1>1, <1>2
<1>8. assistances' \in [1..n -> Assistance]
  BY <1>5, <1>7
<1>9. assistances' \in Seq(Assistance)
  BY <1>1, <1>8
<1> QED
  BY <1>1, <1>3, <1>5, <1>6, <1>9 DEF Correct, j
-----------------------------------------------------------------------------
LEMMA ApiInit == Init => ApiInv
<1> SUFFICES ASSUME Init PROVE ApiInv
  OBVIOUS
<1>1. TypeOK
  BY ClockAssumption DEF Init, TypeOK, Users
<1>2. RecordsOK
  BY DEF Init, RecordsOK
<1> QED
  BY <1>1, <1>2 DEF Init, ApiInv, TokensOK, SnapshotOK

LEMMA ApiStep == ApiInv /\ [Next]_vars => ApiInv'
<1> SUFFICES ASSUME ApiInv, [Next]_vars PROVE ApiInv'
  OBVIOUS
<1>1. TypeOK /\ RecordsOK /\ TokensOK /\ SnapshotOK
  BY DEF ApiInv
<1>2. ASSUME NEW u \in Users, NEW c \in Classes, NEW n \in Nonces, GenerateQr(u, c, n)
      PROVE  ApiInv'
  <2>1. PICK token \in Claims : claims' = [claims EXCEPT ![n] = token]
    BY <1>2, IssueEffect
  <2>2. UNCHANGED <<students, enrollments, teachings, classes, assistances, usedQrNonces,
                    accounts, now>>
    BY <1>2 DEF GenerateQr, data
  <2>3. \A m \in Nonces : claims[m] # None => claims'[m] # None
    BY <1>1, <2>1, NoneAssumption DEF TypeOK
  <2>4. TypeOK'
    BY <1>1, <2>1, <2>2 DEF TypeOK
  <2>5. TokensOK'
    BY <1>1, <2>2, <2>3 DEF TokensOK, TypeOK
  <2>6. RecordsOK' /\ SnapshotOK'
    BY <1>1, <2>2 DEF RecordsOK, SnapshotOK
  <2> QED
    BY <2>4, <2>5, <2>6 DEF ApiInv
<1>3. ASSUME NEW n \in Nonces, RegisterAssistance(n) PROVE ApiInv'
  <2>1. /\ claims[n] \in Claims /\ classes[claims[n].class] # NoRow
        /\ ~AssistanceExists(claims[n].student, claims[n].class)
        /\ usedQrNonces' = usedQrNonces \cup {n}
        /\ UNCHANGED <<students, enrollments, teachings, classes, accounts, claims, now>>
    BY <1>3, ScanEffect
  <2>2. PICK a \in Assistance :
          /\ a.student = claims[n].student /\ a.class = claims[n].class
          /\ assistances' = Append(assistances, a)
    BY <1>3, ScanEffect
  <2> DEFINE k == Len(assistances)
  <2>3. /\ k \in Nat /\ DOMAIN assistances = 1..k /\ DOMAIN assistances' = 1..k + 1
        /\ assistances' \in Seq(Assistance)
        /\ assistances'[k + 1] = a
        /\ \A i \in 1..k : assistances'[i] = assistances[i]
    BY <1>1, <2>2 DEF TypeOK
  <2> HIDE DEF k
  <2>4. \A i \in 1..k : ~(assistances[i].student = a.student /\ assistances[i].class = a.class)
    BY <2>1, <2>2, <2>3 DEF AssistanceExists
  <2>5. \A i \in 1..k + 1 : i \in 1..k \/ i = k + 1
    BY <2>3
  <2>6. RecordsOK'
    <3>1. ASSUME NEW i \in 1..k + 1, NEW j \in 1..k + 1,
                 assistances'[i].student = assistances'[j].student,
                 assistances'[i].class = assistances'[j].class
          PROVE  i = j
      BY <1>1, <2>3, <2>4, <2>5, <3>1 DEF RecordsOK
    <3>2. \A i \in 1..k + 1 : classes'[assistances'[i].class] # NoRow
      BY <1>1, <2>1, <2>2, <2>3, <2>5 DEF RecordsOK
    <3> QED
      BY <2>3, <3>1, <3>2 DEF RecordsOK
  <2>7. TypeOK'
    BY <1>1, <2>1, <2>3 DEF TypeOK
  <2>8. TokensOK'
    BY <1>1, <2>1, NoneAssumption DEF TokensOK
  <2>9. SnapshotOK'
    BY <1>1, <2>1 DEF SnapshotOK
  <2> QED
    BY <2>6, <2>7, <2>8, <2>9 DEF ApiInv
<1>4. ASSUME NEW u \in Users, NEW c \in Classes, NEW status \in Status,
             UpdateRegistration(u, c, status) \/ UpdateEditing(u, c, status)
      PROVE  ApiInv'
  <2>1. UNCHANGED <<students, enrollments, teachings, assistances, usedQrNonces,
                    accounts, claims, now>>
    BY <1>4, StatusEffect
  <2>2. PICK row \in Row : classes' = [classes EXCEPT ![c] = row]
    BY <1>4, StatusEffect
  <2>3. TypeOK'
    BY <1>1, <2>1, <2>2 DEF TypeOK
  <2>4. \A d \in Classes : classes[d] # NoRow => classes'[d] # NoRow
    BY <1>1, <2>2, NoRowAssumption DEF TypeOK
  <2>5. \A i \in DOMAIN assistances : assistances[i].class \in Classes
    BY <1>1, RowsTyped
  <2>6. RecordsOK'
    BY <1>1, <2>1, <2>4, <2>5 DEF RecordsOK
  <2> QED
    BY <1>1, <2>1, <2>3, <2>6 DEF ApiInv, TokensOK, SnapshotOK
<1>5. ASSUME NEW u \in Users, NEW id \in 0..MaxTime, NEW presence \in Presence,
             Correct(u, id, presence)
      PROVE  ApiInv'
  <2>1. /\ assistances' \in Seq(Assistance) /\ DOMAIN assistances' = DOMAIN assistances
        /\ \A i \in DOMAIN assistances :
             /\ assistances'[i].student = assistances[i].student
             /\ assistances'[i].class = assistances[i].class
        /\ UNCHANGED <<students, enrollments, teachings, classes, usedQrNonces,
                       accounts, claims, now>>
    BY <1>5, CorrectEffect
  <2>2. RecordsOK'
    BY <1>1, <2>1 DEF RecordsOK
  <2>3. TypeOK'
    BY <1>1, <2>1 DEF TypeOK
  <2> QED
    BY <1>1, <2>1, <2>2, <2>3 DEF ApiInv, TokensOK, SnapshotOK
<1>6. ASSUME NEW u \in Users, Synchronize(u) PROVE ApiInv'
  <2>1. \A c \in Classes : classes'[c] \in Row
    BY <1>6, RowType DEF Synchronize, Status
  <2>2. classes' \in [Classes -> Row \cup {NoRow}]
    BY <1>6, <2>1 DEF Synchronize
  <2>3. TypeOK'
    BY <1>1, <1>6, <2>2, SnapshotAssumption DEF Synchronize, TypeOK
  <2>4. \A i \in DOMAIN assistances : assistances[i].class \in Classes
    BY <1>1, RowsTyped
  <2>5. RecordsOK'
    BY <1>1, <1>6, <2>1, <2>4, NoRowAssumption DEF Synchronize, RecordsOK
  <2>6. SnapshotOK' /\ TokensOK'
    BY <1>1, <1>6 DEF Synchronize, SnapshotOK, TokensOK, Users
  <2> QED
    BY <2>3, <2>5, <2>6 DEF ApiInv
<1>7. ASSUME NEW t \in 0..MaxTime, SetClock(t) PROVE ApiInv'
  BY <1>1, <1>7 DEF SetClock, data, ApiInv, TypeOK, RecordsOK, TokensOK, SnapshotOK
<1>8. CASE Restart
  <2>1. TypeOK'
    BY <1>1, <1>8 DEF Restart, TypeOK, Users
  <2>2. RecordsOK'
    BY <1>8 DEF Restart, RecordsOK
  <2> QED
    BY <1>8, <2>1, <2>2 DEF Restart, ApiInv, TokensOK, SnapshotOK
<1>9. CASE UNCHANGED vars
  BY <1>1, <1>9 DEF vars, data, ApiInv, TypeOK, RecordsOK, TokensOK, SnapshotOK
<1> QED
  BY <1>2, <1>3, <1>4, <1>5, <1>6, <1>7, <1>8, <1>9 DEF Next
-----------------------------------------------------------------------------
\* Whoever sends what, and however often the process restarts: all tables keep
\* their types.
THEOREM TypeCorrect == Spec => []TypeOK
<1>1. ApiInv => TypeOK
  BY DEF ApiInv
<1> QED
  BY <1>1, ApiInit, ApiStep, PTL DEF Spec

\* No endpoint answers 500 to a refusal of its service.
THEOREM NoRefusalIsUntranslated == Spec => []EveryRefusalTranslated
BY NeverUntranslated, PTL

\* A RUT in a route neither changes an answer nor opens another's attendance.
THEOREM RouteAddsNothing == Spec => []RouteRutAddsNothing
<1>1. ApiInv => RouteRutAddsNothing
  BY CopiesAgree, ShownToTheirOwn DEF RouteRutAddsNothing
<1> QED
  BY <1>1, ApiInit, ApiStep, PTL DEF Spec

\* A mistyped RUT is refused as one, whatever students there are.
THEOREM SlipsAreAnswered400 == Spec => []MistypedIsRefused
BY SlipsRefused, ApiInit, ApiStep, PTL DEF Spec
-----------------------------------------------------------------------------
ActsForItselfStep ==
    \A u \in Users, c \in Classes, status \in Status :
      UpdateRegistration(u, c, status) \/ UpdateEditing(u, c, status)
      => <<u, SubjectOf[c]>> \in Teaching

CorrectionsStep ==
    \A u \in Users, id \in 0..MaxTime, presence \in Presence :
      Correct(u, id, presence) =>
        \A i \in DOMAIN assistances :
          assistances'[i] # assistances[i] =>
            /\ <<u, SubjectOf[assistances[i].class]>> \in Teaching
            /\ Has(assistances[i].class, "editingStatus")

LEMMA OwnSubjectStep == ApiInv => ActsForItselfStep /\ CorrectionsStep
<1> SUFFICES ASSUME ApiInv PROVE ActsForItselfStep /\ CorrectionsStep
  OBVIOUS
<1>1. teachings \subseteq Teaching
  BY DEF ApiInv, SnapshotOK
<1>2. ASSUME NEW u \in Users, NEW c \in Classes, NEW status \in Status,
             UpdateRegistration(u, c, status) \/ UpdateEditing(u, c, status)
      PROVE  <<u, SubjectOf[c]>> \in Teaching
  <2>1. FindTeaching(u, c)
    BY <1>2, RegistrationAccepted, EditingAccepted
  <2> QED
    BY <1>1, <2>1 DEF FindTeaching
<1>3. ASSUME NEW u \in Users, NEW id \in 0..MaxTime, NEW presence \in Presence,
             Correct(u, id, presence),
             NEW i \in DOMAIN assistances, assistances'[i] # assistances[i]
      PROVE  /\ <<u, SubjectOf[assistances[i].class]>> \in Teaching
             /\ Has(assistances[i].class, "editingStatus")
  <2>1. i = FindAssistanceById(id)
    BY <1>3, CorrectEffect
  <2>2. FindTeaching(u, assistances[i].class) /\ Has(assistances[i].class, "editingStatus")
    BY <1>3, <2>1, CorrectionAccepted
  <2> QED
    BY <1>1, <2>2 DEF FindTeaching
<1> QED
  BY <1>2, <1>3 DEF ActsForItselfStep, CorrectionsStep

\* Nobody changes a class or a presence outside the subjects he teaches, and a
\* presence only while the editing window of its class is open.
THEOREM NobodyLeavesTheirSubject == Spec => OwnSubjectOnly
<1> QED
  BY ApiInit, ApiStep, OwnSubjectStep, PTL
  DEF Spec, OwnSubjectOnly, ActsForItself, CorrectionsStayInSubject,
      ActsForItselfStep, CorrectionsStep
-----------------------------------------------------------------------------
\* A row as ClassGate writes it.
LEMMA GateRow ==
    ASSUME NEW row \in Row
    PROVE  /\ \A c : \A status \in Status : NewRow(c, status) = Gate!NewRow(status)
           /\ row["registrationStatus"] \in Status /\ row["editingStatus"] \in Status
           /\ row["registrationStatus"] = "DISABLED" /\ row["editingStatus"] = "DISABLED"
              => row = Gate!NewRow("DISABLED")
<1>1. \A c : \A status \in Status : NewRow(c, status) = Gate!NewRow(status)
  BY DEF NewRow, Gate!NewRow, Gate!Column
<1>2. row["registrationStatus"] \in Status /\ row["editingStatus"] \in Status
  BY DEF Row
<1>3. ASSUME row["registrationStatus"] = "DISABLED", row["editingStatus"] = "DISABLED"
      PROVE  row = Gate!NewRow("DISABLED")
  BY <1>3 DEF Row, Gate!NewRow, Gate!Column
<1> QED
  BY <1>1, <1>2, <1>3

LEMMA GateStep ==
    ApiInv /\ [Next]_vars =>
      [Gate!Next \/ (\E u \in Users : Synchronize(u)) \/ Restart]_(Gate!vars)
<1> SUFFICES ASSUME ApiInv, [Next]_vars
             PROVE  \/ Gate!Next \/ (\E u \in Users : Synchronize(u)) \/ Restart
                    \/ UNCHANGED classes
  BY DEF Gate!vars
<1>1. ASSUME NEW u \in Users, NEW c \in Classes, NEW status \in Status,
             UpdateRegistration(u, c, status)
      PROVE  Gate!Next
  <2>1. /\ classes[c] \in Row /\ classes[c] # NoRow
        /\ status = "ENABLED" <=> ~Has(c, "registrationStatus")
    BY <1>1, StatusEffect, RegistrationAccepted
  <2>2. CASE status = "ENABLED"
    <3>1. classes[c]["registrationStatus"] = "DISABLED"
      BY <2>1, <2>2, GateRow DEF Has, Status
    <3>2. classes' = [classes EXCEPT ![c] = Gate!NewRow("ENABLED")]
      <4>1. NewRow(c, "ENABLED") = Gate!NewRow("ENABLED")
        BY <2>1, GateRow DEF Status
      <4>2. classes' = [classes EXCEPT ![c] = NewRow(c, "ENABLED")]
        BY <1>1, <2>2 DEF UpdateRegistration, UpdateClass
      <4> QED
        BY <4>1, <4>2
    <3>3. Gate!ReopenRegistration(c)
      BY <2>1, <3>1, <3>2 DEF Gate!ReopenRegistration, Gate!Covered, Gate!Set
    <3> QED
      BY <3>3 DEF Gate!Next
  <2>3. CASE status = "DISABLED"
    <3>1. classes[c]["registrationStatus"] = "ENABLED"
      BY <2>1, <2>3 DEF Has
    <3>2. classes' = [classes EXCEPT ![c] =
                        [classes[c] EXCEPT !["registrationStatus"] = "DISABLED"]]
      BY <1>1, <2>3 DEF UpdateRegistration, UpdateClass
    <3>3. Gate!CloseRegistration(c)
      BY <2>1, <3>1, <3>2 DEF Gate!CloseRegistration, Gate!Covered, Gate!Set
    <3> QED
      BY <3>3 DEF Gate!Next
  <2> QED
    BY <2>2, <2>3 DEF Status
<1>2. ASSUME NEW u \in Users, NEW c \in Classes, NEW status \in Status,
             UpdateEditing(u, c, status)
      PROVE  Gate!Next
  <2>1. /\ classes[c] \in Row /\ classes[c] # NoRow
        /\ status = "ENABLED" => ~Has(c, "registrationStatus")
        /\ status = "ENABLED" <=> ~Has(c, "editingStatus")
    BY <1>2, StatusEffect, EditingAccepted
  <2>2. classes' = [classes EXCEPT ![c] = [classes[c] EXCEPT !["editingStatus"] = status]]
    BY <1>2 DEF UpdateEditing, UpdateClass
  <2>3. CASE status = "ENABLED"
    <3>1. /\ classes[c]["registrationStatus"] = "DISABLED"
          /\ classes[c]["editingStatus"] = "DISABLED"
      BY <2>1, <2>3, GateRow DEF Has, Status
    <3>2. classes[c] = Gate!NewRow("DISABLED")
      BY <2>1, <3>1, GateRow
    <3>3. Gate!OpenEditing(c)
      BY <2>1, <2>2, <2>3, <3>2 DEF Gate!OpenEditing, Gate!Covered, Gate!Set
    <3> QED
      BY <3>3 DEF Gate!Next
  <2>4. CASE status = "DISABLED"
    <3>1. classes[c]["editingStatus"] = "ENABLED"
      BY <2>1, <2>4 DEF Has
    <3>2. Gate!CloseEditing(c)
      BY <2>1, <2>2, <2>4, <3>1 DEF Gate!CloseEditing, Gate!Covered, Gate!Set
    <3> QED
      BY <3>2 DEF Gate!Next
  <2> QED
    BY <2>3, <2>4 DEF Status
<1>3. \/ UNCHANGED classes \/ Restart
      \/ \E u \in Users : Synchronize(u)
      \/ \E u \in Users, c \in Classes, status \in Status :
           UpdateRegistration(u, c, status) \/ UpdateEditing(u, c, status)
  BY DEF Next, GenerateQr, RegisterAssistance, Correct, SetClock, data, vars
<1> QED
  BY <1>1, <1>2, <1>3

\* Over the in-memory repository a status request is one step of ClassGate, and
\* nothing but the synchronisation and a restart changes a class otherwise.
THEOREM RequestsAreGateSteps == Spec => GateSteps
<1>1. Init => Gate!Init
  BY DEF Init, Gate!Init
<1> QED
  BY <1>1, ApiInit, ApiStep, GateStep, PTL DEF Spec, GateSteps
-----------------------------------------------------------------------------
\* The row of a student and a class is unique, so that a CHOOSE finds it.
Mine(p, i) == assistances[i].student = p[1] /\ assistances[i].class = p[2]
RowOf(p) == CHOOSE i \in DOMAIN assistances :
              assistances[i].student = p[1] /\ assistances[i].class = p[2]

LEMMA RowOfIs ==
    ASSUME RecordsOK, NEW p, NEW i \in DOMAIN assistances, Mine(p, i)
    PROVE  RowOf(p) = i /\ AssistanceExists(p[1], p[2])
BY DEF RecordsOK, RowOf, Mine, AssistanceExists

OwnerMap == [n \in Nonces |-> IF claims[n] = None THEN <<>>
                              ELSE <<claims[n].student, claims[n].class>>]
TokenMap == [n \in Nonces |-> IF claims[n] = None THEN "unissued"
                              ELSE IF n \in usedQrNonces THEN "recorded"
                              ELSE "valid"]
AttendanceMap == [p \in Students \X Classes |->
                    IF ~AssistanceExists(p[1], p[2]) THEN "none"
                    ELSE assistances[RowOf(p)].presence]

LEMMA LedgerInit == Init => Ledger!Init
<1> SUFFICES ASSUME Init PROVE Ledger!Init
  OBVIOUS
<1>1. \A s, c : ~AssistanceExists(s, c)
  BY DEF Init, AssistanceExists
<1>2. \A n \in Nonces : claims[n] = None
  BY DEF Init
<1> QED
  BY <1>1, <1>2 DEF Ledger!Init, Ledger!NoPair, Ledger!Pair

LEMMA IssueStep ==
    ASSUME ApiInv, NEW u \in Users, NEW c \in Classes, NEW n \in Nonces, GenerateQr(u, c, n)
    PROVE  \E p \in Ledger!Pair : Ledger!Issue(n, p)
<1>1. /\ claims[n] = None /\ u \in Students
      /\ UNCHANGED <<data, accounts, now>>
  BY IssueEffect
<1>2. PICK token \in Claims : /\ token.student = u /\ token.class = c
                              /\ claims' = [claims EXCEPT ![n] = token]
  BY IssueEffect
<1>3. token # None /\ n \notin usedQrNonces /\ DOMAIN claims = Nonces
  BY <1>1, NoneAssumption DEF ApiInv, TypeOK, TokensOK
<1>4. \A m \in Nonces : claims'[m] = IF m = n THEN token ELSE claims[m]
  BY <1>2, <1>3
<1>5. usedQrNonces' = usedQrNonces /\ assistances' = assistances
  BY <1>1 DEF data
<1>6. TokenMap' = [TokenMap EXCEPT ![n] = "valid"]
  BY <1>3, <1>4, <1>5 DEF TokenMap
<1>7. OwnerMap' = [OwnerMap EXCEPT ![n] = <<u, c>>]
  BY <1>2, <1>3, <1>4 DEF OwnerMap
<1>8. AttendanceMap' = AttendanceMap
  BY <1>5 DEF AttendanceMap, RowOf, AssistanceExists
<1>9. TokenMap[n] = "unissued" /\ <<u, c>> \in Ledger!Pair
  BY <1>1 DEF TokenMap, Ledger!Pair
<1> QED
  BY <1>6, <1>7, <1>8, <1>9
  DEF Ledger!Issue, TokenMap, OwnerMap, AttendanceMap, RowOf

LEMMA RecordStep ==
    ASSUME ApiInv, NEW n \in Nonces, RegisterAssistance(n)
    PROVE  Ledger!Record(n)
<1> DEFINE s == claims[n].student
           c == claims[n].class
<1>1. /\ claims[n] \in Claims /\ n \notin usedQrNonces /\ ~AssistanceExists(s, c)
      /\ usedQrNonces' = usedQrNonces \cup {n} /\ claims' = claims
  BY ScanEffect
<1>2. PICK a \in Assistance : /\ a.student = s /\ a.class = c /\ a.presence = "present"
                              /\ assistances' = Append(assistances, a)
  BY ScanEffect
<1>3. claims[n] # None /\ s \in Students /\ c \in Classes
  BY <1>1, NoneAssumption DEF Claims
<1> HIDE DEF s, c
<1>4. PICK k \in Nat :
        /\ DOMAIN assistances = 1..k /\ DOMAIN assistances' = 1..k + 1
        /\ assistances'[k + 1] = a
        /\ \A i \in 1..k : assistances'[i] = assistances[i]
  <2> DEFINE k == Len(assistances)
  <2>1. /\ k \in Nat /\ DOMAIN assistances = 1..k /\ DOMAIN assistances' = 1..k + 1
        /\ assistances'[k + 1] = a
        /\ \A i \in 1..k : assistances'[i] = assistances[i]
    BY <1>2, RowsTyped DEF ApiInv, TypeOK
  <2> HIDE DEF k
  <2> QED
    BY <2>1
<1>5. \A i \in 1..k + 1 : i \in 1..k \/ i = k + 1
  BY <1>4
<1>6. RecordsOK /\ RecordsOK'
  BY ApiStep DEF ApiInv, Next
<1>7. TokenMap' = [TokenMap EXCEPT ![n] = "recorded"] /\ TokenMap[n] = "valid"
  BY <1>1, <1>3 DEF TokenMap
<1>8. OwnerMap' = OwnerMap /\ OwnerMap[n] = <<s, c>>
  BY <1>1, <1>3 DEF OwnerMap, s, c
<1>9. AttendanceMap[<<s, c>>] = "none"
  BY <1>1, <1>3 DEF AttendanceMap
\* The new row is that of s and c; the rows of the others are where they were.
<1>10. ASSUME NEW p \in Students \X Classes
       PROVE  AttendanceMap'[p] = IF p = <<s, c>> THEN "present" ELSE AttendanceMap[p]
  <2>1. p = <<p[1], p[2]>>
    OBVIOUS
  <2>2. CASE p = <<s, c>>
    <3>1. k + 1 \in DOMAIN assistances' /\ Mine(p, k + 1)'
      BY <1>2, <1>4, <2>2 DEF Mine
    <3>2. RowOf(p)' = k + 1 /\ AssistanceExists(p[1], p[2])'
      BY <1>6, <3>1 DEF RecordsOK, RowOf, Mine, AssistanceExists
    <3> QED
      BY <1>2, <1>4, <2>2, <3>2 DEF AttendanceMap
  <2>3. CASE p # <<s, c>>
    <3>1. ~Mine(p, k + 1)'
      BY <1>2, <1>4, <2>1, <2>3 DEF Mine
    <3>2. CASE AssistanceExists(p[1], p[2])
      <4>1. PICK i \in 1..k : Mine(p, i)
        BY <1>4, <3>2 DEF AssistanceExists, Mine
      <4>2. RowOf(p) = i
        BY <1>4, <1>6, <4>1, RowOfIs
      <4>3. i \in 1..k + 1 /\ Mine(p, i)'
        BY <1>4, <4>1 DEF Mine
      <4>4. RowOf(p)' = i /\ AssistanceExists(p[1], p[2])'
        BY <1>4, <1>6, <4>3 DEF RecordsOK, RowOf, Mine, AssistanceExists
      <4> QED
        BY <1>4, <2>3, <3>2, <4>1, <4>2, <4>4 DEF AttendanceMap
    <3>3. CASE ~AssistanceExists(p[1], p[2])
      <4>1. ~AssistanceExists(p[1], p[2])'
        BY <1>4, <1>5, <3>1, <3>3 DEF AssistanceExists, Mine
      <4> QED
        BY <2>3, <3>3, <4>1 DEF AttendanceMap
    <3> QED
      BY <3>2, <3>3
  <2> QED
    BY <2>2, <2>3
<1>11. AttendanceMap' = [AttendanceMap EXCEPT ![<<s, c>>] = "present"]
  <2>1. /\ AttendanceMap' = [p \in Students \X Classes |-> AttendanceMap'[p]]
        /\ AttendanceMap = [p \in Students \X Classes |-> AttendanceMap[p]]
    BY DEF AttendanceMap
  <2> QED
    BY <1>10, <2>1
<1> QED
  BY <1>7, <1>8, <1>9, <1>11
  DEF Ledger!Record, TokenMap, OwnerMap, AttendanceMap, RowOf

LEMMA AmendStep ==
    ASSUME ApiInv, NEW u \in Users, NEW id \in 0..MaxTime, NEW presence \in Presence,
           Correct(u, id, presence)
    PROVE  (\E p \in Ledger!Pair : Ledger!Amend(p, presence)) \/ UNCHANGED Ledger!vars
<1>1. PICK j : j = FindAssistanceById(id)
  OBVIOUS
<1>2. /\ DOMAIN assistances' = DOMAIN assistances
      /\ \A i \in DOMAIN assistances :
           /\ assistances'[i].student = assistances[i].student
           /\ assistances'[i].class = assistances[i].class
           /\ i # j => assistances'[i] = assistances[i]
           /\ i = j => assistances'[i].presence = presence
      /\ usedQrNonces' = usedQrNonces /\ claims' = claims
  BY <1>1, CorrectEffect
<1>3. TokenMap' = TokenMap /\ OwnerMap' = OwnerMap
  BY <1>2 DEF TokenMap, OwnerMap
<1>4. RecordsOK /\ RecordsOK'
  BY ApiStep DEF ApiInv, Next
\* Every pair has its row where it had it.
<1>5. ASSUME NEW p \in Students \X Classes
      PROVE  /\ AssistanceExists(p[1], p[2])' <=> AssistanceExists(p[1], p[2])
             /\ AssistanceExists(p[1], p[2]) =>
                  RowOf(p)' = RowOf(p) /\ RowOf(p) \in DOMAIN assistances
  <2>1. \A i \in DOMAIN assistances : Mine(p, i)' <=> Mine(p, i)
    BY <1>2 DEF Mine
  <2>2. AssistanceExists(p[1], p[2])' <=> AssistanceExists(p[1], p[2])
    BY <1>2 DEF AssistanceExists
  <2>3. ASSUME AssistanceExists(p[1], p[2])
        PROVE  RowOf(p)' = RowOf(p) /\ RowOf(p) \in DOMAIN assistances
    <3>1. PICK i \in DOMAIN assistances : Mine(p, i)
      BY <2>3 DEF AssistanceExists, Mine
    <3>2. RowOf(p) = i
      BY <1>4, <3>1, RowOfIs
    <3>3. i \in DOMAIN assistances' /\ Mine(p, i)'
      BY <1>2, <2>1, <3>1
    <3>4. RowOf(p)' = i
      BY <1>4, <3>3 DEF RecordsOK, RowOf, Mine
    <3> QED
      BY <3>1, <3>2, <3>4
  <2> QED
    BY <2>2, <2>3
<1>6. /\ AttendanceMap' = [p \in Students \X Classes |-> AttendanceMap'[p]]
      /\ AttendanceMap = [p \in Students \X Classes |-> AttendanceMap[p]]
  BY DEF AttendanceMap
<1>7. CASE j \notin DOMAIN assistances
  <2>1. \A p \in Students \X Classes : AttendanceMap'[p] = AttendanceMap[p]
    BY <1>2, <1>5, <1>7 DEF AttendanceMap
  <2>2. AttendanceMap' = AttendanceMap
    BY <1>6, <2>1
  <2> QED
    BY <1>3, <2>2 DEF Ledger!vars, TokenMap, OwnerMap, AttendanceMap, RowOf
<1>8. CASE j \in DOMAIN assistances
  <2>1. PICK q \in Students \X Classes : Mine(q, j)
    <3>1. <<assistances[j].student, assistances[j].class>> \in Students \X Classes
      BY <1>8, RowsTyped DEF ApiInv
    <3> QED
      BY <3>1 DEF Mine
  <2>2. RowOf(q) = j /\ AssistanceExists(q[1], q[2])
    BY <1>4, <1>8, <2>1, RowOfIs
  <2>3. ASSUME NEW p \in Students \X Classes
        PROVE  AttendanceMap'[p] = IF p = q THEN presence ELSE AttendanceMap[p]
    <3>1. CASE p = q
      BY <1>2, <1>5, <1>8, <2>2, <3>1 DEF AttendanceMap
    <3>2. CASE p # q
      <4>1. p = <<p[1], p[2]>> /\ q = <<q[1], q[2]>>
        OBVIOUS
      <4>2. ~Mine(p, j)
        BY <2>1, <3>2, <4>1 DEF Mine
      <4>3. AssistanceExists(p[1], p[2]) => RowOf(p) # j
        <5> SUFFICES ASSUME AssistanceExists(p[1], p[2]) PROVE RowOf(p) # j
          OBVIOUS
        <5>1. PICK i \in DOMAIN assistances : Mine(p, i)
          BY DEF AssistanceExists, Mine
        <5>2. RowOf(p) = i
          BY <1>4, <5>1, RowOfIs
        <5> QED
          BY <4>2, <5>1, <5>2
      <4> QED
        BY <1>2, <1>5, <3>2, <4>3 DEF AttendanceMap
    <3> QED
      BY <3>1, <3>2
  <2>4. AttendanceMap' = [AttendanceMap EXCEPT ![q] = presence]
    BY <1>6, <2>3
  <2>5. AttendanceMap[q] # "none"
    <3>1. \A a \in Assistance : a.presence # "none"
      BY DEF Assistance, Presence
    <3>2. assistances[j] \in Assistance
      BY <1>8, RowsTyped DEF ApiInv
    <3> QED
      BY <2>2, <3>1, <3>2 DEF AttendanceMap
  <2>6. Ledger!Amend(q, presence)
    BY <1>3, <2>4, <2>5
    DEF Ledger!Amend, Presence, TokenMap, OwnerMap, AttendanceMap, RowOf
  <2> QED
    BY <2>6 DEF Ledger!Pair
<1> QED
  BY <1>7, <1>8

LedgerNext == \/ \E n \in Nonces : \/ Ledger!Record(n)
                                   \/ \E p \in Ledger!Pair : Ledger!Issue(n, p)
              \/ \E p \in Ledger!Pair, what \in Presence : Ledger!Amend(p, what)
              \/ Restart

LEMMA LedgerStep == ApiInv /\ [Next]_vars => [LedgerNext]_(Ledger!vars)
<1> SUFFICES ASSUME ApiInv, [Next]_vars PROVE LedgerNext \/ UNCHANGED Ledger!vars
  OBVIOUS
<1>1. ASSUME NEW u \in Users, NEW c \in Classes, NEW n \in Nonces, GenerateQr(u, c, n)
      PROVE  LedgerNext
  BY <1>1, IssueStep DEF LedgerNext
<1>2. ASSUME NEW n \in Nonces, RegisterAssistance(n) PROVE LedgerNext
  BY <1>2, RecordStep DEF LedgerNext
<1>3. ASSUME NEW u \in Users, NEW id \in 0..MaxTime, NEW presence \in Presence,
             Correct(u, id, presence)
      PROVE  LedgerNext \/ UNCHANGED Ledger!vars
  BY <1>3, AmendStep DEF LedgerNext
<1>4. CASE UNCHANGED <<assistances, usedQrNonces, claims>>
  <2>1. TokenMap' = TokenMap /\ OwnerMap' = OwnerMap /\ AttendanceMap' = AttendanceMap
    BY <1>4 DEF TokenMap, OwnerMap, AttendanceMap, RowOf, AssistanceExists
  <2> QED
    BY <2>1 DEF Ledger!vars, TokenMap, OwnerMap, AttendanceMap, RowOf
<1>5. \/ UNCHANGED <<assistances, usedQrNonces, claims>> \/ Restart
      \/ \E u \in Users, c \in Classes, n \in Nonces : GenerateQr(u, c, n)
      \/ \E n \in Nonces : RegisterAssistance(n)
      \/ \E u \in Users, id \in 0..MaxTime, presence \in Presence : Correct(u, id, presence)
  BY DEF Next, UpdateRegistration, UpdateEditing, Synchronize, SetClock, data, vars
<1> QED
  BY <1>1, <1>2, <1>3, <1>4, <1>5 DEF LedgerNext

\* Over the in-memory repository a token is never burnt: each request is one step of
\* the ledger of QR attendance, or none.
THEOREM RequestsAreLedgerSteps == Spec => LedgerSteps
<1> QED
  BY LedgerInit, ApiInit, ApiStep, LedgerStep, PTL DEF Spec, LedgerSteps, LedgerNext
-----------------------------------------------------------------------------
\* Rounding does not make the smaller share the larger one.
LEMMA PercentageOrder ==
    ASSUME NEW a \in Nat, NEW t \in Nat, NEW r \in Nat, a <= t, t <= r
    PROVE  /\ Percentage(a, t) \in Nat /\ Percentage(a, r) \in Nat
           /\ Percentage(a, t) >= Percentage(a, r) /\ Percentage(a, t) <= 100
<1>1. CASE t = 0
  <2>1. CASE r = 0
    BY <1>1, <2>1 DEF Percentage
  <2>2. CASE r > 0
    <3>1. (200 * a + r) \div (2 * r) = 0
      BY <1>1, <2>2
    <3> QED
      BY <1>1, <2>2, <3>1 DEF Percentage
  <2> QED
    BY <2>1, <2>2
<1>2. CASE t > 0
  <2> DEFINE p == (200 * a + t) \div (2 * t)
             q == (200 * a + r) \div (2 * r)
  <2>1. ASSUME NEW x \in Nat, NEW d \in Nat \ {0}
        PROVE  /\ x \div d \in Nat
               /\ d * (x \div d) <= x /\ x < d * (x \div d) + d
    OBVIOUS
  <2>2. /\ p \in Nat /\ (2 * t) * p <= 200 * a + t /\ 200 * a + t < (2 * t) * p + 2 * t
    <3>1. 200 * a + t \in Nat /\ 2 * t \in Nat \ {0}
      BY <1>2
    <3> QED
      BY <2>1, <3>1
  <2>3. /\ q \in Nat /\ (2 * r) * q <= 200 * a + r
    <3>1. 200 * a + r \in Nat /\ 2 * r \in Nat \ {0}
      BY <1>2
    <3> QED
      BY <2>1, <3>1
  <2>4. Percentage(a, t) = p /\ Percentage(a, r) = q
    BY <1>2 DEF Percentage
  <2> HIDE DEF p, q
  <2>5. p <= 100
    <3> SUFFICES ASSUME p >= 101 PROVE FALSE
      BY <2>2
    <3>1. (2 * t) * p >= (2 * t) * 101
      BY <1>2, <2>2
    <3> QED
      BY <1>2, <2>2, <3>1
  <2>6. q <= p
    <3> SUFFICES ASSUME q >= p + 1 PROVE FALSE
      BY <2>2, <2>3
    <3>1. (2 * q - 1) * r <= 200 * a
      BY <2>3
    <3>2. (2 * q - 1) * t <= (2 * q - 1) * r
      <4>1. 2 * q - 1 \in Nat
        BY <2>2, <2>3
      <4> QED
        BY <4>1
    <3>3. (2 * p + 1) * t <= (2 * q - 1) * t
      <4>1. 2 * p + 1 \in Nat /\ 2 * q - 1 \in Nat /\ 2 * p + 1 <= 2 * q - 1
        BY <2>2, <2>3
      <4> QED
        BY <4>1
    <3>4. 200 * a < (2 * p + 1) * t
      BY <2>2
    <3>5. /\ (2 * q - 1) * r \in Int /\ (2 * q - 1) * t \in Int /\ (2 * p + 1) * t \in Int
      BY <2>2, <2>3
    <3> QED
      BY <3>1, <3>2, <3>3, <3>4, <3>5
  <2> QED
    BY <2>2, <2>3, <2>4, <2>5, <2>6
<1> QED
  BY <1>1, <1>2

\* A student has at most one row per class, and classes of rows exist.
LEMMA RowsWithinClasses ==
    ASSUME ApiInv, NEW s, NEW x
    PROVE  /\ Cardinality(PresentRows(s, x)) \in Nat /\ Cardinality(RowsOf(s, x)) \in Nat
           /\ Cardinality(ClassesOf(x)) \in Nat
           /\ Cardinality(PresentRows(s, x)) <= Cardinality(RowsOf(s, x))
           /\ Cardinality(RowsOf(s, x)) <= Cardinality(ClassesOf(x))
<1> DEFINE S == RowsOf(s, x)
           T == ClassesOf(x)
           f == [i \in S |-> assistances[i].class]
<1>1. IsFiniteSet(T) /\ Cardinality(T) \in Nat
  <2>1. T \in SUBSET Classes
    BY DEF ClassesOf
  <2> QED
    BY <2>1, ClassesAssumption, FS_Subset, FS_CardinalityType
<1>2. \A i \in S : /\ i \in DOMAIN assistances /\ assistances[i].student = s
                   /\ assistances[i].class \in T
  BY RowsTyped DEF RowsOf, ClassesOf, ApiInv, RecordsOK
<1>3. f \in Injection(S, T)
  <2>1. f \in [S -> T]
    BY <1>2
  <2>2. \A i, j \in S : f[i] = f[j] => i = j
    BY <1>2 DEF ApiInv, RecordsOK
  <2> QED
    BY <2>1, <2>2 DEF Injection, IsInjective
<1>4. PresentRows(s, x) \in SUBSET S
  BY DEF PresentRows
<1> HIDE DEF S, T, f
<1>5. IsFiniteSet(S) /\ Cardinality(S) <= Cardinality(T)
  BY <1>1, <1>3, FS_Injection
<1>6. /\ IsFiniteSet(PresentRows(s, x)) /\ Cardinality(PresentRows(s, x)) <= Cardinality(S)
  BY <1>4, <1>5, FS_Subset
<1> QED
  BY <1>1, <1>5, <1>6, FS_CardinalityType DEF S, T

LEMMA ReportsAgreeInv == ApiInv => ReportsAgree
<1> SUFFICES ASSUME ApiInv, NEW s \in students, NEW x \in Subjects, <<s, x>> \in enrollments
             PROVE  LET row == FindStudentAttendanceByRut(s)[x]
                        own == StudentAssistance(s, x) IN
                    /\ FindStudentsAssistanceBySubject(x)[s] = row
                    /\ own.attended = row.attended /\ own.total <= row.total
                    /\ own.percentage >= row.percentage /\ own.percentage <= 100
  BY DEF ReportsAgree
<1> DEFINE attended == Cardinality(PresentRows(s, x))
           records == Cardinality(RowsOf(s, x))
           sessions == Cardinality(ClassesOf(x))
<1>1. s \in Students
  BY DEF ApiInv, TypeOK
<1>2. FindStudentAttendanceByRut(s)[x] = Share(attended, sessions)
  BY DEF FindStudentAttendanceByRut
<1>3. FindStudentsAssistanceBySubject(x)[s] = Share(attended, sessions)
  BY <1>1 DEF FindStudentsAssistanceBySubject
<1>4. StudentAssistance(s, x) = Share(attended, records)
  BY DEF StudentAssistance
<1>5. /\ attended \in Nat /\ records \in Nat /\ sessions \in Nat
      /\ attended <= records /\ records <= sessions
  BY RowsWithinClasses
<1> HIDE DEF attended, records, sessions
<1>6. /\ Percentage(attended, records) >= Percentage(attended, sessions)
      /\ Percentage(attended, records) <= 100
  BY <1>5, PercentageOrder
<1> QED
  BY <1>2, <1>3, <1>4, <1>5, <1>6 DEF Share

\* Two computations of one attendance are the same row, and the list of records never
\* shows less of it: for any finite set of classes, between 0 and 100.
THEOREM ReportsAlwaysAgree == Spec => []ReportsAgree
BY ReportsAgreeInv, ApiInit, ApiStep, PTL DEF Spec
-----------------------------------------------------------------------------
\* Every set of natural numbers has a least one.
LEMMA LeastNatural ==
    ASSUME NEW T, T \subseteq Nat, T # {}
    PROVE  \E m \in T : \A n \in T : m <= n
<1> DEFINE R == OpToRel(<, Nat)
<1>1. IsWellFoundedOn(R, Nat)
  BY NatLessThanWellFounded
<1>2. \A x, y \in Nat : x < y => <<x, y>> \in R
  BY DEF OpToRel
<1> HIDE DEF R
<1>3. PICK m \in T : \A n \in T : ~(<<n, m>> \in R)
  BY <1>1, WFMin
<1>4. ASSUME NEW n \in T PROVE m <= n
  <2>1. m \in Nat /\ n \in Nat
    OBVIOUS
  <2>2. n < m => <<n, m>> \in R
    BY <1>2, <2>1
  <2>3. ~(<<n, m>> \in R)
    BY <1>3
  <2>4. ~(n < m)
    BY <2>2, <2>3
  <2> QED
    BY <2>1, <2>4
<1> QED
  BY <1>4

\* find returns the first row with an id, and nothing when there is none: of the rows
\* that were inserted in one millisecond, only the oldest can be corrected.
THEOREM FindsTheFirstRow ==
    ASSUME TypeOK, NEW id
    PROVE  LET j == FindAssistanceById(id) IN
           \/ j = 0 /\ \A i \in DOMAIN assistances : assistances[i].id # id
           \/ /\ j \in DOMAIN assistances /\ assistances[j].id = id
              /\ \A i \in DOMAIN assistances : i < j => assistances[i].id # id
<1> DEFINE I == {i \in 1..Len(assistances) : assistances[i].id = id}
<1>1. Len(assistances) \in Nat /\ DOMAIN assistances = 1..Len(assistances)
  BY RowsTyped
<1>2. FindAssistanceById(id) = IF I # {} THEN Min(I) ELSE 0
  BY DEF FindAssistanceById, SelectInSeq
<1>3. CASE I = {}
  BY <1>1, <1>2, <1>3
<1>4. CASE I # {}
  <2>1. I \subseteq Nat
    BY <1>1
  <2>2. \E m \in I : \A i \in I : m <= i
    BY <1>4, <2>1, LeastNatural
  <2>3. Min(I) \in I /\ \A i \in I : Min(I) <= i
    <3> HIDE DEF I
    <3> QED
      BY <2>2 DEF Min
  <2>4. FindAssistanceById(id) \in I /\ \A i \in I : FindAssistanceById(id) <= i
    BY <1>2, <1>4, <2>3
  <2>5. ASSUME NEW i \in 1..Len(assistances), i < FindAssistanceById(id)
        PROVE  assistances[i].id # id
    <3> SUFFICES ASSUME assistances[i].id = id PROVE FALSE
      OBVIOUS
    <3>1. FindAssistanceById(id) <= i
      BY <2>4
    <3>2. FindAssistanceById(id) \in Nat /\ i \in Nat
      BY <1>1, <2>1, <2>4
    <3> QED
      BY <2>5, <3>1, <3>2
  <2> QED
    BY <1>1, <2>4, <2>5
<1> QED
  BY <1>3, <1>4

\* Over the in-memory repository registration and editing of a class are never open
\* together, whatever the synchronisation does between two requests.
THEOREM NeverBothOpen == Spec => []Gate!Exclusive
<1> DEFINE Shut(row) == row["registrationStatus"] = "DISABLED"
                        \/ row["editingStatus"] = "DISABLED"
<1>1. Gate!Exclusive <=> \A c \in Classes : classes[c] # NoRow => Shut(classes[c])
  BY DEF Gate!Exclusive, Gate!Column
<1>2. Init => Gate!Exclusive
  BY <1>1 DEF Init
<1>3. \A c : Shut(NewRow(c, "ENABLED"))
  BY DEF NewRow
<1>4. ASSUME ApiInv, Gate!Exclusive, [Next]_vars PROVE Gate!Exclusive'
  <2>1. DOMAIN classes = Classes
    BY <1>4 DEF ApiInv, TypeOK
  <2>2. \A c \in Classes : classes[c] # NoRow => Shut(classes[c])
    BY <1>1, <1>4
  <2>3. ASSUME NEW c \in Classes, NEW row, Shut(row), classes' = [classes EXCEPT ![c] = row]
        PROVE  \A d \in Classes : classes'[d] # NoRow => Shut(classes'[d])
    BY <2>1, <2>2, <2>3
  <2>4. ASSUME NEW u \in Users, NEW c \in Classes, NEW status \in Status,
               UpdateRegistration(u, c, status)
        PROVE  \A d \in Classes : classes'[d] # NoRow => Shut(classes'[d])
    <3> DEFINE row == IF status = "ENABLED" THEN NewRow(c, "ENABLED")
                      ELSE [classes[c] EXCEPT !.registrationStatus = "DISABLED"]
    <3>1. classes[c] \in Row
      BY <1>4, <2>4, StatusEffect
    <3>2. Shut(row)
      <4>1. [classes[c] EXCEPT !.registrationStatus = "DISABLED"]["registrationStatus"] = "DISABLED"
        BY <3>1 DEF Row
      <4> QED
        BY <1>3, <4>1
    <3>3. classes' = [classes EXCEPT ![c] = row]
      BY <2>4 DEF UpdateRegistration, UpdateClass
    <3> HIDE DEF row, Shut
    <3> QED
      BY <2>3, <3>2, <3>3
  <2>5. ASSUME NEW u \in Users, NEW c \in Classes, NEW status \in Status,
               UpdateEditing(u, c, status)
        PROVE  \A d \in Classes : classes'[d] # NoRow => Shut(classes'[d])
    <3> DEFINE row == [classes[c] EXCEPT !.editingStatus = status]
    <3>1. /\ classes[c] \in Row /\ classes[c] # NoRow
          /\ status = "ENABLED" => ~Has(c, "registrationStatus")
      BY <1>4, <2>5, StatusEffect, EditingAccepted
    <3>2. Shut(row)
      <4>1. /\ row["editingStatus"] = status
            /\ row["registrationStatus"] = classes[c]["registrationStatus"]
            /\ classes[c]["registrationStatus"] \in Status
        BY <3>1 DEF Row
      <4> HIDE DEF row
      <4> QED
        BY <3>1, <4>1 DEF Has, Status
    <3>3. classes' = [classes EXCEPT ![c] = row]
      BY <2>5 DEF UpdateEditing, UpdateClass
    <3> HIDE DEF row, Shut
    <3> QED
      BY <2>3, <3>2, <3>3
  <2>6. CASE \E u \in Users : Synchronize(u)
    <3>1. \A d \in Classes : classes'[d] = NewRow(d, "ENABLED")
      BY <2>6 DEF Synchronize
    <3> QED
      BY <1>1, <1>3, <3>1 DEF Gate!Exclusive, Gate!Column
  <2>7. CASE Restart
    BY <2>7 DEF Restart, Gate!Exclusive
  <2>8. CASE UNCHANGED classes
    BY <1>4, <2>8 DEF Gate!Exclusive
  <2>9. \/ UNCHANGED classes \/ Restart
        \/ \E u \in Users : Synchronize(u)
        \/ \E u \in Users, c \in Classes, status \in Status :
             UpdateRegistration(u, c, status) \/ UpdateEditing(u, c, status)
    BY <1>4 DEF Next, GenerateQr, RegisterAssistance, Correct, SetClock, data, vars
  <2>10. (\A d \in Classes : classes'[d] # NoRow => Shut(classes'[d])) => Gate!Exclusive'
    BY DEF Gate!Exclusive, Gate!Column
  <2> QED
    BY <2>4, <2>5, <2>6, <2>7, <2>8, <2>9, <2>10
<1> QED
  BY <1>2, <1>4, ApiInit, ApiStep, PTL DEF Spec
=============================================================================
