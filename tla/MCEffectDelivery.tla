--------------------------- MODULE MCEffectDelivery ---------------------------
(* Instances of EffectDelivery: a and b share an idempotency key and their *)
(* content, c has the same key and other content.                          *)
EXTENDS EffectDelivery

CONSTANTS a, b, c, k, x, y, p1, p2

TwoEffects == {a, b}
ThreeEffects == {a, b, c}
OneKey == [e \in Effects |-> k]
Content == [e \in Effects |-> IF e = c THEN y ELSE x]

MCSettings ==
  {Setting(ThreeEffects, {p1}, 0, 0, FALSE, FALSE, FALSE),
   Setting(TwoEffects, {p1}, 1, 1, FALSE, TRUE, FALSE),
   Setting(TwoEffects, {p1}, 1, 0, TRUE, FALSE, FALSE),
   Setting(TwoEffects, {p1, p2}, 0, 1, FALSE, TRUE, FALSE),
   Setting(TwoEffects, {p1}, 0, 0, FALSE, TRUE, TRUE)}
=============================================================================
