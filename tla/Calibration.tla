---------------------------- MODULE Calibration ----------------------------
(***************************************************************************)
(* What has been measured of the trains, and what the train programs       *)
(* expect of them from that: velocities in mm/s, distances in mm, times in *)
(* ticks of 10 ms.                                                         *)
(***************************************************************************)
EXTENDS Integers, Sequences

\* The velocity at speeds 1 to 14, 0 where none was measured, and the distance to
\* stop from the two speeds it was measured at.
Train(velocity, from8, from14) ==
    [velocity |-> velocity, stopping |-> [speed \in {8, 14} |-> IF speed = 8 THEN from8 ELSE from14]]

Train1  == Train(<<0, 0, 0, 43, 77, 121, 177, 237, 300, 364, 418, 494, 577, 650>>, 240, 1320)
Train24 == Train(<<0, 0, 0, 42, 81, 125, 172, 230, 304, 363, 443, 507, 590, 576>>, 260, 1350)
Train58 == Train(<<13, 16, 18, 33, 72, 113, 151, 206, 274, 336, 413, 479, 549, 625>>, 225, 1390)
Train74 == Train(<<0, 88, 146, 193, 250, 298, 357, 410, 472, 545, 592, 646, 663, 650>>, 500, 840)
Train78 == Train(<<0, 0, 0, 0, 0, 94, 138, 187, 249, 288, 348, 394, 461, 506>>, 170, 950)
Train79 == Train(<<0, 31, 54, 76, 118, 154, 226, 283, 339, 399, 470, 545, 631, 726>>, 255, 1350)

CalibratedTrains == {1, 24, 58, 74, 78, 79}

Of(train) ==
    CASE train = 1  -> Train1
      [] train = 24 -> Train24
      [] train = 58 -> Train58
      [] train = 74 -> Train74
      [] train = 78 -> Train78
      [] train = 79 -> Train79

-----------------------------------------------------------------------------
Abs(x) == IF x < 0 THEN -x ELSE x

\* Division of ints, which rounds towards 0.
Quotient(a, b) == LET q == Abs(a) \div Abs(b) IN IF (a < 0) = (b < 0) THEN q ELSE -q

ExpectedVelocity(train, speed) ==
    LET v == Of(train).velocity
    IN  CASE speed = 0                            -> 0
          [] speed > 0 /\ v[speed] > 0            -> v[speed]
          [] speed > 8 /\ v[speed] = 0            -> v[8] + Quotient((speed - 8) * (v[14] - v[8]), 6)
          [] speed \in 1 .. 8 /\ v[speed] = 0     -> Quotient(speed * v[8], 8)

StoppingDistance(train, speed) == IF speed = 0 THEN 0 ELSE Of(train).stopping[speed]

stopping_time == 300

AccelerationTime(train, velocity, speed) ==
    Quotient(300 * Abs(ExpectedVelocity(train, speed) - velocity), ExpectedVelocity(train, 14))

=============================================================================
