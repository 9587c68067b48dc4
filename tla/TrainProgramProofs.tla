-------------------------- MODULE TrainProgramProofs -------------------------
(***************************************************************************)
(* Proofs about the train program, for every track that is WellLaid and    *)
(* Mirrored and every set of commands that may be typed: the oracle's      *)
(* descriptors of the trains are in order, each request of the command     *)
(* task is in one place until it is answered, and what a route asks for    *)
(* the oracle can do.                                                      *)
(***************************************************************************)
EXTENDS TrainProgram, TrackGraphProofs

-----------------------------------------------------------------------------
(* Numbers: division, and what is expected of a train.                     *)

\* ints are divided to ints.
LEMMA QuotientType ==
  ASSUME NEW a \in Int, NEW b \in Int, b # 0
  PROVE  Quotient(a, b) \in Int
  <1>1. PICK x \in Nat, y \in Nat : x = Abs(a) /\ y = Abs(b) /\ y > 0
    BY DEF Abs
  <1>2. x \div y \in Int
    BY <1>1
  <1>3. \A q \in Int : -q \in Int
    OBVIOUS
  <1> QED BY <1>1, <1>2, <1>3 DEF Quotient

\* Also where the divisor is 0.
LEMMA IntQuotientType ==
  ASSUME NEW a \in Int, NEW b \in Int
  PROVE  IntQuotient(a, b) \in Int
  <1>1. PICK m \in Int : m = INT_MAX
    BY IntMaxType
  <1>2. - m \in Int /\ 0 \in Int
    OBVIOUS
  <1>3. CASE b # 0
    BY <1>3, QuotientType DEF IntQuotient
  <1>4. CASE b = 0
    <2>1. IntQuotient(a, b) \in {m, - m, 0}
      BY <1>1, <1>4 DEF IntQuotient
    <2> QED BY <1>2, <2>1
  <1> QED BY <1>3, <1>4

\* The greater and the smaller of two numbers.
LEMMA MaxIs ==
  ASSUME NEW a \in Int, NEW b \in Int
  PROVE  Max({a, b}) = IF a >= b THEN a ELSE b
  BY DEF Max

\* The smaller of two numbers.
LEMMA MinIs ==
  ASSUME NEW a \in Int, NEW b \in Int
  PROVE  Min({a, b}) = IF a <= b THEN a ELSE b
  BY DEF Min

Speeds == 0 .. 14

\* The tables have a velocity for each speed, and one at full speed.
LEMMA TablesTyped ==
  ASSUME NEW t \in CalibratedTrains
  PROVE  /\ \A n \in 1 .. 14 : Of(t).velocity[n] \in Nat
         /\ Of(t).velocity[14] > 0 /\ Of(t).stopping[8] \in Nat
  <1>1. Of(t) \in {Train1, Train24, Train58, Train74, Train78, Train79}
    BY DEF Of, CalibratedTrains
  <1>2. CASE Of(t) = Train1
    BY <1>2 DEF Train1, Train
  <1>3. CASE Of(t) = Train24
    BY <1>3 DEF Train24, Train
  <1>4. CASE Of(t) = Train58
    BY <1>4 DEF Train58, Train
  <1>5. CASE Of(t) = Train74
    BY <1>5 DEF Train74, Train
  <1>6. CASE Of(t) = Train78
    BY <1>6 DEF Train78, Train
  <1>7. CASE Of(t) = Train79
    BY <1>7 DEF Train79, Train
  <1> QED BY <1>1, <1>2, <1>3, <1>4, <1>5, <1>6, <1>7

\* The velocity expected at a speed is a number.
LEMMA VelocityType ==
  ASSUME NEW t \in CalibratedTrains, NEW n \in Speeds
  PROVE  ExpectedVelocity(t, n) \in Int
  <1> DEFINE v == Of(t).velocity
  <1>1. (\A k \in 1 .. 14 : v[k] \in Nat) /\ 14 \in 1 .. 14 /\ 8 \in 1 .. 14
    BY TablesTyped
  <1>2. CASE n = 0
    BY <1>2 DEF ExpectedVelocity
  <1>3. CASE n # 0
    <2>1. n \in 1 .. 14 /\ n > 0
      BY <1>3 DEF Speeds
    <2>2. PICK a \in Nat, b \in Nat, c \in Nat : a = v[n] /\ b = v[8] /\ c = v[14]
      BY <1>1, <2>1
    <2>3. CASE a > 0
      BY <1>3, <2>1, <2>2, <2>3 DEF ExpectedVelocity
    <2>4. CASE a = 0 /\ n > 8
      <3>1. Quotient((n - 8) * (c - b), 6) \in Int
        <4>1. PICK x \in Int : x = (n - 8) * (c - b)
          BY <2>1
        <4>2. Quotient(x, 6) \in Int
          BY QuotientType
        <4> QED BY <4>1, <4>2
      <3>2. n # 0 /\ ~(v[n] > 0) /\ v[n] = 0 /\ n \notin 1 .. 8
        BY <1>3, <2>1, <2>2, <2>4
      <3>3. ExpectedVelocity(t, n) = v[8] + Quotient((n - 8) * (v[14] - v[8]), 6)
        BY <2>4, <3>2, Zenon DEF ExpectedVelocity
      <3> QED BY <2>2, <3>1, <3>3
    <2>5. CASE a = 0 /\ ~(n > 8)
      <3>1. Quotient(n * b, 8) \in Int
        <4>1. PICK x \in Int : x = n * b
          BY <2>1
        <4>2. Quotient(x, 8) \in Int
          BY QuotientType
        <4> QED BY <4>1, <4>2
      <3>2. n # 0 /\ ~(v[n] > 0) /\ v[n] = 0 /\ n \in 1 .. 8
        BY <1>3, <2>1, <2>2, <2>5
      <3>3. ExpectedVelocity(t, n) = Quotient(n * v[8], 8)
        BY <2>5, <3>2, Zenon DEF ExpectedVelocity
      <3> QED BY <2>2, <3>1, <3>3
    <2> QED BY <2>2, <2>3, <2>4, <2>5
  <1> QED BY <1>2, <1>3

\* So is the time it takes to get there.
LEMMA AccelerationType ==
  ASSUME NEW t \in CalibratedTrains, NEW v \in Int, NEW n \in Speeds
  PROVE  AccelerationTime(t, v, n) \in Int
  <1>1. PICK e \in Int, f \in Int : e = ExpectedVelocity(t, n) /\ f = ExpectedVelocity(t, 14)
    BY VelocityType DEF Speeds
  <1>2. f # 0
    <2>1. PICK c \in Nat : c = Of(t).velocity[14] /\ c > 0
      BY TablesTyped
    <2> QED BY <1>1, <2>1 DEF ExpectedVelocity
  <1>3. PICK d \in Int : d = 300 * Abs(e - v)
    BY DEF Abs
  <1> QED BY <1>1, <1>2, <1>3, QuotientType DEF AccelerationTime

-----------------------------------------------------------------------------
(* Descriptors.                                                            *)

Tds == [id : {0} \cup CalibratedTrains, speed : Speeds, velocity : Int, pos : Positions,
        observed_ago : 0 .. MaxAge, changed_ago : 0 .. MaxAge, accelerating : BOOLEAN,
        old_speed : Speeds, old_velocity : Int, has_next_sensor : BOOLEAN, next_sensor : SENSORS]

\* What VelocitySettles says of one descriptor.
Settles(td) ==
    ~ td.accelerating /\ td.old_speed # td.speed
        /\ td.observed_ago >= td.changed_ago /\ td.changed_ago < MaxAge =>
        td.velocity = ExpectedVelocity(td.id, td.speed)

\* The sensor a train is expected at next is the one the switches lead it to.
Expects(td, dir) == td.has_next_sensor => td.next_sensor = NextSensor(td.pos.sensor, dir).sensor

TdOK(td, dir) == td \in Tds /\ (td.id # 0 => Settles(td) /\ Expects(td, dir))

\* A moment is now this long ago.
LEMMA LaterIs ==
  ASSUME NEW age \in 0 .. MaxAge, NEW d \in Nat
  PROVE  Later(age, d) = IF age + d <= MaxAge THEN age + d ELSE MaxAge
  <1>1. MaxAge \in Nat
    BY OracleAssumption
  <1>2. age + d \in Int /\ age # -1
    BY <1>1
  <1>3. Min({age + d, MaxAge}) = IF age + d <= MaxAge THEN age + d ELSE MaxAge
    BY <1>1, <1>2, MinIs
  <1> QED BY <1>2, <1>3 DEF Later

\* Time passes for one descriptor: nothing in it but its moments changes.
LEMMA AgedOK ==
  ASSUME NEW td, NEW dir, TdOK(td, dir), NEW d \in Nat
  PROVE  /\ TdOK(Aged(td, d), dir) /\ Aged(td, d).id = td.id
         /\ d > 0 => Aged(td, d).changed_ago > 0 \/ MaxAge = 0
  <1>1. MaxAge \in Nat
    BY OracleAssumption
  <1>2. PICK o \in 0 .. MaxAge, c \in 0 .. MaxAge : o = td.observed_ago /\ c = td.changed_ago
    BY DEF TdOK, Tds
  <1>3. PICK oo \in 0 .. MaxAge, cc \in 0 .. MaxAge :
           /\ oo = Later(o, d) /\ cc = Later(c, d)
           /\ oo >= cc /\ cc < MaxAge => o >= c /\ c < MaxAge
           /\ d > 0 => cc > 0 \/ MaxAge = 0
    <2>1. PICK x, y : x = Later(o, d) /\ y = Later(c, d)
      OBVIOUS
    <2>2. /\ x = IF o + d <= MaxAge THEN o + d ELSE MaxAge
          /\ y = IF c + d <= MaxAge THEN c + d ELSE MaxAge
      BY <2>1, LaterIs
    <2>3. x \in 0 .. MaxAge /\ y \in 0 .. MaxAge
      BY <1>1, <2>2
    <2>4. x >= y /\ y < MaxAge => o >= c /\ c < MaxAge
      BY <1>1, <2>2
    <2>5. d > 0 => y > 0 \/ MaxAge = 0
      BY <1>1, <2>2
    <2> QED BY <2>1, <2>3, <2>4, <2>5
  <1> DEFINE aged == Aged(td, d)
  <1>4. aged = [td EXCEPT !.observed_ago = oo, !.changed_ago = cc]
    BY <1>2, <1>3 DEF Aged
  <1>5. aged \in Tds
    BY <1>4 DEF TdOK, Tds
  <1>6. /\ aged.id = td.id /\ aged.speed = td.speed /\ aged.velocity = td.velocity /\ aged.pos = td.pos
        /\ aged.observed_ago = oo /\ aged.changed_ago = cc /\ aged.accelerating = td.accelerating
        /\ aged.old_speed = td.old_speed /\ aged.has_next_sensor = td.has_next_sensor
        /\ aged.next_sensor = td.next_sensor
    BY <1>4 DEF TdOK, Tds
  <1> HIDE DEF aged
  <1>7. td.id # 0 => Settles(aged) /\ Expects(aged, dir)
    BY <1>2, <1>3, <1>6 DEF TdOK, Settles, Expects
  <1>8. TdOK(aged, dir)
    BY <1>5, <1>6, <1>7 DEF TdOK
  <1>9. aged.id = td.id /\ (d > 0 => aged.changed_ago > 0 \/ MaxAge = 0)
    BY <1>3, <1>6
  <1> QED BY <1>8, <1>9 DEF aged

\* interpolate_acceleration() leaves a descriptor whose velocity is what its speed says
\* whenever it takes the acceleration to be over (track_oracle.cc:228-268).
LEMMA InterpolatedOK ==
  ASSUME NEW td, NEW dir, TdOK(td, dir)
  PROVE  TdOK(Interpolated(td), dir) /\ Interpolated(td).id = td.id
  <1>1. CASE td.id = 0 \/ ~ td.accelerating
    BY <1>1 DEF Interpolated
  <1>2. CASE td.id # 0 /\ td.accelerating /\ td.old_speed = td.speed
    <2> DEFINE new == [td EXCEPT !.accelerating = FALSE]
    <2>1. Interpolated(td) = new
      BY <1>2 DEF Interpolated
    <2>2. new \in Tds /\ new.id = td.id /\ new.old_speed = new.speed
          /\ new.has_next_sensor = td.has_next_sensor /\ new.next_sensor = td.next_sensor /\ new.pos = td.pos
      BY <1>2 DEF TdOK, Tds
    <2> HIDE DEF new
    <2>3. TdOK(new, dir)
      BY <1>2, <2>2 DEF TdOK, Settles, Expects
    <2> QED BY <2>1, <2>2, <2>3
  <1>3. CASE td.id # 0 /\ td.accelerating /\ td.old_speed # td.speed
    <2>1. PICK id \in CalibratedTrains, n \in Speeds, w \in Int, t \in Nat :
             id = td.id /\ n = td.speed /\ w = td.old_velocity /\ t = td.changed_ago
      BY <1>3, OracleAssumption DEF TdOK, Tds
    <2>2. PICK v \in Int, t2 \in Int : v = ExpectedVelocity(id, n) /\ t2 = AccelerationTime(id, w, n)
      BY VelocityType, AccelerationType
    <2>3. CASE t >= t2
      <3> DEFINE new == [td EXCEPT !.velocity = v, !.accelerating = FALSE]
      <3>1. Interpolated(td) = new
        BY <1>3, <2>1, <2>2, <2>3 DEF Interpolated, Settled
      <3>2. new \in Tds /\ new.id = td.id /\ new.speed = td.speed /\ new.velocity = v
            /\ new.has_next_sensor = td.has_next_sensor /\ new.next_sensor = td.next_sensor /\ new.pos = td.pos
        BY <2>2 DEF TdOK, Tds
      <3> HIDE DEF new
      <3>3. Settles(new)
        BY <2>1, <2>2, <3>2 DEF Settles
      <3>4. TdOK(new, dir)
        BY <1>3, <3>2, <3>3 DEF TdOK, Expects
      <3> QED BY <3>1, <3>2, <3>4
    <2>4. CASE t < t2
      <3>1. PICK q \in Int : q = Quotient(t * (v - w), t2)
        <4>1. PICK x \in Int : x = t * (v - w)
          OBVIOUS
        <4>2. t2 # 0
          BY <2>4
        <4>3. Quotient(x, t2) \in Int
          BY <4>2, QuotientType
        <4> QED BY <4>1, <4>3
      <3> DEFINE new == [td EXCEPT !.velocity = w + q]
      <3>2. ~(t >= t2)
        BY <2>4
      <3>3. Interpolated(td) = new
        BY <1>3, <2>1, <2>2, <3>1, <3>2 DEF Interpolated
      <3>4. new \in Tds /\ new.id = td.id /\ new.accelerating = td.accelerating
            /\ new.has_next_sensor = td.has_next_sensor /\ new.next_sensor = td.next_sensor /\ new.pos = td.pos
        BY DEF TdOK, Tds
      <3> HIDE DEF new
      <3>5. TdOK(new, dir)
        BY <1>3, <3>4 DEF TdOK, Settles, Expects
      <3> QED BY <3>3, <3>4, <3>5
    <2> QED BY <2>3, <2>4
  <1> QED BY <1>1, <1>2, <1>3

\* A new speed starts an acceleration (set_train_speed(), track_oracle.cc:402-431).
LEMMA SpeedSetOK ==
  ASSUME NEW td, NEW dir, TdOK(td, dir), NEW n \in Speeds
  PROVE  TdOK(SpeedSet(td, n), dir) /\ SpeedSet(td, n).id = td.id
  <1>1. MaxAge \in Nat
    BY OracleAssumption
  <1>2. PICK o \in 0 .. MaxAge, c \in 0 .. MaxAge :
           /\ o = (IF td.speed = 0 /\ n > 0 THEN 0 ELSE td.observed_ago)
           /\ c = (IF td.speed # n THEN 0 ELSE td.changed_ago)
    BY <1>1 DEF TdOK, Tds
  <1> DEFINE a == td.accelerating \/ td.speed # n
  <1>6. a \in BOOLEAN /\ (a <=> td.accelerating \/ td.speed # n)
    OBVIOUS
  <1> DEFINE new == [td EXCEPT !.speed = n, !.old_speed = td.speed, !.old_velocity = td.velocity,
                               !.observed_ago = o, !.accelerating = a, !.changed_ago = c]
  <1>3. SpeedSet(td, n) = new
    BY <1>2 DEF SpeedSet
  <1> HIDE DEF a
  <1>4. new \in Tds /\ new.id = td.id /\ new.speed = n /\ new.old_speed = td.speed /\ new.accelerating = a
        /\ new.has_next_sensor = td.has_next_sensor /\ new.next_sensor = td.next_sensor /\ new.pos = td.pos
    BY <1>6 DEF TdOK, Tds
  <1> HIDE DEF new
  <1>5. TdOK(new, dir)
    BY <1>2, <1>4, <1>6 DEF TdOK, Settles, Expects
  <1> QED BY <1>3, <1>4, <1>5

\* distance_between() gives a number.
LEMMA DistanceType ==
  ASSUME GraphOK, NEW a \in SENSORS, NEW b, NEW dir
  PROVE  DistanceBetween(a, b, dir) \in Int
  <1>1. PICK from \in Places, to \in {PlaceOf[b]} : from = PlaceOf[a] /\ to = PlaceOf[b]
    BY SensorsPlaced
  <1>2. PICK way :
            /\ DistanceBetween(a, b, dir) = way[0][from]
            /\ \A k \in 0 .. MAX_ITERS + 1 : \A i \in Places :
                  way[k][i] = WayFrom(way, k, i, from, to, dir)
    BY <1>1, DistanceUnfolds
  <1> DEFINE T == {j \in 0 .. 41 : \A i \in Places : way[41 - j][i] \in Int}
  <1>3. MAX_ITERS + 1 = 41
    BY DEF MAX_ITERS
  <1>4. ASSUME NEW k \in 0 .. 41, NEW i \in Places,
               GivesUp(k) \/ \A j \in Places : way[k + 1][j] \in Int
        PROVE  way[k][i] \in Int
    <2>1. way[k][i] = WayFrom(way, k, i, from, to, dir)
      BY <1>2, <1>3
    <2>2. PICK e : e = NextEdge(i, dir)
      OBVIOUS
    <2>3. NoRoute \in Int /\ 0 \in Int
      BY DEF NoRoute
    <2>4. CASE i = to \/ GivesUp(k) \/ e = NoEdge \/ e.dest = from
      <3>1. way[k][i] \in {0, NoRoute}
        BY <2>1, <2>2, <2>4 DEF WayFrom
      <3> QED BY <2>3, <3>1
    <2>5. CASE ~(i = to \/ GivesUp(k) \/ e = NoEdge \/ e.dest = from)
      <3>1. e.dest \in Places /\ e.dist \in Nat
        BY <2>2, <2>5, NextEdgeIs
      <3>2. PICK x \in Int, d \in Nat : x = way[k + 1][e.dest] /\ d = e.dist
        BY <1>4, <2>5, <3>1
      <3>3. way[k][i] = Longer(x, d)
        BY <2>1, <2>2, <2>5, <3>2 DEF WayFrom
      <3> QED BY <2>3, <3>3 DEF Longer
    <2> QED BY <2>4, <2>5
  <1>5. 0 \in T
    <2>1. GivesUp(41) /\ 41 - 0 = 41 /\ 41 \in 0 .. 41
      BY DEF GivesUp, MAX_ITERS
    <2> QED BY <1>4, <2>1
  <1>6. \A j \in 0 .. 41 : j \in T /\ j < 41 => j + 1 \in T
    <2> SUFFICES ASSUME NEW j \in 0 .. 41, j \in T, j < 41 PROVE j + 1 \in T
      OBVIOUS
    <2>1. PICK k \in 0 .. 41 : k = 41 - (j + 1) /\ k + 1 = 41 - j
      OBVIOUS
    <2>2. \A i \in Places : way[k + 1][i] \in Int
      BY <2>1
    <2>3. \A i \in Places : way[k][i] \in Int
      BY <1>4, <2>2
    <2> QED BY <2>1, <2>3
  <1>7. 41 \in T
    <2> HIDE DEF T
    <2>1. \A j \in 0 .. 41 : j \in T
      BY <1>5, <1>6, AllUpTo
    <2> QED BY <2>1
  <1> QED BY <1>1, <1>2, <1>7

\* normalize() gives a position: the distances between sensors are not 0, so its loop ends.
LEMMA NormalizeType ==
  ASSUME GraphOK, NEW dir, NEW p \in Positions
  PROVE  Normalize(p, dir) \in Positions
  <1>1. PICK norm : /\ \A q : Normalize(q, dir) = norm[q]
                    /\ IsNorm(norm, dir)
    BY NormalizeUnfolds DEF IsNorm
  <1>2. \A s \in SENSORS, m \in Int : Pos(s, m) \in Positions
    BY SensorsPlaced DEF Pos, Positions
  <1> DEFINE Lost(s, m) == norm[Pos(s, m)] \notin Positions
             Fore == {m \in Nat : \E s \in SENSORS : Lost(s, m)}
             Back == {m \in Nat : \E s \in SENSORS : Lost(s, -m)}
  <1>3. ASSUME NEW s \in SENSORS, NEW m \in Int, Lost(s, m)
        PROVE  ~ Ends(Pos(s, m), dir)
    BY <1>1, <1>2, <1>3 DEF IsNorm
  <1>4. Fore = {}
    <2> SUFFICES ASSUME Fore # {} PROVE FALSE
      OBVIOUS
    <2>1. PICK m \in Fore : \A n \in Fore : m <= n
      <3>1. Fore \in SUBSET Nat
        OBVIOUS
      <3> HIDE DEF Fore
      <3> QED BY <3>1, LeastNatural
    <2>2. PICK s \in SENSORS : Lost(s, m)
      OBVIOUS
    <2>3. m \in Nat /\ m \in Int
      OBVIOUS
    <2>4. ~ Ends(Pos(s, m), dir)
      BY <1>3, <2>2, <2>3
    <2>5. m > 0 /\ NextSensor(s, dir) # Nowhere /\ ~ IsShortOf(Pos(s, m), NextSensor(s, dir))
      BY <2>3, <2>4 DEF Ends, Pos
    <2>6. PICK x \in SENSORS, d \in Nat : d > 0 /\ NextSensor(s, dir) = [sensor |-> x, distance |-> d]
      BY <2>5, NextSensorIsFind DEF IsFind
    <2>7. d <= m
      BY <2>3, <2>5, <2>6 DEF IsShortOf, Pos
    <2>8. norm[Pos(s, m)] = norm[Pos(x, m - d)]
      BY <1>1, <2>3, <2>5, <2>6, <2>7, NormForward
    <2>9. m - d \in Nat /\ m - d < m
      BY <2>3, <2>6, <2>7
    <2>10. m - d \in Fore
      BY <2>2, <2>8, <2>9
    <2> HIDE DEF Fore
    <2> QED BY <2>1, <2>3, <2>9, <2>10
  <1>5. Back = {}
    <2> SUFFICES ASSUME Back # {} PROVE FALSE
      OBVIOUS
    <2>1. PICK m \in Back : \A n \in Back : m <= n
      <3>1. Back \in SUBSET Nat
        OBVIOUS
      <3> HIDE DEF Back
      <3> QED BY <3>1, LeastNatural
    <2>2. PICK s \in SENSORS, b \in Int : Lost(s, b) /\ b = - m
      OBVIOUS
    <2>3. m \in Nat
      OBVIOUS
    <2>4. ~ Ends(Pos(s, b), dir)
      BY <1>3, <2>2
    <2>5. b < 0
      <3>1. ~(b > 0) /\ b # 0
        <4>1. ~(b > 0)
          BY <2>2, <2>3
        <4>2. b # 0
          BY <2>4 DEF Ends, Pos
        <4> QED BY <4>1, <4>2
      <3> QED BY <3>1
    <2>6. PrevSensor(s, dir) # Nowhere
      BY <2>4, <2>5 DEF Ends, Pos
    <2>7. PICK x \in SENSORS, d \in Nat : d > 0 /\ PrevSensor(s, dir) = [sensor |-> x, distance |-> d]
      BY <2>6, NextSensorIsFind DEF IsFind
    <2>8. norm[Pos(s, b)] = norm[Pos(x, b + d)]
      BY <1>1, <2>5, <2>7, NormBackward
    <2>9. CASE b + d >= 0
      <3>1. b + d \in Nat
        BY <2>9
      <3> QED BY <1>4, <2>2, <2>8, <3>1
    <2>10. CASE b + d < 0
      <3>1. PICK n \in Nat : n = m - d /\ n < m /\ - n = b + d
        BY <2>2, <2>3, <2>7, <2>10
      <3>2. n \in Back
        BY <2>2, <2>8, <3>1
      <3> HIDE DEF Back
      <3> QED BY <2>1, <2>3, <3>1, <3>2
    <2> QED BY <2>9, <2>10
  <1>6. PICK s \in SENSORS, m \in Int : p = Pos(s, m)
    BY SensorsPlaced DEF Pos, Positions
  <1>7. m \in Nat \/ \E n \in Nat : m = - n
    BY <1>6
  <1> QED BY <1>1, <1>4, <1>5, <1>6, <1>7

\* A sensor and a distance are a position.
LEMMA PosType ==
  ASSUME GraphOK, NEW s \in SENSORS, NEW m \in Int
  PROVE  Pos(s, m) \in Positions /\ Pos(s, m).sensor = s /\ Pos(s, m).offset_mm = m
  BY SensorsPlaced DEF Pos, Positions

\* A descriptor that has been told where the switches lead expects that sensor.
LEMMA ExpectingOK ==
  ASSUME GraphOK, NEW td \in Tds, NEW dir, td.id # 0 => Settles(td)
  PROVE  TdOK(WithNextSensor(td, dir), dir) /\ WithNextSensor(td, dir).id = td.id
         /\ WithNextSensor(td, dir).changed_ago = td.changed_ago
  <1>1. PICK s \in SENSORS : s = td.pos.sensor
    BY SensorsPlaced DEF Tds, Positions
  <1>2. PICK next : next = NextSensor(s, dir)
    OBVIOUS
  <1>3. CASE next = Nowhere
    <2> DEFINE new == [td EXCEPT !.has_next_sensor = FALSE]
    <2>1. WithNextSensor(td, dir) = new
      BY <1>1, <1>2, <1>3 DEF WithNextSensor
    <2>2. /\ new \in Tds /\ new.id = td.id /\ new.speed = td.speed /\ new.velocity = td.velocity
          /\ new.observed_ago = td.observed_ago /\ new.changed_ago = td.changed_ago
          /\ new.accelerating = td.accelerating /\ new.old_speed = td.old_speed /\ ~ new.has_next_sensor
      BY DEF Tds
    <2> HIDE DEF new
    <2>3. TdOK(new, dir)
      BY <2>2 DEF TdOK, Settles, Expects
    <2> QED BY <2>1, <2>2, <2>3
  <1>4. CASE next # Nowhere
    <2>1. PICK x \in SENSORS : x = next.sensor
      <3>1. PICK y \in SENSORS, d \in Nat : next = [sensor |-> y, distance |-> d]
        BY <1>2, <1>4, NextSensorIsFind DEF IsFind
      <3> QED BY <3>1
    <2> DEFINE new == [td EXCEPT !.has_next_sensor = TRUE, !.next_sensor = x]
    <2>2. WithNextSensor(td, dir) = new
      BY <1>1, <1>2, <1>4, <2>1 DEF WithNextSensor
    <2>3. /\ new \in Tds /\ new.id = td.id /\ new.speed = td.speed /\ new.velocity = td.velocity
          /\ new.observed_ago = td.observed_ago /\ new.changed_ago = td.changed_ago
          /\ new.accelerating = td.accelerating /\ new.old_speed = td.old_speed
          /\ new.next_sensor = x /\ new.pos = td.pos
      BY DEF Tds
    <2> HIDE DEF new
    <2>4. TdOK(new, dir)
      BY <1>1, <1>2, <2>1, <2>3 DEF TdOK, Settles, Expects
    <2> QED BY <2>2, <2>3, <2>4
  <1> QED BY <1>3, <1>4

\* A train turned round expects a sensor the other way (reverse_train(),
\* track_oracle.cc:433-469).
LEMMA ReversedOK ==
  ASSUME GraphOK, NEW td, NEW dir, TdOK(td, dir)
  PROVE  TdOK(Reversed(td, dir), dir) /\ Reversed(td, dir).id = td.id
  <1>1. CASE td.speed # 0
    BY <1>1 DEF Reversed
  <1>2. CASE td.speed = 0
    <2>1. PICK s \in SENSORS, m \in Int : s = td.pos.sensor /\ m = td.pos.offset_mm
      BY SensorsPlaced DEF TdOK, Tds, Positions
    <2>2. PICK p \in Positions : p = Pos(InvertSensor(s), - m)
      <3>1. InvertSensor(s) \in SENSORS /\ - m \in Int
        BY NextSensorIsFind
      <3> QED BY <3>1, SensorsPlaced DEF Pos, Positions
    <2> DEFINE new == [td EXCEPT !.pos = p]
    <2>3. Reversed(td, dir) = WithNextSensor(new, dir)
      BY <1>2, <2>1, <2>2 DEF Reversed
    <2>4. /\ new \in Tds /\ new.id = td.id /\ new.speed = td.speed /\ new.velocity = td.velocity
          /\ new.observed_ago = td.observed_ago /\ new.changed_ago = td.changed_ago
          /\ new.accelerating = td.accelerating /\ new.old_speed = td.old_speed
      BY DEF TdOK, Tds
    <2> HIDE DEF new
    <2>5. new.id # 0 => Settles(new)
      BY <2>4 DEF TdOK, Settles
    <2> QED BY <2>3, <2>4, <2>5, ExpectingOK
  <1> QED BY <1>1, <1>2

\* A velocity measured leaves a descriptor: the time since the last observation is not 0.
LEMMA MeasuredType ==
  ASSUME NEW td \in Tds, td.id # 0, td.observed_ago > 0, NEW mm \in Int
  PROVE  Measured(td, mm) \in Tds /\ Measured(td, mm).id = td.id
         /\ Measured(td, mm).changed_ago = td.changed_ago
  <1>1. PICK id \in CalibratedTrains, n \in Speeds, w \in Int, u \in Int, t1 \in Nat, o \in Nat :
           /\ id = td.id /\ n = td.speed /\ w = td.old_velocity /\ u = td.velocity /\ t1 = td.changed_ago
           /\ o = td.observed_ago /\ o > 0
    BY OracleAssumption DEF Tds
  <1>2. PICK v \in Int : v = Quotient(TICKS_PER_SEC * mm, o)
    <2>1. PICK x \in Int : x = TICKS_PER_SEC * mm
      BY DEF TICKS_PER_SEC
    <2> QED BY <1>1, <2>1, QuotientType
  <1>3. PICK v2 \in Int, t2 \in Int : v2 = ExpectedVelocity(id, n) /\ t2 = AccelerationTime(id, w, n)
    BY VelocityType, AccelerationType
  <1>4. CASE t1 < t2
    <2>1. PICK q \in Int : q = Quotient((v2 - v) * t1, t2 - t1)
      <3>1. PICK x \in Int, y \in Int : x = (v2 - v) * t1 /\ y = t2 - t1
        BY <1>1
      <3>2. y # 0
        BY <1>1, <1>4, <3>1
      <3>3. Quotient(x, y) \in Int
        BY <3>2, QuotientType
      <3> QED BY <3>1, <3>3
    <2>2. PICK z \in Int : z = Min({1000, Max({v - q, 0})})
      <3>1. PICK x \in Int : x = Max({v - q, 0})
        BY MaxIs
      <3>2. Min({1000, x}) \in Int
        BY MinIs
      <3> QED BY <3>1, <3>2
    <2>3. Measured(td, mm) = [td EXCEPT !.velocity = v, !.old_velocity = z]
      BY <1>1, <1>2, <1>3, <1>4, <2>1, <2>2 DEF Measured
    <2> QED BY <2>3 DEF Tds
  <1>5. CASE ~(t1 < t2)
    <2>1. PICK z \in Int : z = ewma4(u, v)
      <3>1. Quotient(3 * u + v, 4) \in Int
        <4>1. PICK x \in Int : x = 3 * u + v
          OBVIOUS
        <4>2. Quotient(x, 4) \in Int
          BY QuotientType
        <4> QED BY <4>1, <4>2
      <3> QED BY <3>1 DEF ewma4
    <2>2. Measured(td, mm) = [td EXCEPT !.velocity = z]
      BY <1>1, <1>2, <1>3, <1>5, <2>1 DEF Measured
    <2> QED BY <2>2 DEF Tds
  <1> QED BY <1>4, <1>5

\* A sensor is attributed after the wait for it, so the speed has not been changed just now.
LEMMA ObservedOK ==
  ASSUME GraphOK, NEW td, NEW dir, TdOK(td, dir), td.id # 0, td.changed_ago > 0 \/ MaxAge = 0,
         NEW s \in SENSORS
  PROVE  TdOK(Observed(td, s, dir), dir) /\ Observed(td, s, dir).id = td.id
         /\ Observed(td, s, dir).changed_ago = td.changed_ago
  <1>1. MaxAge \in Nat
    BY OracleAssumption
  <1>2. PICK way : way = WayTo(td.pos, Pos(s, 0), dir)
    OBVIOUS
  <1>3. CASE s = td.pos.sensor
    <2> DEFINE new == [td EXCEPT !.observed_ago = 0]
    <2>1. Observed(td, s, dir) = new
      BY <1>3 DEF Observed
    <2>2. /\ new \in Tds /\ new.id = td.id /\ new.observed_ago = 0 /\ new.changed_ago = td.changed_ago
          /\ new.pos = td.pos /\ new.has_next_sensor = td.has_next_sensor
          /\ new.next_sensor = td.next_sensor
      BY <1>1 DEF TdOK, Tds
    <2>3. td.changed_ago \in Nat
      BY <1>1 DEF TdOK, Tds
    <2> HIDE DEF new
    <2>4. Settles(new)
      BY <1>1, <2>2, <2>3 DEF Settles
    <2>5. Expects(new, dir)
      BY <2>2 DEF TdOK, Expects
    <2> QED BY <2>1, <2>2, <2>4, <2>5 DEF TdOK
  <1>4. CASE s # td.pos.sensor /\ (~ way.known \/ td.observed_ago <= 0)
    BY <1>2, <1>4 DEF Observed
  <1>5. CASE s # td.pos.sensor /\ ~(~ way.known \/ td.observed_ago <= 0)
    <2>1. PICK mm \in Int : mm = way.mm
      <3>1. PICK a \in SENSORS, m \in Int : a = td.pos.sensor /\ m = td.pos.offset_mm
        BY SensorsPlaced DEF TdOK, Tds, Positions
      <3>2. PICK d \in Int : d = DistanceBetween(a, s, dir)
        BY DistanceType
      <3>3. way.mm = d + 0 - m
        BY <1>2, <3>1, <3>2 DEF WayTo, Pos
      <3> QED BY <3>3
    <2>2. PICK o \in Nat : o = td.observed_ago /\ o > 0
      BY <1>1, <1>5 DEF TdOK, Tds
    <2>3. PICK m \in Tds : m = Measured(td, mm) /\ m.id = td.id /\ m.changed_ago = td.changed_ago
      BY <2>2, MeasuredType DEF TdOK
    <2>4. PICK p \in Positions : p = Pos(s, 0)
      BY PosType
    <2> DEFINE new == [m EXCEPT !.pos = p, !.observed_ago = 0]
    <2>5. Observed(td, s, dir) = WithNextSensor(new, dir)
      BY <1>2, <1>5, <2>1, <2>3, <2>4 DEF Observed
    <2>6. new \in Tds /\ new.id = td.id /\ new.changed_ago = td.changed_ago /\ new.observed_ago = 0
      <3>1. 0 \in 0 .. MaxAge
        BY <1>1
      <3>2. new \in Tds
        BY <3>1 DEF Tds
      <3>3. new.id = m.id /\ new.changed_ago = m.changed_ago /\ new.observed_ago = 0
        BY DEF Tds
      <3> HIDE DEF new
      <3> QED BY <2>3, <3>2, <3>3
    <2>7. td.changed_ago \in Nat
      BY <1>1 DEF TdOK, Tds
    <2> HIDE DEF new
    <2>8. Settles(new)
      BY <1>1, <2>6, <2>7 DEF Settles
    <2> QED BY <2>5, <2>6, <2>8, ExpectingOK
  <1> QED BY <1>3, <1>4, <1>5

-----------------------------------------------------------------------------
(* Slots.                                                                  *)

TrainsOK(trains, dir) ==
    trains \in [1 .. MAX_TRAINS -> Tds] /\ \A k \in 1 .. MAX_TRAINS : TdOK(trains[k], dir)

\* The slots are those of the same trains.
SameIds(trains, was) == \A k \in 1 .. MAX_TRAINS : trains[k].id = was[k].id

\* The first of some slots is one of them.
LEMMA FirstIs ==
  ASSUME NEW T \in SUBSET Nat, T # {}
  PROVE  Min(T) \in T
  <1>1. PICK m \in T : \A n \in T : m <= n
    BY LeastNatural
  <1> QED BY <1>1 DEF Min

\* The slot found is one with that train.
LEMMA SlotIs ==
  ASSUME NEW trains, DOMAIN trains = 1 .. MAX_TRAINS, NEW id
  PROVE  \/ SlotOf(trains, id) = 0 /\ \A k \in 1 .. MAX_TRAINS : trains[k].id # id
         \/ SlotOf(trains, id) \in 1 .. MAX_TRAINS /\ trains[SlotOf(trains, id)].id = id
  <1> DEFINE T == {k \in DOMAIN trains : trains[k].id = id}
  <1>1. SlotOf(trains, id) = IF T = {} THEN 0 ELSE Min(T)
    BY Zenon DEF SlotOf, FirstSlot
  <1>2. T \in SUBSET Nat
    BY OracleAssumption
  <1>3. T # {} => Min(T) \in T
    BY <1>2, FirstIs
  <1> QED BY <1>1, <1>3

\* One turn of the loop of update_sensors().
LEMMA AttributedOK ==
  ASSUME GraphOK, NEW trains, NEW dir, TrainsOK(trains, dir), NEW s \in SENSORS,
         \A k \in 1 .. MAX_TRAINS : trains[k].changed_ago > 0 \/ MaxAge = 0
  PROVE  LET new == Attributed(trains, s, dir)
         IN  /\ TrainsOK(new, dir) /\ SameIds(new, trains)
             /\ \A k \in 1 .. MAX_TRAINS : new[k].changed_ago > 0 \/ MaxAge = 0
  <1> DEFINE T == {k \in DOMAIN trains : IsAhead(trains[k], s, dir)}
             slot == IF T = {} THEN 0 ELSE Min(T)
             new == Attributed(trains, s, dir)
  <1>1. new = IF slot = 0 THEN trains ELSE [trains EXCEPT ![slot] = Observed(@, s, dir)]
    BY Zenon DEF Attributed, FirstSlot
  <1>2. T \in SUBSET Nat /\ DOMAIN trains = 1 .. MAX_TRAINS
    BY OracleAssumption DEF TrainsOK
  <1>3. CASE T = {}
    <2>1. new = trains
      BY <1>1, <1>3
    <2> HIDE DEF new
    <2>2. TrainsOK(new, dir) /\ SameIds(new, trains)
          /\ \A k \in 1 .. MAX_TRAINS : new[k].changed_ago > 0 \/ MaxAge = 0
      BY <2>1 DEF SameIds
    <2> QED BY <2>2 DEF new
  <1>4. CASE T # {}
    <2>1. Min(T) \in T
      BY <1>2, <1>4, FirstIs
    <2>2. PICK k \in 1 .. MAX_TRAINS : k = slot /\ IsAhead(trains[k], s, dir)
      BY <1>2, <1>4, <2>1
    <2>3. k # 0
      BY OracleAssumption
    <2>4. PICK td : td = trains[k] /\ td.id # 0 /\ TdOK(td, dir) /\ (td.changed_ago > 0 \/ MaxAge = 0)
      BY <2>2 DEF TrainsOK, IsAhead
    <2>5. PICK ob : /\ ob = Observed(td, s, dir) /\ TdOK(ob, dir) /\ ob.id = td.id
                    /\ ob.changed_ago = td.changed_ago
      BY <2>4, ObservedOK
    <2>6. new = [trains EXCEPT ![k] = ob]
      BY <1>1, <2>2, <2>3, <2>4, <2>5
    <2> HIDE DEF new, slot, T
    <2>7. /\ new \in [1 .. MAX_TRAINS -> Tds]
          /\ \A j \in 1 .. MAX_TRAINS : new[j] = IF j = k THEN ob ELSE trains[j]
      BY <1>2, <2>5, <2>6 DEF TrainsOK, TdOK
    <2>8. TrainsOK(new, dir) /\ SameIds(new, trains)
          /\ \A j \in 1 .. MAX_TRAINS : new[j].changed_ago > 0 \/ MaxAge = 0
      BY <2>4, <2>5, <2>7 DEF TrainsOK, SameIds
    <2> QED BY <2>8 DEF new
  <1> QED BY <1>3, <1>4

\* A recursive definition that goes up from zero, a step at a time, defines something.
Stays(step, n, all) == \A k \in 1 .. n : \A x \in all : step[k][x] \in all

Builds(f, n, all, zero, step) ==
    f \in [0 .. n -> all] /\ f[0] = zero /\ \A k \in 1 .. n : f[k] = step[k][f[k - 1]]

\* A function defined step by step is there, and is what its steps make of it.
LEMMA StepsUnfold ==
  ASSUME NEW n, NEW all, NEW zero, NEW step, n \in Nat, zero \in all, Stays(step, n, all)
  PROVE  \E f : Builds(f, n, all, zero, step)
  <1> DEFINE UpTo(m, f) == f[0] = zero /\ \A k \in 1 .. m : f[k] = step[k][f[k - 1]]
             T == {m \in 0 .. n : \E f \in [0 .. m -> all] : UpTo(m, f)}
  <1>1. 0 \in T
    <2> DEFINE f == [k \in 0 .. 0 |-> zero]
    <2>1. f \in [0 .. 0 -> all] /\ f[0] = zero
      OBVIOUS
    <2> HIDE DEF f
    <2>2. UpTo(0, f)
      BY <2>1
    <2> QED BY <2>1, <2>2
  <1>2. ASSUME NEW m \in 0 .. n, m \in T, m < n
        PROVE  m + 1 \in T
    <2>1. PICK f \in [0 .. m -> all] : UpTo(m, f)
      BY <1>2
    <2>2. PICK x \in all : x = step[m + 1][f[m]]
      BY <1>2 DEF Stays
    <2> DEFINE g == [k \in 0 .. m + 1 |-> IF k = m + 1 THEN x ELSE f[k]]
    <2>3. \A k \in 0 .. m : g[k] = f[k] /\ f[k] \in all
      OBVIOUS
    <2>4. g[m + 1] = x /\ g \in [0 .. m + 1 -> all]
      BY <2>3
    <2> HIDE DEF g
    <2>5. \A k \in 1 .. m : g[k] = step[k][g[k - 1]]
      <3> SUFFICES ASSUME NEW k \in 1 .. m PROVE g[k] = step[k][g[k - 1]]
        OBVIOUS
      <3>1. k - 1 \in 0 .. m /\ k \in 0 .. m
        OBVIOUS
      <3> QED BY <2>1, <2>3, <3>1
    <2>6. g[m + 1] = step[m + 1][g[m + 1 - 1]]
      <3>1. m + 1 - 1 = m /\ m \in 0 .. m
        OBVIOUS
      <3> QED BY <2>2, <2>3, <2>4, <3>1
    <2>7. g[0] = zero
      <3>1. 0 \in 0 .. m
        OBVIOUS
      <3> QED BY <2>1, <2>3, <3>1
    <2>8. UpTo(m + 1, g)
      <3> SUFFICES ASSUME NEW k \in 1 .. m + 1 PROVE g[k] = step[k][g[k - 1]]
        BY <2>7
      <3>1. k \in 1 .. m \/ k = m + 1
        OBVIOUS
      <3> QED BY <3>1, <2>5, <2>6
    <2>9. m + 1 \in 0 .. n
      BY <1>2
    <2> HIDE DEF UpTo
    <2> QED BY <2>4, <2>8, <2>9
  <1>3. n \in T
    <2> HIDE DEF T
    <2>1. \A k \in 0 .. n : k \in T
      BY <1>1, <1>2, AllUpTo
    <2> QED BY <2>1
  <1> QED BY <1>3 DEF Builds

\* The loop of update_sensors().
LEMMA AttributionsOK ==
  ASSUME GraphOK, NEW trains, NEW dir, TrainsOK(trains, dir), NEW lit, lit \subseteq SENSORS,
         \A k \in 1 .. MAX_TRAINS : trains[k].changed_ago > 0 \/ MaxAge = 0
  PROVE  TrainsOK(Attributions(trains, lit, dir), dir) /\ SameIds(Attributions(trains, lit, dir), trains)
  <1> DEFINE Good(new) == /\ TrainsOK(new, dir) /\ SameIds(new, trains)
                          /\ \A k \in 1 .. MAX_TRAINS : new[k].changed_ago > 0 \/ MaxAge = 0
             Turned1(n, x) == IF n - 1 \in lit THEN Attributed(x, n - 1, dir) ELSE x
             all == {new \in [1 .. MAX_TRAINS -> Tds] : Good(new)}
             Body(f) == [n \in 0 .. 80 |-> IF n = 0 THEN trains
                             ELSE IF n - 1 \in lit THEN Attributed(f[n - 1], n - 1, dir) ELSE f[n - 1]]
             upto == CHOOSE f : f = Body(f)
             step == [n \in 1 .. 80 |-> [x \in all |-> Turned1(n, x)]]
  <1>1. Attributions(trains, lit, dir) = upto[80]
    BY Zenon DEF Attributions
  <1>2. Good(trains) /\ trains \in [1 .. MAX_TRAINS -> Tds]
    BY DEF SameIds, TrainsOK
  <1> HIDE DEF Good
  <1>3. ASSUME NEW x \in all, NEW n \in 1 .. 80
        PROVE  Turned1(n, x) \in all
    <2>1. CASE n - 1 \notin lit
      BY <2>1
    <2>2. CASE n - 1 \in lit
      <3>1. PICK s \in SENSORS : s = n - 1
        BY <2>2
      <3>2. Good(x)
        BY <1>2
      <3>3. PICK new : new = Attributed(x, s, dir)
        OBVIOUS
      <3>4. /\ TrainsOK(new, dir) /\ SameIds(new, x)
            /\ \A k \in 1 .. MAX_TRAINS : new[k].changed_ago > 0 \/ MaxAge = 0
        BY <3>2, <3>3, AttributedOK DEF Good
      <3>5. Good(new)
        BY <3>2, <3>4 DEF Good, SameIds
      <3>7. new \in [1 .. MAX_TRAINS -> Tds]
        BY <3>4 DEF TrainsOK
      <3>8. new \in all
        BY <3>5, <3>7
      <3> QED BY <2>2, <3>1, <3>3, <3>8
    <2> QED BY <2>1, <2>2
  <1>4. PICK f \in [0 .. 80 -> all] : f[0] = trains /\ \A k \in 1 .. 80 : f[k] = Turned1(k, f[k - 1])
    <2>2. trains \in all /\ 80 \in Nat
      BY <1>2
    <2> HIDE DEF all, Turned1
    <2>1. \A k \in 1 .. 80 : \A x \in all : step[k][x] = Turned1(k, x)
      OBVIOUS
    <2> HIDE DEF step
    <2>3. PICK f \in [0 .. 80 -> all] : f[0] = trains /\ \A k \in 1 .. 80 : f[k] = step[k][f[k - 1]]
      <3>1. \A k \in 1 .. 80 : \A x \in all : step[k][x] \in all
        BY <2>1, <1>3
      <3> HIDE DEF Body, upto, Good
      <3>2. PICK some, st : some = all /\ st = step
        OBVIOUS
      <3>3. trains \in some /\ 80 \in Nat /\ Stays(st, 80, some)
        <4>1. Stays(st, 80, some)
          BY <3>1, <3>2 DEF Stays
        <4> QED BY <2>2, <3>2, <4>1
      <3>4. \E f : Builds(f, 80, some, trains, st)
        BY <3>3, StepsUnfold
      <3> QED BY <3>2, <3>4 DEF Builds
    <2>4. ASSUME NEW k \in 1 .. 80 PROVE f[k] = Turned1(k, f[k - 1])
      <3>1. f[k - 1] \in all
        OBVIOUS
      <3> QED BY <2>1, <2>3, <3>1
    <2> QED BY <2>3, <2>4
  <1>5. f = Body(f)
    <2>1. ASSUME NEW n \in 0 .. 80
          PROVE  f[n] = IF n = 0 THEN trains
                        ELSE IF n - 1 \in lit THEN Attributed(f[n - 1], n - 1, dir) ELSE f[n - 1]
      <3>1. n # 0 => n \in 1 .. 80
        OBVIOUS
      <3> QED BY <1>4, <3>1
    <2>2. f = [n \in 0 .. 80 |-> f[n]]
      OBVIOUS
    <2>3. f = [n \in 0 .. 80 |-> IF n = 0 THEN trains
                        ELSE IF n - 1 \in lit THEN Attributed(f[n - 1], n - 1, dir) ELSE f[n - 1]]
      BY <2>1, <2>2
    <2> QED BY <2>3
  <1>6. upto = Body(upto)
    <2> HIDE DEF Body
    <2> QED BY <1>5
  <1>7. \A n \in 0 .. 80 : upto[n] = IF n = 0 THEN trains ELSE Turned1(n, upto[n - 1])
    <2> HIDE DEF upto
    <2> QED BY <1>6
  <1> HIDE DEF upto, Body, Turned1
  <1>8. \A n \in 0 .. 80 : upto[n] \in all
    <2> DEFINE T == {n \in 0 .. 80 : upto[n] \in all}
    <2>0. trains \in all
      BY <1>2
    <2> HIDE DEF all
    <2>1. 0 \in T
      <3>1. trains \in all
        BY <2>0
      <3> QED BY <1>7, <3>1
    <2>2. ASSUME NEW n \in 0 .. 80, n \in T, n < 80 PROVE n + 1 \in T
      <3>1. n + 1 \in 1 .. 80 /\ n + 1 - 1 = n /\ n + 1 # 0 /\ n + 1 \in 0 .. 80
        BY <2>2
      <3>2. upto[n + 1] = Turned1(n + 1, upto[n])
        BY <1>7, <3>1
      <3>3. Turned1(n + 1, upto[n]) \in all
        BY <1>3, <2>2, <3>1
      <3> QED BY <3>1, <3>2, <3>3
    <2> HIDE DEF T
    <2>3. \A n \in 0 .. 80 : n \in T
      BY <2>1, <2>2, AllUpTo
    <2> QED BY <2>3 DEF T
  <1>9. Good(upto[80])
    <2>1. 80 \in 0 .. 80
      OBVIOUS
    <2>2. upto[80] \in all
      BY <1>8, <2>1, Zenon
    <2> QED BY <2>2
  <1> QED BY <1>1, <1>9 DEF Good

-----------------------------------------------------------------------------
(* The search in one go.                                                   *)

\* What the search has a way back from, it has a distance of.
Known(n) == \A i \in Places : n.prev[i] # Null => n.dist[i] < INT_MAX

Good(n, from) == NoteSound(n, from) /\ AllRelaxed(n) /\ Known(n)

\* What is known after an edge has been looked at.
LEMMA RelaxedTyped ==
  ASSUME GraphOK, NEW n \in Notes, NEW i \in Places, NEW k \in DOMAIN At(i).edge
  PROVE  Relaxed(n, i, At(i).edge[k]) \in Notes /\ (Known(n) => Known(Relaxed(n, i, At(i).edge[k])))
  <1>1. PICK e \in Edges : e = At(i).edge[k]
    BY EdgesTyped
  <1>2. e.dest \in Places /\ e.dist \in Nat
    BY DEF Edges
  <1>3. CASE Refused(n, i, e)
    BY <1>1, <1>3 DEF Relaxed
  <1>4. CASE ~ Refused(n, i, e)
    <2>1. n.dist[i] \in Nat /\ n.dist[e.dest] \in Nat /\ n.dist[e.dest] <= INT_MAX /\ INT_MAX \in Nat
      BY <1>2, NoteTyped, IntMaxType
    <2>2. n.dist[i] + e.dist < n.dist[e.dest] /\ e.dest \notin n.visited
      BY <1>2, <1>4, <2>1 DEF Refused
    <2>3. PICK m : m = Relaxed(n, i, e)
      OBVIOUS
    <2>4. /\ m \in Notes
          /\ \A j \in Places : m.dist[j] = IF j = e.dest THEN n.dist[i] + e.dist ELSE n.dist[j]
          /\ \A j \in Places : m.prev[j] = IF j = e.dest THEN i ELSE n.prev[j]
      BY <2>2, <2>3, RelaxedIs
    <2>5. Known(n) => Known(m)
      BY <1>2, <2>1, <2>2, <2>4 DEF Known
    <2> QED BY <1>1, <2>3, <2>4, <2>5
  <1> QED BY <1>3, <1>4

\* What is known after a node has been visited.
LEMMA VisitedTyped ==
  ASSUME GraphOK, NEW n \in Notes, NEW i \in Places
  PROVE  Visited(n, i) \in Notes /\ (Known(n) => Known(Visited(n, i)))
  <1>1. PICK f : /\ f[0] = [n EXCEPT !.visited = @ \cup {i}]
                 /\ \A k \in 1 .. Len(At(i).edge) : f[k] = Relaxed(f[k - 1], i, At(i).edge[k])
                 /\ Visited(n, i) = f[Len(At(i).edge)]
    BY VisitedIs
  <1>2. DOMAIN At(i).edge = 1 .. Len(At(i).edge) /\ Len(At(i).edge) \in 0 .. 2
    BY EdgesTyped
  <1>3. PICK x : x = f[0]
    OBVIOUS
  <1>4. x \in Notes /\ (Known(n) => Known(x))
    <2>1. x = [n EXCEPT !.visited = @ \cup {i}]
      BY <1>1, <1>3
    <2>2. x \in Notes /\ x.dist = n.dist /\ x.prev = n.prev
      BY <2>1 DEF Notes
    <2> QED BY <2>2 DEF Known
  <1>5. CASE Len(At(i).edge) = 0
    BY <1>1, <1>3, <1>4, <1>5
  <1>6. ASSUME Len(At(i).edge) >= 1
        PROVE  f[1] \in Notes /\ (Known(n) => Known(f[1]))
    <2>1. 1 \in 1 .. Len(At(i).edge) /\ 1 - 1 = 0
      BY <1>2, <1>6
    <2>2. f[1] = Relaxed(x, i, At(i).edge[1])
      BY <1>1, <1>3, <2>1
    <2> QED BY <1>2, <1>4, <2>1, <2>2, RelaxedTyped
  <1>7. ASSUME Len(At(i).edge) >= 2
        PROVE  f[2] \in Notes /\ (Known(n) => Known(f[2]))
    <2>1. 2 \in 1 .. Len(At(i).edge) /\ 2 - 1 = 1 /\ Len(At(i).edge) >= 1
      BY <1>2, <1>7
    <2>2. PICK y : y = f[1]
      OBVIOUS
    <2>3. f[2] = Relaxed(y, i, At(i).edge[2]) /\ y \in Notes /\ (Known(n) => Known(y))
      BY <1>1, <1>6, <2>1, <2>2
    <2>4. Relaxed(y, i, At(i).edge[2]) \in Notes /\ (Known(y) => Known(Relaxed(y, i, At(i).edge[2])))
      BY <1>2, <2>1, <2>3, RelaxedTyped
    <2> QED BY <2>3, <2>4
  <1> QED BY <1>1, <1>2, <1>5, <1>6, <1>7

\* What the search ends with.
LEMMA SearchIsGood ==
  ASSUME GraphOK, NEW from \in Places, NEW to
  PROVE  Good(Search(from, to), from)
  <1> DEFINE Done(n) == Nearest(n) = {} \/ to \in Nearest(n)
             Seen(n) == Visited(n, CHOOSE i \in Nearest(n) : TRUE)
             Zero == [n \in Notes |-> n]
             Turn(g) == [n \in Notes |-> IF Done(n) THEN n ELSE g[Seen(n)]]
             all == {g \in [Notes -> Notes] : \A n \in Notes : Good(n, from) => Good(g[n], from)}
             step == [k \in 1 .. TRACK_MAX |-> [g \in all |-> Turn(g)]]
             Body(f) == [k \in 0 .. TRACK_MAX |->
                            [note \in Notes |->
                                LET next == Nearest(note)
                                IN  IF k = 0 \/ next = {} \/ to \in next THEN note
                                    ELSE f[k - 1][Visited(note, CHOOSE i \in next : TRUE)]]]
             after == CHOOSE f : f = Body(f)
  <1>1. Search(from, to) = after[TRACK_MAX][Unsearched(from)]
    BY DEF Search
  <1>2. ASSUME NEW n \in Notes, ~ Done(n)
        PROVE  Seen(n) \in Notes /\ (Good(n, from) => Good(Seen(n), from))
    <2>1. PICK i : i = (CHOOSE j \in Nearest(n) : TRUE) /\ i \in Nearest(n)
      BY <1>2
    <2>2. i \in Places
      BY <2>1 DEF Nearest, Open
    <2>3. Seen(n) = Visited(n, i)
      BY <2>1
    <2>4. Visited(n, i) \in Notes /\ (Known(n) => Known(Visited(n, i)))
      BY <2>2, VisitedTyped
    <2>5. Good(n, from) => NoteSound(Visited(n, i), from) /\ AllRelaxed(Visited(n, i))
      BY <2>1, VisitStep DEF Good
    <2> HIDE DEF Seen
    <2> QED BY <2>3, <2>4, <2>5 DEF Good
  <1> HIDE DEF Done, Seen
  <1>3. ASSUME NEW g \in all PROVE Turn(g) \in all
    <2>1. ASSUME NEW n \in Notes
          PROVE  Turn(g)[n] \in Notes /\ (Good(n, from) => Good(Turn(g)[n], from))
      <3>1. Turn(g)[n] = IF Done(n) THEN n ELSE g[Seen(n)]
        OBVIOUS
      <3>2. CASE Done(n)
        BY <3>1, <3>2
      <3>3. CASE ~ Done(n)
        BY <3>1, <3>3, <1>2
      <3> QED BY <3>2, <3>3
    <2>2. Turn(g) = [n \in Notes |-> Turn(g)[n]]
      OBVIOUS
    <2> HIDE DEF Turn
    <2> QED BY <2>1, <2>2
  <1>4. Zero \in all
    OBVIOUS
  <1>5. TRACK_MAX \in Nat
    BY DEF TRACK_MAX
  <1>6. PICK f : f[0] = Zero /\ \A k \in 1 .. TRACK_MAX : f[k] = Turn(f[k - 1]) /\ f[k - 1] \in all
    <2> HIDE DEF Body, after, all, Zero, Turn
    <2>1. \A k \in 1 .. TRACK_MAX : \A g \in all : step[k][g] = Turn(g)
      OBVIOUS
    <2> HIDE DEF step
    <2>2. PICK some, st, zero : some = all /\ st = step /\ zero = Zero
      OBVIOUS
    <2>3. zero \in some /\ TRACK_MAX \in Nat /\ Stays(st, TRACK_MAX, some)
      <3>1. Stays(st, TRACK_MAX, some)
        BY <1>3, <2>1, <2>2 DEF Stays
      <3> QED BY <1>4, <1>5, <2>2, <3>1
    <2>4. PICK f : Builds(f, TRACK_MAX, some, zero, st)
      BY <2>3, StepsUnfold
    <2>5. f \in [0 .. TRACK_MAX -> some] /\ f[0] = zero /\ \A k \in 1 .. TRACK_MAX : f[k] = st[k][f[k - 1]]
      BY <2>4 DEF Builds
    <2>6. ASSUME NEW k \in 1 .. TRACK_MAX PROVE f[k] = Turn(f[k - 1]) /\ f[k - 1] \in all
      <3>1. k - 1 \in 0 .. TRACK_MAX
        BY <1>5
      <3>2. f[k - 1] \in all
        BY <2>2, <2>5, <3>1
      <3> QED BY <2>1, <2>2, <2>5, <3>2
    <2> QED BY <2>2, <2>5, <2>6
  <1>7. PICK h : h = [k \in 0 .. TRACK_MAX |-> f[k]]
    OBVIOUS
  <1>8. ASSUME NEW g
        PROVE  Body(g) = [k \in 0 .. TRACK_MAX |-> IF k = 0 THEN Zero ELSE Turn(g[k - 1])]
    <2>1. ASSUME NEW k \in 0 .. TRACK_MAX
          PROVE  Body(g)[k] = IF k = 0 THEN Zero ELSE Turn(g[k - 1])
      <3>1. CASE k = 0
        BY <3>1, Zenon
      <3>2. CASE k # 0
        <4>1. Body(g)[k] = [note \in Notes |-> IF Nearest(note) = {} \/ to \in Nearest(note) THEN note
                                               ELSE g[k - 1][Visited(note, CHOOSE i \in Nearest(note) : TRUE)]]
          <5> DEFINE One(i, note) == LET next == Nearest(note)
                                     IN  IF i = 0 \/ next = {} \/ to \in next THEN note
                                         ELSE g[i - 1][Visited(note, CHOOSE j \in next : TRUE)]
                     Entry(i) == [note \in Notes |-> One(i, note)]
          <5>1. Body(g)[k] = Entry(k)
            <6>1. Body(g) = [i \in 0 .. TRACK_MAX |-> Entry(i)]
              OBVIOUS
            <6> HIDE DEF Body, Entry
            <6> QED BY <6>1
          <5>2. Entry(k) = [note \in Notes |-> IF Nearest(note) = {} \/ to \in Nearest(note) THEN note
                                               ELSE g[k - 1][Visited(note, CHOOSE i \in Nearest(note) : TRUE)]]
            <6> DEFINE Other(note) == g[k - 1][Visited(note, CHOOSE i \in Nearest(note) : TRUE)]
            <6>1. ASSUME NEW note \in Notes
                  PROVE  Entry(k)[note] = IF Nearest(note) = {} \/ to \in Nearest(note) THEN note ELSE Other(note)
              <7>1. Entry(k)[note] = IF k = 0 \/ Nearest(note) = {} \/ to \in Nearest(note) THEN note
                                     ELSE Other(note)
                BY Zenon
              <7> HIDE DEF Entry, Other
              <7> QED BY <3>2, <7>1
            <6>2. Entry(k) = [note \in Notes |-> Entry(k)[note]]
              <7> HIDE DEF One
              <7> QED OBVIOUS
            <6> HIDE DEF Entry, Other
            <6>3. Entry(k) = [note \in Notes |-> IF Nearest(note) = {} \/ to \in Nearest(note) THEN note ELSE Other(note)]
              BY <6>1, <6>2
            <6> QED BY <6>3 DEF Other
          <5> HIDE DEF Body, Entry
          <5> QED BY <5>1, <5>2
        <4>2. Turn(g[k - 1]) = [note \in Notes |-> IF Nearest(note) = {} \/ to \in Nearest(note) THEN note
                                 ELSE g[k - 1][Visited(note, CHOOSE i \in Nearest(note) : TRUE)]]
          BY Zenon DEF Done, Seen
        <4> HIDE DEF Body, Turn
        <4> QED BY <3>2, <4>1, <4>2, Zenon
      <3> QED BY <3>1, <3>2
    <2>2. Body(g) = [k \in 0 .. TRACK_MAX |-> Body(g)[k]]
      BY Zenon
    <2> HIDE DEF Body
    <2> QED BY <2>1, <2>2, Zenon
  <1> HIDE DEF Body, Zero, Turn, all
  <1>9. h = Body(h)
    <2>1. ASSUME NEW k \in 0 .. TRACK_MAX
          PROVE  h[k] = IF k = 0 THEN Zero ELSE Turn(h[k - 1])
      <3>1. k # 0 => k \in 1 .. TRACK_MAX /\ k - 1 \in 0 .. TRACK_MAX
        BY <1>5
      <3> QED BY <1>6, <1>7, <3>1
    <2>2. h = [k \in 0 .. TRACK_MAX |-> h[k]]
      BY <1>7
    <2> QED BY <1>8, <2>1, <2>2
  <1>10. after = Body(after)
    BY <1>9
  <1> HIDE DEF after
  <1>11. \A k \in 0 .. TRACK_MAX : after[k] = IF k = 0 THEN Zero ELSE Turn(after[k - 1])
    BY <1>8, <1>10
  <1>12. \A k \in 0 .. TRACK_MAX : after[k] \in all
    <2> DEFINE T == {k \in 0 .. TRACK_MAX : after[k] \in all}
    <2>1. 0 \in T
      BY <1>4, <1>5, <1>11
    <2>2. ASSUME NEW k \in 0 .. TRACK_MAX, k \in T, k < TRACK_MAX PROVE k + 1 \in T
      <3>1. k + 1 # 0 /\ k + 1 - 1 = k /\ k + 1 \in 0 .. TRACK_MAX
        BY <1>5, <2>2
      <3>2. after[k + 1] = Turn(after[k])
        BY <1>11, <3>1
      <3> QED BY <1>3, <2>2, <3>1, <3>2
    <2> HIDE DEF T
    <2>3. \A k \in 0 .. TRACK_MAX : k \in T
      BY <1>5, <2>1, <2>2, AllUpTo
    <2> QED BY <2>3 DEF T
  <1>13. after[TRACK_MAX] \in all
    BY <1>5, <1>12
  <1>14. Good(Unsearched(from), from) /\ Unsearched(from) \in Notes
    <2>1. NoteSound(Unsearched(from), from) /\ AllRelaxed(Unsearched(from))
      BY SearchStarts
    <2>2. Known(Unsearched(from))
      BY DEF Unsearched, Known
    <2> QED BY <2>1, <2>2 DEF Good, NoteSound
  <1>15. Good(after[TRACK_MAX][Unsearched(from)], from)
    BY <1>13, <1>14 DEF all
  <1> QED BY <1>1, <1>15

\* The path found.
LEMMA PathOfIs ==
  ASSUME GraphOK, NEW a \in SENSORS, NEW b \in SENSORS, PathOf(a, b).found
  PROVE  /\ PathOf(a, b).path \in Seq(Places) /\ PathOf(a, b).path # <<>>
         /\ PathOf(a, b).mm \in Int
  <1>1. PICK from \in Places, to \in Places : from = PlaceOf[a] /\ to = PlaceOf[b]
    BY SensorsPlaced
  <1>2. PICK n : n = Search(from, to) /\ Good(n, from)
    BY SearchIsGood
  <1>3. PathOf(a, b) = [found |-> n.prev[to] # Null,
                        path  |-> IF n.prev[to] = Null THEN <<>> ELSE PathTo(n, from, to),
                        mm    |-> n.dist[to]]
    BY <1>1, <1>2 DEF PathOf
  <1>4. n.prev[to] # Null
    <2>1. PathOf(a, b).found <=> Search(PlaceOf[a], PlaceOf[b]).prev[PlaceOf[b]] # Null
      BY Zenon DEF PathOf
    <2> QED BY <1>1, <1>2, <2>1
  <1>5. n.dist[to] < INT_MAX
    BY <1>2, <1>4 DEF Good, Known
  <1>6. PICK w : IsNoted(w, n, from, to)
    BY <1>2, <1>5 DEF Good, NoteSound
  <1>7. PathTo(n, from, to) \in Seq(Places) /\ Len(PathTo(n, from, to)) = Len(w)
    BY <1>6, PathIsNoted
  <1>8. Len(w) > 0
    BY <1>6 DEF IsNoted, IsWay
  <1>9. PathTo(n, from, to) # <<>>
    BY <1>7, <1>8
  <1>10. n.dist[to] \in Int
    <2>1. n \in Notes
      BY <1>2 DEF Good, NoteSound
    <2> QED BY <2>1, NoteTyped
  <1> QED BY <1>3, <1>4, <1>7, <1>9, <1>10

-----------------------------------------------------------------------------
(* The oracle and the track.                                               *)

Blockings == [from : {CmdTask}, id : CalibratedTrains, pos : Positions]

Oracles == [branches : [VALID_SWITCHES -> Dirs], trains : [1 .. MAX_TRAINS -> Tds],
            blocked : {Nobody} \cup Blockings, ticked_ago : {-1} \cup 0 .. MaxAge,
            max_tick_delay : 0 .. 99]

HasSlot(trains, id) == \E k \in 1 .. MAX_TRAINS : trains[k].id = id

OracleOK(o) ==
    /\ o \in Oracles /\ TrainsOK(o.trains, o.branches)
    /\ o.blocked # Nobody => HasSlot(o.trains, o.blocked.id)

WorldOK(w) == "lit" \in DOMAIN w /\ w.lit \subseteq SENSORS

\* The oracle with other descriptors of the same trains.
LEMMA TrainsAnew ==
  ASSUME NEW o, OracleOK(o), NEW trains, TrainsOK(trains, o.branches), SameIds(trains, o.trains)
  PROVE  LET new == [o EXCEPT !.trains = trains]
         IN  OracleOK(new) /\ new.trains = trains /\ new.branches = o.branches /\ new.blocked = o.blocked
  <1> DEFINE new == [o EXCEPT !.trains = trains]
  <1>1. /\ new \in Oracles /\ new.trains = trains /\ new.branches = o.branches /\ new.blocked = o.blocked
    BY DEF OracleOK, Oracles, TrainsOK
  <1> HIDE DEF new
  <1>2. OracleOK(new)
    BY <1>1 DEF OracleOK, HasSlot, SameIds
  <1> QED BY <1>1, <1>2 DEF new

\* The track after some time.
LEMMA ElapsedOK ==
  ASSUME GraphOK, NEW w, WorldOK(w), NEW d, NEW dir
  PROVE  WorldOK(Elapsed(w, d, dir))
  <1> DEFINE to == [t \in Trains |-> Moved(w.real[t], d, dir)]
             seen(t) == SelectSeq(to[t].past, LAMBDA i : IsSensor(i) /\ At(i).num \notin w.broken)
             real == [t \in Trains |-> [x \in DOMAIN w.real[t] |-> to[t][x]]]
             some == UNION {SensorsAt(ToSet(seen(t))) : t \in Trains}
             last == [t \in Trains |-> IF seen(t) = <<>> THEN w.last[t] ELSE At(Last(seen(t))).num]
             passed == [t \in Trains |-> IF seen(t) = <<>> THEN w.passed[t] \cup SwitchesAt(ToSet(to[t].past)) ELSE {}]
             new == [w EXCEPT !.real = real, !.lit = w.lit \cup (Sensors \cap some), !.last = last, !.passed = passed]
  <1>1. Elapsed(w, d, dir) = new
    BY Zenon DEF Elapsed
  <1> HIDE DEF real, some, last, passed
  <1>2. DOMAIN new = DOMAIN w
    OBVIOUS
  <1>3. new.lit = w.lit \cup (Sensors \cap some)
    BY DEF WorldOK
  <1> HIDE DEF new
  <1> QED BY <1>1, <1>2, <1>3, SensorsPlaced DEF WorldOK

StateOK(s) == DOMAIN s = {"o", "w"} /\ OracleOK(s.o) /\ WorldOK(s.w)

\* The oracle is about the same trains, on the same track.
SameOracle(o, was) ==
    o.branches = was.branches /\ o.blocked = was.blocked /\ SameIds(o.trains, was.trains)

\* The trains by descriptors that are each as they should be.
LEMMA TrainsMapped ==
  ASSUME NEW trains, NEW dir, NEW new, new = [k \in 1 .. MAX_TRAINS |-> new[k]],
         \A k \in 1 .. MAX_TRAINS : TdOK(new[k], dir) /\ new[k].id = trains[k].id
  PROVE  TrainsOK(new, dir) /\ SameIds(new, trains)
  <1>1. \A k \in 1 .. MAX_TRAINS : new[k] \in Tds
    BY DEF TdOK
  <1>2. new \in [1 .. MAX_TRAINS -> Tds]
    BY <1>1
  <1> QED BY <1>2 DEF TrainsOK, SameIds

\* Time passes: the oracle knows of the same trains, and of all of them as it should.
LEMMA WaitedOK ==
  ASSUME GraphOK, NEW s, StateOK(s), NEW d \in Nat
  PROVE  /\ StateOK(Waited(s, d)) /\ SameOracle(Waited(s, d).o, s.o)
         /\ d > 0 => \A k \in 1 .. MAX_TRAINS : Waited(s, d).o.trains[k].changed_ago > 0 \/ MaxAge = 0
  <1>1. PICK o, w : o = s.o /\ w = s.w /\ OracleOK(o) /\ WorldOK(w)
    BY DEF StateOK
  <1> DEFINE trains == [k \in DOMAIN o.trains |-> Aged(o.trains[k], d)]
             ago == Later(o.ticked_ago, d)
             new == [o EXCEPT !.ticked_ago = ago, !.trains = trains]
             was == [o EXCEPT !.trains = trains]
             world2 == Elapsed(w, d, o.branches)
  <1>2. Waited(s, d) = [o |-> new, w |-> world2]
    BY <1>1 DEF Waited
  <1>3. DOMAIN o.trains = 1 .. MAX_TRAINS /\ o.ticked_ago \in {-1} \cup 0 .. MaxAge
        /\ \A k \in 1 .. MAX_TRAINS : TdOK(o.trains[k], o.branches)
    BY <1>1 DEF OracleOK, Oracles, TrainsOK
  <1>4. ago \in {-1} \cup 0 .. MaxAge
    <2>1. PICK a \in {-1} \cup 0 .. MaxAge : a = o.ticked_ago
      BY <1>3
    <2>2. CASE a = -1
      BY <2>1, <2>2 DEF Later
    <2>3. CASE a \in 0 .. MaxAge
      <3>1. MaxAge \in Nat
        BY OracleAssumption
      <3>2. Later(a, d) \in 0 .. MaxAge
        BY <2>3, <3>1, LaterIs
      <3> QED BY <2>1, <3>2
    <2> QED BY <2>1, <2>2, <2>3
  <1>5. ASSUME NEW k \in 1 .. MAX_TRAINS
        PROVE  /\ TdOK(trains[k], o.branches) /\ trains[k].id = o.trains[k].id
               /\ d > 0 => trains[k].changed_ago > 0 \/ MaxAge = 0
    <2>1. PICK td, dir : td = o.trains[k] /\ dir = o.branches /\ TdOK(td, dir)
      BY <1>3
    <2>2. TdOK(Aged(td, d), dir) /\ Aged(td, d).id = td.id /\ (d > 0 => Aged(td, d).changed_ago > 0 \/ MaxAge = 0)
      BY <2>1, AgedOK
    <2>3. trains[k] = Aged(td, d)
      BY <1>3, <2>1
    <2> QED BY <2>1, <2>2, <2>3
  <1>6. trains = [k \in 1 .. MAX_TRAINS |-> trains[k]]
    <2> QED BY <1>3
  <1> HIDE DEF trains, ago
  <1>7. TrainsOK(trains, o.branches) /\ SameIds(trains, o.trains)
    <2>1. PICK new2, trains2, dir : new2 = trains /\ trains2 = o.trains /\ dir = o.branches
      OBVIOUS
    <2>2. TrainsOK(new2, dir) /\ SameIds(new2, trains2)
      BY <1>5, <1>6, <2>1, TrainsMapped
    <2> QED BY <2>1, <2>2
  <1>8. OracleOK(was) /\ was.trains = trains /\ was.branches = o.branches /\ was.blocked = o.blocked
    <2>1. PICK t : t = trains
      OBVIOUS
    <2>2. LET x == [o EXCEPT !.trains = t]
          IN  OracleOK(x) /\ x.trains = t /\ x.branches = o.branches /\ x.blocked = o.blocked
      BY <1>1, <1>7, <2>1, TrainsAnew
    <2> QED BY <2>1, <2>2
  <1>9. new = [was EXCEPT !.ticked_ago = ago]
    BY <1>1 DEF OracleOK, Oracles
  <1> HIDE DEF was, new
  <1>10. new \in Oracles /\ new.trains = was.trains /\ new.branches = was.branches /\ new.blocked = was.blocked
    BY <1>4, <1>8, <1>9 DEF OracleOK, Oracles
  <1>11. OracleOK(new) /\ SameOracle(new, o)
    BY <1>7, <1>8, <1>10 DEF OracleOK, SameOracle
  <1>12. WorldOK(world2)
    BY <1>1, ElapsedOK
  <1> HIDE DEF world2
  <1>13. Waited(s, d).o = new /\ Waited(s, d).w = world2 /\ DOMAIN Waited(s, d) = {"o", "w"}
    BY <1>2
  <1>14. StateOK(Waited(s, d))
    BY <1>11, <1>12, <1>13 DEF StateOK
  <1>15. SameOracle(Waited(s, d).o, s.o)
    BY <1>1, <1>11, <1>13
  <1>16. d > 0 => \A k \in 1 .. MAX_TRAINS : Waited(s, d).o.trains[k].changed_ago > 0 \/ MaxAge = 0
    BY <1>5, <1>8, <1>10, <1>13
  <1> QED BY <1>14, <1>15, <1>16

\* tick(), up to the wake-up.
LEMMA TickedOK ==
  ASSUME GraphOK, NEW o, OracleOK(o)
  PROVE  OracleOK(Ticked(o)) /\ SameOracle(Ticked(o), o)
  <1> DEFINE trains == [k \in DOMAIN o.trains |-> Interpolated(o.trains[k])]
             new == Ticked(o)
             was == [o EXCEPT !.trains = trains]
  <1>1. DOMAIN o.trains = 1 .. MAX_TRAINS /\ \A k \in 1 .. MAX_TRAINS : TdOK(o.trains[k], o.branches)
    BY DEF OracleOK, Oracles, TrainsOK
  <1>2. ASSUME NEW k \in 1 .. MAX_TRAINS
        PROVE  TdOK(trains[k], o.branches) /\ trains[k].id = o.trains[k].id
    <2>1. PICK td, dir : td = o.trains[k] /\ dir = o.branches /\ TdOK(td, dir)
      BY <1>1
    <2>2. TdOK(Interpolated(td), dir) /\ Interpolated(td).id = td.id
      BY <2>1, InterpolatedOK
    <2>3. trains[k] = Interpolated(td)
      BY <1>1, <2>1
    <2> QED BY <2>1, <2>2, <2>3
  <1>3. trains = [k \in 1 .. MAX_TRAINS |-> trains[k]]
    BY <1>1
  <1>4. PICK delay \in 0 .. 99 : delay = TickDelay(o)
    <2>0. o.ticked_ago \in {-1} \cup 0 .. MaxAge /\ o.max_tick_delay \in 0 .. 99 /\ MaxAge \in Nat
      BY OracleAssumption DEF OracleOK, Oracles
    <2>1. PICK a \in Int, m \in 0 .. 99 : a = o.ticked_ago /\ m = o.max_tick_delay /\ a >= -1
      <3>1. o.ticked_ago \in Int /\ o.ticked_ago >= -1
        BY <2>0
      <3> QED BY <2>0, <3>1
    <2>2. Max({m, a}) = IF m >= a THEN m ELSE a
      BY MaxIs
    <2> QED BY <2>1, <2>2 DEF TickDelay
  <1>5. new = [o EXCEPT !.max_tick_delay = delay, !.ticked_ago = 0, !.trains = trains]
    BY <1>4 DEF Ticked
  <1> HIDE DEF trains, new
  <1>6. TrainsOK(trains, o.branches) /\ SameIds(trains, o.trains)
    <2>1. PICK new2, trains2, dir : new2 = trains /\ trains2 = o.trains /\ dir = o.branches
      OBVIOUS
    <2>2. TrainsOK(new2, dir) /\ SameIds(new2, trains2)
      BY <1>2, <1>3, <2>1, TrainsMapped
    <2> QED BY <2>1, <2>2
  <1>7. OracleOK(was) /\ was.trains = trains /\ was.branches = o.branches /\ was.blocked = o.blocked
    <2>1. PICK t : t = trains
      OBVIOUS
    <2>2. LET x == [o EXCEPT !.trains = t]
          IN  OracleOK(x) /\ x.trains = t /\ x.branches = o.branches /\ x.blocked = o.blocked
      BY <1>6, <2>1, TrainsAnew
    <2> QED BY <2>1, <2>2
  <1>8. new = [was EXCEPT !.max_tick_delay = delay, !.ticked_ago = 0]
    BY <1>5 DEF OracleOK, Oracles
  <1> HIDE DEF was
  <1>9. new \in Oracles /\ new.trains = was.trains /\ new.branches = was.branches /\ new.blocked = was.blocked
    <2>1. 0 \in {-1} \cup 0 .. MaxAge
      BY OracleAssumption
    <2> QED BY <1>7, <1>8, <2>1 DEF OracleOK, Oracles
  <1>10. OracleOK(new) /\ SameOracle(new, o)
    BY <1>6, <1>7, <1>9 DEF OracleOK, SameOracle
  <1> QED BY <1>10 DEF new

\* One descriptor is replaced by another one of the same train.
LEMMA SlotChanged ==
  ASSUME NEW trains, NEW dir, TrainsOK(trains, dir), NEW k \in 1 .. MAX_TRAINS,
         NEW td, TdOK(td, dir), td.id = trains[k].id
  PROVE  TrainsOK([trains EXCEPT ![k] = td], dir) /\ SameIds([trains EXCEPT ![k] = td], trains)
  <1> DEFINE new == [trains EXCEPT ![k] = td]
  <1>1. td \in Tds /\ DOMAIN trains = 1 .. MAX_TRAINS
    BY DEF TdOK, TrainsOK
  <1>2. new \in [1 .. MAX_TRAINS -> Tds]
    BY <1>1 DEF TrainsOK
  <1>3. \A j \in 1 .. MAX_TRAINS : new[j] = IF j = k THEN td ELSE trains[j]
    BY <1>1
  <1> HIDE DEF new
  <1>4. TrainsOK(new, dir) /\ SameIds(new, trains)
    BY <1>2, <1>3 DEF TrainsOK, SameIds
  <1> QED BY <1>4 DEF new

\* How long the oracle delays a wake-up, and of whom.
LEMMA WakingIs ==
  ASSUME GraphOK, NEW o, OracleOK(o)
  PROVE  Waking(o).delay \in Nat /\ (Waking(o).wakes => o.blocked # Nobody)
  <1>1. CASE o.blocked = Nobody
    BY <1>1 DEF Waking
  <1>2. CASE o.blocked # Nobody
    <2>1. PICK id \in CalibratedTrains, p \in Positions : id = o.blocked.id /\ p = o.blocked.pos
      BY <1>2 DEF OracleOK, Oracles, Blockings
    <2>2. HasSlot(o.trains, id) /\ DOMAIN o.trains = 1 .. MAX_TRAINS /\ MAX_TRAINS \in Nat
          /\ \A k \in 1 .. MAX_TRAINS : o.trains[k] \in Tds
      BY <1>2, <2>1, OracleAssumption DEF OracleOK, Oracles
    <2>3. PICK trains : trains = o.trains
      OBVIOUS
    <2>4. SlotOf(trains, id) \in 1 .. MAX_TRAINS
      BY <2>2, <2>3, SlotIs DEF HasSlot
    <2>5. PICK td \in Tds : td = o.trains[SlotOf(o.trains, id)]
      BY <2>2, <2>3, <2>4
    <2>6. PICK s \in SENSORS, m \in Int, v \in Int, a \in Int :
             s = td.pos.sensor /\ m = td.pos.offset_mm /\ v = td.velocity /\ a = td.observed_ago
      <3>1. 0 .. MaxAge \subseteq Int
        OBVIOUS
      <3> QED BY <3>1, SensorsPlaced DEF Tds, Positions
    <2>7. PICK q \in Int : q = Quotient(v * a, TICKS_PER_SEC)
      <3>1. PICK x \in Int : x = v * a
        OBVIOUS
      <3>2. TICKS_PER_SEC \in Int /\ TICKS_PER_SEC # 0
        BY DEF TICKS_PER_SEC
      <3>3. Quotient(x, TICKS_PER_SEC) \in Int
        <4>1. PICK y \in Int : y = TICKS_PER_SEC /\ y # 0
          BY <3>2
        <4> QED BY <4>1, QuotientType
      <3> QED BY <3>1, <3>3
    <2>8. Estimate(td).sensor = s /\ Estimate(td).offset_mm = m + q
      BY <2>6, <2>7 DEF Estimate, Tds, Positions
    <2>9. PICK way : way = WayTo(Estimate(td), p, o.branches)
      OBVIOUS
    <2>10. PICK mm \in Int : mm = way.mm
      <3>1. PICK dir \in {o.branches}, d \in Int, e \in Int : dir = o.branches /\ d = DistanceBetween(s, p.sensor, dir) /\ e = p.offset_mm
        <4>1. \A dir : DistanceBetween(s, p.sensor, dir) \in Int
          BY DistanceType
        <4>2. p.offset_mm \in Int
          BY DEF Positions
        <4> QED BY <4>1, <4>2
      <3>2. way.mm = d + e - (m + q)
        BY <2>8, <2>9, <3>1 DEF WayTo
      <3> QED BY <3>2
    <2>11. PICK ticks \in Int : ticks = IntQuotient(TICKS_PER_SEC * way.mm, td.velocity)
      <3>1. PICK x \in Int : x = TICKS_PER_SEC * mm
        BY DEF TICKS_PER_SEC
      <3>2. IntQuotient(x, v) \in Int
        BY IntQuotientType
      <3> QED BY <2>6, <2>10, <3>1, <3>2
    <2>12. Remaining(ticks) \in Nat
      <3>1. Max({ticks, 0}) = IF ticks >= 0 THEN ticks ELSE 0
        BY MaxIs
      <3> QED BY <3>1 DEF Remaining
    <2>13. \/ Waking(o) = [wakes |-> TRUE, success |-> FALSE, delay |-> 0]
           \/ Waking(o) = [wakes |-> IsDue(ticks, o), success |-> TRUE, delay |-> Remaining(ticks)]
      BY <1>2, <2>1, <2>5, <2>9, <2>11, Zenon DEF Waking
    <2>14. Waking(o).delay \in {0, Remaining(ticks)}
      BY <2>13
    <2> QED BY <1>2, <2>12, <2>14
  <1> QED BY <1>1, <1>2

\* Nobody waits any more.
LEMMA ReleasedOK ==
  ASSUME NEW o, OracleOK(o)
  PROVE  /\ OracleOK(Released(o)) /\ Released(o).trains = o.trains /\ Released(o).branches = o.branches
         /\ Released(o).blocked = Nobody
  <1> DEFINE new == Released(o)
  <1>1. new \in Oracles /\ new.trains = o.trains /\ new.branches = o.branches /\ new.blocked = Nobody
    BY DEF Released, OracleOK, Oracles
  <1> HIDE DEF new
  <1>2. OracleOK(new)
    BY <1>1 DEF OracleOK
  <1> QED BY <1>1, <1>2 DEF new

\* A speed command.
LEMMA DriveOK ==
  ASSUME GraphOK, NEW s, StateOK(s), NEW id, NEW n \in Speeds
  PROVE  StateOK(Drive(s, id, n)) /\ SameOracle(Drive(s, id, n).o, s.o)
  <1>1. PICK o, w, trains, dir : o = s.o /\ w = s.w /\ OracleOK(o) /\ WorldOK(w)
                                 /\ trains = o.trains /\ dir = o.branches /\ TrainsOK(trains, dir)
    BY DEF StateOK, OracleOK
  <1>2. DOMAIN trains = 1 .. MAX_TRAINS /\ 0 \notin 1 .. MAX_TRAINS
    BY <1>1, OracleAssumption DEF TrainsOK
  <1>3. PICK slot : slot = SlotOf(trains, id) /\ (slot = 0 \/ slot \in 1 .. MAX_TRAINS)
    BY <1>2, SlotIs
  <1>4. PICK new : new = OnSlotOf(trains, id, LAMBDA td : SpeedSet(td, n))
    OBVIOUS
  <1>5. new = IF slot = 0 THEN trains ELSE [trains EXCEPT ![slot] = SpeedSet(@, n)]
    BY <1>3, <1>4, Zenon DEF OnSlotOf
  <1>6. TrainsOK(new, dir) /\ SameIds(new, trains)
    <2>1. CASE slot = 0
      BY <1>1, <1>5, <2>1 DEF SameIds
    <2>2. CASE slot # 0
      <3>1. PICK td : td = SpeedSet(trains[slot], n) /\ TdOK(td, dir) /\ td.id = trains[slot].id
        <4>1. PICK was : was = trains[slot] /\ TdOK(was, dir)
          BY <1>1, <1>3, <2>2 DEF TrainsOK
        <4>2. TdOK(SpeedSet(was, n), dir) /\ SpeedSet(was, n).id = was.id
          BY <4>1, SpeedSetOK
        <4> QED BY <4>1, <4>2
      <3>2. new = [trains EXCEPT ![slot] = td]
        BY <1>5, <2>2, <3>1
      <3> QED BY <1>1, <1>3, <2>2, <3>1, <3>2, SlotChanged
    <2> QED BY <2>1, <2>2
  <1>7. PICK o2 : /\ o2 = [o EXCEPT !.trains = new] /\ OracleOK(o2)
                  /\ o2.trains = new /\ o2.branches = dir /\ o2.blocked = o.blocked
    <2>1. TrainsOK(new, o.branches) /\ SameIds(new, o.trains)
      BY <1>1, <1>6
    <2>2. LET x == [o EXCEPT !.trains = new]
          IN  OracleOK(x) /\ x.trains = new /\ x.branches = o.branches /\ x.blocked = o.blocked
      BY <1>1, <2>1, TrainsAnew
    <2> QED BY <1>1, <2>2
  <1> DEFINE w2 == IF id \in Trains THEN [w EXCEPT !.real[id] = Driven(@, id, n)] ELSE w
  <1>8. Drive(s, id, n) = [o |-> o2, w |-> w2]
    BY <1>1, <1>4, <1>7, Zenon DEF Drive
  <1>9. WorldOK(w2)
    BY <1>1 DEF WorldOK
  <1> HIDE DEF w2
  <1>10. Drive(s, id, n).o = o2 /\ Drive(s, id, n).w = w2 /\ DOMAIN Drive(s, id, n) = {"o", "w"}
    BY <1>8
  <1>11. SameOracle(o2, o)
    BY <1>1, <1>6, <1>7 DEF SameOracle
  <1> QED BY <1>1, <1>7, <1>9, <1>10, <1>11 DEF StateOK

-----------------------------------------------------------------------------
(* Requests and messages.                                                  *)

Requests ==
    [tag : {"QueryTrain", "CalibrateTrain"}, id : CalibratedTrains]
        \cup [tag : {"SetTrainSpeed"}, id : Nat, speed : Speeds]
        \cup [tag : {"ReverseTrain"}, id : Nat]
        \cup [tag : {"SetBranchDir"}, id : Nat, dir : Dirs]
        \cup [tag : {"Normalize"}, pos : Positions]
        \cup [tag : {"WakeAtPos"}, id : CalibratedTrains, pos : Positions]
        \cup {Delay}

LoopRequest == [tag |-> "MakeLoop"]

Messages == {Tick, UpdateSensors} \cup [from : {CmdTask}, req : Requests \cup {LoopRequest}]

\* What a request says, by its tag.
LEMMA RequestIs ==
  ASSUME NEW r \in Requests \cup {LoopRequest}
  PROVE  /\ r.tag \in {"QueryTrain", "CalibrateTrain", "SetTrainSpeed", "ReverseTrain", "SetBranchDir",
                       "Normalize", "WakeAtPos", "MakeLoop", "Delay"}
         /\ r.tag \in {"QueryTrain", "CalibrateTrain", "WakeAtPos"} => r.id \in CalibratedTrains
         /\ r.tag = "SetTrainSpeed" => r.speed \in Speeds
         /\ r.tag = "SetBranchDir" => r.dir \in Dirs
         /\ r.tag \in {"Normalize", "WakeAtPos"} => r.pos \in Positions
         /\ r.tag = "MakeLoop" <=> r = LoopRequest
  <1>1. CASE r \in [tag : {"QueryTrain", "CalibrateTrain"}, id : CalibratedTrains]
    BY <1>1 DEF LoopRequest
  <1>2. CASE r \in [tag : {"SetTrainSpeed"}, id : Nat, speed : Speeds]
    BY <1>2 DEF LoopRequest
  <1>3. CASE r \in [tag : {"ReverseTrain"}, id : Nat]
    BY <1>3 DEF LoopRequest
  <1>4. CASE r \in [tag : {"SetBranchDir"}, id : Nat, dir : Dirs]
    BY <1>4 DEF LoopRequest
  <1>5. CASE r \in [tag : {"Normalize"}, pos : Positions]
    BY <1>5 DEF LoopRequest
  <1>6. CASE r \in [tag : {"WakeAtPos"}, id : CalibratedTrains, pos : Positions]
    BY <1>6 DEF LoopRequest
  <1>7. CASE r = Delay
    BY <1>7 DEF LoopRequest, Delay
  <1>8. CASE r = LoopRequest
    BY <1>8 DEF LoopRequest
  <1> QED BY <1>1, <1>2, <1>3, <1>4, <1>5, <1>6, <1>7, <1>8 DEF Requests

\* The request for the loop is not one of the others.
LEMMA RequestIsNot == LoopRequest \notin Requests
  <1> SUFFICES ASSUME NEW r \in Requests, r = LoopRequest PROVE FALSE
    OBVIOUS
  <1>1. r.tag = "MakeLoop" /\ DOMAIN r = {"tag"}
    BY DEF LoopRequest
  <1> QED BY <1>1 DEF Requests, Delay

\* Who a message is from, by its tag.
LEMMA MessageIs ==
  ASSUME NEW m \in Messages
  PROVE  /\ m.req.tag = "Tick" <=> m = Tick
         /\ m.req.tag = "UpdateSensors" <=> m = UpdateSensors
         /\ m.from = "ticker" <=> m = Tick
         /\ m.from = "poller" <=> m = UpdateSensors
         /\ m \notin {Tick, UpdateSensors} => m.from = CmdTask /\ m.req \in Requests \cup {LoopRequest}
         /\ m.from \in {"ticker", "poller", CmdTask}
  <1>1. CASE m = Tick
    BY <1>1 DEF Tick, UpdateSensors, CmdTask
  <1>2. CASE m = UpdateSensors
    BY <1>2 DEF Tick, UpdateSensors, CmdTask
  <1>3. CASE m \in [from : {CmdTask}, req : Requests \cup {LoopRequest}]
    <2>1. PICK r \in Requests \cup {LoopRequest} : r = m.req /\ m.from = CmdTask
      BY <1>3
    <2>2. r.tag \notin {"Tick", "UpdateSensors"}
      BY RequestIs
    <2>3. m # Tick /\ m # UpdateSensors
      BY <2>1, <2>2 DEF Tick, UpdateSensors
    <2> QED BY <2>1, <2>2, <2>3 DEF CmdTask
  <1> QED BY <1>1, <1>2, <1>3 DEF Messages

\* No two messages in the mailbox are from the same task.
MailOK(box) ==
    /\ box \in Seq(Messages)
    /\ \A k, l \in 1 .. Len(box) : box[k].from = box[l].from => k = l

In(box) == {box[k] : k \in 1 .. Len(box)}

\* The first message, and the rest.
LEMMA HeadIs ==
  ASSUME NEW box, MailOK(box), box # <<>>
  PROVE  /\ Head(box) \in In(box) /\ Head(box) \in Messages
         /\ MailOK(Tail(box)) /\ In(Tail(box)) \subseteq In(box)
         /\ \A m \in In(Tail(box)) : m.from # Head(box).from
  <1>1. box \in Seq(Messages) /\ Len(box) \in Nat /\ Len(box) > 0
    BY DEF MailOK
  <1>2. Head(box) = box[1] /\ Tail(box) \in Seq(Messages) /\ Len(Tail(box)) = Len(box) - 1
        /\ \A k \in 1 .. Len(box) - 1 : Tail(box)[k] = box[k + 1]
    BY <1>1
  <1>3. 1 \in 1 .. Len(box) /\ \A k \in 1 .. Len(box) - 1 : k + 1 \in 1 .. Len(box) /\ k + 1 # 1
    BY <1>1
  <1>4. Head(box) \in In(box) /\ Head(box) \in Messages
    BY <1>1, <1>2, <1>3 DEF In
  <1>5. PICK t : t = Tail(box)
    OBVIOUS
  <1>6. \A k, l \in 1 .. Len(t) : t[k].from = t[l].from => k = l
    <2> SUFFICES ASSUME NEW k \in 1 .. Len(t), NEW l \in 1 .. Len(t), t[k].from = t[l].from PROVE k = l
      OBVIOUS
    <2>1. k + 1 = l + 1
      BY <1>2, <1>3, <1>5 DEF MailOK
    <2> QED BY <2>1, <1>1, <1>2, <1>5
  <1>7. In(t) \subseteq In(box)
    BY <1>2, <1>3, <1>5 DEF In
  <1>8. \A m \in In(t) : m.from # Head(box).from
    <2> SUFFICES ASSUME NEW k \in 1 .. Len(t), t[k].from = Head(box).from PROVE FALSE
      BY DEF In
    <2>1. box[k + 1].from = box[1].from
      BY <1>2, <1>5
    <2> QED BY <2>1, <1>2, <1>3, <1>5 DEF MailOK
  <1> QED BY <1>2, <1>4, <1>5, <1>6, <1>7, <1>8 DEF MailOK

\* A message more, of a task that has none in the mailbox.
LEMMA AppendIs ==
  ASSUME NEW box, MailOK(box), NEW m \in Messages, \A x \in In(box) : x.from # m.from
  PROVE  MailOK(Append(box, m)) /\ In(Append(box, m)) = In(box) \cup {m}
  <1>1. box \in Seq(Messages) /\ Len(box) \in Nat
    BY DEF MailOK
  <1>2. PICK new : new = Append(box, m)
    OBVIOUS
  <1>3. new \in Seq(Messages) /\ Len(new) = Len(box) + 1 /\ new[Len(box) + 1] = m
        /\ \A k \in 1 .. Len(box) : new[k] = box[k]
    BY <1>1, <1>2
  <1>4. \A k \in 1 .. Len(new) : k \in 1 .. Len(box) \/ k = Len(box) + 1
    BY <1>1, <1>3
  <1>5. \A k \in 1 .. Len(box) : new[k].from # m.from
    BY <1>3 DEF In
  <1>6. \A k, l \in 1 .. Len(new) : new[k].from = new[l].from => k = l
    BY <1>3, <1>4, <1>5 DEF MailOK
  <1>7. In(new) = In(box) \cup {m}
    <2>1. \A x \in In(new) : x \in In(box) \cup {m}
      BY <1>3, <1>4 DEF In
    <2>2. \A k \in 1 .. Len(box) : k \in 1 .. Len(new)
      BY <1>1, <1>3
    <2>3. Len(box) + 1 \in 1 .. Len(new)
      BY <1>1, <1>3
    <2>4. m \in In(new)
      BY <1>3, <2>3 DEF In
    <2>5. In(box) \subseteq In(new)
      BY <1>3, <2>2 DEF In
    <2> QED BY <2>1, <2>4, <2>5
  <1> QED BY <1>2, <1>3, <1>6, <1>7 DEF MailOK

\* The tick is sent again unless it is there.
LEMMA TickingIs ==
  ASSUME NEW box, MailOK(box)
  PROVE  MailOK(Ticking(box)) /\ In(Ticking(box)) = In(box) \cup {Tick}
  <1>1. box \in Seq(Messages) /\ DOMAIN box = 1 .. Len(box) /\ Tick \in Messages
    BY DEF MailOK, Messages
  <1>2. CASE \E k \in DOMAIN box : box[k] = Tick
    <2>1. Ticking(box) = box
      BY <1>2 DEF Ticking
    <2>2. Tick \in In(box)
      BY <1>1, <1>2 DEF In
    <2> QED BY <2>1, <2>2
  <1>3. CASE ~ \E k \in DOMAIN box : box[k] = Tick
    <2>1. Ticking(box) = Append(box, Tick)
      BY <1>3 DEF Ticking
    <2>2. ASSUME NEW x \in In(box) PROVE x.from # Tick.from
      <3>1. x \in Messages /\ x # Tick
        BY <1>1, <1>3 DEF In
      <3>2. x.from # "ticker"
        BY <3>1, MessageIs
      <3> QED BY <3>2 DEF Tick
    <2>3. PICK m \in Messages : m = Tick
      BY <1>1
    <2>4. MailOK(Append(box, m)) /\ In(Append(box, m)) = In(box) \cup {m}
      BY <2>2, <2>3, AppendIs
    <2> QED BY <2>1, <2>3, <2>4
  <1> QED BY <1>2, <1>3

\* A mailbox without two messages from one task is short.
LEMMA MailShort ==
  ASSUME NEW box, MailOK(box)
  PROVE  Len(box) <= 3
  <1>1. box \in Seq(Messages) /\ Len(box) \in Nat
    BY DEF MailOK
  <1> SUFFICES ASSUME Len(box) > 3 PROVE FALSE
    BY <1>1
  <1>2. 1 \in 1 .. Len(box) /\ 2 \in 1 .. Len(box) /\ 3 \in 1 .. Len(box) /\ 4 \in 1 .. Len(box)
    BY <1>1
  <1>3. \A k \in 1 .. Len(box) : box[k].from \in {"ticker", "poller", CmdTask}
    <2> SUFFICES ASSUME NEW k \in 1 .. Len(box) PROVE box[k].from \in {"ticker", "poller", CmdTask}
      OBVIOUS
    <2>1. PICK m \in Messages : m = box[k]
      BY <1>1
    <2> QED BY <2>1, MessageIs
  <1>4. PICK a, b, c, d : a = box[1].from /\ b = box[2].from /\ c = box[3].from /\ d = box[4].from
    OBVIOUS
  <1>5. a # b /\ a # c /\ a # d /\ b # c /\ b # d /\ c # d
    BY <1>2, <1>4 DEF MailOK
  <1>6. {a, b, c, d} \subseteq {"ticker", "poller", CmdTask}
    BY <1>2, <1>3, <1>4
  <1> QED BY <1>5, <1>6

-----------------------------------------------------------------------------
(* The invariant of the oracle.                                            *)

\* What the command task is told of a train is the descriptor of one.
AnswerOK(x) ==
    x.done /\ x.success /\ x.req.tag = "QueryTrain" => x.td \in Tds /\ x.td.id \in CalibratedTrains

\* A request of the command task is in one place as long as it is not answered: in the
\* mailbox, with calibrate_train(), or with the tick that is to wake the task.
Pending(o, cal, box, x) ==
    /\ \A m \in In(box) : m.from = CmdTask =>
          /\ ~ x.done /\ x.req = m.req /\ cal = None /\ o.blocked = Nobody
          /\ m.req = LoopRequest => \A k \in 1 .. MAX_TRAINS : o.trains[k].id = 0
    /\ cal # None =>
          /\ cal \in [from : {CmdTask}, req : Requests] /\ cal.req.tag = "CalibrateTrain"
          /\ ~ x.done /\ x.req = cal.req /\ o.blocked = Nobody /\ HasSlot(o.trains, 0)
    /\ o.blocked # Nobody => ~ x.done /\ x.req.tag = "WakeAtPos"

OracleInv(o, cal, box, ans, w) ==
    /\ OracleOK(o) /\ WorldOK(w) /\ MailOK(box)
    /\ DOMAIN ans = Clients /\ AnswerOK(ans[CmdTask])
    /\ Pending(o, cal, box, ans[CmdTask])

\* The task that waits goes on waiting, or is answered.
Woken(o, o2, ans, ans2) ==
    \/ o2.blocked = o.blocked /\ ans2 = ans
    \/ /\ o.blocked # Nobody /\ o2.blocked = Nobody
       /\ \E result : ans2 = [ans EXCEPT ![CmdTask] = Replied(@.req, result)]

\* tick(), and the task it wakes.
LEMMA TickInOK ==
  ASSUME GraphOK, NEW s, StateOK(s), TickIn(s)
  PROVE  /\ OracleOK(oracle') /\ WorldOK(world') /\ SameIds(oracle'.trains, s.o.trains)
         /\ Woken(s.o, oracle', answer, answer')
  <1>1. PICK o : o = Ticked(s.o) /\ OracleOK(o) /\ SameOracle(o, s.o)
    <2>1. PICK was : was = s.o /\ OracleOK(was)
      BY DEF StateOK
    <2> QED BY <2>1, TickedOK
  <1>2. PICK wake : wake = Waking(o) /\ wake.delay \in Nat /\ (wake.wakes => o.blocked # Nobody)
    BY <1>1, WakingIs
  <1>3. CASE ~ wake.wakes
    <2>1. oracle' = [s EXCEPT !.o = o].o /\ world' = [s EXCEPT !.o = o].w /\ answer' = answer
      BY <1>1, <1>2, <1>3, Zenon DEF TickIn, Becomes
    <2>2. oracle' = o /\ world' = s.w
      BY <2>1 DEF StateOK
    <2> QED BY <1>1, <2>1, <2>2 DEF StateOK, SameOracle, Woken
  <1>4. CASE wake.wakes
    <2>1. PICK r : r = [s EXCEPT !.o = Released(o)]
      OBVIOUS
    <2>2. PICK d \in Nat : d = wake.delay
      BY <1>2
    <2>3. /\ oracle' = Waited(r, d).o /\ world' = Waited(r, d).w
          /\ answer' = [answer EXCEPT ![o.blocked.from] = Replied(@.req, wake.success)]
      BY <1>1, <1>2, <1>4, <2>1, <2>2, Zenon DEF TickIn, Becomes
    <2>4. OracleOK(Released(o)) /\ Released(o).blocked = Nobody /\ Released(o).trains = o.trains
      BY <1>1, ReleasedOK
    <2>5. StateOK(r) /\ r.o.blocked = Nobody /\ r.o.trains = o.trains
      <3>1. DOMAIN r = {"o", "w"} /\ r.o = Released(o) /\ r.w = s.w
        BY <2>1 DEF StateOK
      <3> QED BY <2>4, <3>1 DEF StateOK
    <2>6. StateOK(Waited(r, d)) /\ SameOracle(Waited(r, d).o, r.o)
      BY <2>5, WaitedOK
    <2>7. OracleOK(oracle') /\ WorldOK(world') /\ oracle'.blocked = Nobody
          /\ SameIds(oracle'.trains, s.o.trains)
      BY <1>1, <2>3, <2>5, <2>6 DEF StateOK, SameOracle, SameIds
    <2>8. o.blocked # Nobody /\ o.blocked.from = CmdTask
      BY <1>1, <1>2, <1>4 DEF OracleOK, Oracles, Blockings
    <2>9. s.o.blocked # Nobody
      BY <1>1, <2>8 DEF SameOracle
    <2>10. \E result : answer' = [answer EXCEPT ![CmdTask] = Replied(@.req, result)]
      BY <2>3, <2>8
    <2> QED BY <2>7, <2>9, <2>10 DEF Woken
  <1> QED BY <1>3, <1>4

\* What becomes of a request that is answered.
LEMMA AnsweredOK ==
  ASSUME NEW ans, NEW new, NEW result, DOMAIN ans = Clients,
         new = [ans EXCEPT ![CmdTask] = Replied(@.req, result)],
         ans[CmdTask].req.tag # "QueryTrain"
  PROVE  /\ DOMAIN new = Clients /\ AnswerOK(new[CmdTask])
         /\ new[CmdTask].done /\ new[CmdTask].req = ans[CmdTask].req
  <1>1. CmdTask \in Clients
    BY CommandsAssumption
  <1>2. DOMAIN new = Clients /\ new[CmdTask] = Replied(ans[CmdTask].req, result)
    BY <1>1
  <1>3. new[CmdTask].done /\ new[CmdTask].req = ans[CmdTask].req
    BY <1>2 DEF Replied
  <1> QED BY <1>2, <1>3 DEF AnswerOK

\* Messages that are not from the command task.
Backgrounds == {Tick, UpdateSensors}

\* A tick leaves the request of the command task where it was, or answers it.
LEMMA PendingTicked ==
  ASSUME NEW o, NEW cal, NEW box, NEW ans, NEW w, OracleInv(o, cal, box, ans, w), cal = None,
         NEW o2, NEW box2, NEW ans2, NEW w2,
         OracleOK(o2), WorldOK(w2), MailOK(box2), SameIds(o2.trains, o.trains),
         In(box2) \subseteq In(box) \cup Backgrounds,
         Woken(o, o2, ans, ans2)
  PROVE  OracleInv(o2, cal, box2, ans2, w2) /\ ans2[CmdTask].req = ans[CmdTask].req
  <1>1. \A m \in In(box2) : m.from = CmdTask => m \in In(box)
    BY DEF Backgrounds, Tick, UpdateSensors, CmdTask
  <1>2. CASE o2.blocked = o.blocked /\ ans2 = ans
    <2>1. Pending(o2, cal, box2, ans2[CmdTask])
      BY <1>1, <1>2 DEF OracleInv, Pending, SameIds
    <2> QED BY <1>2, <2>1 DEF OracleInv
  <1>3. CASE /\ o.blocked # Nobody /\ o2.blocked = Nobody
             /\ \E result : ans2 = [ans EXCEPT ![CmdTask] = Replied(@.req, result)]
    <2>1. PICK result : ans2 = [ans EXCEPT ![CmdTask] = Replied(@.req, result)]
      BY <1>3
    <2>2. ans[CmdTask].req.tag = "WakeAtPos" /\ DOMAIN ans = Clients
      BY <1>3 DEF OracleInv, Pending
    <2>3. /\ DOMAIN ans2 = Clients /\ AnswerOK(ans2[CmdTask])
          /\ ans2[CmdTask].done /\ ans2[CmdTask].req = ans[CmdTask].req
      BY <2>1, <2>2, AnsweredOK
    <2>4. Pending(o2, cal, box2, ans2[CmdTask])
      BY <1>1, <1>3 DEF OracleInv, Pending
    <2> QED BY <2>3, <2>4 DEF OracleInv
  <1> QED BY <1>2, <1>3 DEF Woken

-----------------------------------------------------------------------------
(* The steps of the oracle.                                                *)

Holds == OracleInv(oracle, calibrating, mailbox, answer, world)

HoldsAfter ==
    /\ OracleInv(oracle', calibrating', mailbox', answer', world')
    /\ answer'[CmdTask].req = answer[CmdTask].req

\* The state as it is.
LEMMA NowIs ==
  ASSUME Holds
  PROVE  StateOK(Now) /\ Now.o = oracle /\ Now.w = world
  <1>1. DOMAIN Now = {"o", "w"} /\ Now.o = oracle /\ Now.w = world
    BY DEF Now
  <1> QED BY <1>1 DEF StateOK, Holds, OracleInv

\* The message at the head of the mailbox.
LEMMA ServedIs ==
  ASSUME Holds, NEW tag, Serving(tag)
  PROVE  /\ mailbox # <<>> /\ calibrating = None
         /\ Head(mailbox) \in Messages /\ Head(mailbox) \in In(mailbox) /\ Head(mailbox).req.tag = tag
         /\ MailOK(Tail(mailbox)) /\ In(Tail(mailbox)) \subseteq In(mailbox)
         /\ \A m \in In(Tail(mailbox)) : m.from # Head(mailbox).from
  <1>1. PICK box : box = mailbox /\ MailOK(box) /\ box # <<>>
    BY DEF Holds, OracleInv, Serving
  <1>2. /\ Head(box) \in In(box) /\ Head(box) \in Messages
        /\ MailOK(Tail(box)) /\ In(Tail(box)) \subseteq In(box)
        /\ \A m \in In(Tail(box)) : m.from # Head(box).from
    BY <1>1, HeadIs
  <1> QED BY <1>1, <1>2 DEF Serving

\* A request of the command task at the head of the mailbox.
LEMMA CommandIs ==
  ASSUME Holds, NEW tag, Serving(tag), tag \notin {"Tick", "UpdateSensors"}
  PROVE  \E r \in Requests \cup {LoopRequest} :
            /\ Head(mailbox) = [from |-> CmdTask, req |-> r] /\ r.tag = tag /\ answer[CmdTask].req = r
            /\ calibrating = None /\ oracle.blocked = Nobody /\ ~ answer[CmdTask].done
            /\ r = LoopRequest => \A k \in 1 .. MAX_TRAINS : oracle.trains[k].id = 0
            /\ MailOK(Tail(mailbox)) /\ \A m \in In(Tail(mailbox)) : m.from # CmdTask
  <1>1. /\ Head(mailbox) \in Messages /\ Head(mailbox) \in In(mailbox) /\ Head(mailbox).req.tag = tag
        /\ calibrating = None /\ MailOK(Tail(mailbox))
        /\ \A m \in In(Tail(mailbox)) : m.from # Head(mailbox).from
    BY ServedIs
  <1>2. PICK h \in Messages : h = Head(mailbox)
    BY <1>1
  <1>3. h \notin {Tick, UpdateSensors}
    BY <1>1, <1>2, MessageIs
  <1>4. h \in [from : {CmdTask}, req : Requests \cup {LoopRequest}]
    BY <1>3 DEF Messages
  <1>5. h.from = CmdTask /\ h.req \in Requests \cup {LoopRequest} /\ h = [from |-> CmdTask, req |-> h.req]
    BY <1>4
  <1> QED BY <1>1, <1>2, <1>5 DEF Holds, OracleInv, Pending

\* tick() (track_oracle.cc:648-664).
LEMMA ServeTickOK ==
  ASSUME GraphOK, Holds, ServeTick
  PROVE  HoldsAfter
  <1>1. /\ Serving("Tick") /\ TickIn(Now) /\ mailbox' = Tail(mailbox) /\ calibrating' = calibrating
    BY DEF ServeTick
  <1>2. /\ calibrating = None /\ MailOK(Tail(mailbox)) /\ In(Tail(mailbox)) \subseteq In(mailbox)
    BY <1>1, ServedIs
  <1>3. PICK s : s = Now /\ StateOK(s) /\ s.o = oracle
    BY NowIs
  <1>4. /\ OracleOK(oracle') /\ WorldOK(world') /\ SameIds(oracle'.trains, s.o.trains)
        /\ Woken(s.o, oracle', answer, answer')
    BY <1>1, <1>3, TickInOK
  <1>5. PICK o, cal, box, ans, w, o2, box2, ans2, w2 :
           /\ o = oracle /\ cal = calibrating /\ box = mailbox /\ ans = answer /\ w = world
           /\ o2 = oracle' /\ box2 = mailbox' /\ ans2 = answer' /\ w2 = world'
    OBVIOUS
  <1>6. OracleInv(o2, cal, box2, ans2, w2) /\ ans2[CmdTask].req = ans[CmdTask].req
    <2>1. OracleInv(o, cal, box, ans, w)
      BY <1>5 DEF Holds
    <2>2. /\ cal = None /\ MailOK(box2) /\ In(box2) \subseteq In(box) \cup Backgrounds
      BY <1>1, <1>2, <1>5
    <2>3. /\ OracleOK(o2) /\ WorldOK(w2) /\ SameIds(o2.trains, o.trains)
          /\ Woken(o, o2, ans, ans2)
      BY <1>3, <1>4, <1>5
    <2> QED BY <2>1, <2>2, <2>3, PendingTicked
  <1> QED BY <1>1, <1>5, <1>6 DEF HoldsAfter

\* update_sensors() (track_oracle.cc:502-619).
LEMMA ServeUpdateSensorsOK ==
  ASSUME GraphOK, Holds, NEW d \in QueryTicks, ServeUpdateSensors(d)
  PROVE  HoldsAfter
  <1>1. PICK s :
           /\ Serving("UpdateSensors") /\ s = Waited(Now, d)
           /\ TickIn([o |-> [s.o EXCEPT !.trains = Attributions(@, s.w.lit, s.o.branches)],
                      w |-> [s.w EXCEPT !.lit = {}]])
           /\ mailbox' = Append(Ticking(Tail(mailbox)), UpdateSensors) /\ calibrating' = calibrating
    BY DEF ServeUpdateSensors
  <1>2. d \in Nat /\ d > 0
    BY OracleAssumption
  <1>3. PICK was : was = Now /\ StateOK(was) /\ was.o = oracle
    BY NowIs
  <1>4. /\ StateOK(s) /\ SameOracle(s.o, oracle)
        /\ \A k \in 1 .. MAX_TRAINS : s.o.trains[k].changed_ago > 0 \/ MaxAge = 0
    BY <1>1, <1>2, <1>3, WaitedOK
  <1>5. PICK o, trains, dir, lit, new :
           /\ o = s.o /\ trains = o.trains /\ dir = o.branches /\ lit = s.w.lit /\ OracleOK(o)
           /\ TrainsOK(trains, dir) /\ lit \subseteq SENSORS /\ new = Attributions(trains, lit, dir)
    BY <1>4 DEF StateOK, OracleOK, WorldOK
  <1>6. TrainsOK(new, dir) /\ SameIds(new, trains)
    <2>1. \A k \in 1 .. MAX_TRAINS : trains[k].changed_ago > 0 \/ MaxAge = 0
      BY <1>4, <1>5
    <2> QED BY <1>5, <2>1, AttributionsOK
  <1>7. PICK o2 : /\ o2 = [o EXCEPT !.trains = new] /\ OracleOK(o2)
                  /\ o2.trains = new /\ o2.blocked = o.blocked
    <2>1. TrainsOK(new, o.branches) /\ SameIds(new, o.trains)
      BY <1>5, <1>6
    <2>2. LET x == [o EXCEPT !.trains = new]
          IN  OracleOK(x) /\ x.trains = new /\ x.branches = o.branches /\ x.blocked = o.blocked
      BY <1>5, <2>1, TrainsAnew
    <2> QED BY <2>2
  <1>8. PICK s2 : s2 = [o |-> o2, w |-> [s.w EXCEPT !.lit = {}]]
    OBVIOUS
  <1>9. StateOK(s2) /\ s2.o = o2
    <2>1. WorldOK([s.w EXCEPT !.lit = {}])
      BY <1>4 DEF StateOK, WorldOK
    <2> QED BY <1>7, <1>8, <2>1 DEF StateOK
  <1>10. TickIn(s2)
    BY <1>1, <1>5, <1>7, <1>8
  <1>11. /\ OracleOK(oracle') /\ WorldOK(world') /\ SameIds(oracle'.trains, o2.trains)
         /\ Woken(o2, oracle', answer, answer')
    BY <1>9, <1>10, TickInOK
  <1>12. calibrating = None /\ MailOK(mailbox') /\ In(mailbox') \subseteq In(mailbox) \cup Backgrounds
    <2>1. PICK h \in Messages, tail \in {Tail(mailbox)} :
             /\ tail = Tail(mailbox) /\ h = Head(mailbox) /\ MailOK(tail) /\ h.req.tag = "UpdateSensors"
             /\ In(tail) \subseteq In(mailbox) /\ \A m \in In(tail) : m.from # h.from
      <3>1. \E h \in Messages : h = Head(mailbox)
        BY <1>1, ServedIs
      <3>2. \E tail : tail = Tail(mailbox)
        OBVIOUS
      <3> QED BY <1>1, <3>1, <3>2, ServedIs
    <2>2. h.from = "poller"
      BY <2>1, MessageIs
    <2>3. PICK box : box = Ticking(tail) /\ MailOK(box) /\ In(box) = In(tail) \cup {Tick}
      BY <2>1, TickingIs
    <2>4. PICK m \in Messages : m = UpdateSensors
      BY DEF Messages
    <2>5. \A x \in In(box) : x.from # m.from
      BY <2>1, <2>2, <2>3, <2>4 DEF Tick, UpdateSensors
    <2>6. MailOK(Append(box, m)) /\ In(Append(box, m)) = In(box) \cup {m}
      BY <2>3, <2>5, AppendIs
    <2>7. mailbox' = Append(box, m)
      BY <1>1, <2>1, <2>3, <2>4
    <2>8. In(mailbox') = In(tail) \cup {Tick, UpdateSensors}
      BY <2>3, <2>4, <2>6, <2>7
    <2>9. calibrating = None
      BY <1>1, ServedIs
    <2> QED BY <2>1, <2>6, <2>7, <2>8, <2>9 DEF Backgrounds
  <1>13. PICK p, cal, box, ans, w, p2, box2, ans2, w2 :
           /\ p = oracle /\ cal = calibrating /\ box = mailbox /\ ans = answer /\ w = world
           /\ p2 = oracle' /\ box2 = mailbox' /\ ans2 = answer' /\ w2 = world'
    OBVIOUS
  <1>14. OracleInv(p2, cal, box2, ans2, w2) /\ ans2[CmdTask].req = ans[CmdTask].req
    <2>1. OracleInv(p, cal, box, ans, w)
      BY <1>13 DEF Holds
    <2>2. /\ cal = None /\ MailOK(box2) /\ In(box2) \subseteq In(box) \cup Backgrounds
      BY <1>12, <1>13
    <2>3. o2.blocked = p.blocked /\ SameIds(p2.trains, p.trains)
      BY <1>4, <1>5, <1>6, <1>7, <1>11, <1>13 DEF SameOracle, SameIds
    <2>4. /\ OracleOK(p2) /\ WorldOK(w2)
          /\ Woken(p, p2, ans, ans2)
      BY <1>11, <1>13, <2>3 DEF Woken
    <2> QED BY <2>1, <2>2, <2>3, <2>4, PendingTicked
  <1> QED BY <1>1, <1>13, <1>14 DEF HoldsAfter

\* Nothing of the command task is pending once it is answered, or its request was lost.
LEMMA ServedOK ==
  ASSUME OracleOK(oracle'), WorldOK(world'), oracle'.blocked = Nobody, calibrating' = None,
         MailOK(mailbox'), \A m \in In(mailbox') : m.from # CmdTask,
         DOMAIN answer' = Clients, AnswerOK(answer'[CmdTask]), answer'[CmdTask].req = answer[CmdTask].req
  PROVE  HoldsAfter
  BY DEF HoldsAfter, OracleInv, Pending

\* A request of the command task is answered.
LEMMA CommandServed ==
  ASSUME Holds, NEW tag, Serving(tag), tag \notin {"Tick", "UpdateSensors", "QueryTrain"},
         OracleOK(oracle'), WorldOK(world'), oracle'.blocked = Nobody,
         NEW result, Answered(result), mailbox' = Tail(mailbox), calibrating' = calibrating
  PROVE  HoldsAfter
  <1>1. PICK r \in Requests \cup {LoopRequest} :
           /\ Head(mailbox) = [from |-> CmdTask, req |-> r] /\ r.tag = tag /\ answer[CmdTask].req = r
           /\ calibrating = None /\ MailOK(Tail(mailbox)) /\ \A m \in In(Tail(mailbox)) : m.from # CmdTask
    BY CommandIs
  <1>2. PICK ans, new : ans = answer /\ new = answer'
    OBVIOUS
  <1>3. /\ DOMAIN ans = Clients /\ new = [ans EXCEPT ![CmdTask] = Replied(@.req, result)]
        /\ ans[CmdTask].req.tag # "QueryTrain"
    <2>1. Head(mailbox).from = CmdTask
      BY <1>1
    <2>2. answer' = [answer EXCEPT ![CmdTask] = Replied(@.req, result)]
      BY <2>1 DEF Answered
    <2>3. DOMAIN answer = Clients
      BY DEF Holds, OracleInv
    <2> QED BY <1>1, <1>2, <2>2, <2>3
  <1>4. DOMAIN new = Clients /\ AnswerOK(new[CmdTask]) /\ new[CmdTask].req = ans[CmdTask].req
    BY <1>3, AnsweredOK
  <1>5. DOMAIN answer' = Clients /\ AnswerOK(answer'[CmdTask]) /\ answer'[CmdTask].req = answer[CmdTask].req
    BY <1>2, <1>4
  <1>6. calibrating' = None /\ MailOK(mailbox') /\ \A m \in In(mailbox') : m.from # CmdTask
    BY <1>1
  <1> QED BY <1>5, <1>6, ServedOK

\* The command task is answered with a descriptor.
LEMMA ToldServed ==
  ASSUME Holds, NEW tag, Serving(tag), tag \notin {"Tick", "UpdateSensors"},
         OracleOK(oracle'), WorldOK(world'), oracle'.blocked = Nobody, NEW x,
         answer' = [answer EXCEPT ![Head(mailbox).from] = x], AnswerOK(x), x.req = answer[CmdTask].req,
         mailbox' = Tail(mailbox), calibrating' = calibrating
  PROVE  HoldsAfter
  <1>1. PICK r \in Requests \cup {LoopRequest} :
           /\ Head(mailbox) = [from |-> CmdTask, req |-> r]
           /\ calibrating = None /\ MailOK(Tail(mailbox)) /\ \A m \in In(Tail(mailbox)) : m.from # CmdTask
    BY CommandIs
  <1>2. DOMAIN answer = Clients /\ CmdTask \in Clients /\ Head(mailbox).from = CmdTask
    BY <1>1, CommandsAssumption DEF Holds, OracleInv
  <1>3. DOMAIN answer' = Clients /\ answer'[CmdTask] = x
    BY <1>2
  <1>4. calibrating' = None /\ MailOK(mailbox') /\ \A m \in In(mailbox') : m.from # CmdTask
    BY <1>1
  <1> QED BY <1>3, <1>4, ServedOK

\* query_train(): the descriptor told is one of a train there is.
LEMMA ServeQueryTrainOK ==
  ASSUME GraphOK, Holds, ServeQueryTrain
  PROVE  HoldsAfter
  <1>1. PICK r \in Requests \cup {LoopRequest} :
           /\ Head(mailbox) = [from |-> CmdTask, req |-> r] /\ r.tag = "QueryTrain"
           /\ answer[CmdTask].req = r /\ oracle.blocked = Nobody
    BY CommandIs DEF ServeQueryTrain
  <1>2. r.id \in CalibratedTrains /\ Head(mailbox).from = CmdTask /\ Head(mailbox).req = r
    BY <1>1, RequestIs
  <1>3. PICK k : k = SlotOf(oracle.trains, r.id)
    OBVIOUS
  <1>4. PICK td : td = IF k = 0 THEN FreeSlot ELSE oracle.trains[k]
    OBVIOUS
  <1>5. PICK x : x = [Replied(r, k # 0) EXCEPT !.td = td]
    OBVIOUS
  <1>6. x.td = td /\ x.req = r /\ (x.success <=> k # 0)
    BY <1>5 DEF Replied
  <1>7. AnswerOK(x)
    <2>1. SUFFICES ASSUME k # 0 PROVE td \in Tds /\ td.id \in CalibratedTrains
      BY <1>6 DEF AnswerOK
    <2>2. PICK trains : trains = oracle.trains /\ trains \in [1 .. MAX_TRAINS -> Tds]
      BY DEF Holds, OracleInv, OracleOK, Oracles
    <2>3. k \in 1 .. MAX_TRAINS /\ trains[k].id = r.id
      <3>1. PICK id : id = r.id
        OBVIOUS
      <3>2. SlotOf(trains, id) # 0 => SlotOf(trains, id) \in 1 .. MAX_TRAINS /\ trains[SlotOf(trains, id)].id = id
        BY <2>2, SlotIs
      <3> QED BY <1>3, <2>1, <2>2, <3>1, <3>2
    <2> QED BY <1>2, <1>4, <2>1, <2>2, <2>3
  <1>8. answer' = [answer EXCEPT ![Head(mailbox).from] = x]
    <2>1. answer' = [answer EXCEPT ![Head(mailbox).from] =
               [Replied(@.req, k # 0) EXCEPT !.td = td]]
      BY <1>2, <1>3, <1>4 DEF ServeQueryTrain
    <2>2. answer[Head(mailbox).from].req = r
      BY <1>1
    <2> QED BY <1>5, <2>1, <2>2
  <1>9. OracleOK(oracle') /\ WorldOK(world') /\ oracle'.blocked = Nobody
    BY <1>1 DEF ServeQueryTrain, Holds, OracleInv
  <1>10. Serving("QueryTrain") /\ mailbox' = Tail(mailbox) /\ calibrating' = calibrating
    BY DEF ServeQueryTrain
  <1> QED BY <1>1, <1>6, <1>7, <1>8, <1>9, <1>10, ToldServed

\* A position normalized.
LEMMA ServeNormalizeOK ==
  ASSUME GraphOK, Holds, ServeNormalize
  PROVE  HoldsAfter
  <1>1. PICK r \in Requests \cup {LoopRequest} :
           /\ Head(mailbox) = [from |-> CmdTask, req |-> r] /\ r.tag = "Normalize"
           /\ answer[CmdTask].req = r /\ oracle.blocked = Nobody
    BY CommandIs DEF ServeNormalize
  <1>2. PICK p : p = Normalize(Head(mailbox).req.pos, oracle.branches)
    OBVIOUS
  <1>3. PICK x : x = [Replied(r, TRUE) EXCEPT !.td.pos = p]
    OBVIOUS
  <1>4. x.req = r
    BY <1>3 DEF Replied
  <1>5. AnswerOK(x)
    BY <1>1, <1>4 DEF AnswerOK
  <1>6. answer' = [answer EXCEPT ![Head(mailbox).from] = x]
    <2>1. answer' = [answer EXCEPT ![Head(mailbox).from] = [Replied(@.req, TRUE) EXCEPT !.td.pos = p]]
      BY <1>2 DEF ServeNormalize
    <2>2. answer[Head(mailbox).from].req = r
      BY <1>1
    <2> QED BY <1>3, <2>1, <2>2
  <1>7. OracleOK(oracle') /\ WorldOK(world') /\ oracle'.blocked = Nobody
    BY <1>1 DEF ServeNormalize, Holds, OracleInv
  <1>8. Serving("Normalize") /\ mailbox' = Tail(mailbox) /\ calibrating' = calibrating
    BY DEF ServeNormalize
  <1> QED BY <1>1, <1>4, <1>5, <1>6, <1>7, <1>8, ToldServed

\* set_train_speed()
LEMMA ServeSetTrainSpeedOK ==
  ASSUME GraphOK, Holds, ServeSetTrainSpeed
  PROVE  HoldsAfter
  <1>1. PICK r \in Requests \cup {LoopRequest} :
           /\ Head(mailbox) = [from |-> CmdTask, req |-> r] /\ r.tag = "SetTrainSpeed"
           /\ answer[CmdTask].req = r /\ oracle.blocked = Nobody
    BY CommandIs DEF ServeSetTrainSpeed
  <1>2. PICK n \in Speeds, id \in {r.id} : n = r.speed /\ id = r.id
    BY <1>1, RequestIs
  <1>3. PICK s : s = Now /\ StateOK(s) /\ s.o = oracle
    BY NowIs
  <1>4. StateOK(Drive(s, id, n)) /\ SameOracle(Drive(s, id, n).o, s.o)
    BY <1>3, DriveOK
  <1>5. oracle' = Drive(s, id, n).o /\ world' = Drive(s, id, n).w
    BY <1>1, <1>2, <1>3 DEF ServeSetTrainSpeed, Becomes
  <1>6. OracleOK(oracle') /\ WorldOK(world') /\ oracle'.blocked = Nobody
    BY <1>1, <1>3, <1>4, <1>5 DEF StateOK, SameOracle
  <1>7. /\ Serving("SetTrainSpeed") /\ mailbox' = Tail(mailbox) /\ calibrating' = calibrating
        /\ \E result : Answered(result)
    BY DEF ServeSetTrainSpeed
  <1> QED BY <1>6, <1>7, CommandServed

\* reverse_train()
LEMMA ServeReverseTrainOK ==
  ASSUME GraphOK, Holds, ServeReverseTrain
  PROVE  HoldsAfter
  <1>1. PICK r \in Requests \cup {LoopRequest} :
           /\ Head(mailbox) = [from |-> CmdTask, req |-> r] /\ oracle.blocked = Nobody
    BY CommandIs DEF ServeReverseTrain
  <1>2. PICK o, w, trains, dir, id : o = oracle /\ w = world /\ OracleOK(o) /\ WorldOK(w)
           /\ trains = o.trains /\ dir = o.branches /\ TrainsOK(trains, dir) /\ id = Head(mailbox).req.id
    BY DEF Holds, OracleInv, OracleOK
  <1>3. DOMAIN trains = 1 .. MAX_TRAINS
    BY <1>2 DEF TrainsOK
  <1>4. PICK slot : slot = SlotOf(trains, id) /\ (slot = 0 \/ slot \in 1 .. MAX_TRAINS)
    BY <1>3, SlotIs
  <1>5. PICK new : new = OnSlotOf(oracle.trains, Head(mailbox).req.id, LAMBDA td : Reversed(td, oracle.branches))
    OBVIOUS
  <1>6. new = IF slot = 0 THEN trains ELSE [trains EXCEPT ![slot] = Reversed(@, dir)]
    <2>1. slot = SlotOf(oracle.trains, Head(mailbox).req.id)
      BY <1>2, <1>4
    <2>2. new = IF slot = 0 THEN oracle.trains ELSE [oracle.trains EXCEPT ![slot] = Reversed(@, oracle.branches)]
      BY <1>5, <2>1, Zenon DEF OnSlotOf
    <2> QED BY <1>2, <2>2
  <1>7. TrainsOK(new, dir) /\ SameIds(new, trains)
    <2>1. CASE slot = 0
      BY <1>2, <1>6, <2>1 DEF SameIds
    <2>2. CASE slot # 0
      <3>1. PICK td : td = Reversed(trains[slot], dir) /\ TdOK(td, dir) /\ td.id = trains[slot].id
        <4>1. PICK was : was = trains[slot] /\ TdOK(was, dir)
          BY <1>2, <1>4, <2>2 DEF TrainsOK
        <4>2. TdOK(Reversed(was, dir), dir) /\ Reversed(was, dir).id = was.id
          BY <4>1, ReversedOK
        <4> QED BY <4>1, <4>2
      <3>2. new = [trains EXCEPT ![slot] = td]
        BY <1>6, <2>2, <3>1
      <3> QED BY <1>2, <1>4, <2>2, <3>1, <3>2, SlotChanged
    <2> QED BY <2>1, <2>2
  <1>8. PICK o2 : o2 = [o EXCEPT !.trains = new] /\ OracleOK(o2) /\ o2.blocked = o.blocked
    <2>1. TrainsOK(new, o.branches) /\ SameIds(new, o.trains)
      BY <1>2, <1>7
    <2>2. LET x == [o EXCEPT !.trains = new]
          IN  OracleOK(x) /\ x.trains = new /\ x.branches = o.branches /\ x.blocked = o.blocked
      BY <1>2, <2>1, TrainsAnew
    <2> QED BY <2>2
  <1>9. oracle' = o2
    <2>1. oracle' = [oracle EXCEPT !.trains = new]
      BY <1>5, Zenon DEF ServeReverseTrain
    <2> QED BY <1>2, <1>8, <2>1
  <1>10. WorldOK(world')
    <2> DEFINE real == [w.real EXCEPT ![id] = Turned(@)]
               last == [w.last EXCEPT ![id] = IF @ = -1 THEN -1 ELSE InvertSensor(@)]
    <2>1. world' = [w EXCEPT !.real = real, !.last = last]
      BY <1>2 DEF ServeReverseTrain
    <2> HIDE DEF real, last
    <2> QED BY <1>2, <2>1 DEF WorldOK
  <1>11. OracleOK(oracle') /\ oracle'.blocked = Nobody
    BY <1>1, <1>2, <1>8, <1>9
  <1>12. /\ Serving("ReverseTrain") /\ mailbox' = Tail(mailbox) /\ calibrating' = calibrating
         /\ \E result : Answered(result)
    BY DEF ServeReverseTrain
  <1> QED BY <1>10, <1>11, <1>12, CommandServed

\* The switches lie otherwise: each train is expected where they lead it now.
LEMMA SwitchedOK ==
  ASSUME GraphOK, NEW o, OracleOK(o), NEW n \in VALID_SWITCHES, NEW d \in Dirs
  PROVE  OracleOK(Switched(o, n, d)) /\ Switched(o, n, d).blocked = o.blocked
  <1>1. /\ DOMAIN o.trains = 1 .. MAX_TRAINS /\ o.branches \in [VALID_SWITCHES -> Dirs] /\ o \in Oracles
        /\ \A k \in 1 .. MAX_TRAINS : TdOK(o.trains[k], o.branches)
    BY DEF OracleOK, Oracles, TrainsOK
  <1>2. PICK dir \in [VALID_SWITCHES -> Dirs] : dir = [o.branches EXCEPT ![n] = d]
    BY <1>1
  <1> DEFINE trains == [k \in DOMAIN o.trains |-> IF o.trains[k].id = 0 THEN o.trains[k]
                                                  ELSE WithNextSensor(o.trains[k], dir)]
             new == [o EXCEPT !.branches = dir, !.trains = trains]
  <1>3. Switched(o, n, d) = new
    BY <1>2 DEF Switched
  <1>4. ASSUME NEW k \in 1 .. MAX_TRAINS
        PROVE  TdOK(trains[k], dir) /\ trains[k].id = o.trains[k].id
    <2>1. PICK td \in Tds : td = o.trains[k] /\ (td.id # 0 => Settles(td))
      BY <1>1 DEF TdOK
    <2>2. trains[k] = IF td.id = 0 THEN td ELSE WithNextSensor(td, dir)
      BY <1>1, <2>1
    <2>3. CASE td.id = 0
      BY <2>1, <2>2, <2>3 DEF TdOK
    <2>4. CASE td.id # 0
      <3>1. TdOK(WithNextSensor(td, dir), dir) /\ WithNextSensor(td, dir).id = td.id
        BY <2>1, ExpectingOK
      <3> QED BY <2>1, <2>2, <2>4, <3>1
    <2> QED BY <2>3, <2>4
  <1>5. trains = [k \in 1 .. MAX_TRAINS |-> trains[k]]
    BY <1>1
  <1> HIDE DEF trains
  <1>6. TrainsOK(trains, dir) /\ SameIds(trains, o.trains)
    <2>1. PICK new2, trains2 : new2 = trains /\ trains2 = o.trains
      OBVIOUS
    <2>2. TrainsOK(new2, dir) /\ SameIds(new2, trains2)
      BY <1>4, <1>5, <2>1, TrainsMapped
    <2> QED BY <2>1, <2>2
  <1>7. new \in Oracles /\ new.trains = trains /\ new.branches = dir /\ new.blocked = o.blocked
    BY <1>1, <1>6 DEF Oracles, TrainsOK
  <1> HIDE DEF new
  <1>8. OracleOK(new)
    BY <1>6, <1>7 DEF OracleOK, HasSlot, SameIds
  <1> QED BY <1>3, <1>7, <1>8

\* The switches thrown, the sensors are reported all the same.
LEMMA FooledOK ==
  ASSUME NEW w, WorldOK(w), NEW was, NEW dir
  PROVE  WorldOK(Fooled(w, was, dir))
  <1>1. PICK some : some = (w.fooled \/ \E t \in Trains : w.last[t] # -1 /\ \E n \in w.passed[t] : was[n] # dir[n])
    OBVIOUS
  <1>2. Fooled(w, was, dir) = [w EXCEPT !.fooled = some]
    BY <1>1 DEF Fooled
  <1> QED BY <1>2 DEF WorldOK

\* set_branch_dir(), of a switch there is or not.
LEMMA ServeSetBranchDirOK ==
  ASSUME GraphOK, Holds, ServeSetBranchDir
  PROVE  HoldsAfter
  <1>1. PICK r \in Requests \cup {LoopRequest} :
           /\ Head(mailbox) = [from |-> CmdTask, req |-> r] /\ r.tag = "SetBranchDir"
           /\ answer[CmdTask].req = r /\ oracle.blocked = Nobody /\ calibrating = None
           /\ MailOK(Tail(mailbox)) /\ \A m \in In(Tail(mailbox)) : m.from # CmdTask
    BY CommandIs DEF ServeSetBranchDir
  <1>2. PICK d \in Dirs, n \in {r.id} : d = r.dir /\ n = r.id
    BY <1>1, RequestIs
  <1>3. PICK o, w : o = oracle /\ w = world /\ OracleOK(o) /\ WorldOK(w)
    BY DEF Holds, OracleInv
  <1>4. /\ Serving("SetBranchDir") /\ mailbox' = Tail(mailbox) /\ calibrating' = calibrating
    BY DEF ServeSetBranchDir
  <1>7. Head(mailbox).req.id = n /\ Head(mailbox).req.dir = d
    BY <1>1, <1>2
  <1>5. CASE n \in VALID_SWITCHES
    <2>1. OracleOK(Switched(o, n, d)) /\ Switched(o, n, d).blocked = o.blocked
      BY <1>3, <1>5, SwitchedOK
    <2>2. PICK was, dir : was = oracle.branches /\ dir = [oracle.branches EXCEPT ![n] = d]
      OBVIOUS
    <2>3. WorldOK(Fooled(w, was, dir))
      BY <1>3, FooledOK
    <2>4. oracle' = Switched(o, n, d) /\ world' = Fooled(w, was, dir) /\ Answered(TRUE)
      <3>1. /\ oracle' = Switched(oracle, Head(mailbox).req.id, Head(mailbox).req.dir)
            /\ world' = Fooled(world, oracle.branches,
                               [oracle.branches EXCEPT ![Head(mailbox).req.id] = Head(mailbox).req.dir])
            /\ Answered(TRUE)
        BY <1>5, <1>7, Zenon DEF ServeSetBranchDir
      <3> QED BY <1>3, <1>7, <2>2, <3>1
    <2> QED BY <1>1, <1>3, <1>4, <2>1, <2>3, <2>4, CommandServed
  <1>6. CASE n \notin VALID_SWITCHES
    <2>1. oracle' = oracle /\ world' = world /\ answer' = answer
      <3>1. Head(mailbox).req.id \notin VALID_SWITCHES
        BY <1>6, <1>7
      <3> QED BY <3>1, Zenon DEF ServeSetBranchDir
    <2> QED BY <1>1, <1>4, <2>1, ServedOK DEF Holds, OracleInv
  <1> QED BY <1>5, <1>6

\* make_loop(), which tells no train of it: there is none.
LEMMA ServeMakeLoopOK ==
  ASSUME GraphOK, Holds, ServeMakeLoop
  PROVE  HoldsAfter
  <1>1. /\ oracle.blocked = Nobody /\ \A k \in 1 .. MAX_TRAINS : oracle.trains[k].id = 0
    <2>1. Serving("MakeLoop")
      BY DEF ServeMakeLoop
    <2>2. PICK r \in Requests \cup {LoopRequest} :
            /\ r.tag = "MakeLoop" /\ oracle.blocked = Nobody
            /\ r = LoopRequest => \A k \in 1 .. MAX_TRAINS : oracle.trains[k].id = 0
      BY <2>1, CommandIs
    <2> QED BY <2>2, RequestIs
  <1>2. PICK o, w : o = oracle /\ w = world /\ OracleOK(o) /\ WorldOK(w)
    BY DEF Holds, OracleInv
  <1>3. Loop \in [VALID_SWITCHES -> Dirs]
    BY DEF Loop, Dirs
  <1> DEFINE new == [o EXCEPT !.branches = Loop]
  <1>4. new \in Oracles /\ new.trains = o.trains /\ new.branches = Loop /\ new.blocked = o.blocked
    BY <1>2, <1>3 DEF OracleOK, Oracles
  <1>5. oracle' = new /\ world' = Fooled(world, oracle.branches, Loop)
    BY <1>2 DEF ServeMakeLoop
  <1> HIDE DEF new
  <1>6. OracleOK(new)
    BY <1>1, <1>2, <1>4 DEF OracleOK, TrainsOK, TdOK
  <1>7. WorldOK(world')
    <2>1. PICK was, dir : was = oracle.branches /\ dir = Loop
      OBVIOUS
    <2>2. WorldOK(Fooled(w, was, dir))
      BY <1>2, FooledOK
    <2> QED BY <1>2, <1>5, <2>1, <2>2
  <1>8. /\ Serving("MakeLoop") /\ mailbox' = Tail(mailbox) /\ calibrating' = calibrating /\ Answered(TRUE)
    BY DEF ServeMakeLoop
  <1> QED BY <1>1, <1>2, <1>4, <1>5, <1>6, <1>7, <1>8, CommandServed

\* wake_at_pos(): nobody waits yet, so it does not panic.
LEMMA ServeWakeAtPosOK ==
  ASSUME GraphOK, Holds, ServeWakeAtPos
  PROVE  HoldsAfter
  <1>1. PICK r \in Requests \cup {LoopRequest} :
           /\ Head(mailbox) = [from |-> CmdTask, req |-> r] /\ r.tag = "WakeAtPos"
           /\ answer[CmdTask].req = r /\ oracle.blocked = Nobody /\ calibrating = None /\ ~ answer[CmdTask].done
           /\ MailOK(Tail(mailbox)) /\ \A m \in In(Tail(mailbox)) : m.from # CmdTask
    BY CommandIs DEF ServeWakeAtPos
  <1>2. PICK id \in CalibratedTrains, p \in Positions : id = r.id /\ p = r.pos
    BY <1>1, RequestIs
  <1>3. PICK o, trains, dir : o = oracle /\ OracleOK(o) /\ trains = o.trains /\ dir = o.branches
    BY DEF Holds, OracleInv
  <1>4. WorldOK(world) /\ DOMAIN answer = Clients /\ AnswerOK(answer[CmdTask])
    BY DEF Holds, OracleInv
  <1>5. /\ Serving("WakeAtPos") /\ mailbox' = Tail(mailbox) /\ calibrating' = calibrating /\ world' = world
    BY DEF ServeWakeAtPos
  <1>6. PICK slot : slot = SlotOf(trains, id)
                    /\ (slot = 0 \/ (slot \in 1 .. MAX_TRAINS /\ trains[slot].id = id))
    <2>1. DOMAIN trains = 1 .. MAX_TRAINS
      BY <1>3 DEF OracleOK, Oracles
    <2> QED BY <2>1, SlotIs
  <1>7. slot = SlotOf(oracle.trains, Head(mailbox).req.id)
    BY <1>1, <1>2, <1>3, <1>6
  <1>8. CASE slot = 0
    <2>1. Answered(FALSE) /\ oracle' = oracle
      BY <1>1, <1>7, <1>8, Zenon DEF ServeWakeAtPos
    <2> QED BY <1>1, <1>3, <1>4, <1>5, <2>1, CommandServed
  <1>9. CASE slot # 0
    <2>1. PICK b \in Blockings : b = [from |-> CmdTask, id |-> id, pos |-> Normalize(p, dir)]
      <3>1. Normalize(p, dir) \in Positions
        BY NormalizeType
      <3> QED BY <3>1 DEF Blockings
    <2>2. b = [from |-> Head(mailbox).from, id |-> Head(mailbox).req.id,
               pos |-> Normalize(Head(mailbox).req.pos, oracle.branches)]
      BY <1>1, <1>2, <1>3, <2>1
    <2>3. oracle' = [oracle EXCEPT !.blocked = b] /\ answer' = answer
      BY <1>1, <1>7, <1>9, <2>2, Zenon DEF ServeWakeAtPos
    <2> DEFINE new == [o EXCEPT !.blocked = b]
    <2>4. new \in Oracles /\ new.trains = o.trains /\ new.branches = o.branches /\ new.blocked = b
      BY <1>3 DEF OracleOK, Oracles
    <2>5. oracle' = new
      BY <1>3, <2>3
    <2> HIDE DEF new
    <2>6. HasSlot(trains, b.id)
      BY <1>6, <1>9, <2>1 DEF HasSlot
    <2>7. OracleOK(new)
      BY <1>3, <2>4, <2>6 DEF OracleOK
    <2>8. Pending(oracle', calibrating', mailbox', answer'[CmdTask])
      BY <1>1, <1>5, <2>3 DEF Pending
    <2> QED BY <1>1, <1>4, <1>5, <2>3, <2>5, <2>7, <2>8 DEF HoldsAfter, OracleInv
  <1> QED BY <1>8, <1>9

\* The sensors reported are thrown away.
LEMMA DarkOK ==
  ASSUME NEW s, StateOK(s)
  PROVE  LET dark == [s EXCEPT !.w.lit = {}]
         IN  StateOK(dark) /\ dark.o = s.o
  <1> DEFINE dark == [s EXCEPT !.w.lit = {}]
  <1>1. WorldOK([s.w EXCEPT !.lit = {}])
    BY DEF StateOK, WorldOK
  <1>2. DOMAIN dark = {"o", "w"} /\ dark.o = s.o /\ dark.w = [s.w EXCEPT !.lit = {}]
    BY DEF StateOK
  <1> HIDE DEF dark
  <1>3. StateOK(dark) /\ dark.o = s.o
    BY <1>1, <1>2 DEF StateOK
  <1> QED BY <1>3 DEF dark

\* calibrate_train(), up to its loop.
LEMMA ServeCalibrateTrainOK ==
  ASSUME GraphOK, Holds, NEW d \in QueryTicks, ServeCalibrateTrain(d)
  PROVE  HoldsAfter
  <1>1. PICK r \in Requests \cup {LoopRequest} :
           /\ Head(mailbox) = [from |-> CmdTask, req |-> r] /\ r.tag = "CalibrateTrain"
           /\ answer[CmdTask].req = r /\ oracle.blocked = Nobody /\ calibrating = None /\ ~ answer[CmdTask].done
           /\ MailOK(Tail(mailbox)) /\ \A m \in In(Tail(mailbox)) : m.from # CmdTask
    BY CommandIs DEF ServeCalibrateTrain
  <1>2. PICK tail : tail = Tail(mailbox)
    OBVIOUS
  <1>3. MailOK(Ticking(tail)) /\ In(Ticking(tail)) = In(tail) \cup {Tick}
    BY <1>1, <1>2, TickingIs
  <1>4. MailOK(mailbox') /\ \A m \in In(mailbox') : m.from # CmdTask
    <2>1. mailbox' = Ticking(tail)
      BY <1>2 DEF ServeCalibrateTrain
    <2>2. Tick.from # CmdTask
      BY DEF Tick, CmdTask
    <2> QED BY <1>1, <1>2, <1>3, <2>1, <2>2
  <1>5. answer' = answer
    BY DEF ServeCalibrateTrain
  <1>6. /\ OracleOK(oracle) /\ WorldOK(world) /\ DOMAIN answer = Clients /\ AnswerOK(answer[CmdTask])
    BY DEF Holds, OracleInv
  <1>7. CASE FreeSlots = {}
    <2>1. oracle' = oracle /\ world' = world /\ calibrating' = calibrating
      BY <1>7 DEF ServeCalibrateTrain
    <2> QED BY <1>1, <1>4, <1>5, <1>6, <2>1, ServedOK
  <1>8. CASE FreeSlots # {}
    <2>1. PICK now : now = Now /\ StateOK(now) /\ now.o = oracle
      BY NowIs
    <2>2. /\ \E id \in {Head(mailbox).req.id} :
             \E stopped \in {Waited(Drive(now, id, 0), 200)} :
             \E s \in {Waited(Drive(stopped, id, 8), d)} : Becomes([s EXCEPT !.w.lit = {}])
          /\ calibrating' = Head(mailbox)
      BY <1>8, <2>1 DEF ServeCalibrateTrain
    <2>3. PICK id, stopped, s : /\ stopped = Waited(Drive(now, id, 0), 200)
                                /\ s = Waited(Drive(stopped, id, 8), d)
                                /\ Becomes([s EXCEPT !.w.lit = {}])
      BY <2>2
    <2>4. d \in Nat /\ 200 \in Nat /\ 0 \in Speeds /\ 8 \in Speeds
      BY OracleAssumption DEF Speeds
    <2>5. PICK a : a = Drive(now, id, 0) /\ StateOK(a) /\ SameOracle(a.o, now.o)
      BY <2>1, <2>4, DriveOK
    <2>6. StateOK(stopped) /\ SameOracle(stopped.o, a.o)
      BY <2>3, <2>4, <2>5, WaitedOK
    <2>7. PICK b : b = Drive(stopped, id, 8) /\ StateOK(b) /\ SameOracle(b.o, stopped.o)
      BY <2>4, <2>6, DriveOK
    <2>8. StateOK(s) /\ SameOracle(s.o, b.o)
      BY <2>3, <2>4, <2>7, WaitedOK
    <2>9. PICK dark : dark = [s EXCEPT !.w.lit = {}] /\ StateOK(dark) /\ dark.o = s.o
      BY <2>8, DarkOK
    <2>10. oracle' = dark.o /\ world' = dark.w
      BY <2>3, <2>9 DEF Becomes
    <2>11. SameOracle(oracle', oracle)
      BY <2>1, <2>5, <2>6, <2>7, <2>8, <2>9, <2>10 DEF SameOracle, SameIds
    <2>12. OracleOK(oracle') /\ WorldOK(world') /\ oracle'.blocked = Nobody
      BY <1>1, <2>9, <2>10, <2>11 DEF StateOK, SameOracle
    <2>13. HasSlot(oracle'.trains, 0)
      BY <1>8, <2>11 DEF FreeSlots, HasSlot, SameOracle, SameIds
    <2>14. calibrating' = [from |-> CmdTask, req |-> r]
      BY <1>1, <2>2
    <2>15. r \in Requests
      BY <1>1, RequestIs DEF LoopRequest
    <2>16. Pending(oracle', calibrating', mailbox', answer'[CmdTask])
      BY <1>1, <1>4, <1>5, <2>12, <2>13, <2>14, <2>15 DEF Pending
    <2> QED BY <1>4, <1>5, <1>6, <2>12, <2>16 DEF HoldsAfter, OracleInv
  <1> QED BY <1>7, <1>8

\* A train takes a free slot.
LEMMA SlotTaken ==
  ASSUME NEW o, OracleOK(o), o.blocked = Nobody, NEW k \in 1 .. MAX_TRAINS,
         NEW td, TdOK(td, o.branches)
  PROVE  LET new == [o EXCEPT !.trains[k] = td]
         IN  OracleOK(new) /\ new.blocked = Nobody
  <1> DEFINE trains == [o.trains EXCEPT ![k] = td]
             new == [o EXCEPT !.trains = trains]
  <1>1. o \in Oracles /\ o.trains \in [1 .. MAX_TRAINS -> Tds] /\ td \in Tds
        /\ \A j \in 1 .. MAX_TRAINS : TdOK(o.trains[j], o.branches)
    BY DEF OracleOK, TrainsOK, TdOK
  <1>2. trains \in [1 .. MAX_TRAINS -> Tds] /\ \A j \in 1 .. MAX_TRAINS : trains[j] = IF j = k THEN td ELSE o.trains[j]
    BY <1>1
  <1> HIDE DEF trains
  <1>3. new \in Oracles /\ new.trains = trains /\ new.branches = o.branches /\ new.blocked = Nobody
    BY <1>1, <1>2 DEF Oracles
  <1>4. [o EXCEPT !.trains[k] = td] = new
    BY DEF trains
  <1> HIDE DEF new
  <1>5. OracleOK(new)
    BY <1>1, <1>2, <1>3 DEF OracleOK, TrainsOK
  <1> QED BY <1>3, <1>4, <1>5

\* A free slot has a descriptor too.
LEMMA FreeSlotIs ==
  ASSUME GraphOK
  PROVE  /\ FreeSlot \in Tds /\ FreeSlot.id = 0
         /\ FreeSlot.speed = FreeSlot.old_speed /\ ~ FreeSlot.has_next_sensor
  <1>1. PICK p \in Positions : p = Pos(0, 0)
    <2>1. 0 \in SENSORS /\ 0 \in Int
      BY DEF SENSORS
    <2> QED BY <2>1, PosType
  <1>2. 0 \in Speeds /\ 0 \in 0 .. MaxAge /\ 0 \in SENSORS
    BY OracleAssumption DEF Speeds, SENSORS
  <1> QED BY <1>1, <1>2 DEF FreeSlot, Tds

\* The descriptor of a train that has been found.
LEMMA FoundOK ==
  ASSUME GraphOK, NEW id \in CalibratedTrains, NEW hit \in SENSORS, NEW dir
  PROVE  TdOK([FreeSlot EXCEPT !.id = id, !.pos = Pos(hit, StoppingDistance(id, 8)), !.next_sensor = hit], dir)
  <1>1. PICK p \in Positions : p = Pos(hit, StoppingDistance(id, 8))
    <2>1. StoppingDistance(id, 8) \in Int
      BY TablesTyped DEF StoppingDistance
    <2>2. Pos(hit, StoppingDistance(id, 8)) \in Positions
      BY <2>1, SensorsPlaced DEF Pos, Positions
    <2> QED BY <2>2
  <1>3. FreeSlot \in Tds /\ FreeSlot.speed = FreeSlot.old_speed /\ ~ FreeSlot.has_next_sensor
    BY FreeSlotIs
  <1> DEFINE new == [FreeSlot EXCEPT !.id = id, !.pos = p, !.next_sensor = hit]
  <1>5. new \in Tds /\ new.old_speed = new.speed /\ ~ new.has_next_sensor
    BY <1>1, <1>3 DEF Tds
  <1> HIDE DEF new
  <1>6. TdOK(new, dir)
    BY <1>5 DEF TdOK, Settles, Expects
  <1> QED BY <1>1, <1>6 DEF new

\* One turn of the loop of calibrate_train(): the slot found before is still free.
LEMMA CalibrateQueryOK ==
  ASSUME GraphOK, Holds, NEW d \in QueryTicks, CalibrateQuery(d)
  PROVE  HoldsAfter
  <1>1. PICK now : now = Now /\ StateOK(now) /\ now.o = oracle
    BY NowIs
  <1>2. PICK s : /\ s = Waited(now, d)
                 /\ LET id  == calibrating.req.id
                        to  == Drive([s EXCEPT !.w.lit = {}], id, 0)
                        hit == Min(s.w.lit)
                    IN  IF s.w.lit = {} THEN Becomes(s) /\ UNCHANGED <<calibrating, answer>>
                        ELSE /\ Becomes([to EXCEPT !.o.trains[Min(FreeSlots)] =
                                           [FreeSlot EXCEPT !.id = id, !.pos = Pos(hit, StoppingDistance(id, 8)),
                                                            !.next_sensor = hit]])
                             /\ answer' = [answer EXCEPT ![calibrating.from] = Replied(@.req, TRUE)]
                             /\ calibrating' = None
    BY <1>1 DEF CalibrateQuery
  <1>3. d \in Nat /\ 0 \in Speeds
    BY OracleAssumption DEF Speeds
  <1>4. StateOK(s) /\ SameOracle(s.o, oracle)
    BY <1>1, <1>2, <1>3, WaitedOK
  <1>5. /\ calibrating \in [from : {CmdTask}, req : Requests] /\ calibrating.req.tag = "CalibrateTrain"
        /\ ~ answer[CmdTask].done /\ answer[CmdTask].req = calibrating.req /\ oracle.blocked = Nobody
        /\ HasSlot(oracle.trains, 0) /\ \A m \in In(mailbox) : m.from # CmdTask
    BY DEF CalibrateQuery, Holds, OracleInv, Pending
  <1>6. mailbox' = mailbox /\ MailOK(mailbox) /\ DOMAIN answer = Clients /\ AnswerOK(answer[CmdTask])
    BY DEF CalibrateQuery, Holds, OracleInv
  <1>7. CASE s.w.lit = {}
    <2>1. oracle' = s.o /\ world' = s.w /\ calibrating' = calibrating /\ answer' = answer
      BY <1>2, <1>7 DEF Becomes
    <2>2. OracleOK(oracle') /\ WorldOK(world') /\ oracle'.blocked = Nobody
      BY <1>4, <1>5, <2>1 DEF StateOK, SameOracle
    <2>3. HasSlot(oracle'.trains, 0)
      BY <1>4, <1>5, <2>1 DEF HasSlot, SameOracle, SameIds
    <2>4. Pending(oracle', calibrating', mailbox', answer'[CmdTask])
      BY <1>5, <1>6, <2>1, <2>2, <2>3 DEF Pending
    <2> QED BY <1>6, <2>1, <2>2, <2>4 DEF HoldsAfter, OracleInv
  <1>8. CASE s.w.lit # {}
    <2>1. PICK id \in CalibratedTrains : id = calibrating.req.id
      <3>1. PICK r \in Requests : r = calibrating.req /\ r.tag = "CalibrateTrain"
        BY <1>5
      <3> QED BY <3>1, RequestIs
    <2>2. PICK hit \in SENSORS : hit = Min(s.w.lit)
      <3>1. PICK lit \in SUBSET SENSORS : lit = s.w.lit
        BY <1>4 DEF StateOK, WorldOK
      <3>2. lit \in SUBSET Nat
        BY DEF SENSORS
      <3> QED BY <1>8, <3>1, <3>2, FirstIs
    <2>3. PICK k \in 1 .. MAX_TRAINS : k = Min(FreeSlots)
      <3>1. PICK free \in SUBSET (1 .. MAX_TRAINS) : free = FreeSlots /\ free # {}
        BY <1>5 DEF FreeSlots, HasSlot
      <3>2. free \in SUBSET Nat
        BY OracleAssumption
      <3> QED BY <3>1, <3>2, FirstIs
    <2>4. PICK dark : dark = [s EXCEPT !.w.lit = {}] /\ StateOK(dark) /\ dark.o = s.o
      BY <1>4, DarkOK
    <2>5. PICK to : to = Drive(dark, id, 0) /\ StateOK(to) /\ SameOracle(to.o, dark.o)
      BY <1>3, <2>4, DriveOK
    <2>6. PICK td, dir : /\ td = [FreeSlot EXCEPT !.id = id, !.pos = Pos(hit, StoppingDistance(id, 8)), !.next_sensor = hit]
                         /\ dir = to.o.branches /\ TdOK(td, dir)
      BY FoundOK
    <2>7. /\ Becomes([to EXCEPT !.o.trains[k] = td])
          /\ answer' = [answer EXCEPT ![calibrating.from] = Replied(@.req, TRUE)] /\ calibrating' = None
      BY <1>2, <1>8, <2>1, <2>2, <2>3, <2>4, <2>5, <2>6
    <2>8. PICK o : o = to.o /\ OracleOK(o) /\ o.blocked = Nobody /\ TdOK(td, o.branches)
      BY <1>4, <1>5, <2>4, <2>5, <2>6 DEF StateOK, SameOracle
    <2>9. PICK o2 : o2 = [o EXCEPT !.trains[k] = td] /\ OracleOK(o2) /\ o2.blocked = Nobody
      <3>1. LET new == [o EXCEPT !.trains[k] = td] IN OracleOK(new) /\ new.blocked = Nobody
        BY <2>8, SlotTaken
      <3> QED BY <3>1
    <2>10. oracle' = o2 /\ world' = to.w
      <3>1. PICK x : x = [to EXCEPT !.o.trains[k] = td]
        OBVIOUS
      <3>2. x.o = o2 /\ x.w = to.w
        BY <2>5, <2>8, <2>9, <3>1 DEF StateOK
      <3> QED BY <2>7, <3>1, <3>2 DEF Becomes
    <2>11. OracleOK(oracle') /\ WorldOK(world') /\ oracle'.blocked = Nobody
      BY <2>5, <2>9, <2>10 DEF StateOK
    <2>12. DOMAIN answer' = Clients /\ AnswerOK(answer'[CmdTask]) /\ answer'[CmdTask].req = answer[CmdTask].req
      <3>0. calibrating.from = CmdTask
        BY <1>5
      <3>1. PICK ans, new : /\ ans = answer /\ new = answer'
                            /\ new = [ans EXCEPT ![CmdTask] = Replied(@.req, TRUE)]
        BY <2>7, <3>0
      <3>2. DOMAIN ans = Clients /\ ans[CmdTask].req.tag # "QueryTrain"
        BY <1>5, <1>6, <3>1
      <3>3. DOMAIN new = Clients /\ AnswerOK(new[CmdTask]) /\ new[CmdTask].req = ans[CmdTask].req
        BY <3>1, <3>2, AnsweredOK
      <3> QED BY <3>1, <3>3
    <2> QED BY <1>5, <1>6, <2>7, <2>11, <2>12, ServedOK
  <1> QED BY <1>7, <1>8

\* Whatever the oracle serves, it keeps its invariant.
LEMMA ServeOK ==
  ASSUME GraphOK, Holds, Serve, up \in BOOLEAN
  PROVE  HoldsAfter /\ up' \in BOOLEAN
  <1>1. CASE ServeTick
    BY <1>1, ServeTickOK DEF ServeTick
  <1>2. CASE \E d \in QueryTicks : ServeUpdateSensors(d)
    BY <1>2, ServeUpdateSensorsOK DEF ServeUpdateSensors
  <1>3. CASE \E d \in QueryTicks : ServeCalibrateTrain(d)
    <2>1. PICK d \in QueryTicks : ServeCalibrateTrain(d)
      BY <1>3
    <2>2. HoldsAfter
      BY <2>1, ServeCalibrateTrainOK
    <2>3. up' = FALSE \/ up' = up
      BY <2>1, Zenon DEF ServeCalibrateTrain
    <2> QED BY <2>2, <2>3
  <1>4. CASE \E d \in QueryTicks : CalibrateQuery(d)
    BY <1>4, CalibrateQueryOK DEF CalibrateQuery
  <1>5. CASE ServeQueryTrain
    BY <1>5, ServeQueryTrainOK DEF ServeQueryTrain
  <1>6. CASE ServeNormalize
    BY <1>6, ServeNormalizeOK DEF ServeNormalize
  <1>7. CASE ServeSetTrainSpeed
    BY <1>7, ServeSetTrainSpeedOK DEF ServeSetTrainSpeed
  <1>8. CASE ServeReverseTrain
    BY <1>8, ServeReverseTrainOK DEF ServeReverseTrain
  <1>9. CASE ServeSetBranchDir
    <2>1. HoldsAfter
      BY <1>9, ServeSetBranchDirOK
    <2>2. up' = FALSE \/ up' = up
      BY <1>9, Zenon DEF ServeSetBranchDir
    <2> QED BY <2>1, <2>2
  <1>10. CASE ServeMakeLoop
    BY <1>10, ServeMakeLoopOK DEF ServeMakeLoop
  <1>11. CASE ServeWakeAtPos
    <2>1. HoldsAfter
      BY <1>11, ServeWakeAtPosOK
    <2>2. up' = FALSE \/ up' = up
      <3>1. PICK r \in Requests \cup {LoopRequest} : oracle.blocked = Nobody
        BY <1>11, CommandIs DEF ServeWakeAtPos
      <3> QED BY <1>11, <3>1, Zenon DEF ServeWakeAtPos
    <2> QED BY <2>1, <2>2
  <1> QED BY <1>1, <1>2, <1>3, <1>4, <1>5, <1>6, <1>7, <1>8, <1>9, <1>10, <1>11 DEF Serve

-----------------------------------------------------------------------------
(* The track stays as it is.                                               *)

\* What depends on the track alone stays.
LEMMA GraphStays ==
  ASSUME UNCHANGED graph
  PROVE  /\ GraphOK' = GraphOK /\ PlaceOf' = PlaceOf /\ Positions' = Positions /\ Tds' = Tds
         /\ Blockings' = Blockings /\ Oracles' = Oracles /\ Requests' = Requests /\ Messages' = Messages
  <1>1. GraphOK' = GraphOK /\ PlaceOf' = PlaceOf
    BY DEF GraphOK, PlaceOf
  <1>2. Positions' = Positions
    BY <1>1 DEF Positions, Sensors
  <1>3. Tds' = Tds
    BY <1>2 DEF Tds
  <1>4. Blockings' = Blockings
    BY <1>2 DEF Blockings
  <1>5. Oracles' = Oracles
    BY <1>3, <1>4 DEF Oracles
  <1>6. Requests' = Requests
    BY <1>2 DEF Requests
  <1>7. Messages' = Messages
    BY <1>6 DEF Messages
  <1> QED BY <1>1, <1>2, <1>3, <1>4, <1>5, <1>6, <1>7

\* So does where a sensor leads to.
LEMMA NextSensorStays ==
  ASSUME UNCHANGED graph, NEW s, NEW dir
  PROVE  NextSensor(s, dir)' = NextSensor(s, dir)
  BY DEF NextSensor, NextEdge, IsSensor, At, PlaceOf

\* And the invariant of a state that is given.
LEMMA InvStays ==
  ASSUME UNCHANGED graph, NEW o, NEW cal, NEW box, NEW ans, NEW w, OracleInv(o, cal, box, ans, w)
  PROVE  OracleInv(o, cal, box, ans, w)'
  <1>1. Tds' = Tds /\ Oracles' = Oracles /\ Requests' = Requests /\ Messages' = Messages
    BY GraphStays
  <1>2. \A td, dir : Expects(td, dir)' = Expects(td, dir)
    BY NextSensorStays DEF Expects
  <1>3. \A td, dir : TdOK(td, dir)' = TdOK(td, dir)
    BY <1>1, <1>2 DEF TdOK, Settles
  <1>4. \A trains, dir : TrainsOK(trains, dir)' = TrainsOK(trains, dir)
    BY <1>1, <1>3 DEF TrainsOK
  <1>5. OracleOK(o)'
    BY <1>1, <1>4 DEF OracleInv, OracleOK, HasSlot
  <1>6. MailOK(box)'
    BY <1>1 DEF OracleInv, MailOK
  <1>7. WorldOK(w)' /\ (DOMAIN ans = Clients)'
    BY DEF OracleInv, WorldOK
  <1>8. AnswerOK(ans[CmdTask])'
    BY <1>1 DEF OracleInv, AnswerOK, CmdTask
  <1>9. Pending(o, cal, box, ans[CmdTask])'
    BY <1>1 DEF OracleInv, Pending, In, HasSlot, CmdTask, LoopRequest, None, Nobody
  <1> QED BY <1>5, <1>6, <1>7, <1>8, <1>9 DEF OracleInv

-----------------------------------------------------------------------------
(* What a route asks for.                                                  *)

LaidSettings == [id : VALID_SWITCHES, dir : Dirs]

\* The settings made along a path are of switches there are.
LEMMA SettingsIs ==
  ASSUME GraphOK, NEW path \in Seq(Places)
  PROVE  Settings(path) \in Seq(LaidSettings)
  <1> DEFINE n == Len(path)
             some == Seq(LaidSettings)
             Plain(k) == k = n \/ At(path[k]).type # "branch"
             Set(k) == [id |-> At(path[k]).num, dir |-> DirTowards(path[k], path[k + 1])]
             Turn(k, x) == IF Plain(k) THEN x ELSE Append(x, Set(k))
             Body(f) == [k \in 0 .. n |-> IF k = 0 THEN <<>>
                             ELSE IF k = n \/ At(path[k]).type # "branch" THEN f[k - 1]
                             ELSE Append(f[k - 1], [id |-> At(path[k]).num, dir |-> DirTowards(path[k], path[k + 1])])]
             upto == CHOOSE f : f = Body(f)
             step == [k \in 1 .. n |-> [x \in some |-> Turn(k, x)]]
  <1>1. Settings(path) = upto[n]
    BY Zenon DEF Settings
  <1>2. n \in Nat
    OBVIOUS
  <1>3. ASSUME NEW k \in 1 .. n, ~ Plain(k)
        PROVE  Set(k) \in LaidSettings
    <2>1. PICK i \in Places : i = path[k]
      OBVIOUS
    <2>2. PICK t : graph = Filled(t) /\ WellLaid(t)
      BY TableIs
    <2>3. At(i) = t[i + 1]
      BY <2>2 DEF At, Filled
    <2>4. At(i).type = "branch"
      BY <1>3, <2>1
    <2>5. At(i).num \in VALID_SWITCHES
      BY <2>2, <2>3, <2>4 DEF WellLaid
    <2>6. DirTowards(path[k], path[k + 1]) \in Dirs
      BY DEF DirTowards, Dirs
    <2> QED BY <2>1, <2>5, <2>6 DEF LaidSettings
  <1>4. ASSUME NEW k \in 1 .. n, NEW x \in some
        PROVE  Turn(k, x) \in some
    <2>1. CASE Plain(k)
      BY <2>1
    <2>2. CASE ~ Plain(k)
      <3>1. PICK y \in LaidSettings : y = Set(k)
        BY <1>3, <2>2
      <3>2. Append(x, y) \in Seq(LaidSettings)
        OBVIOUS
      <3> HIDE DEF Plain, Set
      <3> QED BY <2>2, <3>1, <3>2
    <2> QED BY <2>1, <2>2
  <1>5. <<>> \in some
    OBVIOUS
  <1>6. PICK f \in [0 .. n -> some] : f[0] = <<>> /\ \A k \in 1 .. n : f[k] = Turn(k, f[k - 1])
    <2> HIDE DEF some, Turn, n
    <2>1. \A k \in 1 .. n : \A x \in some : step[k][x] = Turn(k, x)
      OBVIOUS
    <2> HIDE DEF step, Body, upto, Plain, Set
    <2>2. PICK all, st, zero, m : all = some /\ st = step /\ zero = <<>> /\ m = n
      OBVIOUS
    <2>3. Stays(st, m, all)
      BY <2>1, <2>2, <1>4 DEF Stays
    <2>4. zero \in all /\ m \in Nat
      BY <1>2, <1>5, <2>2
    <2>5. \E f : Builds(f, m, all, zero, st)
      BY <2>3, <2>4, StepsUnfold
    <2>6. PICK f \in [0 .. n -> some] : f[0] = <<>> /\ \A k \in 1 .. n : f[k] = step[k][f[k - 1]]
      BY <2>2, <2>5 DEF Builds
    <2>7. ASSUME NEW k \in 1 .. n PROVE f[k] = Turn(k, f[k - 1])
      <3>1. f[k - 1] \in some
        BY <1>2
      <3> QED BY <2>1, <2>6, <3>1
    <2> QED BY <2>6, <2>7
  <1>7. f = Body(f)
    <2>1. ASSUME NEW k \in 0 .. n
          PROVE  f[k] = IF k = 0 THEN <<>>
                        ELSE IF k = n \/ At(path[k]).type # "branch" THEN f[k - 1]
                        ELSE Append(f[k - 1], [id |-> At(path[k]).num, dir |-> DirTowards(path[k], path[k + 1])])
      <3>1. k # 0 => k \in 1 .. n
        BY <1>2
      <3>2. CASE k = 0
        BY <1>6, <3>2
      <3>3. CASE k # 0
        <4>1. f[k] = Turn(k, f[k - 1])
          BY <1>6, <3>1, <3>3
        <4> QED BY <3>3, <4>1, Zenon
      <3> QED BY <3>2, <3>3
    <2>2. f = [k \in 0 .. n |-> f[k]]
      OBVIOUS
    <2>3. f = [k \in 0 .. n |-> IF k = 0 THEN <<>>
                        ELSE IF k = n \/ At(path[k]).type # "branch" THEN f[k - 1]
                        ELSE Append(f[k - 1], [id |-> At(path[k]).num, dir |-> DirTowards(path[k], path[k + 1])])]
      BY <2>1, <2>2
    <2> QED BY <2>3
  <1>8. upto = Body(upto)
    <2> HIDE DEF Body
    <2> QED BY <1>7
  <1>9. \A k \in 0 .. n : upto[k] = IF k = 0 THEN <<>> ELSE Turn(k, upto[k - 1])
    <2> HIDE DEF upto
    <2> SUFFICES ASSUME NEW k \in 0 .. n PROVE upto[k] = IF k = 0 THEN <<>> ELSE Turn(k, upto[k - 1])
      OBVIOUS
    <2>1. upto[k] = IF k = 0 THEN <<>>
                        ELSE IF k = n \/ At(path[k]).type # "branch" THEN upto[k - 1]
                        ELSE Append(upto[k - 1], [id |-> At(path[k]).num, dir |-> DirTowards(path[k], path[k + 1])])
      BY <1>8
    <2> QED BY <2>1, Zenon
  <1> HIDE DEF upto, Body, Turn, some, n
  <1>10. \A k \in 0 .. n : upto[k] \in some
    <2> DEFINE T == {k \in 0 .. n : upto[k] \in some}
    <2>1. 0 \in T
      BY <1>2, <1>5, <1>9
    <2>2. ASSUME NEW k \in 0 .. n, k \in T, k < n PROVE k + 1 \in T
      <3>1. k + 1 \in 1 .. n /\ k + 1 - 1 = k /\ k + 1 # 0 /\ k + 1 \in 0 .. n
        BY <1>2, <2>2
      <3>2. upto[k + 1] = Turn(k + 1, upto[k])
        BY <1>9, <3>1
      <3>3. Turn(k + 1, upto[k]) \in some
        BY <1>4, <2>2, <3>1
      <3> QED BY <3>1, <3>2, <3>3
    <2> HIDE DEF T
    <2>3. \A k \in 0 .. n : k \in T
      <3>1. PICK m, some2 : m = n /\ some2 = T
        OBVIOUS
      <3>2. \A k \in 0 .. m : k \in some2
        BY <1>2, <2>1, <2>2, <3>1, AllUpTo
      <3> QED BY <3>1, <3>2
    <2> QED BY <2>3 DEF T
  <1>11. upto[n] \in some
    BY <1>2, <1>10
  <1> QED BY <1>1, <1>11 DEF some

\* What a route asks the oracle for.
Planned == {r \in Requests : r.tag # "CalibrateTrain" /\ (r.tag = "SetBranchDir" => r.id \in VALID_SWITCHES)}

\* The requests that a route is made of.
LEMMA PlannedAre ==
  ASSUME GraphOK, NEW id \in CalibratedTrains
  PROVE  /\ Query(id) \in Planned /\ TurnRound(id) \in Planned /\ Delay \in Planned
         /\ \A n \in Speeds : SetSpeed(id, n) \in Planned
         /\ \A p \in Positions : WakeAt(id, p) \in Planned /\ Normalized(p) \in Planned
         /\ \A x \in LaidSettings : Throw(x) \in Planned
  <1>1. id \in Nat
    BY DEF CalibratedTrains
  <1>2. Query(id) \in Planned
    BY DEF Query, Requests, Planned
  <1>3. TurnRound(id) \in Planned
    BY <1>1 DEF TurnRound, Requests, Planned
  <1>4. Delay \in Planned
    BY DEF Delay, Requests, Planned
  <1>5. \A n \in Speeds : SetSpeed(id, n) \in Planned
    BY <1>1 DEF SetSpeed, Requests, Planned
  <1>6. \A p \in Positions : WakeAt(id, p) \in Planned
    BY DEF WakeAt, Requests, Planned
  <1>7. \A p \in Positions : Normalized(p) \in Planned
    BY DEF Normalized, Requests, Planned
  <1>8. ASSUME NEW x \in LaidSettings PROVE Throw(x) \in Planned
    <2>1. x.id \in VALID_SWITCHES /\ x.id \in Nat /\ x.dir \in Dirs
      BY DEF LaidSettings, VALID_SWITCHES
    <2>2. Throw(x) \in Requests
      BY <2>1 DEF Throw, Requests
    <2> QED BY <2>1, <2>2 DEF Planned, Throw
  <1> QED BY <1>2, <1>3, <1>4, <1>5, <1>6, <1>7, <1>8

\* A position somewhat further on.
LEMMA FurtherType ==
  ASSUME GraphOK, NEW p \in Positions, NEW mm \in Int, NEW dir
  PROVE  Further(p, mm, dir) \in Positions
  <1>1. PICK s \in SENSORS, m \in Int : s = p.sensor /\ m = p.offset_mm
    BY SensorsPlaced DEF Positions
  <1>2. PICK m2 \in Int : m2 = m + mm
    OBVIOUS
  <1>3. PICK q \in Positions : q = Pos(s, m2)
    BY PosType
  <1>4. Further(p, mm, dir) = Normalize(q, dir)
    BY <1>1, <1>2, <1>3 DEF Further
  <1> QED BY <1>4, NormalizeType

\* A route plans nothing else (do_route_cmd(), t1.cc:150-283).
LEMMA PlanIs ==
  ASSUME GraphOK, NEW td \in Tds, td.id \in CalibratedTrains, NEW p, p.path \in Seq(Places), p.mm \in Int
  PROVE  Plan(td, p) \in Seq(Planned)
  <1>1. PICK id \in CalibratedTrains, pos \in Positions, mm \in Int, stopping \in Int :
           id = td.id /\ pos = td.pos /\ mm = p.mm /\ stopping = StoppingDistance(td.id, 8)
    <2>1. StoppingDistance(td.id, 8) \in Int
      BY TablesTyped DEF StoppingDistance
    <2> QED BY <2>1 DEF Tds
  <1>2. PICK dir : dir = Laid(p.path, oracle.branches)
    OBVIOUS
  <1>3. PICK slow \in Positions : slow = Further(td.pos, p.mm - stopping - slowdown_distance, dir)
    <2>1. PICK x \in Int : x = p.mm - stopping - slowdown_distance
      BY <1>1 DEF slowdown_distance
    <2>2. Further(pos, x, dir) \in Positions
      BY FurtherType
    <2> QED BY <1>1, <2>1, <2>2
  <1>4. PICK stop \in Positions : stop = Further(td.pos, p.mm - stopping, dir)
    <2>1. PICK x \in Int : x = p.mm - stopping
      BY <1>1
    <2>2. Further(pos, x, dir) \in Positions
      BY FurtherType
    <2> QED BY <1>1, <2>1, <2>2
  <1>5. PICK settings \in Seq(LaidSettings) : settings = Settings(p.path)
    <2>1. PICK path \in Seq(Places) : path = p.path
      OBVIOUS
    <2> QED BY <2>1, SettingsIs
  <1>6. PICK laying \in Seq(Planned) : laying = [k \in DOMAIN Settings(p.path) |-> Throw(Settings(p.path)[k])]
    <2> DEFINE laying == [k \in DOMAIN settings |-> Throw(settings[k])]
    <2>1. DOMAIN settings = 1 .. Len(settings) /\ Len(settings) \in Nat
          /\ \A k \in 1 .. Len(settings) : settings[k] \in LaidSettings
      OBVIOUS
    <2>2. \A k \in 1 .. Len(settings) : Throw(settings[k]) \in Planned
      BY <2>1, PlannedAre
    <2>3. laying \in [1 .. Len(settings) -> Planned]
      BY <2>1, <2>2
    <2>4. laying \in Seq(Planned)
      BY <2>1, <2>3
    <2> QED BY <1>5, <2>4
  <1>7. PICK hurrying \in Seq(Planned) : hurrying = IF IsLong(p.mm, stopping) THEN Hurry(td.id, slow) ELSE <<>>
    <2>1. SetSpeed(id, 14) \in Planned /\ WakeAt(id, slow) \in Planned
      BY PlannedAre DEF Speeds
    <2>2. Hurry(id, slow) \in Seq(Planned) /\ <<>> \in Seq(Planned)
      BY <2>1 DEF Hurry
    <2> QED BY <1>1, <2>2
  <1>8. PICK norms \in Seq(Planned) : norms = <<Normalized(stop), Normalized(slow)>>
    <2>1. PICK a \in Planned, b \in Planned : a = Normalized(stop) /\ b = Normalized(slow)
      BY PlannedAre
    <2>2. <<a, b>> \in Seq(Planned)
      OBVIOUS
    <2> QED BY <2>1, <2>2
  <1>9. PICK last \in Seq(Planned) : last = <<SetSpeed(td.id, 8), WakeAt(td.id, stop), SetSpeed(td.id, 0), Delay>>
    <2>1. PICK a \in Planned, b \in Planned, c \in Planned, d \in Planned :
             a = SetSpeed(id, 8) /\ b = WakeAt(id, stop) /\ c = SetSpeed(id, 0) /\ d = Delay
      BY PlannedAre DEF Speeds
    <2>2. <<a, b, c, d>> \in Seq(Planned)
      OBVIOUS
    <2> QED BY <1>1, <2>1, <2>2
  <1>10. Plan(td, p) = laying \o norms \o hurrying \o last
    BY <1>1, <1>2, <1>3, <1>4, <1>6, <1>7, <1>8, <1>9, Zenon DEF Plan
  <1> QED BY <1>10

-----------------------------------------------------------------------------
(* The invariant of the program.                                           *)

Routes == [id : {0} \cup CalibratedTrains, to : {-1} \cup SENSORS, turned : BOOLEAN, td : Tds,
           planned : BOOLEAN, path : Seq(Places)]

\* A route that is not planned yet waits for the train's descriptor, or will ask for it.
Asks(rt, list, x) ==
    IF list = <<>> THEN x.req = Query(rt.id) ELSE list[Len(list)] = Query(rt.id)

\* What the command task waits for, or waited for last, it asked for on this route, as
\* soon as it has asked.
Follows(rt, list, x) == x.req \in Planned \/ (x.done /\ list = <<Query(rt.id)>>)

\* The loop is laid before there is a train, at once.
OnlyLoop(rt, list, x, trains) ==
    list = <<LoopRequest>> /\ x.done /\ rt = NoRouteCmd /\ \A k \in 1 .. MAX_TRAINS : trains[k].id = 0

CommandOK(rt, list, x, trains) ==
    /\ rt \in Routes
    /\ rt # NoRouteCmd =>
          /\ rt.id \in CalibratedTrains /\ rt.to \in SENSORS
          /\ list \in Seq(Planned) /\ Follows(rt, list, x)
    /\ rt.planned => rt.path # <<>>
    /\ rt # NoRouteCmd /\ ~ rt.planned => Asks(rt, list, x)
    /\ list \in Seq(Requests) \/ OnlyLoop(rt, list, x, trains)

ProgramInv ==
    /\ GraphOK /\ up \in BOOLEAN /\ Holds /\ typed \in 0 .. MaxCommands
    /\ CommandOK(route, todo, answer[CmdTask], oracle.trains)

\* The same of the state after a step, on the track as it was.
ProgramInvAfter ==
    /\ UNCHANGED graph /\ up' \in BOOLEAN /\ typed' \in 0 .. MaxCommands
    /\ OracleInv(oracle', calibrating', mailbox', answer', world')
    /\ CommandOK(route', todo', answer'[CmdTask], oracle'.trains)

\* The track stays, and with it what holds of the command task.
LEMMA CommandStays ==
  ASSUME UNCHANGED graph, NEW rt, NEW list, NEW x, NEW trains, CommandOK(rt, list, x, trains)
  PROVE  CommandOK(rt, list, x, trains)'
  <1>1. Tds' = Tds /\ Requests' = Requests
    BY GraphStays
  <1>2. Routes' = Routes /\ Planned' = Planned
    BY <1>1 DEF Routes, Planned
  <1>3. /\ NoRouteCmd' = NoRouteCmd /\ Asks(rt, list, x)' = Asks(rt, list, x)
        /\ Follows(rt, list, x)' = Follows(rt, list, x)
        /\ OnlyLoop(rt, list, x, trains)' = OnlyLoop(rt, list, x, trains)
    BY <1>2 DEF NoRouteCmd, FreeSlot, Pos, Asks, Follows, Query, OnlyLoop, LoopRequest
  <1> QED BY <1>1, <1>2, <1>3 DEF CommandOK

\* The invariant after a step.
LEMMA AfterIsInv ==
  ASSUME GraphOK, ProgramInvAfter
  PROVE  ProgramInv'
  <1>1. PICK o, cal, box, ans, w, rt, list :
           /\ o = oracle' /\ cal = calibrating' /\ box = mailbox' /\ ans = answer' /\ w = world'
           /\ rt = route' /\ list = todo'
    OBVIOUS
  <1>2. OracleInv(o, cal, box, ans, w) /\ UNCHANGED graph
    BY <1>1 DEF ProgramInvAfter
  <1>3. OracleInv(o, cal, box, ans, w)'
    BY <1>2, InvStays
  <1>4. Holds'
    BY <1>1, <1>3 DEF Holds
  <1>5. PICK x, trains : x = answer'[CmdTask] /\ trains = oracle'.trains
    OBVIOUS
  <1>6. CommandOK(rt, list, x, trains)
    BY <1>1, <1>5 DEF ProgramInvAfter
  <1>7. CommandOK(rt, list, x, trains)'
    BY <1>2, <1>6, CommandStays
  <1>8. CommandOK(route, todo, answer[CmdTask], oracle.trains)'
    BY <1>1, <1>5, <1>7 DEF CmdTask
  <1>9. GraphOK' /\ (up \in BOOLEAN)' /\ (typed \in 0 .. MaxCommands)'
    BY <1>2, GraphStays DEF ProgramInvAfter
  <1> QED BY <1>4, <1>8, <1>9 DEF ProgramInv

\* No route is one of them, formally.
LEMMA NoRouteIs ==
  ASSUME GraphOK
  PROVE  /\ NoRouteCmd \in Routes /\ NoRouteCmd.id = 0 /\ ~ NoRouteCmd.planned
  <1>1. FreeSlot \in Tds
    BY FreeSlotIs
  <1>2. <<>> \in Seq(Places)
    OBVIOUS
  <1> QED BY <1>1, <1>2 DEF NoRouteCmd, Routes

\* The command has no route any more.
LEMMA NoRouteOK ==
  ASSUME GraphOK, NEW list \in Seq(Requests), NEW x, NEW trains
  PROVE  CommandOK(NoRouteCmd, list, x, trains)
  <1>1. NoRouteCmd \in Routes /\ ~ NoRouteCmd.planned
    BY NoRouteIs
  <1> QED BY <1>1 DEF CommandOK

\* The program starts with it.
LEMMA ProgramInitInv ==
  ASSUME ProgramInit
  PROVE  ProgramInv
  <1>1. GraphOK
    BY DEF ProgramInit, Init, GraphInit, GraphOK
  <1>2. FreeSlot \in Tds /\ FreeSlot.id = 0
    BY <1>1, FreeSlotIs
  <1>3. OracleOK(oracle)
    <2>1. Loop \in [VALID_SWITCHES -> Dirs]
      BY DEF Loop, Dirs
    <2>2. oracle = [branches |-> Loop, trains |-> [k \in 1 .. MAX_TRAINS |-> FreeSlot],
                    blocked |-> Nobody, ticked_ago |-> -1, max_tick_delay |-> 0]
      BY DEF ProgramInit, Init
    <2>3. oracle \in Oracles /\ oracle.blocked = Nobody /\ \A k \in 1 .. MAX_TRAINS : oracle.trains[k] = FreeSlot
      BY <1>2, <2>1, <2>2 DEF Oracles
    <2>4. oracle.trains \in [1 .. MAX_TRAINS -> Tds]
      BY <2>3 DEF Oracles
    <2> QED BY <1>2, <2>3, <2>4 DEF OracleOK, TrainsOK, TdOK
  <1>4. WorldOK(world)
    BY DEF ProgramInit, Init, WorldOK
  <1>5. MailOK(mailbox) /\ \A m \in In(mailbox) : m.from # CmdTask
    <2>1. mailbox = <<Tick, UpdateSensors>> /\ Tick \in Messages /\ UpdateSensors \in Messages
      BY DEF ProgramInit, Init, Messages
    <2>2. PICK a \in Messages, b \in Messages : a = Tick /\ b = UpdateSensors
      BY <2>1
    <2>3. mailbox = <<a, b>> /\ a.from = "ticker" /\ b.from = "poller"
      BY <2>1, <2>2 DEF Tick, UpdateSensors
    <2>4. mailbox \in Seq(Messages) /\ Len(mailbox) = 2 /\ mailbox[1] = a /\ mailbox[2] = b
      BY <2>3
    <2>5. \A k \in 1 .. 2 : k = 1 \/ k = 2
      OBVIOUS
    <2> QED BY <2>3, <2>4, <2>5 DEF MailOK, In, CmdTask
  <1>6. calibrating = None /\ oracle.blocked = Nobody
    BY DEF ProgramInit, Init
  <1>7. DOMAIN answer = Clients /\ answer[CmdTask] = Replied([tag |-> "none"], TRUE)
    BY CommandsAssumption DEF ProgramInit, Init
  <1>8. AnswerOK(answer[CmdTask])
    BY <1>7 DEF AnswerOK, Replied
  <1>9. Holds
    BY <1>3, <1>4, <1>5, <1>6, <1>7, <1>8 DEF Holds, OracleInv, Pending
  <1>10. up \in BOOLEAN /\ typed \in 0 .. MaxCommands
    BY CommandsAssumption DEF ProgramInit, Init
  <1>11. CommandOK(route, todo, answer[CmdTask], oracle.trains)
    <2>1. route = NoRouteCmd /\ todo \in Seq(Requests)
      BY DEF ProgramInit
    <2> QED BY <1>1, <2>1, NoRouteOK
  <1> QED BY <1>1, <1>9, <1>10, <1>11 DEF ProgramInv

\* With no answer to wait for, nothing of the command task is anywhere.
LEMMA NothingPending ==
  ASSUME Holds, answer[CmdTask].done
  PROVE  /\ calibrating = None /\ oracle.blocked = Nobody
         /\ MailOK(mailbox) /\ \A m \in In(mailbox) : m.from # CmdTask
         /\ OracleOK(oracle) /\ WorldOK(world) /\ DOMAIN answer = Clients
  BY DEF Holds, OracleInv, Pending

\* A step of the command task by itself leaves the oracle as it is.
LEMMA CommandOnly ==
  ASSUME ProgramInv, UNCHANGED vars, typed' \in 0 .. MaxCommands,
         CommandOK(route', todo', answer[CmdTask], oracle.trains)
  PROVE  ProgramInvAfter
  <1>1. /\ graph' = graph /\ up' = up /\ oracle' = oracle /\ calibrating' = calibrating
        /\ mailbox' = mailbox /\ answer' = answer /\ world' = world
    BY DEF vars
  <1> QED BY <1>1 DEF ProgramInv, ProgramInvAfter, Holds

\* What may be typed.
LEMMA TypeableIs ==
  ASSUME GraphOK, NEW c \in Typeable
  PROVE  \/ c.tag = "Route" /\ c.id \in CalibratedTrains /\ c.to \in SENSORS
         \/ c.tag # "Route" /\ c \in Requests
         \/ c.tag = "MakeLoop" /\ c = LoopRequest
  <1>1. CASE c \in [tag : {"CalibrateTrain"}, id : CalibratedTrains]
    BY <1>1 DEF Requests
  <1>2. CASE c \in [tag : {"Route"}, id : CalibratedTrains, to : SENSORS]
    BY <1>2
  <1>3. CASE c \in [tag : {"SetTrainSpeed"}, id : Ids, speed : 0 .. 14]
    <2>1. c \in [tag : {"SetTrainSpeed"}, id : Nat, speed : Speeds]
      BY <1>3 DEF Ids, Speeds
    <2> QED BY <1>3, <2>1 DEF Requests
  <1>4. CASE c \in [tag : {"ReverseTrain"}, id : Ids]
    <2>1. c \in [tag : {"ReverseTrain"}, id : Nat]
      BY <1>4 DEF Ids
    <2> QED BY <1>4, <2>1 DEF Requests
  <1>5. CASE c \in [tag : {"SetBranchDir"}, id : Ids, dir : Dirs]
    <2>1. c \in [tag : {"SetBranchDir"}, id : Nat, dir : Dirs]
      BY <1>5 DEF Ids
    <2> QED BY <1>5, <2>1 DEF Requests
  <1>6. CASE c \in [tag : {"Normalize"}, pos : [sensor : SENSORS, offset_mm : Int]]
    <2>1. Positions = [sensor : SENSORS, offset_mm : Int]
      BY SensorsPlaced DEF Positions
    <2>2. c \in [tag : {"Normalize"}, pos : Positions]
      BY <1>6, <2>1
    <2> QED BY <1>6, <2>2 DEF Requests
  <1>7. CASE c \in [tag : {"MakeLoop"}]
    BY <1>7 DEF LoopRequest
  <1> QED BY <1>1, <1>2, <1>3, <1>4, <1>5, <1>6, <1>7 DEF Typeable

\* A command is read.
LEMMA TypeInv ==
  ASSUME ProgramInv, NEW c \in Commands, Type(c)
  PROVE  ProgramInvAfter
  <1>1. /\ Idle /\ ~ Mistaken(c) /\ typed < MaxCommands /\ typed' = typed + 1 /\ UNCHANGED vars
    BY DEF Type
  <1>2. typed' \in 0 .. MaxCommands /\ c \in Typeable /\ GraphOK
    BY <1>1, CommandsAssumption DEF ProgramInv
  <1>3. route = NoRouteCmd /\ answer[CmdTask].done
    BY <1>1 DEF Idle
  <1>4. CommandOK(route', todo', answer[CmdTask], oracle.trains)
    <2>1. CASE c.tag = "Route"
      <3>1. PICK id \in CalibratedTrains, s \in SENSORS : id = c.id /\ s = c.to
        BY <1>2, <2>1, TypeableIs
      <3>2. todo' = <<Query(id)>> /\ route' = [NoRouteCmd EXCEPT !.id = id, !.to = s]
        BY <2>1, <3>1 DEF Type
      <3> DEFINE rt == [NoRouteCmd EXCEPT !.id = id, !.to = s]
      <3>3. rt \in Routes /\ rt.id = id /\ rt.to = s /\ ~ rt.planned
        BY <1>2, NoRouteIs DEF Routes
      <3> HIDE DEF rt
      <3>4. PICK q \in Planned : q = Query(id)
        BY <1>2, PlannedAre
      <3>5. <<q>> \in Seq(Planned) /\ <<q>> # <<>> /\ <<q>>[Len(<<q>>)] = q
        OBVIOUS
      <3>6. <<q>> \in Seq(Requests)
        BY DEF Planned
      <3>7. CommandOK(rt, <<q>>, answer[CmdTask], oracle.trains)
        BY <1>3, <3>3, <3>4, <3>5, <3>6 DEF CommandOK, Asks, Follows
      <3> QED BY <3>2, <3>4, <3>7 DEF rt
    <2>2. CASE c.tag # "Route"
      <3>1. todo' = <<c>> /\ route' = NoRouteCmd
        BY <1>3, <2>2 DEF Type
      <3>2. CASE c \in Requests
        <4>1. <<c>> \in Seq(Requests)
          BY <3>2
        <4> QED BY <1>2, <3>1, <4>1, NoRouteOK
      <3>3. CASE c = LoopRequest
        <4>1. c.tag = "MakeLoop"
          BY <3>3 DEF LoopRequest
        <4>2. Slots = {}
          BY <1>1, <4>1, Zenon DEF Mistaken
        <4>3. DOMAIN oracle.trains = 1 .. MAX_TRAINS
          BY DEF ProgramInv, Holds, OracleInv, OracleOK, Oracles
        <4>4. \A k \in 1 .. MAX_TRAINS : oracle.trains[k].id = 0
          BY <4>2, <4>3 DEF Slots
        <4>5. OnlyLoop(route', todo', answer[CmdTask], oracle.trains)
          BY <1>3, <3>1, <3>3, <4>4 DEF OnlyLoop
        <4>6. NoRouteCmd \in Routes /\ ~ NoRouteCmd.planned
          BY <1>2, NoRouteIs
        <4> QED BY <3>1, <4>5, <4>6 DEF CommandOK
      <3> QED BY <1>2, <2>2, <3>2, <3>3, TypeableIs
    <2> QED BY <2>1, <2>2
  <1> QED BY <1>1, <1>2, <1>4, CommandOnly

\* A request is made: nothing else of the command task is pending.
LEMMA RequestInv ==
  ASSUME ProgramInv, Request
  PROVE  ProgramInvAfter
  <1>1. /\ answer[CmdTask].done /\ todo # <<>> /\ Post(CmdTask, Head(todo)) /\ todo' = Tail(todo)
        /\ typed' = typed /\ route' = route
    BY DEF Request, Goes
  <1>2. PICK r : r = Head(todo)
    OBVIOUS
  <1>3. /\ answer' = [answer EXCEPT ![CmdTask] = Waiting(r)]
        /\ mailbox' = Append(mailbox, [from |-> CmdTask, req |-> r])
        /\ graph' = graph /\ up' = up /\ oracle' = oracle /\ calibrating' = calibrating /\ world' = world
    BY <1>1, <1>2 DEF Post
  <1>4. CommandOK(route, todo, answer[CmdTask], oracle.trains) /\ Holds /\ GraphOK
    BY DEF ProgramInv
  <1>5. /\ r \in Requests \cup {LoopRequest}
        /\ r = LoopRequest => \A k \in 1 .. MAX_TRAINS : oracle.trains[k].id = 0
        /\ Tail(todo) \in Seq(Requests)
        /\ route # NoRouteCmd => r \in Planned /\ Tail(todo) \in Seq(Planned)
        /\ Tail(todo) = <<>> => todo[Len(todo)] = r
        /\ Tail(todo) # <<>> => Tail(todo)[Len(Tail(todo))] = todo[Len(todo)]
    <2>1. CASE todo \in Seq(Requests)
      <3>1. r \in Requests /\ Tail(todo) \in Seq(Requests) /\ r = todo[1] /\ Len(todo) \in Nat /\ Len(todo) > 0
            /\ Len(Tail(todo)) = Len(todo) - 1 /\ \A k \in 1 .. Len(todo) - 1 : Tail(todo)[k] = todo[k + 1]
        BY <1>1, <1>2, <2>1
      <3>2. Tail(todo) = <<>> => todo[Len(todo)] = r
        <4>1. Tail(todo) = <<>> => Len(Tail(todo)) = 0
          OBVIOUS
        <4>2. Tail(todo) = <<>> => Len(todo) = 1
          BY <3>1, <4>1
        <4> QED BY <3>1, <4>2
      <3>3. Tail(todo) # <<>> => Tail(todo)[Len(Tail(todo))] = todo[Len(todo)]
        BY <3>1
      <3>4. route # NoRouteCmd => r \in Planned /\ Tail(todo) \in Seq(Planned)
        BY <1>1, <1>2, <1>4 DEF CommandOK
      <3>5. r # LoopRequest
        BY <3>1, RequestIsNot
      <3> QED BY <3>1, <3>2, <3>3, <3>4, <3>5
    <2>2. CASE OnlyLoop(route, todo, answer[CmdTask], oracle.trains)
      <3>1. todo = <<LoopRequest>> /\ route = NoRouteCmd /\ \A k \in 1 .. MAX_TRAINS : oracle.trains[k].id = 0
        BY <2>2 DEF OnlyLoop
      <3>2. r = LoopRequest /\ Tail(todo) = <<>> /\ todo[Len(todo)] = r /\ Tail(todo) \in Seq(Requests)
        BY <1>2, <3>1
      <3> QED BY <3>1, <3>2
    <2> QED BY <1>4, <2>1, <2>2 DEF CommandOK
  <1>6. /\ calibrating = None /\ oracle.blocked = Nobody
        /\ MailOK(mailbox) /\ \A m \in In(mailbox) : m.from # CmdTask
        /\ OracleOK(oracle) /\ WorldOK(world) /\ DOMAIN answer = Clients
    BY <1>1, <1>4, NothingPending
  <1>7. answer'[CmdTask] = Waiting(r) /\ DOMAIN answer' = Clients
    BY <1>3, <1>6, CommandsAssumption
  <1>8. ~ answer'[CmdTask].done /\ answer'[CmdTask].req = r
    BY <1>7 DEF Waiting
  <1>9. PICK m \in Messages, box \in {mailbox} : m = [from |-> CmdTask, req |-> r] /\ box = mailbox /\ MailOK(box)
    BY <1>5, <1>6 DEF Messages
  <1>10. MailOK(Append(box, m)) /\ In(Append(box, m)) = In(box) \cup {m}
    BY <1>6, <1>9, AppendIs
  <1>11. MailOK(mailbox') /\ \A x \in In(mailbox') : x.from = CmdTask => x.req = r
    BY <1>3, <1>6, <1>9, <1>10
  <1>12. Pending(oracle', calibrating', mailbox', answer'[CmdTask])
    BY <1>3, <1>5, <1>6, <1>8, <1>11 DEF Pending
  <1>13. OracleInv(oracle', calibrating', mailbox', answer', world')
    BY <1>3, <1>6, <1>7, <1>8, <1>11, <1>12 DEF OracleInv, AnswerOK
  <1>14. CommandOK(route', todo', answer'[CmdTask], oracle'.trains)
    BY <1>1, <1>4, <1>5, <1>8 DEF CommandOK, Asks, Follows
  <1> QED BY <1>1, <1>3, <1>13, <1>14 DEF ProgramInv, ProgramInvAfter

\* A route is planned, from the descriptor of a train, or given up.
LEMMA PlanRouteInv ==
  ASSUME ProgramInv, PlanRoute
  PROVE  ProgramInvAfter
  <1>1. /\ answer[CmdTask].done /\ todo = <<>> /\ route # NoRouteCmd /\ ~ route.planned
        /\ UNCHANGED vars /\ typed' = typed
    BY DEF PlanRoute, Goes
  <1>2. /\ GraphOK /\ typed' \in 0 .. MaxCommands /\ AnswerOK(answer[CmdTask])
        /\ CommandOK(route, todo, answer[CmdTask], oracle.trains)
    BY <1>1 DEF ProgramInv, Holds, OracleInv
  <1>3. /\ route \in Routes /\ route.id \in CalibratedTrains /\ route.to \in SENSORS
        /\ answer[CmdTask].req = Query(route.id) /\ answer[CmdTask].req \in Planned
    <2>1. /\ route \in Routes /\ route.id \in CalibratedTrains /\ route.to \in SENSORS
          /\ answer[CmdTask].req = Query(route.id)
      BY <1>1, <1>2 DEF CommandOK, Asks
    <2> QED BY <1>2, <2>1, PlannedAre
  <1>4. PICK td, p : td = answer[CmdTask].td /\ p = PathOf(td.pos.sensor, route.to)
    OBVIOUS
  <1>5. \/ route' = NoRouteCmd /\ todo' = todo
        \/ /\ answer[CmdTask].success /\ p.found
           /\ route' = [route EXCEPT !.planned = TRUE, !.td = td, !.path = p.path] /\ todo' = Plan(td, p)
        \/ /\ route' = [route EXCEPT !.turned = TRUE]
           /\ todo' = <<TurnRound(route.id), Query(route.id)>>
    BY <1>4 DEF PlanRoute
  <1>6. CommandOK(route', todo', answer[CmdTask], oracle.trains)
    <2>1. CASE route' = NoRouteCmd /\ todo' = todo
      <3>1. todo' \in Seq(Requests)
        BY <1>1, <2>1
      <3> QED BY <1>2, <2>1, <3>1, NoRouteOK
    <2>2. CASE /\ answer[CmdTask].success /\ p.found
               /\ route' = [route EXCEPT !.planned = TRUE, !.td = td, !.path = p.path] /\ todo' = Plan(td, p)
      <3>1. td \in Tds /\ td.id \in CalibratedTrains
        BY <1>1, <1>2, <1>3, <1>4, <2>2 DEF AnswerOK, Query
      <3>2. PICK a \in SENSORS, b \in SENSORS : a = td.pos.sensor /\ b = route.to
        BY <1>2, <1>3, <3>1, SensorsPlaced DEF Tds, Positions
      <3>3. PathOf(a, b).found
        BY <1>4, <2>2, <3>2
      <3>4. p.path \in Seq(Places) /\ p.path # <<>> /\ p.mm \in Int
        BY <1>2, <1>4, <3>2, <3>3, PathOfIs
      <3>5. Plan(td, p) \in Seq(Planned)
        BY <1>2, <3>1, <3>4, PlanIs
      <3>6. Plan(td, p) \in Seq(Requests)
        BY <3>5 DEF Planned
      <3>7. PICK path \in Seq(Places) : path = p.path
        BY <3>4
      <3> DEFINE rt == [route EXCEPT !.planned = TRUE, !.td = td, !.path = path]
      <3>8. rt \in Routes /\ rt.id = route.id /\ rt.to = route.to /\ rt.planned /\ rt.path = path
        BY <1>3, <3>1 DEF Routes
      <3> HIDE DEF rt
      <3>9. CommandOK(rt, Plan(td, p), answer[CmdTask], oracle.trains)
        BY <1>1, <1>3, <3>4, <3>5, <3>6, <3>7, <3>8 DEF CommandOK, Follows
      <3> QED BY <2>2, <3>7, <3>9 DEF rt
    <2>3. CASE /\ route' = [route EXCEPT !.turned = TRUE]
               /\ todo' = <<TurnRound(route.id), Query(route.id)>>
      <3>1. PICK q \in Planned, u \in Planned : q = Query(route.id) /\ u = TurnRound(route.id)
        BY <1>2, <1>3, PlannedAre
      <3>2. <<u, q>> \in Seq(Planned) /\ <<u, q>> # <<>> /\ <<u, q>>[Len(<<u, q>>)] = q
        OBVIOUS
      <3>3. <<u, q>> \in Seq(Requests)
        BY <3>1 DEF Planned
      <3> DEFINE rt == [route EXCEPT !.turned = TRUE]
      <3>4. rt \in Routes /\ rt.id = route.id /\ rt.to = route.to /\ (rt.planned <=> route.planned)
        BY <1>3 DEF Routes
      <3> HIDE DEF rt
      <3>5. CommandOK(rt, <<u, q>>, answer[CmdTask], oracle.trains)
        BY <1>1, <1>3, <3>1, <3>2, <3>3, <3>4 DEF CommandOK, Asks, Follows
      <3> QED BY <2>3, <3>1, <3>5 DEF rt
    <2> QED BY <1>5, <2>1, <2>2, <2>3
  <1> QED BY <1>1, <1>2, <1>6, CommandOnly

\* A route is given up on its way.
LEMMA GiveUpInv ==
  ASSUME ProgramInv, GiveUp
  PROVE  ProgramInvAfter
  <1>1. todo' = <<SetSpeed(route.id, 0)>> /\ route' = NoRouteCmd /\ UNCHANGED vars /\ typed' = typed
    BY DEF GiveUp
  <1>2. GraphOK /\ typed' \in 0 .. MaxCommands /\ route \in Routes
    BY <1>1 DEF ProgramInv, CommandOK
  <1>3. route.id \in Nat /\ 0 \in Speeds
    BY <1>2 DEF Routes, CalibratedTrains, Speeds
  <1>4. SetSpeed(route.id, 0) \in [tag : {"SetTrainSpeed"}, id : Nat, speed : Speeds]
    BY <1>3 DEF SetSpeed
  <1>5. PICK r \in Requests : r = SetSpeed(route.id, 0)
    BY <1>4 DEF Requests
  <1>6. <<r>> \in Seq(Requests)
    OBVIOUS
  <1> QED BY <1>1, <1>2, <1>5, <1>6, NoRouteOK, CommandOnly

\* A route is over.
LEMMA StoppedInv ==
  ASSUME ProgramInv, Stopped
  PROVE  ProgramInvAfter
  <1>1. todo' = <<>> /\ route' = NoRouteCmd /\ UNCHANGED vars /\ typed' = typed
    BY DEF Stopped
  <1>2. GraphOK /\ typed' \in 0 .. MaxCommands /\ todo' \in Seq(Requests)
    BY <1>1 DEF ProgramInv
  <1> QED BY <1>1, <1>2, NoRouteOK, CommandOnly

\* The oracle serves a request: the loop is not laid behind its back meanwhile.
LEMMA OracleStepInv ==
  ASSUME ProgramInv, OracleStep
  PROVE  ProgramInvAfter
  <1>1. /\ ~ Computing /\ Serve /\ typed' = typed /\ todo' = todo /\ route' = route /\ graph' = graph
    BY DEF OracleStep, Serve
  <1>2. GraphOK /\ Holds /\ up \in BOOLEAN /\ typed \in 0 .. MaxCommands
        /\ CommandOK(route, todo, answer[CmdTask], oracle.trains)
    BY DEF ProgramInv
  <1>3. HoldsAfter /\ up' \in BOOLEAN
    BY <1>1, <1>2, ServeOK
  <1>4. todo \in Seq(Requests)
    <2> SUFFICES ASSUME OnlyLoop(route, todo, answer[CmdTask], oracle.trains) PROVE FALSE
      BY <1>2 DEF CommandOK
    <2>1. todo = <<LoopRequest>> /\ answer[CmdTask].done
      BY DEF OnlyLoop
    <2>2. LoopRequest # Delay
      BY DEF LoopRequest, Delay
    <2>3. todo # <<Delay>> /\ todo # <<>>
      BY <2>1, <2>2
    <2> QED BY <1>1, <2>1, <2>3 DEF Computing, Stopping
  <1>5. CommandOK(route', todo', answer'[CmdTask], oracle'.trains)
    <2>1. answer'[CmdTask].req = answer[CmdTask].req
      BY <1>3 DEF HoldsAfter
    <2>2. route # NoRouteCmd => Follows(route, todo, answer'[CmdTask])
      <3> SUFFICES ASSUME route # NoRouteCmd PROVE answer[CmdTask].req \in Planned
        BY <2>1 DEF Follows
      <3> SUFFICES ASSUME answer[CmdTask].done, todo = <<Query(route.id)>> PROVE FALSE
        BY <1>2 DEF CommandOK, Follows
      <3>1. Query(route.id) # Delay
        BY DEF Query, Delay
      <3>2. todo # <<Delay>>
        BY <3>1
      <3> QED BY <1>1, <3>2 DEF Computing, Stopping
    <2> QED BY <1>1, <1>2, <1>4, <2>1, <2>2 DEF CommandOK, Asks
  <1> QED BY <1>1, <1>2, <1>3, <1>5 DEF ProgramInvAfter, HoldsAfter

\* Every step keeps the invariant.
LEMMA ProgramNextInv ==
  ASSUME ProgramInv, [ProgramNext]_programVars
  PROVE  ProgramInv'
  <1>1. GraphOK
    BY DEF ProgramInv
  <1>2. ProgramInvAfter
    <2>1. CASE \E c \in Commands : Type(c)
      BY <2>1, TypeInv
    <2>2. CASE Request
      BY <2>2, RequestInv
    <2>3. CASE PlanRoute
      BY <2>3, PlanRouteInv
    <2>4. CASE GiveUp
      BY <2>4, GiveUpInv
    <2>5. CASE Stopped
      BY <2>5, StoppedInv
    <2>6. CASE OracleStep
      BY <2>6, OracleStepInv
    <2>7. CASE UNCHANGED programVars
      <3>1. UNCHANGED vars /\ typed' = typed /\ todo' = todo /\ route' = route
        BY <2>7 DEF programVars
      <3>2. typed' \in 0 .. MaxCommands /\ CommandOK(route', todo', answer[CmdTask], oracle.trains)
        BY <3>1 DEF ProgramInv
      <3> QED BY <3>1, <3>2, CommandOnly
    <2> QED BY <2>1, <2>2, <2>3, <2>4, <2>5, <2>6, <2>7 DEF ProgramNext, CmdStep
  <1> QED BY <1>1, <1>2, AfterIsInv

\* The inductive invariant that the theorems below rest on: the oracle's descriptors are in
\* order, each request of the command task is in one place until it is answered, and what a
\* route still asks for is planned for the switches and trains there are.
THEOREM ProgramInvariant == ProgramSpec => []ProgramInv
  <1>1. ProgramInit => ProgramInv
    BY ProgramInitInv
  <1>2. ProgramInv /\ [ProgramNext]_programVars => ProgramInv'
    BY ProgramNextInv
  <1> QED BY <1>1, <1>2, PTL DEF ProgramSpec

\* The invariant says what the types are.
LEMMA InvTyped ==
  ASSUME ProgramInv
  PROVE  ProgramTypeOK
  <1>1. /\ OracleOK(oracle) /\ WorldOK(world) /\ MailOK(mailbox) /\ up \in BOOLEAN /\ GraphOK
        /\ typed \in 0 .. MaxCommands /\ CommandOK(route, todo, answer[CmdTask], oracle.trains)
    BY DEF ProgramInv, Holds, OracleInv
  <1>2. Sensors = SENSORS
    BY <1>1, SensorsPlaced
  <1>3. /\ oracle.branches \in [VALID_SWITCHES -> Dirs]
        /\ oracle.max_tick_delay \in 0 .. 99 /\ oracle.ticked_ago \in {-1} \cup 0 .. MaxAge
        /\ \A k \in 1 .. MAX_TRAINS : oracle.trains[k] \in Tds
    BY <1>1 DEF OracleOK, Oracles
  <1>4. oracle.ticked_ago \in -1 .. MaxAge
    BY <1>3, OracleAssumption
  <1>5. \A k \in 1 .. MAX_TRAINS :
          LET td == oracle.trains[k]
          IN  /\ td.id \in {0} \cup CalibratedTrains
              /\ td.pos.sensor \in Sensors /\ td.next_sensor \in Sensors
              /\ td.observed_ago \in 0 .. MaxAge /\ td.changed_ago \in 0 .. MaxAge
    BY <1>2, <1>3 DEF Tds, Positions
  <1>6. Len(mailbox) <= 2 + Cardinality(Clients)
    <2>1. Cardinality(Clients) \in Nat /\ Cardinality(Clients) # 0
      <3>1. IsFiniteSet(Clients) /\ Clients # {}
        BY CommandsAssumption
      <3> QED BY <3>1, FS_CardinalityType, FS_EmptySet
    <2>2. PICK box : box = mailbox /\ MailOK(box) /\ Len(box) \in Nat
      BY <1>1 DEF MailOK
    <2>3. Len(box) <= 3
      BY <2>2, MailShort
    <2> QED BY <2>1, <2>2, <2>3
  <1>7. OracleTypeOK
    BY <1>1, <1>2, <1>3, <1>4, <1>5, <1>6 DEF OracleTypeOK, WorldOK
  <1>8. route.to \in Sensors \cup {-1} /\ (route.planned => route.path # <<>>)
    BY <1>1, <1>2 DEF CommandOK, Routes
  <1> QED BY <1>1, <1>7, <1>8 DEF ProgramTypeOK

\* And what the descriptors say.
LEMMA InvFollows ==
  ASSUME ProgramInv
  PROVE  VelocitySettles /\ ExpectedAhead
  <1>1. OracleOK(oracle)
    BY DEF ProgramInv, Holds, OracleInv
  <1>2. DOMAIN oracle.trains = 1 .. MAX_TRAINS /\ \A k \in 1 .. MAX_TRAINS : TdOK(oracle.trains[k], oracle.branches)
    BY <1>1 DEF OracleOK, Oracles, TrainsOK
  <1>3. \A k \in Slots : Settles(oracle.trains[k]) /\ Expects(oracle.trains[k], oracle.branches)
    BY <1>2 DEF Slots, TdOK
  <1> QED BY <1>3 DEF VelocitySettles, ExpectedAhead, Settles, Expects

\* A panic is not of a route's making.
LEMMA RouteGoesOn ==
  ASSUME ProgramInv, ProgramNext, up, ~ up'
  PROVE  route = NoRouteCmd
  <1>1. Holds /\ CommandOK(route, todo, answer[CmdTask], oracle.trains) /\ GraphOK
    BY DEF ProgramInv
  <1>2. OracleStep
    BY DEF ProgramNext, CmdStep, Type, Request, Post, PlanRoute, GiveUp, Stopped, vars
  <1> SUFFICES ASSUME route # NoRouteCmd PROVE FALSE
    OBVIOUS
  <1>3. ASSUME NEW tag, Serving(tag), tag \in {"CalibrateTrain", "SetBranchDir", "WakeAtPos"}
        PROVE  \E r \in Planned : Head(mailbox).req = r /\ r.tag = tag /\ oracle.blocked = Nobody
    <2>1. tag \notin {"Tick", "UpdateSensors"}
      BY <1>3
    <2>2. PICK r \in Requests \cup {LoopRequest} :
             /\ Head(mailbox) = [from |-> CmdTask, req |-> r] /\ r.tag = tag /\ answer[CmdTask].req = r
             /\ oracle.blocked = Nobody /\ ~ answer[CmdTask].done
      BY <1>1, <1>3, <2>1, CommandIs
    <2>3. r \in Planned
      BY <1>1, <2>2 DEF CommandOK, Follows
    <2> QED BY <2>2, <2>3
  <1>4. CASE \E d \in QueryTicks : ServeCalibrateTrain(d)
    <2>1. Serving("CalibrateTrain")
      BY <1>4 DEF ServeCalibrateTrain
    <2> QED BY <1>3, <2>1 DEF Planned
  <1>5. CASE ServeSetBranchDir
    <2>1. Serving("SetBranchDir")
      BY <1>5 DEF ServeSetBranchDir
    <2>2. Head(mailbox).req.id \in VALID_SWITCHES
      BY <1>3, <2>1 DEF Planned
    <2> QED BY <1>5, <2>2, Zenon DEF ServeSetBranchDir
  <1>6. CASE ServeWakeAtPos
    <2>1. Serving("WakeAtPos")
      BY <1>6 DEF ServeWakeAtPos
    <2>2. oracle.blocked = Nobody
      BY <1>3, <2>1
    <2> QED BY <1>6, <2>2, Zenon DEF ServeWakeAtPos
  <1>7. CASE \/ ServeTick \/ \E d \in QueryTicks : ServeUpdateSensors(d) \/ CalibrateQuery(d)
             \/ ServeQueryTrain \/ ServeNormalize \/ ServeSetTrainSpeed \/ ServeReverseTrain \/ ServeMakeLoop
    BY <1>7 DEF ServeTick, ServeUpdateSensors, CalibrateQuery, ServeQueryTrain, ServeNormalize,
                ServeSetTrainSpeed, ServeReverseTrain, ServeMakeLoop
  <1> QED BY <1>2, <1>4, <1>5, <1>6, <1>7 DEF OracleStep, Serve

\* Type correctness: every descriptor is of a train with calibration tables at a sensor
\* of the track, and the mailbox holds no two messages of one task (track_oracle.cc:83-113,
\* 683-779), whatever the commands, the trains and the times a sensor query takes.
THEOREM ProgramTyped == ProgramSpec => []ProgramTypeOK
  <1>1. ProgramInv => ProgramTypeOK
    BY InvTyped
  <1> QED BY <1>1, ProgramInvariant, PTL

\* A train not seen since its speed was changed is taken to go as fast as its speed says
\* once the acceleration is over, by whatever sequence of speed changes, reversals and sensors
\* (interpolate_acceleration(), set_train_speed(), update_sensors(), track_oracle.cc:228-268,
\* 402-431 and 502-619).
THEOREM VelocitiesSettle == ProgramSpec => []VelocitySettles
  <1>1. ProgramInv => VelocitySettles
    BY InvFollows
  <1> QED BY <1>1, ProgramInvariant, PTL

\* The second half of TrainFollowed: the sensor a train is expected to hit next is the one
\* the switches lead it to from where it is, however they are thrown and the train is turned
\* (track_oracle.cc:433-619).
THEOREM TrainsAreExpected == ProgramSpec => []ExpectedAhead
  <1>1. ProgramInv => ExpectedAhead
    BY InvFollows
  <1> QED BY <1>1, ProgramInvariant, PTL

\* A route command never makes the oracle panic: it lays only switches there are, registers
\* no train, and waits for one position at a time (do_route_cmd(), t1.cc:79-283; the panics
\* of track_oracle.cc:333-501 and 621-646).
THEOREM RoutesGoOn == ProgramSpec => [][up /\ ~ up' => route = NoRouteCmd]_programVars
  <1>1. ProgramInv /\ [ProgramNext]_programVars => [up /\ ~ up' => route = NoRouteCmd]_programVars
    BY RouteGoesOn
  <1> QED BY <1>1, ProgramInvariant, PTL DEF ProgramSpec

=============================================================================
