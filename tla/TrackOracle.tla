---------------------------- MODULE TrackOracle ----------------------------
(***************************************************************************)
(* The track oracle task of the train program: it mediates every command   *)
(* to the trains and switches, attributes sensors to trains, estimates     *)
(* where the trains are, and wakes the task that waits for a train to be   *)
(* somewhere.  It serves one request at a time; two background tasks send  *)
(* it Tick and UpdateSensors over and over, its clients the rest.          *)
(* Time, in ticks of 10 ms, passes while the oracle waits: for the answer  *)
(* to a sensor query or for a delay.  Moments are kept as how long ago     *)
(* they were, up to MaxAge.                                                *)
(***************************************************************************)
EXTENDS TrackGraph, Calibration, FiniteSetsExt, SequencesExt

CONSTANTS
    MAX_TRAINS,      \* slots for descriptors
    Trains,          \* the trains on the track
    Starts,          \* the sensors they may stand at, to begin with
    Paces,           \* how fast they really are, in percent of what is expected
    Breaks,          \* the sets of sensors that may be broken
    QueryTicks,      \* how long a sensor query may take
    Clients,         \* the tasks that use the oracle, the two background tasks aside
    MaxAge           \* no moment is longer ago than this

ASSUME OracleAssumption ==
    /\ Trains \subseteq CalibratedTrains
    /\ QueryTicks \subseteq Nat \ {0} /\ Paces \subseteq Nat \ {0}
    /\ MAX_TRAINS \in Nat /\ MaxAge \in Nat

TICKS_PER_SEC == 100

VARIABLES
    up,           \* FALSE once a panic has stopped the program
    oracle,       \* the fields of TrackOracleImpl
    calibrating,  \* the request calibrate_train() is serving, or None
    mailbox,      \* requests not received yet
    answer,       \* per client, its last request and what has come of it
    world         \* the trains, switches and sensors of the real track

vars == <<graph, up, oracle, calibrating, mailbox, answer, world>>

-----------------------------------------------------------------------------
(* The real track.                                                         *)

TrainLength == 30     \* while a train stands over a sensor it goes on reporting

\* mm beyond place, by the edge e, and the places come by.
RollOn(place, e, mm, dir) ==
    LET roll[i \in Places, left \in Nat] ==
            LET next == NextEdge(i, dir)
            IN  IF next # NoEdge /\ left >= next.dist
                THEN [roll[next.dest, left - next.dist] EXCEPT !.past = <<next.dest>> \o @]
                ELSE [place |-> i, edge |-> next, mm |-> IF next = NoEdge THEN 0 ELSE left, past |-> <<>>]
    IN  IF e # NoEdge /\ mm >= e.dist
        THEN [roll[e.dest, mm - e.dist] EXCEPT !.past = <<e.dest>> \o @]
        ELSE [place |-> place, edge |-> e, mm |-> IF e = NoEdge THEN 0 ELSE mm, past |-> <<>>]

\* What is left of the way after a sensor is cut off, so that a train that goes round
\* the same way comes by the same places.
CutOff(to, dir) ==
    LET hits == SelectSeq(to.past, IsSensor)
    IN  IF hits = <<>> THEN to
        ELSE [to EXCEPT !.place = Last(hits), !.edge = NextEdge(Last(hits), dir), !.mm = 0]

\* A train that has been stopped rolls as far as its stopping distance.
Going == -1

Moved(r, d, dir) ==
    LET way  == IF r.left = Going THEN (r.v * d) \div 100 ELSE Min({r.left, (r.v * d) \div 100})
        to   == CutOff(RollOn(r.place, r.edge, r.mm + way, dir), dir)
        left == IF r.left = Going THEN Going ELSE r.left - way
        over == IF IsSensor(to.place) /\ to.mm < TrainLength /\ r.v > 0 THEN <<to.place>> ELSE <<>>
    IN  [place |-> to.place, edge |-> to.edge, mm |-> to.mm, left |-> left, pace |-> r.pace,
         v |-> IF left = 0 \/ to.edge = NoEdge THEN 0 ELSE r.v,
         past |-> to.past \o over]

SensorsAt(places)  == {At(i).num : i \in {j \in places : IsSensor(j)}}
SwitchesAt(places) == {At(i).num : i \in {j \in places : At(j).type \in {"branch", "merge"}}}

Elapsed(w, d, dir) ==
    LET to == [t \in Trains |-> Moved(w.real[t], d, dir)]
        seen(t) == SelectSeq(to[t].past, LAMBDA i : IsSensor(i) /\ At(i).num \notin w.broken)
    IN  [w EXCEPT
          !.real   = [t \in Trains |-> [x \in DOMAIN w.real[t] |-> to[t][x]]],
          !.lit    = @ \cup (Sensors \cap UNION {SensorsAt(ToSet(seen(t))) : t \in Trains}),
          !.last   = [t \in Trains |-> IF seen(t) = <<>> THEN @[t] ELSE At(Last(seen(t))).num],
          !.passed = [t \in Trains |-> IF seen(t) = <<>> THEN @[t] \cup SwitchesAt(ToSet(to[t].past)) ELSE {}]]

\* The speed command as the train takes it.
Driven(r, t, speed) ==
    CASE speed = 0 /\ r.v > 0 -> [r EXCEPT !.left = StoppingDistance(t, 8)]
      [] speed = 0 /\ r.v = 0 -> r
      [] OTHER -> [r EXCEPT !.left = Going, !.v = (ExpectedVelocity(t, speed) * r.pace) \div 100]

\* Speed 15: it stands, the other way round.
Turned(r) ==
    LET back == At(r.edge.dest).reverse
        edge == CHOOSE e \in Range(At(back).edge) : e.dest = At(r.place).reverse
    IN  IF r.edge = NoEdge THEN r
        ELSE [r EXCEPT !.place = back, !.edge = edge, !.mm = r.edge.dist - r.mm, !.v = 0, !.left = Going]

-----------------------------------------------------------------------------
(* Descriptors.                                                            *)

Later(age, d) == IF age = -1 THEN -1 ELSE Min({age + d, MaxAge})

FreeSlot == [id |-> 0, speed |-> 0, velocity |-> 0, pos |-> Pos(0, 0), observed_ago |-> 0,
             changed_ago |-> 0, accelerating |-> FALSE, old_speed |-> 0, old_velocity |-> 0,
             has_next_sensor |-> FALSE, next_sensor |-> 0]

\* The first slot that satisfies a test, or 0.
FirstSlot(trains, Test(_)) ==
    LET slots == {k \in DOMAIN trains : Test(trains[k])} IN IF slots = {} THEN 0 ELSE Min(slots)

SlotOf(trains, id) == FirstSlot(trains, LAMBDA td : td.id = id)

Slots == {k \in DOMAIN oracle.trains : oracle.trains[k].id # 0}

\* int division on the target: what __aeabi_idiv() of libgcc gives for 0 is the
\* largest number of the sign.
IntQuotient(a, b) ==
    IF b # 0 THEN Quotient(a, b) ELSE IF a > 0 THEN INT_MAX ELSE IF a < 0 THEN -INT_MAX ELSE 0

ewma4(curr, obs) == Quotient(3 * curr + obs, 4)

WayTo(from, to, dir) ==
    LET mm == DistanceBetween(from.sensor, to.sensor, dir)
    IN  [known |-> mm # NoRoute, mm |-> mm + to.offset_mm - from.offset_mm]

WithNextSensor(td, dir) ==
    LET next == NextSensor(td.pos.sensor, dir)
    IN  IF next = Nowhere THEN [td EXCEPT !.has_next_sensor = FALSE]
        ELSE [td EXCEPT !.has_next_sensor = TRUE, !.next_sensor = next.sensor]


IsAhead(td, s, dir) ==
    td.id # 0 /\ s \in {td.pos.sensor, td.next_sensor, NextSensor(td.next_sensor, dir).sensor}

\* The velocity, and the one interpolation starts from, after mm in the ticks
\* since the last observation.
Measured(td, mm) ==
    LET v  == Quotient(TICKS_PER_SEC * mm, td.observed_ago)
        t1 == td.changed_ago
        t2 == AccelerationTime(td.id, td.old_velocity, td.speed)
        v2 == ExpectedVelocity(td.id, td.speed)
    IN  IF t1 < t2
        THEN [td EXCEPT !.velocity = v,
                        !.old_velocity = Min({1000, Max({v - Quotient((v2 - v) * t1, t2 - t1), 0})})]
        ELSE [td EXCEPT !.velocity = ewma4(@, v)]

\* A sensor attributed to the train.
Observed(td, s, dir) ==
    LET way == WayTo(td.pos, Pos(s, 0), dir)
    IN  CASE s = td.pos.sensor -> [td EXCEPT !.observed_ago = 0]
          [] s # td.pos.sensor /\ (~ way.known \/ td.observed_ago <= 0) -> td
          [] OTHER -> WithNextSensor([Measured(td, way.mm) EXCEPT !.pos = Pos(s, 0), !.observed_ago = 0],
                                     dir)

\* One turn of the loop of update_sensors().
Attributed(trains, s, dir) ==
    LET k == FirstSlot(trains, LAMBDA td : IsAhead(td, s, dir))
    IN  IF k = 0 THEN trains ELSE [trains EXCEPT ![k] = Observed(@, s, dir)]

\* The loop of update_sensors(), which comes to the sensors reported in order.
Attributions(trains, lit, dir) ==
    LET upto[n \in 0 .. 80] ==
            IF n = 0 THEN trains
            ELSE IF n - 1 \in lit THEN Attributed(upto[n - 1], n - 1, dir) ELSE upto[n - 1]
    IN  upto[80]

\* Mutant: the last interpolated velocity is kept.
SettledShort(td, v) == [td EXCEPT !.accelerating = FALSE]

Settled(td, v) == [td EXCEPT !.velocity = v, !.accelerating = FALSE]

Interpolated(td) ==
    LET v  == ExpectedVelocity(td.id, td.speed)
        t  == td.changed_ago
        t2 == AccelerationTime(td.id, td.old_velocity, td.speed)
    IN  CASE td.id = 0 \/ ~ td.accelerating -> td
          [] td.id # 0 /\ td.accelerating /\ td.old_speed = td.speed -> [td EXCEPT !.accelerating = FALSE]
          [] OTHER -> IF t >= t2 THEN Settled(td, v)
                      ELSE [td EXCEPT !.velocity = td.old_velocity + Quotient(t * (v - td.old_velocity), t2)]

-----------------------------------------------------------------------------
(* The handlers.  s is the state of the oracle, s.o, and of the track, s.w. *)

\* A descriptor d ticks later.
Aged(td, d) == [td EXCEPT !.observed_ago = Later(@, d), !.changed_ago = Later(@, d)]

Waited(s, d) ==
    [o |-> [s.o EXCEPT !.ticked_ago = Later(@, d),
                       !.trains = [k \in DOMAIN @ |-> Aged(@[k], d)]],
     w |-> Elapsed(s.w, d, s.o.branches)]

Nobody  == [from |-> "nobody", id |-> 0, pos |-> Pos(0, 0)]

\* check_scheduled_wakeups(): what becomes of the task that waits.
Estimate(td) ==
    [td.pos EXCEPT !.offset_mm = @ + Quotient(td.velocity * td.observed_ago, TICKS_PER_SEC)]

\* Mutant: the rest of the way is not waited for.
AtOnce(ticks) == 0

Remaining(ticks) == Max({ticks, 0})

IsDue(ticks, o) == ticks <= o.max_tick_delay

Waking(o) ==
    LET td    == o.trains[SlotOf(o.trains, o.blocked.id)]
        way   == WayTo(Estimate(td), o.blocked.pos, o.branches)
        ticks == IntQuotient(TICKS_PER_SEC * way.mm, td.velocity)
    IN  CASE o.blocked = Nobody -> [wakes |-> FALSE, success |-> FALSE, delay |-> 0]
          [] o.blocked # Nobody /\ ~ way.known -> [wakes |-> TRUE, success |-> FALSE, delay |-> 0]
          [] OTHER -> [wakes |-> IsDue(ticks, o), success |-> TRUE, delay |-> Remaining(ticks)]

\* Mutant: the time taken by a calibration counts.
AnyTickDelay(o) == Max({o.max_tick_delay, o.ticked_ago})

TickDelay(o) == IF o.ticked_ago < 100 THEN Max({o.max_tick_delay, o.ticked_ago}) ELSE o.max_tick_delay

\* tick(), up to the wake-up.
Ticked(o) ==
    [o EXCEPT !.max_tick_delay = TickDelay(o),
              !.ticked_ago = 0,
              !.trains = [k \in DOMAIN @ |-> Interpolated(@[k])]]

\* set_train_speed()
SpeedSet(td, speed) ==
    LET changed == td.speed # speed
    IN  [td EXCEPT !.speed = speed, !.old_speed = td.speed, !.old_velocity = td.velocity,
                   !.observed_ago = IF td.speed = 0 /\ speed > 0 THEN 0 ELSE @,
                   !.accelerating = @ \/ changed,
                   !.changed_ago  = IF changed THEN 0 ELSE @]

OnSlotOf(trains, id, Do(_)) ==
    LET k == SlotOf(trains, id) IN IF k = 0 THEN trains ELSE [trains EXCEPT ![k] = Do(@)]

Drive(s, id, speed) ==
    [o |-> [s.o EXCEPT !.trains = OnSlotOf(@, id, LAMBDA td : SpeedSet(td, speed))],
     w |-> IF id \in Trains THEN [s.w EXCEPT !.real[id] = Driven(@, id, speed)] ELSE s.w]

\* reverse_train(), once the command has been sent.
Reversed(td, dir) ==
    IF td.speed # 0 THEN td
    ELSE WithNextSensor([td EXCEPT !.pos = Pos(InvertSensor(@.sensor), - @.offset_mm)], dir)

\* set_branch_dir()
Switched(o, n, d) ==
    LET dir == [o.branches EXCEPT ![n] = d]
    IN  [o EXCEPT !.branches = dir,
                  !.trains = [k \in DOMAIN @ |-> IF @[k].id = 0 THEN @[k] ELSE WithNextSensor(@[k], dir)]]

\* A switch that a train has passed since a sensor last reported it leads the oracle's
\* idea of its way elsewhere than the train, once it is thrown.
Fooled(w, was, dir) ==
    [w EXCEPT !.fooled = @ \/ \E t \in Trains : w.last[t] # -1 /\ \E n \in w.passed[t] : was[n] # dir[n]]

-----------------------------------------------------------------------------
None == [from |-> "nobody", req |-> [tag |-> "none"]]

Tick          == [from |-> "ticker", req |-> [tag |-> "Tick"]]
UpdateSensors == [from |-> "poller", req |-> [tag |-> "UpdateSensors"]]

Waiting(r)         == [req |-> r, done |-> FALSE, success |-> FALSE, td |-> FreeSlot]
Replied(r, result) == [req |-> r, done |-> TRUE, success |-> result, td |-> FreeSlot]

OracleTypeOK ==
    /\ up \in BOOLEAN
    /\ oracle.branches \in [VALID_SWITCHES -> Dirs]
    /\ oracle.max_tick_delay \in 0 .. 99 /\ oracle.ticked_ago \in -1 .. MaxAge
    /\ \A k \in 1 .. MAX_TRAINS :
          LET td == oracle.trains[k]
          IN  /\ td.id \in {0} \cup CalibratedTrains
              /\ td.pos.sensor \in Sensors /\ td.next_sensor \in Sensors
              /\ td.observed_ago \in 0 .. MaxAge /\ td.changed_ago \in 0 .. MaxAge
    /\ Len(mailbox) <= 2 + Cardinality(Clients)
    /\ world.lit \subseteq Sensors

Init ==
    /\ GraphInit
    /\ up = TRUE
    /\ oracle = [branches |-> Loop, trains |-> [k \in 1 .. MAX_TRAINS |-> FreeSlot],
                 blocked |-> Nobody, ticked_ago |-> -1, max_tick_delay |-> 0]
    /\ calibrating = None
    /\ mailbox = <<Tick, UpdateSensors>>
    /\ answer = [c \in Clients |-> Replied([tag |-> "none"], TRUE)]
    /\ \E start \in [Trains -> Starts], pace \in [Trains -> Paces], broken \in Breaks :
           /\ \A t, u \in Trains : t # u => start[t] # start[u]
           /\ world = [real |-> [t \in Trains |-> [place |-> PlaceOf[start[t]], mm |-> 0, v |-> 0,
                                                   edge |-> NextEdge(PlaceOf[start[t]], Loop),
                                                   left |-> Going, pace |-> pace[t]]],
                       lit |-> {}, last |-> [t \in Trains |-> -1], passed |-> [t \in Trains |-> {}],
                       broken |-> broken, fooled |-> FALSE]

Post(c, r) ==
    /\ up /\ answer[c].done
    /\ answer' = [answer EXCEPT ![c] = Waiting(r)]
    /\ mailbox' = Append(mailbox, [from |-> c, req |-> r])
    /\ UNCHANGED <<graph, up, oracle, calibrating, world>>

\* The next request is taken up.
Serving(tag) == up /\ calibrating = None /\ mailbox # <<>> /\ Head(mailbox).req.tag = tag

Now == [o |-> oracle, w |-> world]

Becomes(s) == oracle' = s.o /\ world' = s.w

\* The background task of Tick sends it again a tick after the reply.
Ticking(box) == IF \E k \in DOMAIN box : box[k] = Tick THEN box ELSE Append(box, Tick)

Answered(result) == answer' = [answer EXCEPT ![Head(mailbox).from] = Replied(@.req, result)]

Released(o) == [o EXCEPT !.blocked = Nobody]

\* tick(), and the task woken up by it.
TickIn(s) ==
    LET o    == Ticked(s.o)
        wake == Waking(o)
    IN  IF ~ wake.wakes THEN Becomes([s EXCEPT !.o = o]) /\ UNCHANGED answer
        ELSE /\ Becomes(Waited([s EXCEPT !.o = Released(o)], wake.delay))
             /\ answer' = [answer EXCEPT ![o.blocked.from] = Replied(@.req, wake.success)]

ServeTick ==
    /\ Serving("Tick")
    /\ TickIn(Now)
    /\ mailbox' = Tail(mailbox)
    /\ UNCHANGED <<up, calibrating>>

\* update_sensors(), which waits d ticks for the sensors.
ServeUpdateSensors(d) ==
    /\ Serving("UpdateSensors")
    /\ \E s \in {Waited(Now, d)} :
           TickIn([o |-> [s.o EXCEPT !.trains = Attributions(@, s.w.lit, s.o.branches)],
                   w |-> [s.w EXCEPT !.lit = {}]])
    /\ mailbox' = Append(Ticking(Tail(mailbox)), UpdateSensors)
    /\ UNCHANGED <<up, calibrating>>

ServeQueryTrain ==
    /\ Serving("QueryTrain")
    /\ LET k == SlotOf(oracle.trains, Head(mailbox).req.id)
       IN  answer' = [answer EXCEPT ![Head(mailbox).from] =
               [Replied(@.req, k # 0) EXCEPT !.td = IF k = 0 THEN FreeSlot ELSE oracle.trains[k]]]
    /\ mailbox' = Tail(mailbox)
    /\ UNCHANGED <<up, oracle, calibrating, world>>

ServeNormalize ==
    /\ Serving("Normalize")
    /\ answer' = [answer EXCEPT ![Head(mailbox).from] =
           [Replied(@.req, TRUE) EXCEPT !.td.pos = Normalize(Head(mailbox).req.pos, oracle.branches)]]
    /\ mailbox' = Tail(mailbox)
    /\ UNCHANGED <<up, oracle, calibrating, world>>

ServeSetTrainSpeed ==
    /\ Serving("SetTrainSpeed")
    /\ LET r == Head(mailbox).req
       IN  Becomes(Drive(Now, r.id, r.speed)) /\ Answered(SlotOf(oracle.trains, r.id) # 0)
    /\ mailbox' = Tail(mailbox)
    /\ UNCHANGED <<up, calibrating>>

ServeReverseTrain ==
    /\ Serving("ReverseTrain")
    /\ LET r == Head(mailbox).req
           k == SlotOf(oracle.trains, r.id)
       IN  /\ oracle' = [oracle EXCEPT !.trains =
                            OnSlotOf(@, r.id, LAMBDA td : Reversed(td, oracle.branches))]
           /\ world' = [world EXCEPT !.real[r.id] = Turned(@),
                                     !.last[r.id] = IF @ = -1 THEN -1 ELSE InvertSensor(@)]
           /\ Answered(k # 0 /\ oracle.trains[k].speed = 0)
    /\ mailbox' = Tail(mailbox)
    /\ UNCHANGED <<up, calibrating>>

ServeSetBranchDir ==
    /\ Serving("SetBranchDir")
    /\ LET r == Head(mailbox).req
       IN  IF r.id \in VALID_SWITCHES
           THEN /\ oracle' = Switched(oracle, r.id, r.dir)
                /\ world' = Fooled(world, oracle.branches, [oracle.branches EXCEPT ![r.id] = r.dir])
                /\ Answered(TRUE)
                /\ UNCHANGED up
           ELSE up' = FALSE /\ UNCHANGED <<oracle, world, answer>>
    /\ mailbox' = Tail(mailbox)
    /\ UNCHANGED <<calibrating>>

ServeMakeLoop ==
    /\ Serving("MakeLoop")
    /\ oracle' = [oracle EXCEPT !.branches = Loop]
    /\ world' = Fooled(world, oracle.branches, Loop)
    /\ Answered(TRUE)
    /\ mailbox' = Tail(mailbox)
    /\ UNCHANGED <<up, calibrating>>

\* Answered by the tick that finds the train there.
ServeWakeAtPos ==
    /\ Serving("WakeAtPos")
    /\ LET r == Head(mailbox).req
       IN  CASE oracle.blocked # Nobody -> up' = FALSE /\ UNCHANGED <<oracle, answer>>
             [] oracle.blocked = Nobody /\ SlotOf(oracle.trains, r.id) = 0 ->
                    Answered(FALSE) /\ UNCHANGED <<up, oracle>>
             [] OTHER -> /\ oracle' = [oracle EXCEPT !.blocked =
                                [from |-> Head(mailbox).from, id |-> r.id,
                                 pos |-> Normalize(r.pos, oracle.branches)]]
                         /\ UNCHANGED <<up, answer>>
    /\ mailbox' = Tail(mailbox)
    /\ UNCHANGED <<calibrating, world>>

FreeSlots == {k \in 1 .. MAX_TRAINS : oracle.trains[k].id = 0}

\* calibrate_train(), up to its loop: the train is stopped, sent off, and the
\* sensors reported so far are thrown away.
ServeCalibrateTrain(d) ==
    /\ Serving("CalibrateTrain")
    /\ IF FreeSlots = {} THEN up' = FALSE /\ UNCHANGED <<oracle, world, calibrating>>
       ELSE /\ \E id \in {Head(mailbox).req.id} :
               \E stopped \in {Waited(Drive(Now, id, 0), 200)} :
               \E s \in {Waited(Drive(stopped, id, 8), d)} : Becomes([s EXCEPT !.w.lit = {}])
            /\ calibrating' = Head(mailbox)
            /\ UNCHANGED up
    /\ mailbox' = Ticking(Tail(mailbox))
    /\ UNCHANGED answer


\* One turn of its loop.
CalibrateQuery(d) ==
    /\ up /\ calibrating # None
    /\ \E s \in {Waited(Now, d)} :
           LET id  == calibrating.req.id
               to  == Drive([s EXCEPT !.w.lit = {}], id, 0)
               hit == Min(s.w.lit)
           IN  IF s.w.lit = {} THEN Becomes(s) /\ UNCHANGED <<calibrating, answer>>
               ELSE /\ Becomes([to EXCEPT !.o.trains[Min(FreeSlots)] =
                                  [FreeSlot EXCEPT !.id = id, !.pos = Pos(hit, StoppingDistance(id, 8)),
                                                   !.next_sensor = hit]])
                    /\ answer' = [answer EXCEPT ![calibrating.from] = Replied(@.req, TRUE)]
                    /\ calibrating' = None
    /\ UNCHANGED <<up, mailbox>>

Serve ==
    /\ \/ ServeTick
       \/ \E d \in QueryTicks : ServeUpdateSensors(d) \/ ServeCalibrateTrain(d) \/ CalibrateQuery(d)
       \/ ServeQueryTrain \/ ServeNormalize \/ ServeSetTrainSpeed \/ ServeReverseTrain
       \/ ServeSetBranchDir \/ ServeMakeLoop \/ ServeWakeAtPos
    /\ UNCHANGED graph

-----------------------------------------------------------------------------
(* Properties.                                                             *)

\* The sensor a train is expected to hit next, by which the attribution goes, is at all
\* times the one the switches lead it to from where it was last seen: set_branch_dir(),
\* reverse_train() and update_sensors() compute it anew (track_oracle.cc:433-619).
ExpectedAhead ==
    \A k \in Slots :
        LET td == oracle.trains[k]
        IN  td.has_next_sensor => td.next_sensor = NextSensor(td.pos.sensor, oracle.branches).sensor


\* A train that has not been seen since its speed was changed is taken to go as
\* fast as its speed says once it has had the time: "While it is changing speed
\* levels" its velocity comes nearer to the "expected final velocity"
\* (t1.md:241-245; interpolate_acceleration(), track_oracle.cc:229-268).
VelocitySettles ==
    \A k \in Slots :
        LET td == oracle.trains[k]
        IN  ~ td.accelerating /\ td.old_speed # td.speed
                /\ td.observed_ago >= td.changed_ago /\ td.changed_ago < MaxAge =>
                td.velocity = ExpectedVelocity(td.id, td.speed)

\* A task is told that the train is where it waits for it to be when the oracle's
\* own estimate has it there, to within a tick (check_scheduled_wakeups(), "If we
\* won't tick again until after the deadline, delay until the exact moment").
WokenThere ==
    [][\A c \in Clients :
          answer[c].req.tag = "WakeAtPos" /\ ~ answer[c].done /\ answer'[c].done /\ answer'[c].success =>
              LET td == oracle'.trains[SlotOf(oracle'.trains, answer[c].req.id)]
              IN  WayTo(Estimate(td), Normalize(answer[c].req.pos, oracle'.branches),
                        oracle'.branches).mm <= 1 + Quotient(td.velocity, TICKS_PER_SEC)]_vars

=============================================================================
