------------------------- MODULE RunParametersProofs -------------------------
(***************************************************************************)
(* Proofs about the parameters of a running program.  Each operation of    *)
(* the run session takes a good session to a good one; the render thread   *)
(* only composes them.                                                     *)
(***************************************************************************)
EXTENDS RunParameters, TLAPS

Good(s) == s \in Sessions /\ Agree(s) /\ Sound(s)

Updates == [Params -> Values \cup {None}]

LEMMA Constants_ ==
    /\ None \notin Values /\ Values \ Infinite \subseteq Values
    /\ Default \in Values /\ Default \notin Infinite
    /\ Smoothed \subseteq Params
  BY ParametersAssumption

LEMMA SamplesAreNatural ==
    ASSUME NEW d \in Durations PROVE SmoothingSamples(d) \in Nat
  BY ParametersAssumption DEF SmoothingSamples

-----------------------------------------------------------------------------
(* Sessions.                                                               *)

LEMMA ReportedType ==
    ASSUME NEW s \in Sessions PROVE Reported(s) \in [Params -> Values]
  BY Constants_ DEF Sessions, Reported

\* settle leaves no ramp on its way.
LEMMA SettledIsGood ==
    ASSUME NEW values \in Updates, NEW instance \in [Params -> Values],
           NEW samples \in Nat, NEW target,
           \A p \in Params : instance[p] = IF values[p] = None THEN Default
                                           ELSE values[p],
           \A p \in Smoothed : target[p] = instance[p]
    PROVE  /\ Good(Settled(values, instance, samples, target))
           /\ Reported(Settled(values, instance, samples, target)) = instance
<1> DEFINE t == Settled(values, instance, samples, target)
<1>1. /\ t.values = values /\ t.instance = instance
      /\ t.samples = samples /\ t.started = FALSE
      /\ t.ramp = [p \in Smoothed |->
                       [current |-> target[p], start |-> target[p],
                        target |-> target[p], elapsed |-> samples,
                        active |-> FALSE]]
  BY DEF Settled
<1>2. Reported(t) = instance
  BY <1>1 DEF Reported
<1>3. \A p \in Smoothed : target[p] \in Values
  BY Constants_
<1>4. t.ramp \in [Smoothed -> Ramps]
  BY <1>1, <1>3 DEF Ramps
<1>5. t \in Sessions
  BY <1>1, <1>4 DEF Settled, Sessions, Updates
<1>6. ASSUME NEW p \in Smoothed
      PROVE  t.ramp[p].target = instance[p] /\ t.ramp[p].active = FALSE
  <2>1. t.ramp[p] = [current |-> target[p], start |-> target[p],
                     target |-> target[p], elapsed |-> samples,
                     active |-> FALSE]
    BY <1>1
  <2> QED
    BY <2>1
<1>7. Moving(t) = {}
  BY <1>6 DEF Moving
<1>8. Agree(t)
  BY <1>1, <1>2, <1>6, <1>7 DEF Agree
<1>9. Sound(t)
  BY <1>7 DEF Sound
<1> QED
  BY <1>2, <1>5, <1>8, <1>9 DEF Good

LEMMA NewSessionIsGood ==
    ASSUME NEW d \in Durations
    PROVE  Good(NewSession(d)) /\ Reported(NewSession(d)) = Defaults
<1>1. SmoothingSamples(d) \in Nat
  BY SamplesAreNatural
<1>2. NoUpdates \in Updates /\ Defaults \in [Params -> Values]
  BY Constants_ DEF NoUpdates, Defaults, Updates
<1>3. /\ \A p \in Params : Defaults[p] = IF NoUpdates[p] = None THEN Default
                                         ELSE NoUpdates[p]
      /\ \A p \in Smoothed : Defaults[p] = Defaults[p]
  BY DEF NoUpdates, Defaults
<1> QED
  BY <1>1, <1>2, <1>3, SettledIsGood DEF NewSession

LEMMA ResetIsGood ==
    ASSUME NEW s, Good(s)
    PROVE  Good(ResetParams(s)) /\ Reported(ResetParams(s)) = Defaults
<1>1. s.samples \in Nat
  BY DEF Good, Sessions
<1>2. NoUpdates \in Updates /\ Defaults \in [Params -> Values]
  BY Constants_ DEF NoUpdates, Defaults, Updates
<1>3. /\ \A p \in Params : Defaults[p] = IF NoUpdates[p] = None THEN Default
                                         ELSE NoUpdates[p]
      /\ \A p \in Smoothed : Defaults[p] = Defaults[p]
  BY DEF NoUpdates, Defaults
<1> QED
  BY <1>1, <1>2, <1>3, SettledIsGood DEF ResetParams

LEMMA RebuiltIsGood ==
    ASSUME NEW s, Good(s)
    PROVE  Good(Rebuilt(s)) /\ Reported(Rebuilt(s)) = Reported(s)
<1>1. s.samples \in Nat /\ s.values \in Updates
  BY DEF Good, Sessions, Updates
<1>2. Reported(s) \in [Params -> Values]
  BY ReportedType DEF Good
<1>3. \A p \in Params : Reported(s)[p] = IF s.values[p] = None THEN Default
                                         ELSE s.values[p]
  BY DEF Reported
<1>4. \A p \in Smoothed : Targets(s)[p] = Reported(s)[p]
  BY DEF Good, Agree, Targets
<1> HIDE DEF Reported, Targets
<1> QED
  BY <1>1, <1>2, <1>3, <1>4, SettledIsGood DEF Rebuilt

-----------------------------------------------------------------------------
(* Updates: set_param writes through or gives a ramp a new target.         *)

\* What is known of the entry of a parameter that s has.
LEMMA RampFacts ==
    ASSUME NEW s, Good(s), NEW p \in Smoothed
    PROVE  /\ s.ramp[p] \in Ramps
           /\ s.ramp[p].current \in Values /\ s.ramp[p].start \in Values
           /\ s.ramp[p].target \in Values /\ s.ramp[p].elapsed \in Nat
           /\ s.ramp[p].active \in BOOLEAN
           /\ s.ramp[p].target = Reported(s)[p]
           /\ s.ramp[p].active \/ s.instance[p] = Reported(s)[p]
           /\ s.ramp[p].active =>
                 /\ s.samples # 0
                 /\ s.ramp[p].elapsed <= s.samples
                 /\ s.ramp[p].elapsed < s.samples
                    => /\ s.ramp[p].start \notin Infinite
                       /\ s.ramp[p].current \notin Infinite
                       /\ s.ramp[p].target \notin Infinite
<1>1. s.ramp \in [Smoothed -> Ramps]
  BY DEF Good, Sessions
<1>2. s.ramp[p] \in Ramps
  BY <1>1
<1>3. s.ramp[p].active => p \in Moving(s)
  BY DEF Moving
<1>4. ~s.ramp[p].active => p \in Params \ Moving(s)
  BY Constants_ DEF Moving
<1> QED
  BY <1>2, <1>3, <1>4 DEF Good, Agree, Sound, Ramps

\* set_target, for the entry of one parameter.
LEMMA SetTargetFacts ==
    ASSUME NEW s, Good(s), NEW p \in Smoothed, NEW v \in Values
    PROVE  LET r == SetTarget(s, p, v) IN
           /\ r \in Ramps /\ r.target = v
           /\ r.active \/ WritesThrough(s, p, v) \/ s.ramp[p].target = v
           /\ ~WritesThrough(s, p, v) /\ ~r.active
              => s.ramp[p].target = v /\ ~s.ramp[p].active
           /\ r.active =>
                 /\ s.samples # 0
                 /\ r.elapsed <= s.samples
                 /\ r.elapsed < s.samples
                    => /\ r.start \notin Infinite
                       /\ r.current \notin Infinite
                       /\ r.target \notin Infinite
<1> DEFINE q == s.ramp[p]
<1> DEFINE r == SetTarget(s, p, v)
<1>0. s.samples \in Nat
  BY DEF Good, Sessions
<1>1. q \in Ramps
  BY RampFacts
<1>2. CASE WritesThrough(s, p, v)
  <2>1. r = [q EXCEPT !.current = v, !.target = v, !.elapsed = s.samples]
    BY <1>2 DEF SetTarget
  <2>2. /\ r \in Ramps /\ r.target = v /\ r.elapsed = s.samples
        /\ r.active = q.active
    BY <1>0, <1>1, <2>1 DEF Ramps
  <2> QED
    BY <1>0, <1>2, <2>2, RampFacts
<1>3. CASE ~WritesThrough(s, p, v) /\ v = q.target
  <2>1. r = q
    BY <1>3 DEF SetTarget
  <2> QED
    BY <1>1, <1>3, <2>1, RampFacts
<1>4. CASE ~WritesThrough(s, p, v) /\ v # q.target
  <2>1. r = [current |-> q.current, start |-> q.current, target |-> v,
             elapsed |-> IF v = q.current THEN s.samples ELSE 0,
             active |-> TRUE]
    BY <1>4 DEF SetTarget
  <2>2. /\ s.samples # 0 /\ v \notin Infinite /\ q.current \notin Infinite
    BY <1>4 DEF WritesThrough
  <2>3. q.current \in Values
    BY RampFacts
  <2>4. r \in Ramps
    BY <1>0, <2>1, <2>3 DEF Ramps
  <2>5. /\ r.current = q.current /\ r.start = q.current /\ r.target = v
        /\ r.active = TRUE /\ r.elapsed \in {0, s.samples}
    BY <2>1
  <2> QED
    BY <1>0, <1>4, <2>2, <2>4, <2>5
<1> QED
  BY <1>2, <1>3, <1>4

\* What is reported after a flush.
LEMMA UpdatesAreReported ==
    ASSUME NEW s, NEW u
    PROVE  Reported(SetParams(s, u)) =
           [p \in Params |-> IF p \in Accepted(u) THEN u[p] ELSE Reported(s)[p]]
<1> DEFINE t == SetParams(s, u)
<1>1. t.values = [p \in Params |-> IF p \in Accepted(u) THEN u[p]
                                   ELSE s.values[p]]
  BY DEF SetParams
<1>2. \A p \in Accepted(u) : u[p] # None
  BY DEF Accepted
<1>3. ASSUME NEW p \in Params
      PROVE  Reported(t)[p] = IF p \in Accepted(u) THEN u[p]
                              ELSE Reported(s)[p]
  BY <1>1, <1>2 DEF Reported
<1> QED
  BY <1>3 DEF Reported

LEMMA SetParamsIsGood ==
    ASSUME NEW s, Good(s), NEW u \in Updates
    PROVE  Good(SetParams(s, u))
<1> DEFINE t == SetParams(s, u)
<1>1. /\ t.values = [p \in Params |-> IF p \in Accepted(u) THEN u[p]
                                      ELSE s.values[p]]
      /\ t.instance = [p \in Params |->
                          IF p \in Accepted(u) /\ WritesThrough(s, p, u[p])
                          THEN u[p] ELSE s.instance[p]]
      /\ t.samples = s.samples /\ t.started = s.started
      /\ t.ramp = [p \in Smoothed |-> IF p \in Accepted(u)
                                      THEN SetTarget(s, p, u[p])
                                      ELSE s.ramp[p]]
  BY DEF SetParams
<1>2. /\ s \in Sessions /\ s.samples \in Nat /\ s.started \in BOOLEAN
      /\ s.values \in [Params -> Values \cup {None}]
      /\ s.instance \in [Params -> Values]
  BY DEF Good, Sessions
<1>3. \A p \in Accepted(u) : p \in Params /\ u[p] \in Values
  BY DEF Accepted, Updates
<1>4. \A p \in Smoothed : t.ramp[p] = IF p \in Accepted(u)
                                      THEN SetTarget(s, p, u[p])
                                      ELSE s.ramp[p]
  BY <1>1
<1>5. \A p \in Smoothed : t.ramp[p] \in Ramps
  BY <1>3, <1>4, SetTargetFacts, RampFacts
<1>6. t.values \in [Params -> Values \cup {None}]
  BY <1>1, <1>2, <1>3
<1>7. t.instance \in [Params -> Values]
  BY <1>1, <1>2, <1>3
<1>8. t.ramp \in [Smoothed -> Ramps]
  BY <1>1, <1>4, <1>5
<1>9. t \in Sessions
  BY <1>1, <1>2, <1>6, <1>7, <1>8 DEF SetParams, Sessions
<1>10. \A p \in Params : Reported(t)[p] = IF p \in Accepted(u) THEN u[p]
                                          ELSE Reported(s)[p]
  BY UpdatesAreReported
<1>11. ASSUME NEW p \in Smoothed PROVE t.ramp[p].target = Reported(t)[p]
  BY <1>3, <1>4, <1>10, SetTargetFacts, RampFacts, Constants_
<1>12. ASSUME NEW p \in Params \ Moving(t)
       PROVE  t.instance[p] = Reported(t)[p]
  <2>1. CASE p \notin Accepted(u)
    <3>1. p \notin Moving(s)
      BY <1>4, <1>12, <2>1 DEF Moving
    <3> QED
      BY <1>1, <1>10, <2>1, <3>1 DEF Good, Agree
  <2>2. CASE p \in Accepted(u) /\ WritesThrough(s, p, u[p])
    BY <1>1, <1>10, <2>2
  <2>3. CASE p \in Accepted(u) /\ ~WritesThrough(s, p, u[p])
    <3>1. p \in Smoothed
      BY <2>3 DEF WritesThrough
    <3>2. ~SetTarget(s, p, u[p]).active
      BY <1>4, <1>12, <2>3, <3>1 DEF Moving
    <3>3. s.ramp[p].target = u[p] /\ ~s.ramp[p].active
      BY <1>3, <2>3, <3>1, <3>2, SetTargetFacts
    <3>4. s.instance[p] = Reported(s)[p] /\ Reported(s)[p] = u[p]
      BY <3>1, <3>3, RampFacts
    <3> QED
      BY <1>1, <1>10, <2>3, <3>4
  <2> QED
    BY <2>1, <2>2, <2>3
<1>13. Agree(t)
  BY <1>11, <1>12 DEF Agree
<1>14. ASSUME NEW p \in Moving(t)
       PROVE  /\ s.samples # 0
              /\ t.ramp[p].elapsed <= s.samples
              /\ t.ramp[p].elapsed < s.samples
                 => /\ t.ramp[p].start \notin Infinite
                    /\ t.ramp[p].current \notin Infinite
                    /\ t.ramp[p].target \notin Infinite
  <2>1. p \in Smoothed /\ t.ramp[p].active
    BY DEF Moving
  <2>2. CASE p \in Accepted(u)
    BY <1>3, <1>4, <2>1, <2>2, SetTargetFacts
  <2>3. CASE p \notin Accepted(u)
    BY <1>4, <2>1, <2>3, RampFacts
  <2> QED
    BY <2>2, <2>3
<1>15. Sound(t)
  BY <1>1, <1>14 DEF Sound
<1> QED
  BY <1>9, <1>13, <1>15 DEF Good

-----------------------------------------------------------------------------
(* Ramps: a new duration, and the beginning of a block.                    *)

LEMMA RetimedFacts ==
    ASSUME NEW s, Good(s), NEW p \in Moving(s), NEW n \in Nat, n # s.samples
    PROVE  LET r == Retimed(s, n, s.ramp[p]) IN
           /\ r \in Ramps /\ r.target = Reported(s)[p]
           /\ r.active = (n # 0)
           /\ r.active =>
                 /\ r.elapsed <= n
                 /\ r.elapsed < n
                    => /\ r.start \notin Infinite
                       /\ r.current \notin Infinite
                       /\ r.target \notin Infinite
<1> DEFINE q == s.ramp[p]
<1> DEFINE r == Retimed(s, n, q)
<1>0. p \in Smoothed /\ q.active = TRUE /\ s.samples \in Nat
  BY RampFacts DEF Moving, Good, Sessions
<1>1. q \in Ramps
  BY <1>0, RampFacts
<1>2. CASE n = 0
  <2>1. r = [q EXCEPT !.current = q.target, !.start = q.target,
                      !.elapsed = 0, !.active = FALSE]
    BY <1>2 DEF Retimed
  <2>2. r = [current |-> q.target, start |-> q.target, target |-> q.target,
             elapsed |-> 0, active |-> FALSE]
    BY <1>1, <2>1 DEF Ramps
  <2>3. q.target \in Values
    BY <1>1 DEF Ramps
  <2>4. r \in Ramps
    BY <2>2, <2>3 DEF Ramps
  <2>5. r.target = q.target /\ r.active = FALSE
    BY <2>2
  <2> QED
    BY <1>0, <1>2, <2>4, <2>5, RampFacts
<1>3. CASE n # 0
  <2>1. r = [q EXCEPT !.start = q.current,
                      !.elapsed = IF q.elapsed = s.samples THEN n ELSE 0]
    BY <1>3 DEF Retimed
  <2> DEFINE e == IF q.elapsed = s.samples THEN n ELSE 0
  <2>a. r = [current |-> q.current, start |-> q.current, target |-> q.target,
             elapsed |-> e, active |-> TRUE]
    BY <1>0, <1>1, <2>1 DEF Ramps
  <2>b. q.current \in Values /\ q.target \in Values /\ e \in Nat
    BY <1>1 DEF Ramps
  <2>c. r \in Ramps
    BY <2>a, <2>b DEF Ramps
  <2>2. /\ r \in Ramps /\ r.target = q.target /\ r.active = TRUE
        /\ r.start = q.current /\ r.current = q.current
        /\ r.elapsed = IF q.elapsed = s.samples THEN n ELSE 0
    BY <2>a, <2>c
  <2>3. /\ q.elapsed \in Nat /\ q.elapsed <= s.samples
        /\ q.elapsed < s.samples => q.current \notin Infinite
                                    /\ q.target \notin Infinite
        /\ q.target = Reported(s)[p]
    BY <1>0, RampFacts
  <2>4. r.elapsed <= n /\ (r.elapsed < n => q.elapsed < s.samples)
    BY <1>0, <2>2, <2>3
  <2> QED
    BY <1>3, <2>2, <2>3, <2>4
<1> QED
  BY <1>2, <1>3

LEMMA SetDurationIsGood ==
    ASSUME NEW s, Good(s), NEW n \in Nat
    PROVE  /\ Good(SetDuration(s, n))
           /\ Reported(SetDuration(s, n)) = Reported(s)
<1> DEFINE t == SetDuration(s, n)
<1>1. CASE n = s.samples
  BY <1>1 DEF SetDuration
<1>2. CASE n # s.samples
  <2>1. /\ t.values = s.values /\ t.samples = n /\ t.started = s.started
        /\ t.instance = [p \in Params |-> IF n = 0 /\ p \in Moving(s)
                                          THEN s.ramp[p].target
                                          ELSE s.instance[p]]
        /\ t.ramp = [p \in Smoothed |-> IF p \in Moving(s)
                                        THEN Retimed(s, n, s.ramp[p])
                                        ELSE s.ramp[p]]
    BY <1>2 DEF SetDuration
  <2>2. /\ s.values \in [Params -> Values \cup {None}]
        /\ s.instance \in [Params -> Values] /\ s.started \in BOOLEAN
    BY DEF Good, Sessions
  <2>3. \A p \in Smoothed : t.ramp[p] = IF p \in Moving(s)
                                        THEN Retimed(s, n, s.ramp[p])
                                        ELSE s.ramp[p]
    BY <2>1
  <2>4. \A p \in Smoothed : t.ramp[p] \in Ramps
    BY <1>2, <2>3, RetimedFacts, RampFacts
  <2>5. t.ramp \in [Smoothed -> Ramps]
    BY <2>1, <2>3, <2>4
  <2>6. \A p \in Moving(s) : p \in Smoothed /\ s.ramp[p].target \in Values
    BY RampFacts DEF Moving
  <2>7. t.instance \in [Params -> Values]
    BY <2>1, <2>2, <2>6
  <2>8. t \in Sessions
    BY <1>2, <2>1, <2>2, <2>5, <2>7 DEF SetDuration, Sessions
  <2>9. Reported(t) = Reported(s)
    BY <2>1 DEF Reported
  <2>10. \A p \in Smoothed : t.ramp[p].target = Reported(t)[p]
    BY <1>2, <2>3, <2>9, RetimedFacts, RampFacts
  <2>11. ASSUME NEW p \in Smoothed
         PROVE  p \in Moving(t) <=> p \in Moving(s) /\ n # 0
    <3>1. CASE p \in Moving(s)
      <4>1. t.ramp[p].active = (n # 0)
        BY <1>2, <2>3, <3>1, RetimedFacts
      <4> QED
        BY <3>1, <4>1 DEF Moving
    <3>2. CASE p \notin Moving(s)
      BY <2>3, <3>2 DEF Moving
    <3> QED
      BY <3>1, <3>2
  <2>12. ASSUME NEW p \in Params \ Moving(t)
         PROVE  t.instance[p] = Reported(t)[p]
    <3>1. CASE p \in Moving(s)
      BY <2>1, <2>6, <2>9, <2>11, <2>12, <3>1, RampFacts
    <3>2. CASE p \notin Moving(s)
      BY <2>1, <2>9, <3>2 DEF Good, Agree
    <3> QED
      BY <3>1, <3>2
  <2>13. Agree(t)
    BY <2>10, <2>12 DEF Agree
  <2>14. ASSUME NEW p \in Moving(t)
         PROVE  /\ n # 0 /\ t.ramp[p].elapsed <= n
                /\ t.ramp[p].elapsed < n
                   => /\ t.ramp[p].start \notin Infinite
                      /\ t.ramp[p].current \notin Infinite
                      /\ t.ramp[p].target \notin Infinite
    <3>1. p \in Smoothed /\ p \in Moving(s) /\ n # 0 /\ t.ramp[p].active
      BY <2>11 DEF Moving
    <3> QED
      BY <1>2, <2>3, <3>1, RetimedFacts
  <2>15. Sound(t)
    BY <2>1, <2>14 DEF Sound
  <2> QED
    BY <2>8, <2>9, <2>13, <2>15 DEF Good
<1> QED
  BY <1>1, <1>2

LEMMA SteppedFacts ==
    ASSUME NEW s, Good(s), NEW p \in Moving(s), NEW v \in Values \ Infinite
    PROVE  LET r == Stepped(s, s.ramp[p], v) IN
           /\ r \in Ramps /\ r.target = Reported(s)[p]
           /\ r.active \/ r.current = Reported(s)[p]
           /\ r.active =>
                 /\ r.elapsed <= s.samples
                 /\ r.elapsed < s.samples
                    => /\ r.start \notin Infinite
                       /\ r.current \notin Infinite
                       /\ r.target \notin Infinite
<1> DEFINE q == s.ramp[p]
<1> DEFINE r == Stepped(s, q, v)
<1>0. p \in Smoothed /\ q.active = TRUE /\ s.samples \in Nat
  BY RampFacts DEF Moving, Good, Sessions
<1>1. q \in Ramps
  BY <1>0, RampFacts
<1>2. /\ q.elapsed \in Nat /\ q.elapsed <= s.samples
      /\ q.target = Reported(s)[p]
      /\ q.elapsed < s.samples => /\ q.start \notin Infinite
                                  /\ q.target \notin Infinite
  BY <1>0, RampFacts
<1>3. /\ Elapsed(s, q) \in Nat /\ Elapsed(s, q) <= s.samples
      /\ q.elapsed <= Elapsed(s, q)
  BY <1>0, <1>2, ParametersAssumption DEF Elapsed, Least
<1>4. CASE Elapsed(s, q) = s.samples
  <2>1. r = [q EXCEPT !.elapsed = s.samples, !.current = q.target,
                      !.active = FALSE]
    BY <1>4 DEF Stepped
  <2>2. r \in Ramps /\ r.target = q.target /\ r.current = q.target
        /\ r.active = FALSE
    BY <1>0, <1>1, <2>1 DEF Ramps
  <2> QED
    BY <1>2, <2>2
<1>5. CASE Elapsed(s, q) # s.samples
  <2>1. r = [q EXCEPT !.elapsed = Elapsed(s, q), !.current = v]
    BY <1>5 DEF Stepped
  <2>2. /\ r \in Ramps /\ r.target = q.target /\ r.start = q.start
        /\ r.current = v /\ r.active = TRUE /\ r.elapsed = Elapsed(s, q)
    BY <1>0, <1>1, <1>3, <2>1 DEF Ramps
  <2>3. q.elapsed < s.samples
    BY <1>0, <1>2, <1>3, <1>5
  <2> QED
    BY <1>2, <1>3, <2>2, <2>3
<1> QED
  BY <1>4, <1>5

LEMMA BlockBegunIsGood ==
    ASSUME NEW s, Good(s), NEW v \in [Smoothed -> Values \ Infinite]
    PROVE  /\ Good(BlockBegun(s, v))
           /\ Reported(BlockBegun(s, v)) = Reported(s)
<1> DEFINE t == BlockBegun(s, v)
<1>1. /\ t.values = s.values /\ t.samples = s.samples /\ t.started = TRUE
      /\ t.ramp = [p \in Smoothed |-> IF p \in Moving(s)
                                      THEN Stepped(s, s.ramp[p], v[p])
                                      ELSE s.ramp[p]]
      /\ t.instance = [p \in Params |-> IF p \in Moving(s)
                                        THEN t.ramp[p].current
                                        ELSE s.instance[p]]
  BY DEF BlockBegun
<1>2. /\ s.values \in [Params -> Values \cup {None}]
      /\ s.instance \in [Params -> Values] /\ s.samples \in Nat
  BY DEF Good, Sessions
<1>3. \A p \in Smoothed : t.ramp[p] = IF p \in Moving(s)
                                      THEN Stepped(s, s.ramp[p], v[p])
                                      ELSE s.ramp[p]
  <2>1. t.ramp = [p \in Smoothed |-> IF p \in Moving(s)
                                     THEN Stepped(s, s.ramp[p], v[p])
                                     ELSE s.ramp[p]]
    BY DEF BlockBegun
  <2> HIDE DEF t
  <2> QED
    BY <2>1
<1>4. /\ Moving(s) \subseteq Smoothed
      /\ \A p \in Smoothed : v[p] \in Values \ Infinite
  BY DEF Moving
<1>5. \A p \in Smoothed : t.ramp[p] \in Ramps
  BY <1>3, <1>4, SteppedFacts, RampFacts
<1>6. t.ramp \in [Smoothed -> Ramps]
  BY <1>1, <1>3, <1>5
<1>7. \A p \in Moving(s) : t.ramp[p].current \in Values
  BY <1>4, <1>5 DEF Ramps
<1>8. t.instance \in [Params -> Values]
  BY <1>1, <1>2, <1>7
<1>9. t \in Sessions
  BY <1>1, <1>2, <1>6, <1>8 DEF BlockBegun, Sessions
<1>10. Reported(t) = Reported(s)
  BY <1>1 DEF Reported
<1>11. \A p \in Smoothed : t.ramp[p].target = Reported(t)[p]
  BY <1>3, <1>4, <1>10, SteppedFacts, RampFacts
<1>12. ASSUME NEW p \in Params \ Moving(t)
       PROVE  t.instance[p] = Reported(t)[p]
  <2>1. CASE p \in Moving(s)
    <3>1. p \in Smoothed /\ ~t.ramp[p].active
      BY <1>4, <1>12, <2>1 DEF Moving
    <3>2. t.ramp[p].current = Reported(s)[p]
      BY <1>3, <1>4, <2>1, <3>1, SteppedFacts
    <3> QED
      BY <1>1, <1>10, <2>1, <3>2
  <2>2. CASE p \notin Moving(s)
    BY <1>1, <1>10, <2>2 DEF Good, Agree
  <2> QED
    BY <2>1, <2>2
<1>13. Agree(t)
  BY <1>11, <1>12 DEF Agree
<1>14. ASSUME NEW p \in Moving(t)
       PROVE  /\ s.samples # 0
              /\ t.ramp[p].elapsed <= s.samples
              /\ t.ramp[p].elapsed < s.samples
                 => /\ t.ramp[p].start \notin Infinite
                    /\ t.ramp[p].current \notin Infinite
                    /\ t.ramp[p].target \notin Infinite
  <2>1. p \in Smoothed /\ t.ramp[p].active
    BY DEF Moving
  <2>2. p \in Moving(s)
    BY <1>3, <2>1 DEF Moving
  <2>3. s.samples # 0
    BY <2>2 DEF Good, Sound
  <2> QED
    BY <1>3, <1>4, <2>1, <2>2, <2>3, SteppedFacts
<1>15. Sound(t)
  BY <1>1, <1>14 DEF Sound
<1> QED
  BY <1>9, <1>10, <1>13, <1>15 DEF Good

-----------------------------------------------------------------------------
(* The render thread.                                                      *)

\* The last value set is reported, unless it is still pending or refused.
Writes ==
    \A p \in Params :
        Accepts(p, last[p]) =>
            IF pending[p] = None THEN Reported(session)[p] = last[p]
            ELSE pending[p] = last[p]

Inv == TypeOK /\ Good(session) /\ Writes

LEMMA FlushedFacts ==
    ASSUME Inv
    PROVE  /\ Good(Flushed) /\ NoUpdates \in Updates
           /\ \A p \in Params : Accepts(p, last[p])
                                => Reported(Flushed)[p] = last[p]
<1>1. pending \in Updates /\ NoUpdates \in Updates
  BY DEF Inv, TypeOK, Updates, NoUpdates
<1>2. Good(Flushed)
  BY <1>1, SetParamsIsGood DEF Inv, Flushed
<1>3. Reported(Flushed) = [p \in Params |-> IF p \in Accepted(pending)
                                            THEN pending[p]
                                            ELSE Reported(session)[p]]
  BY UpdatesAreReported DEF Flushed
<1>4. ASSUME NEW p \in Params, Accepts(p, last[p])
      PROVE  Reported(Flushed)[p] = last[p]
  <2>1. CASE pending[p] = None
    BY <1>3, <1>4, <2>1 DEF Accepted, Inv, Writes
  <2>2. CASE pending[p] # None
    <3>1. pending[p] = last[p]
      BY <1>4, <2>2 DEF Inv, Writes
    <3> QED
      BY <1>3, <1>4, <2>2, <3>1 DEF Accepted
  <2> QED
    BY <2>1, <2>2
<1> QED
  BY <1>1, <1>2, <1>4

\* A session that reports what the flushed one does, with nothing pending.
LEMMA AfterAFlush ==
    ASSUME Inv, Flush, Good(session'), UNCHANGED last,
           Reported(session') = Reported(Flushed)
    PROVE  /\ Good(session)' /\ Writes' /\ pending' \in Updates
           /\ \A p \in Params : Accepts(p, last'[p])
                                => Reported(session')[p] = last'[p]
<1>1. \A p \in Params : Accepts(p, last'[p])
                        => Reported(session')[p] = last'[p]
  BY FlushedFacts
<1>2. pending' \in Updates /\ \A p \in Params : pending'[p] = None
  BY FlushedFacts DEF Flush, NoUpdates
<1>3. Writes'
  BY <1>1, <1>2 DEF Writes, Accepts, Reported
<1>4. Good(session)'
  BY DEF Good, Agree, Sound, Moving, Reported
<1> QED
  BY <1>1, <1>2, <1>3, <1>4

LEMMA HeadIsACommand ==
    ASSUME commands \in Seq(Commands), commands # <<>>
    PROVE  /\ Command \in Commands /\ Tail(commands) \in Seq(Commands)
           /\ Command.op = "set" => Command \in SetCommands
           /\ Command.op = "duration" => Command \in DurationCommands
<1>1. Command \in Commands /\ Tail(commands) \in Seq(Commands)
  BY DEF Command
<1> QED
  BY <1>1 DEF Commands, SetCommands, TriggerCommands, DurationCommands,
              PlainCommands

LEMMA InitIsGood ==
    ASSUME Init PROVE Inv
<1>1. PICK d \in Durations : session = NewSession(d)
  BY DEF Init
<1>2. Good(session) /\ Reported(session) = Defaults
  BY <1>1, NewSessionIsGood
<1>3. /\ NoUpdates \in Updates /\ Defaults \in [Params -> Values]
      /\ \A p \in Params : NoUpdates[p] = None /\ Defaults[p] = Default
  BY Constants_ DEF NoUpdates, Defaults, Updates
<1>4. Writes
  BY <1>2, <1>3 DEF Init, Writes
<1>5. <<>> \in Seq(Commands)
  OBVIOUS
<1>6. 0 \in 0 .. Batch /\ 0 \in 0 .. MaxCommands /\ 0 \in Nat
  BY ParametersAssumption
<1>7. TypeOK
  BY <1>2, <1>3, <1>5, <1>6 DEF Init, TypeOK, Good, Updates
<1> QED
  BY <1>2, <1>4, <1>7 DEF Inv

\* The parts of the types that every command handled keeps.
LEMMA ReceiveTypes ==
    ASSUME Inv, NEW op, Receive(op)
    PROVE  /\ commands' \in Seq(Commands) /\ sent' \in 0 .. MaxCommands
           /\ pc' \in {"commands", "poll", "block"} /\ handled' \in 0 .. Batch
           /\ Command.op = op /\ commands \in Seq(Commands) /\ commands # <<>>
<1>1. /\ commands \in Seq(Commands) /\ commands # <<>>
      /\ commands' = Tail(commands) /\ Command.op = op
  BY DEF Inv, TypeOK, Receive
<1>2. commands' \in Seq(Commands)
  BY <1>1, HeadIsACommand
<1>3. handled' \in 0 .. Batch
  BY ParametersAssumption DEF Inv, TypeOK, Receive
<1> QED
  BY <1>1, <1>2, <1>3 DEF Inv, TypeOK, Receive

\* A command that leaves Flushed, or what reports the same, keeps the types.
LEMMA TypesAfterAFlush ==
    ASSUME Inv, NEW op, Receive(op), Flush, Good(session'), UNCHANGED last,
           wait' \in {"none", "queued", "pending"}, loads' \in Nat,
           playRequested' \in BOOLEAN, playing' \in BOOLEAN,
           Reported(session') = Reported(Flushed)
    PROVE  /\ Inv'
           /\ \A p \in Params : Accepts(p, last'[p])
                                => Reported(session')[p] = last'[p]
<1>1. /\ Good(session)' /\ Writes' /\ pending' \in Updates
      /\ \A p \in Params : Accepts(p, last'[p])
                           => Reported(session')[p] = last'[p]
  BY AfterAFlush
<1>2. session' \in Sessions /\ last' \in [Params -> Values]
  BY DEF Good, Inv, TypeOK
<1>3. TypeOK'
  BY <1>1, <1>2, ReceiveTypes DEF TypeOK, Updates
<1> QED
  BY <1>1, <1>3 DEF Inv

LastIsReported ==
    \A p \in Params : Accepts(p, last'[p]) => Reported(session')[p] = last'[p]

\* What the types say of the variables a step may leave alone.
LEMMA Kept ==
    ASSUME Inv
    PROVE  /\ wait \in {"none", "queued", "pending"} /\ loads \in Nat
           /\ playRequested \in BOOLEAN /\ playing \in BOOLEAN
           /\ FlushReplies => wait' \in {"none", "queued", "pending"}
           /\ Reply => wait' \in {"none", "queued", "pending"}
           /\ Good(session) /\ session \in Sessions
  BY DEF Inv, TypeOK, Reply, FlushReplies

\* Steps that touch neither the updates nor what is reported.
LEMMA WritesStay ==
    ASSUME Inv, UNCHANGED <<pending, last>>, Good(session'),
           Reported(session') = Reported(session)
    PROVE  Writes' /\ Good(session)' /\ session' \in Sessions
<1>1. Writes'
  BY DEF Inv, Writes, Accepts, Reported
<1>2. Good(session)'
  BY DEF Good, Agree, Sound, Moving, Reported
<1> QED
  BY <1>1, <1>2 DEF Good

LEMMA SetStep ==
    ASSUME Inv, HandleSet PROVE Inv'
<1>1. Receive("set")
  BY DEF HandleSet
<1>2. Command \in SetCommands
  BY <1>1, ReceiveTypes, HeadIsACommand
<1>3. Command.param \in Params /\ Command.value \in Values
  BY <1>2 DEF SetCommands
<1>4. /\ pending' = [pending EXCEPT ![Command.param] = Command.value]
      /\ last' = [last EXCEPT ![Command.param] = Command.value]
      /\ UNCHANGED <<loads, play, session>>
      /\ wait' = IF Command.waits THEN "pending" ELSE wait
  BY DEF HandleSet
<1>5. /\ pending \in Updates /\ last \in [Params -> Values]
      /\ pending' \in Updates /\ last' \in [Params -> Values]
  BY <1>3, <1>4 DEF Inv, TypeOK, Updates
<1>6. TypeOK'
  BY <1>1, <1>4, <1>5, ReceiveTypes, Kept DEF TypeOK, Updates, play
<1>7. Command.value # None
  BY <1>3, Constants_
<1>8. ASSUME NEW p \in Params, Accepts(p, last'[p])
      PROVE  IF pending'[p] = None THEN Reported(session)[p] = last'[p]
             ELSE pending'[p] = last'[p]
  <2>1. CASE p = Command.param
    BY <1>4, <1>5, <1>7, <2>1 DEF Updates
  <2>2. CASE p # Command.param
    <3>1. pending'[p] = pending[p] /\ last'[p] = last[p]
      BY <1>4, <1>5, <2>2 DEF Updates
    <3> QED
      BY <1>8, <3>1 DEF Inv, Writes
  <2> QED
    BY <2>1, <2>2
<1>9. Writes'
  BY <1>4, <1>8 DEF Writes, Accepts, Reported
<1>10. Good(session)'
  BY <1>4, Kept DEF Good, Agree, Sound, Moving, Reported
<1> QED
  BY <1>6, <1>9, <1>10 DEF Inv

LEMMA PlayStep ==
    ASSUME Inv, HandlePlay PROVE Inv' /\ LastIsReported
<1>1. Receive("play") /\ Flush /\ Reply /\ UNCHANGED <<loads, last>>
      /\ playRequested' = TRUE /\ playing' \in BOOLEAN
  BY DEF HandlePlay
<1>2. session' = Rebuilt(Flushed) \/ session' = Flushed
  BY DEF HandlePlay
<1>3. Good(session') /\ Reported(session') = Reported(Flushed)
  BY <1>2, FlushedFacts, RebuiltIsGood
<1>4. /\ wait' \in {"none", "queued", "pending"} /\ loads' \in Nat
      /\ playRequested' \in BOOLEAN
  BY <1>1, Kept
<1> QED
  BY <1>1, <1>3, <1>4, TypesAfterAFlush DEF LastIsReported

LEMMA ClearStep ==
    ASSUME Inv, HandleClear PROVE Inv' /\ LastIsReported
<1>1. /\ Receive("clear") /\ Flush /\ Reply
      /\ UNCHANGED <<playRequested, loads, last>>
      /\ playing' \in {playRequested, playing}
  BY DEF HandleClear
<1>2. session' = Rebuilt(Flushed) \/ session' = Flushed
  BY DEF HandleClear
<1>3. Good(session') /\ Reported(session') = Reported(Flushed)
  BY <1>2, FlushedFacts, RebuiltIsGood
<1>4. /\ wait' \in {"none", "queued", "pending"} /\ loads' \in Nat
      /\ playRequested' \in BOOLEAN /\ playing' \in BOOLEAN
  BY <1>1, Kept
<1> QED
  BY <1>1, <1>3, <1>4, TypesAfterAFlush DEF LastIsReported

LEMMA GetStep ==
    ASSUME Inv, HandleGet \/ HandleTrigger PROVE Inv' /\ LastIsReported
<1>1. PICK op \in {"get", "trigger"} : Receive(op)
  BY DEF HandleGet, HandleTrigger
<1>2. /\ Flush
      /\ (Reply \/ FlushReplies)
      /\ session' = Flushed /\ UNCHANGED <<loads, play, last>>
  BY DEF HandleGet, HandleTrigger
<1>3. Good(session') /\ Reported(session') = Reported(Flushed)
  BY <1>2, FlushedFacts
<1>4. /\ wait' \in {"none", "queued", "pending"} /\ loads' \in Nat
      /\ playRequested' \in BOOLEAN /\ playing' \in BOOLEAN
  BY <1>2, Kept DEF play
<1> QED
  BY <1>1, <1>2, <1>3, <1>4, TypesAfterAFlush DEF LastIsReported

LEMMA DurationStep ==
    ASSUME Inv, HandleDuration PROVE Inv'
<1>1. /\ Receive("duration") /\ Flush /\ Reply
      /\ UNCHANGED <<loads, play, last>>
      /\ session' = IF Command.samples = None THEN Flushed
                    ELSE SetDuration(Flushed, SmoothingSamples(Command.samples))
  BY DEF HandleDuration
<1>2. Command \in DurationCommands
  BY <1>1, ReceiveTypes, HeadIsACommand
<1>3. Command.samples # None => SmoothingSamples(Command.samples) \in Nat
  BY <1>2, SamplesAreNatural DEF DurationCommands
<1>4. Good(session') /\ Reported(session') = Reported(Flushed)
  BY <1>1, <1>3, FlushedFacts, SetDurationIsGood
<1>5. /\ wait' \in {"none", "queued", "pending"} /\ loads' \in Nat
      /\ playRequested' \in BOOLEAN /\ playing' \in BOOLEAN
  BY <1>1, Kept DEF play
<1> QED
  BY <1>1, <1>4, <1>5, TypesAfterAFlush

LEMMA ResetStep ==
    ASSUME Inv, HandleReset PROVE Inv' /\ LastIsReported
<1>1. /\ Receive("reset") /\ Flush /\ Reply
      /\ session' = ResetParams(Flushed)
      /\ last' = Defaults /\ UNCHANGED <<loads, play>>
  BY DEF HandleReset
<1>2. Good(session') /\ Reported(session') = Defaults
  BY <1>1, FlushedFacts, ResetIsGood
<1>3. Defaults \in [Params -> Values] /\ pending' \in Updates
      /\ \A p \in Params : pending'[p] = None
  BY <1>1, FlushedFacts, Constants_ DEF Defaults, Flush, NoUpdates
<1>4. TypeOK'
  BY <1>1, <1>2, <1>3, ReceiveTypes, Kept
     DEF TypeOK, Updates, play, Good, Reply
<1>5. LastIsReported
  BY <1>1, <1>2 DEF LastIsReported
<1>6. Writes'
  BY <1>3, <1>5 DEF LastIsReported, Writes, Accepts, Reported
<1>7. Good(session)'
  BY <1>2 DEF Good, Agree, Sound, Moving, Reported
<1> QED
  BY <1>4, <1>5, <1>6, <1>7 DEF Inv

LEMMA OtherCommandStep ==
    ASSUME Inv, HandlePause \/ HandleBind PROVE Inv'
<1>1. PICK op \in {"pause", "bind"} : Receive(op)
  BY DEF HandlePause, HandleBind
<1>2. /\ Reply /\ UNCHANGED <<pending, session, last>>
      /\ loads' \in Nat /\ playRequested' \in BOOLEAN /\ playing' \in BOOLEAN
  <2>1. loads \in Nat /\ playRequested \in BOOLEAN /\ playing \in BOOLEAN
    BY Kept
  <2>2. CASE HandlePause
    BY <2>1, <2>2 DEF HandlePause
  <2>3. CASE HandleBind
    BY <2>1, <2>3 DEF HandleBind, play
  <2> QED
    BY <2>2, <2>3
<1>3. Good(session') /\ Reported(session') = Reported(session)
  BY <1>2, Kept
<1>4. Writes' /\ Good(session)' /\ session' \in Sessions
  BY <1>2, <1>3, WritesStay
<1>5. TypeOK'
  BY <1>1, <1>2, <1>4, ReceiveTypes, Kept DEF TypeOK, Inv
<1> QED
  BY <1>4, <1>5 DEF Inv

LEMMA EndCommandsStep ==
    ASSUME Inv, EndCommands PROVE Inv'
<1>1. /\ pc' = "poll" /\ handled' = 0 /\ session' = Flushed /\ Flush
      /\ FlushReplies /\ UNCHANGED <<commands, sent, loads, play, last>>
  BY DEF EndCommands
<1>2. Good(session') /\ Reported(session') = Reported(Flushed)
  BY <1>1, FlushedFacts
<1>3. Good(session)' /\ Writes' /\ pending' \in Updates
  BY <1>1, <1>2, AfterAFlush
<1>4. session' \in Sessions /\ handled' \in 0 .. Batch
  BY <1>1, <1>2, ParametersAssumption DEF Good
<1>5. TypeOK'
  BY <1>1, <1>3, <1>4, Kept DEF Inv, TypeOK, Updates, play
<1> QED
  BY <1>3, <1>5 DEF Inv

\* The rest of a turn, in which nothing is pending.
LEMMA TurnStep ==
    ASSUME Inv, Commit \/ NothingLoaded \/ RenderBlock \/ NoBlock PROVE Inv'
<1>1. /\ UNCHANGED <<client, handled, pending, last>>
      /\ pc' \in {"commands", "block"}
      /\ UNCHANGED playRequested
  BY DEF Commit, NothingLoaded, RenderBlock, NoBlock, play
<1>2. loads' \in Nat /\ playing' \in BOOLEAN
  <2>1. loads \in Nat /\ playing \in BOOLEAN /\ playRequested \in BOOLEAN
    BY Kept
  <2>2. CASE Commit
    BY <2>1, <2>2 DEF Commit
  <2>3. CASE NothingLoaded \/ RenderBlock \/ NoBlock
    BY <2>1, <2>3 DEF NothingLoaded, RenderBlock, NoBlock, play
  <2> QED
    BY <2>2, <2>3
<1>3. Good(session') /\ Reported(session') = Reported(session)
  <2>1. CASE session' = Rebuilt(session) \/ session' = session
    BY <2>1, Kept, RebuiltIsGood
  <2>2. CASE RenderBlock
    <3>1. PICK v \in [Smoothed -> Values \ Infinite] :
              session' = BlockBegun(session, v)
      BY <2>2 DEF RenderBlock
    <3> QED
      BY <3>1, Kept, BlockBegunIsGood
  <2> QED
    BY <2>1, <2>2 DEF Commit, NothingLoaded, NoBlock
<1>4. Writes' /\ Good(session)' /\ session' \in Sessions
  BY <1>1, <1>3, WritesStay
<1>5. TypeOK'
  BY <1>1, <1>2, <1>4 DEF Inv, TypeOK, client
<1> QED
  BY <1>4, <1>5 DEF Inv

LEMMA ClientStep ==
    ASSUME Inv, Client PROVE Inv'
<1>1. PICK c \in Commands : \E waits \in BOOLEAN : Send(c, waits)
  <2>1. CASE \E c \in SetCommands \cup TriggerCommands : Send(c, c.waits)
    BY <2>1 DEF Commands, SetCommands, TriggerCommands
  <2>2. CASE \E c \in DurationCommands \cup PlainCommands : Send(c, TRUE)
    BY <2>2 DEF Commands
  <2> QED
    BY <2>1, <2>2 DEF Client
<1>2. /\ sent < MaxCommands /\ sent' = sent + 1
      /\ commands' = Append(commands, c)
      /\ wait' \in {"none", "queued"}
      /\ UNCHANGED <<pc, handled, pending, loads, play, session, last>>
  BY <1>1 DEF Send
<1>3. commands' \in Seq(Commands) /\ sent' \in 0 .. MaxCommands
  BY <1>2, ParametersAssumption DEF Inv, TypeOK
<1>4. Writes' /\ Good(session)' /\ session' \in Sessions
  BY <1>2, Kept, WritesStay
<1>5. TypeOK'
  BY <1>2, <1>3, <1>4 DEF Inv, TypeOK, play
<1> QED
  BY <1>4, <1>5 DEF Inv

LEMMA NextIsGood ==
    ASSUME Inv, [Next]_vars PROVE Inv' /\ (Reads => LastIsReported)
<1>1. CASE Next
  <2>1. ASSUME Reads PROVE Inv' /\ LastIsReported
    BY <2>1, GetStep, PlayStep, ClearStep, ResetStep DEF Reads
  <2>2. CASE Client
    BY <2>2, <2>1, ClientStep
  <2>3. CASE HandleSet
    BY <2>3, <2>1, SetStep
  <2>4. CASE HandleDuration
    BY <2>4, <2>1, DurationStep
  <2>5. CASE HandlePause \/ HandleBind
    BY <2>5, <2>1, OtherCommandStep
  <2>6. CASE EndCommands
    BY <2>6, <2>1, EndCommandsStep
  <2>7. CASE Commit \/ NothingLoaded \/ RenderBlock \/ NoBlock
    BY <2>7, <2>1, TurnStep
  <2> QED
    BY <1>1, <2>1, <2>2, <2>3, <2>4, <2>5, <2>6, <2>7 DEF Next, Render, Reads
<1>2. CASE UNCHANGED vars
  <2>1. UNCHANGED <<pending, session, last>>
    BY <1>2 DEF vars
  <2>2. Writes' /\ Good(session)' /\ session' \in Sessions
    BY <2>1, Kept, WritesStay
  <2>3. TypeOK'
    BY <1>2, <2>2 DEF Inv, TypeOK, vars, client, play
  <2>4. ASSUME Reads PROVE FALSE
    <3>1. PICK op \in {"get", "trigger", "play", "clear", "reset"} : Receive(op)
      BY <2>4 DEF Reads, HandleGet, HandleTrigger, HandlePlay, HandleClear,
                  HandleReset
    <3>2. handled' = handled + 1 /\ handled' = handled /\ handled \in Nat
      BY <1>2, <3>1, ParametersAssumption DEF Receive, vars, Inv, TypeOK
    <3> QED
      BY <3>2
  <2> QED
    BY <2>2, <2>3, <2>4 DEF Inv
<1> QED
  BY <1>1, <1>2
-----------------------------------------------------------------------------
(* The theorems.                                                           *)

\* Sessions, commands and updates have their types, for any parameters and
\* any durations.
THEOREM TypeCorrect == Spec => []TypeOK
<1>1. Init => Inv
  BY InitIsGood
<1>2. Inv /\ [Next]_vars => Inv'
  BY NextIsGood
<1>3. Inv => TypeOK
  BY DEF Inv
<1> QED
  BY <1>1, <1>2, <1>3, PTL DEF Spec

\* What is reported, the target of the ramp and the value in the instance
\* agree: set_param, reset_params, set_duration, begin_block and settle keep
\* the three copies together, however they follow each other.
THEOREM ParametersAgree == Spec => []CopiesAgree
<1>1. Init => Inv
  BY InitIsGood
<1>2. Inv /\ [Next]_vars => Inv'
  BY NextIsGood
<1>3. Inv => CopiesAgree
  BY DEF Inv, Good, CopiesAgree
<1> QED
  BY <1>1, <1>2, <1>3, PTL DEF Spec

\* begin_block subtracts without underflow and interpolates between finite
\* values, for any durations and any order of changes to them.
THEOREM RampsStaySound == Spec => []RampsAreSound
<1>1. Init => Inv
  BY InitIsGood
<1>2. Inv /\ [Next]_vars => Inv'
  BY NextIsGood
<1>3. Inv => RampsAreSound
  BY DEF Inv, Good, RampsAreSound
<1> QED
  BY <1>1, <1>2, <1>3, PTL DEF Spec

\* Coalescing is invisible to a client: every command that reads parameters
\* acts on the last value that was set before it.
THEOREM WritesAreRead == Spec => ReadsFollowWrites
<1>1. Init => Inv
  BY InitIsGood
<1>2. Inv /\ [Next]_vars => Inv'
  BY NextIsGood
<1>3. Inv /\ [Next]_vars
      => [Reads => \A p \in Params : Accepts(p, last'[p])
                      => Reported(session')[p] = last'[p]]_vars
  BY NextIsGood DEF LastIsReported
<1> QED
  BY <1>1, <1>2, <1>3, PTL DEF Spec, ReadsFollowWrites
=============================================================================
